--------------------------- MODULE ConsoleProofs ---------------------------
(***************************************************************************)
(* Proofs about the parts of MCConsole.  Ata: for any sectors, data, calls,*)
(* time-outs and errors, a call that found the drive quiet and returned Ok *)
(* has done what it was asked (InCall says how far the drive is at each    *)
(* line of read_sector and write_sector).  Rtc: what read_time returns was *)
(* the time.  Console: the line, the cursor and the history agree, a key   *)
(* acts once each time it goes down, if keys do not overlap, and the row   *)
(* shows the line.                                                         *)
(***************************************************************************)
EXTENDS MCConsole, TLAPS, WellFoundedInduction

(* The cache holds data of sectors. *)
CacheOK == \A s \in DOMAIN cache : s \in Sectors /\ cache[s] \in Data

(* The drive works on this call's command. *)
Serving(cmd) == drive.cmd = cmd /\ drive.lba = call.lba

(* The sector's data wait in the drive's buffer. *)
DataReady == drive.st = "in" /\ drive.buf = D!Content(call.lba)

(* What was written is what a read of the sector would return. *)
Stored == D!Content(call.lba) = call.buf

Committed == call.lba \notin DOMAIN cache /\ medium[call.lba] = call.buf

Transfer ==
  \/ call.op = "read"  /\ DataReady
  \/ call.op = "write" /\ drive.st = "out"

(* Where a drive that was quiet at the call is while the call is at pc. *)
InCall ==
  foundQuiet =>
    /\ at = "select"  => drive.st = "idle"
    /\ at = "issue"   => drive.st = "idle" /\ lba = call.lba
    /\ at = "ready"   => /\ Serving(call.op)
                         /\ D!BSY \/ Transfer \/ (drive.st = "idle" /\ drive.err)
    /\ at \in {"drq", "data"} => Serving(call.op) /\ Transfer
    /\ at \in {"stored", "flush", "flushed"} => call.op = "write"
    /\ at = "stored"  => \/ D!BSY /\ Serving("store") /\ drive.buf = call.buf
                         \/ drive.st = "idle" /\ (drive.err \/ Stored)
    /\ at = "flush"   => drive.st = "idle" /\ Stored
    /\ at = "flushed" => \/ D!BSY /\ drive.cmd = "flush" /\ Stored
                         \/ drive.st = "idle" /\ (drive.err \/ Committed)
    /\ D!Answered     => /\ drive.st = "idle"
                         /\ call.op = "write" => Committed
                         /\ call.op = "read"  => Stored

AtaInv == D!TypeOK /\ CacheOK /\ InCall

-----------------------------------------------------------------------------
LEMMA InitAtaInv == ASSUME D!Assumptions, D!Init PROVE AtaInv
<1>1. /\ medium \in [Sectors -> Data] /\ lba \in Sectors
      /\ medium[lba] \in Data
  BY DEF D!Init
<1>2. call \in [op : {"read", "write"}, lba : Sectors, buf : Data]
  BY <1>1 DEF D!Init
<1>3. drive \in [st : {"idle", "busy", "in", "out"}, cmd : {"none", "read", "write", "store", "flush"},
                 lba : Sectors, buf : Data, err : BOOLEAN]
  BY <1>1 DEF D!Init
<1>4. DOMAIN cache = {}
  BY DEF D!Init
<1>5. calls \in 0 .. MaxCalls /\ timeouts \in 0 .. MaxTimeouts /\ errors \in 0 .. MaxErrors
  BY DEF D!Init, D!Assumptions
<1>6. D!TypeOK /\ CacheOK
  BY <1>1, <1>2, <1>3, <1>4, <1>5 DEF D!Init, D!TypeOK, CacheOK
<1>7. InCall
  BY DEF D!Init, InCall, D!Answered
<1> QED BY <1>6, <1>7 DEF AtaInv

-----------------------------------------------------------------------------
LEMMA ContentIsData == ASSUME D!TypeOK, CacheOK PROVE \A s \in Sectors : D!Content(s) \in Data
BY DEF D!TypeOK, CacheOK, D!Content

(* What a sector holds does not change when it leaves the cache by itself. *)
LEMMA DestageKeepsContent ==
  ASSUME D!TypeOK, CacheOK, NEW s \in Sectors, D!Destage(s), NEW t \in Sectors
  PROVE  D!Content(t)' = D!Content(t)
BY DEF D!TypeOK, CacheOK, D!Destage, D!Content

(* The steps of a call leave the medium and the cache alone. *)
LEMMA CallKeepsContent ==
  ASSUME UNCHANGED <<cache, medium>>, NEW t
  PROVE  D!Content(t)' = D!Content(t)
BY DEF D!Content

LEMMA CallAtaInv ==
  ASSUME D!Assumptions, AtaInv, NEW op \in {"read", "write"}, NEW s \in Sectors, NEW d \in Data, D!Call(op, s, d)
  PROVE  AtaInv'
<1>1. D!TypeOK'
  <2>1. call' \in [op : {"read", "write"}, lba : Sectors, buf : Data]
    BY DEF D!Call
  <2>2. foundQuiet' \in BOOLEAN
    BY DEF D!Call
  <2>3. calls' \in 0 .. MaxCalls
    BY DEF D!Call, AtaInv, D!TypeOK, D!Assumptions
  <2> QED BY <2>1, <2>2, <2>3 DEF D!Call, AtaInv, D!TypeOK, D!driveVars, D!Waits
<1>2. CacheOK'
  BY DEF D!Call, AtaInv, CacheOK, D!driveVars
<1>3. InCall'
  <2>1. drive.st \in {"idle", "busy", "in", "out"}
    BY DEF AtaInv, D!TypeOK
  <2>2. foundQuiet' => drive'.st = "idle"
    BY <2>1 DEF D!Call, D!driveVars, D!BSY, D!DRQ
  <2> QED BY <2>2 DEF D!Call, InCall, D!Answered
<1> QED BY <1>1, <1>2, <1>3 DEF AtaInv

LEMMA SelectAtaInv == ASSUME AtaInv, D!Select PROVE AtaInv'
<1>1. D!TypeOK'
  BY DEF D!Select, AtaInv, D!TypeOK, D!Waits
<1>2. CacheOK'
  BY DEF D!Select, AtaInv, CacheOK
<1>3. InCall'
  BY DEF D!Select, AtaInv, InCall, D!BSY, D!DRQ, D!Answered
<1> QED BY <1>1, <1>2, <1>3 DEF AtaInv

LEMMA CommandTypes ==
  ASSUME D!TypeOK, NEW cmd \in {"read", "write", "flush"}, D!Command(cmd)
  PROVE  drive' \in [st : {"idle", "busy", "in", "out"}, cmd : {"none", "read", "write", "store", "flush"},
                     lba : Sectors, buf : Data, err : BOOLEAN]
BY DEF D!TypeOK, D!Command

LEMMA IssueAtaInv == ASSUME AtaInv, D!Issue PROVE AtaInv'
<1>1. D!TypeOK'
  <2>1. call.op \in {"read", "write", "flush"}
    BY DEF AtaInv, D!TypeOK
  <2> QED BY <2>1, CommandTypes DEF D!Issue, AtaInv, D!TypeOK, D!Waits
<1>2. CacheOK'
  BY DEF D!Issue, AtaInv, CacheOK
<1>3. InCall'
  <2>1. foundQuiet => drive'.st = "busy" /\ drive'.cmd = call.op /\ drive'.lba = call.lba
    BY DEF D!Issue, D!Command, AtaInv, InCall, D!TypeOK, D!BSY, D!DRQ
  <2> QED BY <2>1 DEF D!Issue, InCall, D!Answered, Serving, D!BSY
<1> QED BY <1>1, <1>2, <1>3 DEF AtaInv

LEMMA PollAtaInv == ASSUME AtaInv, D!Poll PROVE AtaInv'
<1>1. D!TypeOK'
  <2>1. at' \in {"idle", "drq", "data", "flush"} /\ ok' \in BOOLEAN
    BY DEF D!Poll, D!Return, D!After, D!Waits
  <2> QED BY <2>1 DEF D!Poll, AtaInv, D!TypeOK, D!Waits, D!driveVars
<1>2. CacheOK'
  BY DEF D!Poll, AtaInv, CacheOK, D!driveVars
<1>3. InCall'
  <2> SUFFICES ASSUME foundQuiet PROVE InCall'
    BY DEF InCall, D!Poll
  <2>1. CASE drive.err
    BY <2>1 DEF D!Poll, D!Return, InCall, D!Answered
  <2>2. CASE ~drive.err
    <3>1. UNCHANGED <<call, foundQuiet, D!driveVars, calls>>
      BY DEF D!Poll
    <3>2. CASE at = "ready"
      BY <2>2, <3>1, <3>2, CallKeepsContent
      DEF D!Poll, D!Done, D!After, AtaInv, InCall, D!Answered, Serving, Transfer, DataReady, D!BSY, D!driveVars
    <3>3. CASE at = "drq"
      BY <2>2, <3>1, <3>3, CallKeepsContent
      DEF D!Poll, D!Done, D!After, AtaInv, InCall, D!Answered, Serving, Transfer, DataReady, D!BSY, D!driveVars
    <3>4. CASE at = "stored"
      BY <2>2, <3>1, <3>4, CallKeepsContent
      DEF D!Poll, D!Done, D!After, AtaInv, InCall, D!Answered, Stored, D!BSY, D!driveVars
    <3>5. CASE at = "flushed"
      BY <2>2, <3>1, <3>5, CallKeepsContent
      DEF D!Poll, D!Done, D!After, AtaInv, InCall, D!Answered, Committed, D!BSY, D!driveVars
    <3> QED BY <3>2, <3>3, <3>4, <3>5 DEF D!Poll, D!Waits
  <2> QED BY <2>1, <2>2
<1> QED BY <1>1, <1>2, <1>3 DEF AtaInv

LEMMA GiveUpAtaInv == ASSUME D!Assumptions, AtaInv, D!GiveUp PROVE AtaInv'
<1>1. D!TypeOK'
  <2>1. timeouts' \in 0 .. MaxTimeouts
    BY DEF D!GiveUp, AtaInv, D!TypeOK, D!Assumptions
  <2> QED BY <2>1 DEF D!GiveUp, D!Return, AtaInv, D!TypeOK, D!Waits, D!driveVars
<1>2. CacheOK'
  BY DEF D!GiveUp, AtaInv, CacheOK, D!driveVars
<1>3. InCall'
  BY DEF D!GiveUp, D!Return, InCall, D!Answered
<1> QED BY <1>1, <1>2, <1>3 DEF AtaInv

LEMMA ReadDataAtaInv == ASSUME AtaInv, D!ReadData PROVE AtaInv'
<1> PICK d \in Data : (drive.st = "in" => d = drive.buf) /\ call' = [call EXCEPT !.buf = d]
  BY DEF D!ReadData
<1>1. D!TypeOK'
  BY DEF D!ReadData, D!Return, AtaInv, D!TypeOK, D!Waits
<1>2. CacheOK'
  BY DEF D!ReadData, AtaInv, CacheOK
<1>3. InCall'
  <2> SUFFICES ASSUME foundQuiet PROVE InCall'
    BY DEF InCall, D!ReadData
  <2>1. drive.st = "in" /\ drive.buf = D!Content(call.lba)
    BY DEF D!ReadData, AtaInv, InCall, Transfer, DataReady
  <2>2. call'.op = "read" /\ call'.lba = call.lba /\ call'.buf = D!Content(call.lba)
    BY <2>1 DEF D!ReadData, AtaInv, D!TypeOK
  <2>3. Stored'
    BY <2>2, CallKeepsContent DEF Stored, D!ReadData
  <2>4. drive'.st = "idle" /\ at' = "idle"
    BY <2>1 DEF D!ReadData, D!Return, AtaInv, D!TypeOK
  <2> QED BY <2>2, <2>3, <2>4 DEF InCall, D!Answered
<1> QED BY <1>1, <1>2, <1>3 DEF AtaInv

LEMMA WriteDataAtaInv == ASSUME AtaInv, D!WriteData PROVE AtaInv'
<1>1. D!TypeOK'
  <2>1. drive' \in [st : {"idle", "busy", "in", "out"}, cmd : {"none", "read", "write", "store", "flush"},
                    lba : Sectors, buf : Data, err : BOOLEAN]
    BY DEF D!WriteData, AtaInv, D!TypeOK
  <2> QED BY <2>1 DEF D!WriteData, AtaInv, D!TypeOK, D!Waits
<1>2. CacheOK'
  BY DEF D!WriteData, AtaInv, CacheOK
<1>3. InCall'
  <2>1. foundQuiet => drive'.st = "busy" /\ drive'.cmd = "store" /\ drive'.lba = call.lba /\ drive'.buf = call.buf
    BY DEF D!WriteData, AtaInv, InCall, D!TypeOK, Transfer, Serving
  <2> QED BY <2>1 DEF D!WriteData, InCall, D!Answered, Serving, D!BSY
<1> QED BY <1>1, <1>2, <1>3 DEF AtaInv

LEMMA FlushAtaInv == ASSUME AtaInv, D!Flush PROVE AtaInv'
<1>1. D!TypeOK'
  BY CommandTypes DEF D!Flush, D!IssueFlush, AtaInv, D!TypeOK, D!Waits
<1>2. CacheOK'
  BY DEF D!Flush, AtaInv, CacheOK
<1>3. InCall'
  <2>1. foundQuiet => drive'.st = "busy" /\ drive'.cmd = "flush"
    BY DEF D!Flush, D!IssueFlush, D!Command, AtaInv, InCall, D!TypeOK, D!BSY, D!DRQ
  <2>2. foundQuiet => Stored' /\ call'.op = "write"
    BY CallKeepsContent DEF D!Flush, AtaInv, InCall, Stored
  <2> QED BY <2>1, <2>2 DEF D!Flush, InCall, D!Answered, D!BSY
<1> QED BY <1>1, <1>2, <1>3 DEF AtaInv

-----------------------------------------------------------------------------
(* The drive's own steps. *)

LEMMA DriveDoneTypes == ASSUME AtaInv, D!DriveDone PROVE D!TypeOK' /\ CacheOK'
<1>1. drive' \in [st : {"idle", "busy", "in", "out"}, cmd : {"none", "read", "write", "store", "flush"},
                  lba : Sectors, buf : Data, err : BOOLEAN]
  BY ZenonT(60), ContentIsData DEF D!DriveDone, AtaInv, D!TypeOK
<1>2. medium' \in [Sectors -> Data]
  BY ContentIsData DEF D!DriveDone, AtaInv, D!TypeOK
<1>3. CacheOK'
  BY DEF D!DriveDone, AtaInv, D!TypeOK, CacheOK
<1>4. DOMAIN cache' \subseteq Sectors
  BY <1>3 DEF CacheOK
<1> QED BY <1>1, <1>2, <1>3, <1>4 DEF D!DriveDone, AtaInv, D!TypeOK, D!callVars

LEMMA DriveDoneAtaInv == ASSUME AtaInv, D!DriveDone PROVE AtaInv'
<1>1. InCall'
  <2> SUFFICES ASSUME foundQuiet PROVE InCall'
    BY DEF InCall, D!DriveDone, D!callVars
  <2>1. UNCHANGED <<at, call, foundQuiet, ok, lba, calls>>
    BY DEF D!DriveDone, D!callVars
  <2>2. D!BSY /\ call.lba \in Sectors
    BY DEF D!DriveDone, AtaInv, D!TypeOK
  <2>3. at \notin {"select", "issue", "drq", "data", "flush"} /\ ~D!Answered
    BY <2>2 DEF AtaInv, InCall, D!BSY, Transfer, DataReady
  <2>4. CASE at = "ready"
    <3>1. Serving(call.op) /\ call.op \in {"read", "write"}
      BY <2>4 DEF AtaInv, InCall, D!TypeOK
    <3>2. UNCHANGED <<cache, medium>> /\ Serving(call.op)'
      BY <2>1, <3>1 DEF D!DriveDone, Serving, AtaInv, D!TypeOK
    <3>3. Transfer'
      <4>1. CASE call.op = "read"
        <5>1. drive'.st = "in" /\ drive'.buf = D!Content(drive.lba)
          BY <3>1, <4>1 DEF D!DriveDone, Serving, AtaInv, D!TypeOK
        <5>2. D!Content(call.lba)' = D!Content(call.lba)
          BY <2>1, <3>2 DEF D!Content
        <5> QED BY <2>1, <3>1, <4>1, <5>1, <5>2 DEF Serving, Transfer, DataReady
      <4>2. CASE call.op = "write"
        BY <2>1, <3>1, <4>2 DEF D!DriveDone, Serving, Transfer, AtaInv, D!TypeOK
      <4> QED BY <3>1, <4>1, <4>2
    <3> QED BY <2>1, <2>4, <3>2, <3>3 DEF InCall, D!Answered, Serving
  <2>5. CASE at = "stored"
    <3>1. drive.cmd = "store" /\ drive.lba = call.lba /\ drive.buf = call.buf /\ call.op = "write"
      BY <2>2, <2>5 DEF AtaInv, InCall, D!BSY, Serving
    <3>2. drive'.st = "idle" /\ call.lba \in DOMAIN cache' /\ cache'[call.lba] = call.buf
      BY <3>1 DEF D!DriveDone, AtaInv, D!TypeOK
    <3>3. Stored'
      BY <2>1, <3>2 DEF Stored, D!Content
    <3> QED BY <2>1, <2>5, <3>1, <3>2, <3>3 DEF InCall, D!Answered
  <2>6. CASE at = "flushed"
    <3>1. drive.cmd = "flush" /\ Stored /\ call.op = "write"
      BY <2>2, <2>6 DEF AtaInv, InCall, D!BSY
    <3>2. drive'.st = "idle" /\ DOMAIN cache' = {} /\ medium'[call.lba] = D!Content(call.lba)
      BY <2>2, <3>1 DEF D!DriveDone, AtaInv, D!TypeOK
    <3>3. Committed'
      BY <2>1, <3>1, <3>2 DEF Stored, Committed
    <3> QED BY <2>1, <2>6, <3>1, <3>2, <3>3 DEF InCall, D!Answered
  <2>7. CASE at = "idle"
    BY <2>1, <2>3, <2>7 DEF InCall, D!Answered
  <2> QED BY <2>3, <2>4, <2>5, <2>6, <2>7 DEF AtaInv, D!TypeOK, D!Waits
<1> QED BY <1>1, DriveDoneTypes DEF AtaInv

LEMMA DriveFailsAtaInv == ASSUME D!Assumptions, AtaInv, D!DriveFails PROVE AtaInv'
<1>1. drive' \in [st : {"idle", "busy", "in", "out"}, cmd : {"none", "read", "write", "store", "flush"},
                  lba : Sectors, buf : Data, err : BOOLEAN]
  BY DEF D!DriveFails, AtaInv, D!TypeOK
<1>2. errors' \in 0 .. MaxErrors
  BY DEF D!DriveFails, AtaInv, D!TypeOK, D!Assumptions
<1>3. D!TypeOK' /\ CacheOK'
  BY <1>1, <1>2 DEF D!DriveFails, AtaInv, D!TypeOK, CacheOK, D!callVars
<1>4. InCall'
  <2>1. drive'.st = "idle" /\ drive'.err /\ drive'.cmd = drive.cmd /\ drive'.lba = drive.lba
    BY DEF D!DriveFails, AtaInv, D!TypeOK
  <2> QED BY <2>1 DEF D!DriveFails, AtaInv, InCall, D!Answered, D!BSY, Serving, Transfer, DataReady, D!callVars
<1> QED BY <1>3, <1>4 DEF AtaInv

LEMMA DestageAtaInv == ASSUME AtaInv, NEW s \in Sectors, D!Destage(s) PROVE AtaInv'
<1>1. CacheOK'
  BY DEF D!Destage, AtaInv, CacheOK
<1>2. medium' \in [Sectors -> Data]
  BY DEF D!Destage, AtaInv, D!TypeOK, CacheOK
<1>3. D!TypeOK'
  BY <1>1, <1>2 DEF D!Destage, AtaInv, D!TypeOK, CacheOK, D!callVars
<1>4. InCall'
  <2>1. UNCHANGED <<at, call, foundQuiet, ok, lba, calls, drive>> /\ call.lba \in Sectors
    BY DEF D!Destage, D!callVars, AtaInv, D!TypeOK
  <2>2. D!Content(call.lba)' = D!Content(call.lba)
    BY <2>1, DestageKeepsContent DEF AtaInv
  <2>3. /\ Stored => Stored'
        /\ Transfer => Transfer'
        /\ Committed => Committed'
    <3>1. Stored => Stored'
      BY <2>1, <2>2 DEF Stored, D!Content
    <3>2. Transfer => Transfer'
      BY <2>1, <2>2 DEF Transfer, DataReady, D!Content
    <3>3. Committed => Committed'
      BY <2>1 DEF Committed, D!Destage, AtaInv, D!TypeOK
    <3> QED BY <3>1, <3>2, <3>3
  <2> QED BY <2>1, <2>3 DEF AtaInv, InCall, D!Answered, D!BSY, Serving
<1> QED BY <1>1, <1>3, <1>4 DEF AtaInv

-----------------------------------------------------------------------------
LEMMA NextAtaInv == ASSUME D!Assumptions, AtaInv, [D!Next]_D!vars PROVE AtaInv'
<1>1. CASE UNCHANGED D!vars
  BY <1>1 DEF D!vars, AtaInv, D!TypeOK, CacheOK, InCall, D!Answered, D!BSY, Serving, Transfer, DataReady,
              Stored, Committed, D!Content
<1> QED
  BY <1>1, CallAtaInv, SelectAtaInv, IssueAtaInv, PollAtaInv, GiveUpAtaInv, ReadDataAtaInv, WriteDataAtaInv,
     FlushAtaInv, DriveDoneAtaInv, DriveFailsAtaInv, DestageAtaInv
  DEF D!Next

(***************************************************************************)
(* The inductive invariant holds in every state of ata.rs and the drive.   *)
(***************************************************************************)
THEOREM AtaInvariance == D!Spec => []AtaInv
<1>1. D!Init => AtaInv
  BY InitAtaInv, AtaAssumption
<1>2. AtaInv /\ [D!Next]_D!vars => AtaInv'
  BY NextAtaInv, AtaAssumption
<1> QED BY <1>1, <1>2, PTL DEF D!Spec

(***************************************************************************)
(* Every variable keeps its type: no call leaves read_sector's or          *)
(* write_sector's lines, no drive its states, no counter its bound.        *)
(***************************************************************************)
THEOREM AtaTypeCorrect == D!Spec => []D!TypeOK
<1>1. AtaInv => D!TypeOK
  BY DEF AtaInv
<1> QED BY <1>1, AtaInvariance, PTL

(***************************************************************************)
(* A call that finds the drive quiet and returns Ok has done its work,     *)
(* whatever calls gave up or failed before it: read_sector returns the     *)
(* sector's present content, and write_sector's data are on the medium.    *)
(***************************************************************************)
THEOREM QuietServed == D!Spec => []QuietDriveServes
<1>1. AtaInv => QuietDriveServes
  <2> SUFFICES ASSUME AtaInv, D!Answered, foundQuiet
               PROVE  IF call.op = "write" THEN medium[call.lba] = call.buf
                      ELSE D!Content(call.lba) = call.buf
    BY DEF QuietDriveServes, D!QuietDriveServes
  <2>1. call.op \in {"read", "write"}
    BY DEF AtaInv, D!TypeOK
  <2> QED BY <2>1 DEF AtaInv, InCall, Stored, Committed
<1> QED BY <1>1, AtaInvariance, PTL

-----------------------------------------------------------------------------
(* Rtc.  Time passes between the passes of a call: whatever is not a pass  *)
(* over one and the same second has had an update in it, and no other can  *)
(* come for as many reads as two passes take.                              *)

(* The registers p holds are those of the time t. *)
HoldsOf(p, t) == \A i \in 1 .. Len(p) : p[i] = C!Registers(t, mode)[i]
Whole(p)      == \E t \in seen : HoldsOf(p, t)
SoFarWhole    == ~updating /\ HoldsOf(pass, time)

RtcTypeOK ==
  /\ time \in C!Times /\ seen \subseteq C!Times
  /\ mode \in [binary : BOOLEAN, h24 : BOOLEAN]
  /\ updating \in BOOLEAN /\ quiet \in 0 .. Quiet
  /\ pc \in {"wait", "read", "done"}
  /\ pass \in Seq(Undefined \cup Nat) /\ Len(pass) <= 6
  /\ raw \in Seq(Undefined \cup Nat) /\ Len(raw) \in {0, 6}

Updates ==
  /\ updating => quiet = 0
  /\ pc # "done" => time \in seen

(* A pass that is not of one second has seen an update begin. *)
PassClear == pc = "read" => SoFarWhole \/ quiet <= Len(pass)

(* If the previous pass was not, this one is. *)
RawClear ==
  Len(raw) = 6 /\ ~Whole(raw) =>
    /\ pc = "wait" => quiet <= 7
    /\ pc = "read" => SoFarWhole /\ quiet <= Len(pass) + 8
    /\ pc # "done"

RtcInv == RtcTypeOK /\ Updates /\ PassClear /\ RawClear /\ (pc = "done" => Len(raw) = 6)
-----------------------------------------------------------------------------
(* What the clock encodes, read_time decodes. *)

LEMMA BcdBack ==
  ASSUME NEW n \in 0 .. 99
  PROVE  C!ToBcd(n) \in Nat /\ C!BcdToBinary(C!ToBcd(n)) = n /\ (n < 24 => C!ToBcd(n) < 128)
<1>1. PICK q \in 0 .. 9, r \in 0 .. 9 : n = 10 * q + r /\ n \div 10 = q /\ n % 10 = r
  <2>1. n \div 10 \in 0 .. 9 /\ n % 10 \in 0 .. 9 /\ n = 10 * (n \div 10) + (n % 10)
    OBVIOUS
  <2> QED BY <2>1
<1>2. C!ToBcd(n) = 16 * q + r
  BY <1>1 DEF C!ToBcd
<1>3. (16 * q + r) % 16 = r /\ (16 * q + r) \div 16 = q
  OBVIOUS
<1>4. C!BcdToBinary(16 * q + r) = n
  BY <1>1, <1>3 DEF C!BcdToBinary
<1> QED BY <1>1, <1>2, <1>4

(* The encoding of one byte undone. *)
PlainValue(v, m) == IF m.binary THEN v ELSE C!BcdToBinary(v)

LEMMA PlainBack ==
  ASSUME NEW n \in 0 .. 99, NEW m \in [binary : BOOLEAN, h24 : BOOLEAN]
  PROVE  C!Encode(n, m) \in Nat /\ PlainValue(C!Encode(n, m), m) = n /\ (n < 24 => C!Encode(n, m) < 128)
BY BcdBack DEF C!Encode, PlainValue

LEMMA HoursBack ==
  ASSUME NEW h \in 0 .. 23, NEW m \in [binary : BOOLEAN, h24 : BOOLEAN], NEW r, r = C!EncodeHours(h, m)
  PROVE  /\ r \in Nat
         /\ m.h24 => PlainValue(r % 128, m) = h
         /\ ~m.h24 => C!NormalizeHours12h(r, PlainValue(r % 128, m)) = h
<1>1. CASE m.h24
  <2>1. r = C!Encode(h, m)
    BY <1>1 DEF C!EncodeHours
  <2>2. r \in Nat /\ PlainValue(r, m) = h /\ r < 128
    BY <2>1, PlainBack
  <2>3. r % 128 = r
    BY <2>2
  <2> QED BY <1>1, <2>2, <2>3
<1>2. CASE ~m.h24
  <2>1. PICK k \in 1 .. 12 : k = IF h % 12 = 0 THEN 12 ELSE h % 12
    OBVIOUS
  <2>2. PICK e : e = C!Encode(k, m)
    OBVIOUS
  <2>3. e \in Nat /\ PlainValue(e, m) = k /\ e < 128
    BY <2>2, PlainBack
  <2>4. r = e + (IF h >= 12 THEN 128 ELSE 0)
    BY <1>2, <2>1, <2>2 DEF C!EncodeHours
  <2>5. r \in Nat /\ r % 128 = e /\ (r >= 128 <=> h >= 12)
    BY <2>3, <2>4
  <2>6. PlainValue(r % 128, m) = k
    BY <2>3, <2>5
  <2>7. C!NormalizeHours12h(r, k) = h
    <3>1. CASE h >= 12
      <4>1. k % 12 = h - 12
        BY <2>1, <3>1
      <4> QED BY <2>5, <3>1, <4>1 DEF C!NormalizeHours12h, C!IsPm
    <3>2. CASE h < 12
      <4>1. IF h = 0 THEN k = 12 ELSE k = h
        BY <2>1, <3>2
      <4> QED BY <2>5, <3>2, <4>1 DEF C!NormalizeHours12h, C!IsPm
    <3> QED BY <3>1, <3>2
  <2> QED BY <1>2, <2>5, <2>6, <2>7
<1> QED BY <1>1, <1>2

LEMMA TimeFields ==
  ASSUME NEW t \in C!Times
  PROVE  /\ t \in [1 .. 6 -> 0 .. 99] /\ t[1] < 60 /\ t[2] < 60 /\ t[3] \in 0 .. 23
         /\ t[5] \in 1 .. 12 /\ t[4] \in 1 .. C!DaysIn(t[5], t[6])
<1>1. t \in [1 .. 6 -> 0 .. 99] /\ t[1] < 60 /\ t[2] < 60 /\ t[3] < 24
      /\ t[5] \in 1 .. 12 /\ t[4] \in 1 .. C!DaysIn(t[5], t[6])
  BY DEF C!Times
<1>2. t[3] \in 0 .. 99
  BY <1>1
<1>3. t[3] \in 0 .. 23
  BY <1>1, <1>2
<1> QED BY <1>1, <1>3

LEMMA RegistersAre ==
  ASSUME NEW t \in C!Times, NEW m \in [binary : BOOLEAN, h24 : BOOLEAN], NEW i \in 1 .. 6
  PROVE  /\ C!Registers(t, m)[i] \in Nat
         /\ i # 3 => C!Registers(t, m)[i] = C!Encode(t[i], m)
         /\ i = 3 => C!Registers(t, m)[i] = C!EncodeHours(t[3], m)
<1>1. /\ i # 3 => C!Registers(t, m)[i] = C!Encode(t[i], m)
      /\ i = 3 => C!Registers(t, m)[i] = C!EncodeHours(t[3], m)
  BY DEF C!Registers
<1>2. t[i] \in 0 .. 99 /\ t[3] \in 0 .. 23
  BY TimeFields
<1>3. C!Encode(t[i], m) \in Nat /\ C!EncodeHours(t[3], m) \in Nat
  BY <1>2, PlainBack, HoursBack
<1> QED BY <1>1, <1>3

LEMMA DecodesBack ==
  ASSUME NEW t \in C!Times, NEW m \in [binary : BOOLEAN, h24 : BOOLEAN], NEW r,
         \A i \in 1 .. 6 : r[i] = C!Registers(t, m)[i]
  PROVE  C!Decode(r, m) = t
<1>1. /\ C!Decode(r, m) = [i \in 1 .. 6 |-> C!Decode(r, m)[i]]
      /\ \A i \in 1 .. 6 : i # 3 => C!Decode(r, m)[i] = PlainValue(r[i], m)
      /\ m.h24 => C!Decode(r, m)[3] = PlainValue(r[3] % 128, m)
      /\ ~m.h24 => C!Decode(r, m)[3] = C!NormalizeHours12h(r[3], PlainValue(r[3] % 128, m))
  BY DEF C!Decode, PlainValue
<1>2. \A i \in 1 .. 6 : i # 3 => C!Decode(r, m)[i] = t[i]
  <2> SUFFICES ASSUME NEW i \in 1 .. 6, i # 3 PROVE C!Decode(r, m)[i] = t[i]
    OBVIOUS
  <2>1. r[i] = C!Encode(t[i], m) /\ t[i] \in 0 .. 99
    BY RegistersAre, TimeFields
  <2> QED BY <1>1, <2>1, PlainBack
<1>3. C!Decode(r, m)[3] = t[3]
  <2>1. r[3] = C!EncodeHours(t[3], m) /\ t[3] \in 0 .. 23
    BY RegistersAre, TimeFields
  <2> QED BY <1>1, <2>1, HoursBack
<1>4. t = [i \in 1 .. 6 |-> t[i]]
  BY TimeFields
<1>5. \A i \in 1 .. 6 : C!Decode(r, m)[i] = t[i]
  BY <1>2, <1>3
<1> QED BY <1>1, <1>4, <1>5

(* A second later it is a time again. *)
LEMMA LaterIsTime == ASSUME NEW t \in C!Times PROVE C!Later(t) \in C!Times
<1> DEFINE d == C!DaysIn(t[5], t[6])
<1>1. /\ t[1] \in 0 .. 59 /\ t[2] \in 0 .. 59 /\ t[3] \in 0 .. 23 /\ t[4] \in 1 .. d
      /\ t[5] \in 1 .. 12 /\ t[6] \in 0 .. 99
  BY TimeFields
<1>2. \A mo \in 1 .. 12, y \in 0 .. 99 : C!DaysIn(mo, y) \in 28 .. 31 /\ (mo # 2 => \A z \in 0 .. 99 : C!DaysIn(mo, z) = C!DaysIn(mo, y))
  BY DEF C!DaysIn
<1>3. PICK u : u = C!Later(t)
  OBVIOUS
<1>4. /\ u = [i \in 1 .. 6 |-> u[i]]
      /\ u[1] = IF t[1] = 59 THEN 0 ELSE t[1] + 1
      /\ u[2] = IF t[1] = 59 THEN (IF t[2] = 59 THEN 0 ELSE t[2] + 1) ELSE t[2]
      /\ u[3] = IF t[1] = 59 /\ t[2] = 59 THEN (IF t[3] = 23 THEN 0 ELSE t[3] + 1) ELSE t[3]
      /\ u[4] = IF t[1] = 59 /\ t[2] = 59 /\ t[3] = 23 THEN (IF t[4] = d THEN 1 ELSE t[4] + 1) ELSE t[4]
      /\ u[5] = IF t[1] = 59 /\ t[2] = 59 /\ t[3] = 23 /\ t[4] = d
                THEN (IF t[5] = 12 THEN 1 ELSE t[5] + 1) ELSE t[5]
      /\ u[6] = IF t[1] = 59 /\ t[2] = 59 /\ t[3] = 23 /\ t[4] = d /\ t[5] = 12
                THEN (IF t[6] = 99 THEN 0 ELSE t[6] + 1) ELSE t[6]
  <2> DEFINE carry == <<t[1] = 59, t[2] = 59, t[3] = 23, t[4] = d, t[5] = 12, t[6] = 99>>
             base  == <<0, 0, 0, 1, 1, 0>>
             moves(i) == \A j \in 1 .. i - 1 : carry[j]
  <2>1. u = [i \in 1 .. 6 |-> IF ~moves(i) THEN t[i] ELSE IF carry[i] THEN base[i] ELSE t[i] + 1]
    BY <1>3 DEF C!Later
  <2>2. /\ carry[1] <=> t[1] = 59
        /\ carry[2] <=> t[2] = 59
        /\ carry[3] <=> t[3] = 23
        /\ carry[4] <=> t[4] = d
        /\ carry[5] <=> t[5] = 12
        /\ carry[6] <=> t[6] = 99
    OBVIOUS
  <2>3. base[1] = 0 /\ base[2] = 0 /\ base[3] = 0 /\ base[4] = 1 /\ base[5] = 1 /\ base[6] = 0
    OBVIOUS
  <2> HIDE DEF carry, base
  <2>4. /\ moves(1)
        /\ moves(2) <=> carry[1]
        /\ moves(3) <=> carry[1] /\ carry[2]
        /\ moves(4) <=> carry[1] /\ carry[2] /\ carry[3]
        /\ moves(5) <=> carry[1] /\ carry[2] /\ carry[3] /\ carry[4]
        /\ moves(6) <=> carry[1] /\ carry[2] /\ carry[3] /\ carry[4] /\ carry[5]
    <3>1. 1 .. 0 = {} /\ 1 .. 1 = {1} /\ 1 .. 2 = {1, 2} /\ 1 .. 3 = {1, 2, 3} /\ 1 .. 4 = {1, 2, 3, 4} /\ 1 .. 5 = {1, 2, 3, 4, 5}
      OBVIOUS
    <3>2. 1 - 1 = 0 /\ 2 - 1 = 1 /\ 3 - 1 = 2 /\ 4 - 1 = 3 /\ 5 - 1 = 4 /\ 6 - 1 = 5
      OBVIOUS
    <3> QED BY <3>1, <3>2, Zenon
  <2> HIDE DEF moves, d
  <2> QED BY <2>1, <2>2, <2>3, <2>4
<1>5. /\ u[1] \in 0 .. 59 /\ u[2] \in 0 .. 59 /\ u[3] \in 0 .. 23 /\ u[5] \in 1 .. 12 /\ u[6] \in 0 .. 99
  <2> HIDE DEF d
  <2> QED BY <1>1, <1>4
<1>6. u[4] \in 1 .. C!DaysIn(u[5], u[6]) /\ u[4] \in 0 .. 99
  <2>1. d \in 28 .. 31 /\ C!DaysIn(u[5], u[6]) \in 28 .. 31
    BY <1>1, <1>2, <1>5
  <2>2. CASE t[1] = 59 /\ t[2] = 59 /\ t[3] = 23 /\ t[4] = d
    <3>1. u[4] = 1
      BY <1>4, <2>2
    <3> QED BY <2>1, <3>1
  <2>3. CASE ~(t[1] = 59 /\ t[2] = 59 /\ t[3] = 23 /\ t[4] = d)
    <3>1. u[5] = t[5] /\ u[6] = t[6]
      BY <1>4, <2>3
    <3>2. u[4] = t[4] \/ (u[4] = t[4] + 1 /\ t[4] # d)
      BY <1>4, <2>3
    <3>3. C!DaysIn(u[5], u[6]) = d
      BY <3>1
    <3> HIDE DEF d
    <3> QED BY <1>1, <2>1, <3>2, <3>3
  <2> QED BY <2>2, <2>3
<1>7. u \in [1 .. 6 -> 0 .. 99]
  <2>1. \A i \in 1 .. 6 : u[i] \in 0 .. 99
    BY <1>5, <1>6
  <2> QED BY <1>4, <2>1
<1> QED BY <1>3, <1>5, <1>6, <1>7 DEF C!Times

-----------------------------------------------------------------------------
LEMMA InitRtcInv == ASSUME C!Assumptions, C!Init PROVE RtcInv
<1>1. /\ time \in C!Times /\ seen = {time} /\ mode \in [binary : BOOLEAN, h24 : BOOLEAN]
      /\ updating \in BOOLEAN /\ quiet \in {0, Quiet} /\ (updating => quiet = 0)
      /\ pc = "wait" /\ raw = <<>> /\ pass = <<>> /\ Quiet \in Nat
  BY DEF C!Init, C!Assumptions
<1>2. Len(raw) = 0 /\ Len(pass) = 0 /\ raw \in Seq(Undefined \cup Nat) /\ pass \in Seq(Undefined \cup Nat)
  BY <1>1
<1> QED BY <1>1, <1>2 DEF RtcInv, RtcTypeOK, Updates, PassClear, RawClear

(* Registers read stay read, and the times shown stay shown. *)
LEMMA WholeStays ==
  ASSUME NEW p, Whole(p), seen \subseteq seen', mode' = mode, NEW q, q = p
  PROVE  \E t \in seen' : \A i \in 1 .. Len(q) : q[i] = C!Registers(t, mode')[i]
BY DEF Whole, HoldsOf

LEMMA BeginUpdateRtcInv == ASSUME C!Assumptions, RtcInv, C!BeginUpdate PROVE RtcInv'
<1>1. /\ ~updating /\ quiet = Quiet /\ updating' = TRUE /\ quiet' = 0 /\ Quiet \in Nat /\ Quiet >= 16
      /\ UNCHANGED <<time, mode, pc, raw, pass, seen>>
  BY DEF C!BeginUpdate, C!Assumptions
<1>2. RtcTypeOK'
  BY <1>1 DEF RtcInv, RtcTypeOK
<1>3. Updates' /\ (pc' = "done" => Len(raw') = 6)
  BY <1>1 DEF RtcInv, Updates
<1>4. Len(pass) \in Nat /\ Len(pass) <= 6
  BY DEF RtcInv, RtcTypeOK
<1>5. PassClear'
  BY <1>1, <1>4 DEF PassClear
<1>6. Whole(raw)' <=> Whole(raw)
  BY <1>1 DEF Whole, HoldsOf
<1>7. Len(raw) = 6 /\ ~Whole(raw) => pc \notin {"wait", "read", "done"}
  BY <1>1, <1>4 DEF RtcInv, RawClear
<1>8. RawClear'
  BY <1>1, <1>6, <1>7 DEF RawClear
<1> QED BY <1>2, <1>3, <1>5, <1>8 DEF RtcInv

LEMMA EndUpdateRtcInv == ASSUME C!Assumptions, RtcInv, C!EndUpdate PROVE RtcInv'
<1>1. /\ updating /\ updating' = FALSE /\ time' = C!Later(time)
      /\ UNCHANGED <<mode, quiet, pc, raw, pass>>
  BY DEF C!EndUpdate
<1>2. (pc = "done" => seen' = seen) /\ (pc # "done" => seen' = seen \cup {time'})
  BY DEF C!EndUpdate
<1>3. time' \in C!Times /\ seen' \subseteq C!Times /\ seen \subseteq seen'
  BY <1>1, <1>2, LaterIsTime DEF RtcInv, RtcTypeOK
<1>4. RtcTypeOK'
  BY <1>1, <1>3 DEF RtcInv, RtcTypeOK
<1>5. quiet = 0
  BY <1>1 DEF RtcInv, Updates
<1>6. Updates' /\ (pc' = "done" => Len(raw') = 6)
  BY <1>1, <1>2 DEF RtcInv, Updates
<1>7. PassClear'
  BY <1>1 DEF RtcInv, PassClear, SoFarWhole
<1>8. Whole(raw) => Whole(raw)'
  BY <1>1, <1>3, WholeStays DEF Whole, HoldsOf
<1>9. Len(raw) = 6 /\ ~Whole(raw) => pc = "wait"
  BY <1>1 DEF RtcInv, RtcTypeOK, RawClear, SoFarWhole
<1>10. RawClear'
  BY <1>1, <1>5, <1>8, <1>9 DEF RawClear
<1> QED BY <1>4, <1>6, <1>7, <1>10 DEF RtcInv

(* A read takes its time. *)
LEMMA PassesBy ==
  ASSUME C!Assumptions, RtcTypeOK, Updates, C!Passes
  PROVE  quiet' \in 0 .. Quiet /\ quiet' <= quiet + 1 /\ (updating => quiet' = 0)
BY DEF C!Assumptions, RtcTypeOK, Updates, C!Passes

LEMMA SeesNoUpdateRtcInv == ASSUME C!Assumptions, RtcInv, C!SeesNoUpdate PROVE RtcInv'
<1>1. /\ pc = "wait" /\ ~updating /\ pc' = "read" /\ pass' = <<>> /\ C!Passes
      /\ UNCHANGED <<time, mode, updating, raw, seen>>
  BY DEF C!SeesNoUpdate
<1>2. quiet' \in 0 .. Quiet /\ quiet' <= quiet + 1 /\ quiet \in Nat
  BY <1>1, PassesBy DEF RtcInv, RtcTypeOK, C!Assumptions
<1>3. Len(pass') = 0 /\ pass' \in Seq(Undefined \cup Nat)
  BY <1>1
<1>4. RtcTypeOK'
  BY <1>1, <1>2, <1>3 DEF RtcInv, RtcTypeOK
<1>5. Updates' /\ SoFarWhole'
  BY <1>1, <1>3 DEF RtcInv, Updates, SoFarWhole, HoldsOf
<1>6. Whole(raw)' <=> Whole(raw)
  BY <1>1 DEF Whole, HoldsOf
<1>7. Len(raw) = 6 /\ ~Whole(raw) => quiet' <= 8
  BY <1>1, <1>2 DEF RtcInv, RawClear
<1>8. RawClear'
  BY <1>1, <1>3, <1>5, <1>6, <1>7 DEF RawClear
<1> QED BY <1>1, <1>4, <1>5, <1>8 DEF RtcInv, PassClear

LEMMA ReadRegisterRtcInv == ASSUME C!Assumptions, RtcInv, C!ReadRegister PROVE RtcInv'
<1>1. /\ pc = "read" /\ Len(pass) < 6 /\ C!Passes
      /\ UNCHANGED <<time, mode, updating, pc, raw, seen>>
  BY DEF C!ReadRegister
<1>2. PICK v : /\ pass' = Append(pass, v)
               /\ IF updating THEN v \in Undefined ELSE v = C!Registers(time, mode)[Len(pass) + 1]
  BY DEF C!ReadRegister
<1>3. quiet' \in 0 .. Quiet /\ quiet' <= quiet + 1 /\ quiet \in Nat
  BY <1>1, PassesBy DEF RtcInv, RtcTypeOK, C!Assumptions
<1>4. PICK n \in 0 .. 5 : n = Len(pass)
  <2>1. Len(pass) \in Nat
    BY DEF RtcInv, RtcTypeOK
  <2>2. PICK k \in Nat : k = Len(pass)
    BY <2>1
  <2>3. k \in 0 .. 5
    <3>1. k < 6
      BY <1>1, <2>2
    <3> QED BY <3>1
  <2> QED BY <2>2, <2>3
<1>5. v \in Undefined \cup Nat
  <2>1. n + 1 \in 1 .. 6 /\ time \in C!Times /\ mode \in [binary : BOOLEAN, h24 : BOOLEAN]
    BY DEF RtcInv, RtcTypeOK
  <2>2. C!Registers(time, mode)[n + 1] \in Nat
    BY <2>1, RegistersAre
  <2> QED BY <1>2, <1>4, <2>2
<1>6. /\ pass' \in Seq(Undefined \cup Nat) /\ Len(pass') = n + 1
      /\ \A i \in 1 .. n : pass'[i] = pass[i]
      /\ pass'[n + 1] = v
  <2> DEFINE S == Undefined \cup Nat
  <2>1. pass \in Seq(S) /\ v \in S
    BY <1>5 DEF RtcInv, RtcTypeOK
  <2> HIDE DEF S
  <2>2. /\ Append(pass, v) \in Seq(S) /\ Len(Append(pass, v)) = Len(pass) + 1
        /\ \A i \in 1 .. Len(pass) : Append(pass, v)[i] = pass[i]
        /\ Append(pass, v)[Len(pass) + 1] = v
    BY <2>1
  <2> QED BY <1>2, <1>4, <2>2 DEF S
<1>7. RtcTypeOK'
  BY <1>1, <1>3, <1>6 DEF RtcInv, RtcTypeOK
<1>8. Updates' /\ (pc' = "done" => Len(raw') = 6)
  BY <1>1, PassesBy DEF RtcInv, Updates
<1>9. SoFarWhole => SoFarWhole'
  <2> SUFFICES ASSUME SoFarWhole PROVE SoFarWhole'
    OBVIOUS
  <2>1. ~updating /\ \A i \in 1 .. n : pass[i] = C!Registers(time, mode)[i]
    BY <1>4 DEF SoFarWhole, HoldsOf
  <2>2. \A i \in 1 .. n + 1 : i \in 1 .. n \/ i = n + 1
    OBVIOUS
  <2>3. \A i \in 1 .. n + 1 : pass'[i] = C!Registers(time, mode)[i]
    BY <1>2, <1>4, <1>6, <2>1, <2>2
  <2> QED BY <1>1, <1>6, <2>1, <2>3 DEF SoFarWhole, HoldsOf
<1>10. PassClear'
  BY <1>1, <1>3, <1>4, <1>6, <1>9 DEF RtcInv, PassClear
<1>11. Whole(raw)' <=> Whole(raw)
  BY <1>1 DEF Whole, HoldsOf
<1>12. Len(raw) = 6 /\ ~Whole(raw) => SoFarWhole /\ quiet <= n + 8
  BY <1>1, <1>4 DEF RtcInv, RawClear
<1>13. RawClear'
  BY <1>1, <1>3, <1>6, <1>9, <1>11, <1>12 DEF RawClear
<1> QED BY <1>7, <1>8, <1>10, <1>13 DEF RtcInv

LEMMA CompareRtcInv == ASSUME C!Assumptions, RtcInv, C!Compare PROVE RtcInv'
<1>1. /\ pc = "read" /\ Len(pass) = 6 /\ raw' = pass /\ C!Passes
      /\ UNCHANGED <<time, mode, updating, pass, seen>>
      /\ (raw = pass => pc' = "done") /\ (raw # pass => pc' = "wait")
  BY DEF C!Compare, C!Agrees
<1>2. quiet' \in 0 .. Quiet /\ quiet' <= quiet + 1 /\ quiet \in Nat
  BY <1>1, PassesBy DEF RtcInv, RtcTypeOK, C!Assumptions
<1>3. RtcTypeOK' /\ Len(raw') = 6
  BY <1>1, <1>2 DEF RtcInv, RtcTypeOK
<1>4. Updates'
  BY <1>1, PassesBy DEF RtcInv, Updates
<1>5. Whole(raw)' <=> Whole(pass)
  BY <1>1 DEF Whole, HoldsOf
<1>6. SoFarWhole => Whole(pass)
  BY <1>1 DEF RtcInv, Updates, SoFarWhole, Whole
<1>7. pc' = "done" => Whole(pass)
  <2> SUFFICES ASSUME raw = pass PROVE Whole(pass)
    BY <1>1
  <2>1. Len(raw) = 6
    BY <1>1
  <2>2. Whole(raw) \/ SoFarWhole
    BY <1>1, <2>1 DEF RtcInv, RawClear
  <2> QED BY <1>6, <2>2
<1>8. ~Whole(pass) => quiet' <= 7
  BY <1>1, <1>2, <1>6 DEF RtcInv, PassClear
<1>9. RawClear' /\ PassClear'
  BY <1>1, <1>5, <1>7, <1>8 DEF RawClear, PassClear
<1> QED BY <1>3, <1>4, <1>9 DEF RtcInv

LEMMA NextRtcInv == ASSUME C!Assumptions, RtcInv, [C!Next]_C!vars PROVE RtcInv'
<1>1. CASE UNCHANGED C!vars
  <2>1. UNCHANGED <<time, mode, updating, quiet, pc, raw, pass, seen>>
    BY <1>1 DEF C!vars
  <2> QED BY <2>1 DEF RtcInv, RtcTypeOK, Updates, PassClear, RawClear, SoFarWhole, Whole, HoldsOf
<1> QED BY <1>1, BeginUpdateRtcInv, EndUpdateRtcInv, SeesNoUpdateRtcInv, ReadRegisterRtcInv, CompareRtcInv DEF C!Next

(***************************************************************************)
(* The inductive invariant of read_time and the clock, for any beginning,  *)
(* any garbage read during an update and any number of updates.            *)
(***************************************************************************)
THEOREM RtcInvariance == C!Spec => []RtcInv
<1>1. C!Init => RtcInv
  BY InitRtcInv, RtcAssumption
<1>2. RtcInv /\ [C!Next]_C!vars => RtcInv'
  BY NextRtcInv, RtcAssumption
<1> QED BY <1>1, <1>2, PTL DEF C!Spec

(***************************************************************************)
(* What read_time returns is a time the clock showed during the call, for  *)
(* every time of day, both encodings and both formats of the hours.        *)
(***************************************************************************)
THEOREM TimeRight == C!Spec => []TimeExisted
<1>1. RtcInv => TimeExisted
  <2> SUFFICES ASSUME RtcInv, pc = "done" PROVE C!Decode(raw, mode) \in seen
    BY DEF TimeExisted, C!TimeExisted
  <2>1. Len(raw) = 6 /\ Whole(raw)
    BY DEF RtcInv, RawClear
  <2>2. PICK t \in seen : \A i \in 1 .. 6 : raw[i] = C!Registers(t, mode)[i]
    BY <2>1 DEF Whole, HoldsOf
  <2>3. t \in C!Times /\ mode \in [binary : BOOLEAN, h24 : BOOLEAN]
    BY <2>2 DEF RtcInv, RtcTypeOK
  <2>4. C!Decode(raw, mode) = t
    BY <2>2, <2>3, DecodesBack
  <2> QED BY <2>2, <2>4
<1> QED BY <1>1, RtcInvariance, PTL


-----------------------------------------------------------------------------
(* Console.  The editor's half of it, which no part of the screen can      *)
(* reach: what HistoryFaithful says of KEYBOARD is kept by every handler.  *)

(* What scancode_to_char can return. *)
Chars == {ScancodeToChar(shift, code)[1] : shift \in BOOLEAN, code \in Nat}

Keyboards == [last : Nat, extended : BOOLEAN, shift : BOOLEAN, line : Seq(Chars),
              cursor : Nat, history : Seq(Seq(Chars)), index : Nat]

Faithful(k) ==
  /\ k \in Keyboards
  /\ k.index <= Len(k.history)
  /\ k.index # 0 => k.line = k.history[k.index]
  /\ k.cursor <= Len(k.line)
  /\ \A i \in 1 .. Len(k.history) : ~IsBlank(k.history[i])

EditorInv ==
  /\ Faithful(kb)
  /\ port \in Seq([code : Nat, press : BOOLEAN, shifted : BOOLEAN])
  /\ down \subseteq Keys /\ recent \subseteq Keys

LEMMA PairIs == ASSUME NEW k, NEW s PROVE Pair(k, s).kb = k /\ Pair(k, s).screen = s
BY DEF Pair

LEMMA RedrawnIs == ASSUME NEW c, NEW k PROVE Redrawn(c, k).kb = k
BY DEF Redrawn, Pair

(* The three fields that edits change. *)
Put(k, i, l, n) == [k EXCEPT !.index = i, !.line = l, !.cursor = n]

LEMMA PutIs ==
  ASSUME NEW k \in Keyboards, NEW i \in Nat, NEW l \in Seq(Chars), NEW n \in Nat
  PROVE  /\ Put(k, i, l, n) \in Keyboards
         /\ Put(k, i, l, n).index = i /\ Put(k, i, l, n).line = l /\ Put(k, i, l, n).cursor = n
         /\ Put(k, i, l, n).history = k.history
<1>1. PICK a : a = [k EXCEPT !.index = i]
  OBVIOUS
<1>2. PICK b : b = [a EXCEPT !.line = l]
  OBVIOUS
<1>3. PICK r : r = [b EXCEPT !.cursor = n]
  OBVIOUS
<1>4. a \in Keyboards /\ a.index = i /\ a.history = k.history
  BY <1>1 DEF Keyboards
<1>5. b \in Keyboards /\ b.index = i /\ b.history = k.history /\ b.line = l
  BY <1>2, <1>4 DEF Keyboards
<1>6. r \in Keyboards /\ r.index = i /\ r.history = k.history /\ r.line = l /\ r.cursor = n
  BY <1>3, <1>5 DEF Keyboards
<1>7. Put(k, i, l, n) = r
  BY <1>1, <1>2, <1>3 DEF Put
<1> QED BY <1>6, <1>7

(* An edit leaves the history, and no entry of it is shown any more. *)
LEMMA EditFaithful ==
  ASSUME NEW k, Faithful(k), NEW l \in Seq(Chars), NEW n \in Nat, n <= Len(l)
  PROVE  Faithful(Put(k, 0, l, n))
<1>1. k \in Keyboards /\ Len(k.history) \in Nat
  BY DEF Faithful, Keyboards
<1>2. PICK r : r = Put(k, 0, l, n)
  OBVIOUS
<1>3. r \in Keyboards /\ r.index = 0 /\ r.line = l /\ r.cursor = n /\ r.history = k.history
  <2>1. 0 \in Nat
    OBVIOUS
  <2>2. /\ Put(k, 0, l, n) \in Keyboards
        /\ Put(k, 0, l, n).index = 0 /\ Put(k, 0, l, n).line = l /\ Put(k, 0, l, n).cursor = n
        /\ Put(k, 0, l, n).history = k.history
    BY <1>1, <2>1, PutIs
  <2> QED BY <1>2, <2>2, Zenon
<1>4. Faithful(r)
  BY <1>1, <1>3 DEF Faithful
<1> QED BY <1>2, <1>4

LEMMA ShowFaithful ==
  ASSUME NEW k, Faithful(k), NEW i \in 1 .. Len(k.history)
  PROVE  Faithful(Show(k, i, k.history[i]))
<1>1. k \in Keyboards /\ k.history \in Seq(Seq(Chars)) /\ Len(k.history) \in Nat
  BY DEF Faithful, Keyboards
<1>2. PICK l : l = k.history[i]
  OBVIOUS
<1>3. l \in Seq(Chars)
  <2> DEFINE S == Seq(Chars)
  <2>1. k.history \in Seq(S)
    BY <1>1
  <2> HIDE DEF S
  <2>2. k.history[i] \in S
    BY <2>1
  <2> QED BY <1>2, <2>2 DEF S
<1>4. PICK n \in Nat : n = Len(l)
  BY <1>3
<1>5. PICK r : r = Put(k, i, l, n)
  OBVIOUS
<1>6. r \in Keyboards /\ r.index = i /\ r.line = l /\ r.cursor = n /\ r.history = k.history
  <2>1. i \in Nat
    BY <1>1
  <2>2. /\ Put(k, i, l, n) \in Keyboards
        /\ Put(k, i, l, n).index = i /\ Put(k, i, l, n).line = l /\ Put(k, i, l, n).cursor = n
        /\ Put(k, i, l, n).history = k.history
    <3>1. k \in Keyboards
      BY <1>1
    <3> QED BY <1>3, <2>1, <3>1, PutIs
  <2> QED BY <1>5, <2>2, Zenon
<1>7. Faithful(r)
  BY <1>1, <1>2, <1>4, <1>6 DEF Faithful
<1>8. Show(k, i, l) = r
  BY <1>4, <1>5 DEF Show, Put
<1> QED BY <1>2, <1>7, <1>8

LEMMA RecallFaithful ==
  ASSUME NEW k, Faithful(k)
  PROVE  Faithful(RecallOlder(k)) /\ Faithful(RecallNewer(k))
<1>1. k \in Keyboards /\ k.index \in Nat /\ Len(k.history) \in Nat /\ k.index <= Len(k.history)
  BY DEF Faithful, Keyboards
<1>2. Faithful(RecallOlder(k))
  <2>1. PICK i \in 0 .. Len(k.history) : i = IF k.index = 0 THEN Len(k.history) ELSE k.index - 1
    BY <1>1
  <2>2. RecallOlder(k) = IF i = 0 THEN k ELSE Show(k, i, k.history[i])
    BY <2>1 DEF RecallOlder
  <2>3. CASE i = 0
    BY <2>2, <2>3
  <2>4. CASE i # 0
    <3>1. i \in 1 .. Len(k.history)
      BY <1>1, <2>1, <2>4
    <3> QED BY <2>2, <2>4, <3>1, ShowFaithful
  <2> QED BY <2>3, <2>4
<1>3. Faithful(RecallNewer(k))
  <2>1. CASE k.index = 0
    BY <2>1 DEF RecallNewer
  <2>2. CASE k.index # 0 /\ k.index < Len(k.history)
    <3>1. k.index + 1 \in 1 .. Len(k.history)
      BY <1>1, <2>2
    <3> QED BY <2>2, <3>1, ShowFaithful DEF RecallNewer
  <2>3. CASE k.index # 0 /\ ~(k.index < Len(k.history))
    <3>1. RecallNewer(k) = Show(k, 0, <<>>)
      BY <2>3 DEF RecallNewer
    <3>2. <<>> \in Seq(Chars) /\ Len(<<>>) = 0
      OBVIOUS
    <3>3. Show(k, 0, <<>>) = Put(k, 0, <<>>, 0)
      BY <3>2 DEF Show, Put
    <3>4. 0 \in Nat /\ 0 <= Len(<<>>)
      BY <3>2
    <3>5. Faithful(Put(k, 0, <<>>, 0))
      BY <3>2, <3>4, EditFaithful, Zenon
    <3> QED BY <3>1, <3>3, <3>5
  <2> QED BY <2>1, <2>2, <2>3
<1> QED BY <1>2, <1>3

LEMMA InsertFits ==
  ASSUME NEW l \in Seq(Chars), NEW n \in Nat, n <= Len(l), NEW ch \in Chars
  PROVE  InsertAt(l, n + 1, ch) \in Seq(Chars) /\ Len(InsertAt(l, n + 1, ch)) = Len(l) + 1
<1>1. Len(l) \in Nat
  OBVIOUS
<1>2. PICK a : a = SubSeq(l, 1, (n + 1) - 1)
  OBVIOUS
<1>3. PICK b : b = SubSeq(l, n + 1, Len(l))
  OBVIOUS
<1>4. a \in Seq(Chars) /\ Len(a) = n
  BY <1>1, <1>2
<1>5. b \in Seq(Chars) /\ Len(b) = Len(l) - n
  BY <1>1, <1>3
<1>6. PICK d : d = a \o <<ch>>
  OBVIOUS
<1>7. d \in Seq(Chars) /\ Len(d) = n + 1
  BY <1>4, <1>6
<1>8. d \o b \in Seq(Chars) /\ Len(d \o b) = Len(d) + Len(b)
  BY <1>5, <1>7
<1>9. InsertAt(l, n + 1, ch) = d \o b
  BY <1>2, <1>3, <1>6 DEF InsertAt
<1>10. Len(d) + Len(b) = Len(l) + 1
  BY <1>1, <1>5, <1>7
<1> QED BY <1>8, <1>9, <1>10

LEMMA RemoveFits ==
  ASSUME NEW l \in Seq(Chars), NEW n \in 1 .. Len(l)
  PROVE  RemoveAt(l, n) \in Seq(Chars) /\ Len(RemoveAt(l, n)) = Len(l) - 1
<1>1. Len(l) \in Nat
  OBVIOUS
<1>2. PICK a : a = SubSeq(l, 1, n - 1)
  OBVIOUS
<1>3. PICK b : b = SubSeq(l, n + 1, Len(l))
  OBVIOUS
<1>4. a \in Seq(Chars) /\ Len(a) = n - 1
  BY <1>1, <1>2
<1>5. b \in Seq(Chars) /\ Len(b) = Len(l) - n
  BY <1>1, <1>3
<1>6. PICK d : d = a \o b
  OBVIOUS
<1>7. d \in Seq(Chars) /\ Len(d) = Len(a) + Len(b)
  <2>1. a \o b \in Seq(Chars) /\ Len(a \o b) = Len(a) + Len(b)
    BY <1>4, <1>5
  <2> QED BY <1>6, <2>1
<1>8. RemoveAt(l, n) = d
  BY <1>2, <1>3, <1>6 DEF RemoveAt
<1>9. Len(d) = Len(l) - 1
  BY <1>1, <1>4, <1>5, <1>7
<1> QED BY <1>7, <1>8, <1>9

LEMMA InsertCharFaithful ==
  ASSUME NEW c, Faithful(c.kb), NEW ch \in Chars
  PROVE  Faithful(InsertChar(c, ch).kb)
<1>1. PICK k : k = c.kb
  OBVIOUS
<1>2. Faithful(k) /\ k \in Keyboards /\ k.line \in Seq(Chars) /\ k.cursor \in Nat /\ k.cursor <= Len(k.line)
  BY <1>1 DEF Faithful, Keyboards
<1>3. PICK l : l = InsertAt(k.line, k.cursor + 1, ch)
  OBVIOUS
<1>4. l \in Seq(Chars) /\ Len(l) = Len(k.line) + 1
  BY <1>2, <1>3, InsertFits
<1>5. k.cursor + 1 \in Nat /\ k.cursor + 1 <= Len(l)
  <2>1. Len(k.line) \in Nat
    BY <1>2
  <2> QED BY <1>2, <1>4, <2>1
<1>6. Faithful(Put(k, 0, l, k.cursor + 1))
  BY <1>2, <1>4, <1>5, EditFaithful
<1>7. [c.kb EXCEPT !.index = 0, !.line = InsertAt(@, c.kb.cursor + 1, ch), !.cursor = @ + 1]
        = Put(k, 0, l, k.cursor + 1)
  BY <1>1, <1>2, <1>3 DEF Put, Keyboards
<1>8. InsertChar(c, ch).kb
        = [c.kb EXCEPT !.index = 0, !.line = InsertAt(@, c.kb.cursor + 1, ch), !.cursor = @ + 1]
  BY RedrawnIs DEF InsertChar
<1> QED BY <1>6, <1>7, <1>8

LEMMA BackspaceFaithful == ASSUME NEW c, Faithful(c.kb) PROVE Faithful(BackspaceChar(c).kb)
<1>1. PICK k : k = c.kb
  OBVIOUS
<1>2. /\ Faithful(k) /\ k \in Keyboards /\ k.line \in Seq(Chars) /\ k.cursor \in Nat
      /\ k.cursor <= Len(k.line) /\ Len(k.line) \in Nat /\ Len(k.history) \in Nat
  BY <1>1 DEF Faithful, Keyboards
<1>3. CASE k.cursor = 0
  <2>1. PICK r : r = [k EXCEPT !.index = 0]
    OBVIOUS
  <2>2. /\ r \in Keyboards /\ r.index = 0 /\ r.history = k.history /\ r.line = k.line /\ r.cursor = k.cursor
    BY <1>2, <2>1 DEF Keyboards
  <2>3. Faithful(r)
    BY <1>2, <2>2 DEF Faithful
  <2>4. BackspaceChar(c).kb = r
    BY <1>1, <1>3, <2>1, PairIs DEF BackspaceChar
  <2> QED BY <2>3, <2>4
<1>4. CASE k.cursor # 0
  <2>1. PICK l : l = RemoveAt(k.line, k.cursor)
    OBVIOUS
  <2>2. k.cursor \in 1 .. Len(k.line)
    BY <1>2, <1>4
  <2>3. l \in Seq(Chars) /\ Len(l) = Len(k.line) - 1
    BY <1>2, <2>1, <2>2, RemoveFits
  <2>4. k.cursor - 1 \in Nat /\ k.cursor - 1 <= Len(l)
    BY <1>2, <2>2, <2>3
  <2>5. Faithful(Put(k, 0, l, k.cursor - 1))
    BY <1>2, <2>3, <2>4, EditFaithful
  <2>6. [c.kb EXCEPT !.index = 0, !.line = RemoveAt(@, c.kb.cursor), !.cursor = @ - 1] = Put(k, 0, l, k.cursor - 1)
    BY <1>1, <1>2, <2>1 DEF Put, Keyboards
  <2>7. BackspaceChar(c).kb = [c.kb EXCEPT !.index = 0, !.line = RemoveAt(@, c.kb.cursor), !.cursor = @ - 1]
    BY <1>1, <1>4, RedrawnIs DEF BackspaceChar
  <2> QED BY <2>5, <2>6, <2>7
<1> QED BY <1>3, <1>4

(* Left and Right move the cursor, within the line. *)
LEMMA MoveFaithful ==
  ASSUME NEW k, Faithful(k), NEW n \in Nat, n <= Len(k.line)
  PROVE  Faithful([k EXCEPT !.cursor = n])
<1>1. PICK r : r = [k EXCEPT !.cursor = n]
  OBVIOUS
<1>2. /\ k \in Keyboards /\ Len(k.history) \in Nat
  BY DEF Faithful, Keyboards
<1>3. r \in Keyboards /\ r.index = k.index /\ r.history = k.history /\ r.line = k.line /\ r.cursor = n
  BY <1>1, <1>2 DEF Keyboards
<1>4. Faithful(r)
  BY <1>3 DEF Faithful
<1> QED BY <1>1, <1>4

LEMMA ArrowFaithful == ASSUME NEW c, Faithful(c.kb), NEW code PROVE Faithful(ArrowKey(c, code).kb)
<1>1. PICK k : k = c.kb
  OBVIOUS
<1>2. /\ Faithful(k) /\ k.cursor \in Nat /\ k.cursor <= Len(k.line) /\ Len(k.line) \in Nat
  BY <1>1 DEF Faithful, Keyboards
<1>3. ASSUME NEW j, Faithful(j) PROVE Faithful(Recall(c, j).kb)
  BY <1>3, RedrawnIs DEF Recall
<1>4. Faithful(Recall(c, RecallOlder(c.kb)).kb) /\ Faithful(Recall(c, RecallNewer(c.kb)).kb)
  BY <1>3, RecallFaithful
<1>5. k.cursor > 0 => Faithful([k EXCEPT !.cursor = @ - 1])
  <2> SUFFICES ASSUME k.cursor > 0 PROVE Faithful([k EXCEPT !.cursor = @ - 1])
    OBVIOUS
  <2>1. PICK n \in Nat : n = k.cursor - 1 /\ n <= Len(k.line)
    BY <1>2
  <2>2. [k EXCEPT !.cursor = @ - 1] = [k EXCEPT !.cursor = n]
    BY <2>1
  <2>3. Faithful([k EXCEPT !.cursor = n])
    BY <1>2, <2>1, MoveFaithful
  <2> QED BY <2>2, <2>3
<1>6. k.cursor < Len(k.line) => Faithful([k EXCEPT !.cursor = @ + 1])
  <2> SUFFICES ASSUME k.cursor < Len(k.line) PROVE Faithful([k EXCEPT !.cursor = @ + 1])
    OBVIOUS
  <2>1. PICK n \in Nat : n = k.cursor + 1 /\ n <= Len(k.line)
    BY <1>2
  <2>2. [k EXCEPT !.cursor = @ + 1] = [k EXCEPT !.cursor = n]
    BY <2>1
  <2>3. Faithful([k EXCEPT !.cursor = n])
    BY <1>2, <2>1, MoveFaithful
  <2> QED BY <2>2, <2>3
<1>7. CASE code = UP
  <2>1. ArrowKey(c, code) = Recall(c, RecallOlder(c.kb))
    BY <1>7 DEF ArrowKey, UP, DOWN, LEFT, RIGHT
  <2> QED BY <1>4, <2>1
<1>8. CASE code = DOWN
  <2>1. ArrowKey(c, code) = Recall(c, RecallNewer(c.kb))
    BY <1>8 DEF ArrowKey, UP, DOWN, LEFT, RIGHT
  <2> QED BY <1>4, <2>1
<1>9. CASE code = LEFT /\ c.kb.cursor > 0
  <2>1. ArrowKey(c, code) = Pair([c.kb EXCEPT !.cursor = @ - 1], CursorLeft(c.screen, 1))
    BY <1>9 DEF ArrowKey, UP, DOWN, LEFT, RIGHT
  <2>2. ArrowKey(c, code).kb = [c.kb EXCEPT !.cursor = @ - 1]
    BY <2>1, PairIs
  <2> QED BY <1>1, <1>5, <1>9, <2>2
<1>10. CASE code = RIGHT /\ c.kb.cursor < Len(c.kb.line)
  <2>1. ArrowKey(c, code) = Pair([c.kb EXCEPT !.cursor = @ + 1], CursorRight(c.screen, 1))
    BY <1>10 DEF ArrowKey, UP, DOWN, LEFT, RIGHT
  <2>2. ArrowKey(c, code).kb = [c.kb EXCEPT !.cursor = @ + 1]
    BY <2>1, PairIs
  <2> QED BY <1>1, <1>6, <1>10, <2>2
<1>11. CASE ~(code = UP \/ code = DOWN \/ (code = LEFT /\ c.kb.cursor > 0) \/ (code = RIGHT /\ c.kb.cursor < Len(c.kb.line)))
  <2>1. ArrowKey(c, code) = c
    BY <1>11 DEF ArrowKey
  <2> QED BY <2>1
<1> QED BY <1>7, <1>8, <1>9, <1>10, <1>11

LEMMA RememberIs ==
  ASSUME NEW h \in Seq(Seq(Chars)), NEW l \in Seq(Chars), \A i \in 1 .. Len(h) : ~IsBlank(h[i])
  PROVE  /\ Remember(h, l) \in Seq(Seq(Chars))
         /\ \A i \in 1 .. Len(Remember(h, l)) : ~IsBlank(Remember(h, l)[i])
<1>1. CASE IsBlank(l)
  BY <1>1 DEF Remember
<1>2. CASE ~IsBlank(l)
  <2>1. PICK g : g = Append(h, l)
    OBVIOUS
  <2>2. /\ g \in Seq(Seq(Chars)) /\ Len(g) = Len(h) + 1 /\ Len(h) \in Nat
        /\ \A i \in 1 .. Len(h) : g[i] = h[i]
        /\ g[Len(h) + 1] = l
    <3> DEFINE S == Seq(Chars)
    <3>1. h \in Seq(S) /\ l \in S
      OBVIOUS
    <3> HIDE DEF S
    <3>2. /\ Append(h, l) \in Seq(S) /\ Len(Append(h, l)) = Len(h) + 1 /\ Len(h) \in Nat
          /\ \A i \in 1 .. Len(h) : Append(h, l)[i] = h[i]
          /\ Append(h, l)[Len(h) + 1] = l
      BY <3>1
    <3> QED BY <2>1, <3>2 DEF S
  <2>3. \A i \in 1 .. Len(g) : i \in 1 .. Len(h) \/ i = Len(h) + 1
    BY <2>2
  <2>4. \A i \in 1 .. Len(g) : ~IsBlank(g[i])
    BY <1>2, <2>2, <2>3
  <2>5. Remember(h, l) = g
    BY <1>2, <2>1 DEF Remember
  <2> QED BY <2>2, <2>4, <2>5
<1> QED BY <1>1, <1>2

LEMMA EnterFaithful == ASSUME NEW c, Faithful(c.kb) PROVE Faithful(EnterLine(c).kb)
<1>1. PICK k : k = c.kb
  OBVIOUS
<1>2. /\ k \in Keyboards /\ k.line \in Seq(Chars) /\ k.history \in Seq(Seq(Chars))
      /\ \A i \in 1 .. Len(k.history) : ~IsBlank(k.history[i])
  BY <1>1 DEF Faithful, Keyboards
<1>3. PICK h : h = Remember(k.history, k.line)
  OBVIOUS
<1>4. h \in Seq(Seq(Chars)) /\ \A i \in 1 .. Len(h) : ~IsBlank(h[i])
  BY <1>2, <1>3, RememberIs
<1>5. <<>> \in Seq(Chars) /\ 0 \in Nat /\ Len(<<>>) = 0 /\ Len(h) \in Nat
  BY <1>4
<1>6. PICK a : a = Put(k, 0, <<>>, 0)
  OBVIOUS
<1>7. a \in Keyboards /\ a.index = 0 /\ a.line = <<>> /\ a.cursor = 0
  <2>1. /\ Put(k, 0, <<>>, 0) \in Keyboards /\ Put(k, 0, <<>>, 0).index = 0
        /\ Put(k, 0, <<>>, 0).line = <<>> /\ Put(k, 0, <<>>, 0).cursor = 0
    <3>1. k \in Keyboards
      BY <1>2
    <3>2. PICK l \in Seq(Chars) : l = <<>>
      BY <1>5, Zenon
    <3>3. PICK z \in Nat : z = 0
      OBVIOUS
    <3>4. /\ Put(k, z, l, z) \in Keyboards /\ Put(k, z, l, z).index = z
          /\ Put(k, z, l, z).line = l /\ Put(k, z, l, z).cursor = z
      BY <3>1, PutIs
    <3> QED BY <3>2, <3>3, <3>4, Zenon
  <2> QED BY <1>6, <2>1, Zenon
<1>8. PICK r : r = [a EXCEPT !.history = h]
  OBVIOUS
<1>9. r \in Keyboards /\ r.index = 0 /\ r.line = <<>> /\ r.cursor = 0 /\ r.history = h
  BY <1>4, <1>7, <1>8 DEF Keyboards
<1>10. Faithful(r)
  BY <1>4, <1>5, <1>9 DEF Faithful
<1>11. [k EXCEPT !.line = <<>>, !.cursor = 0, !.index = 0, !.history = Remember(@, k.line)] = r
  BY <1>2, <1>3, <1>6, <1>8 DEF Put, Keyboards
<1>12. EnterLine(c).kb = [k EXCEPT !.line = <<>>, !.cursor = 0, !.index = 0, !.history = Remember(@, k.line)]
  BY <1>1, PairIs DEF EnterLine
<1> QED BY <1>10, <1>11, <1>12

LEMMA ActFaithful ==
  ASSUME NEW c, Faithful(c.kb), NEW code \in Nat, NEW extended \in BOOLEAN
  PROVE  Faithful(Act(c, code, extended).kb)
<1>1. CASE extended
  BY <1>1, ArrowFaithful DEF Act
<1>2. CASE ~extended /\ code = BACKSPACE
  BY <1>2, BackspaceFaithful DEF Act
<1>3. CASE ~extended /\ code # BACKSPACE /\ code = ENTER
  BY <1>3, EnterFaithful DEF Act
<1>4. CASE ~extended /\ code # BACKSPACE /\ code # ENTER
  <2>1. PICK ch : ch = ScancodeToChar(c.kb.shift, code)
    OBVIOUS
  <2>2. Act(c, code, extended) = IF ch = <<>> THEN c ELSE InsertChar(c, ch[1])
    BY <1>4, <2>1 DEF Act
  <2>3. c.kb.shift \in BOOLEAN
    BY DEF Faithful, Keyboards
  <2>4. ch[1] \in Chars
    BY <2>1, <2>3 DEF Chars
  <2>5. Faithful(InsertChar(c, ch[1]).kb)
    BY <2>4, InsertCharFaithful
  <2> QED BY <2>2, <2>5
<1> QED BY <1>1, <1>2, <1>3, <1>4

(* The bookkeeping of codes touches none of it. *)
LEMMA SameTextFaithful ==
  ASSUME NEW k, Faithful(k), NEW r \in Keyboards,
         r.line = k.line, r.cursor = k.cursor, r.history = k.history, r.index = k.index
  PROVE  Faithful(r)
BY DEF Faithful

LEMMA HandleFaithful ==
  ASSUME NEW k, Faithful(k), NEW s, NEW code \in Nat
  PROVE  Faithful(HandleScancode(Pair(k, s), code).kb)
<1>1. k \in Keyboards
  BY DEF Faithful
<1>2. PICK e : e = [k EXCEPT !.extended = FALSE]
  OBVIOUS
<1>3. PICK n : n = [e EXCEPT !.last = code]
  OBVIOUS
<1>4. /\ e \in Keyboards /\ e.line = k.line /\ e.cursor = k.cursor /\ e.history = k.history /\ e.index = k.index
  BY <1>1, <1>2 DEF Keyboards
<1>5. /\ n \in Keyboards /\ n.line = k.line /\ n.cursor = k.cursor /\ n.history = k.history /\ n.index = k.index
  BY <1>3, <1>4 DEF Keyboards
<1>6. Faithful(n)
  BY <1>5, SameTextFaithful
<1>7. [k EXCEPT !.extended = FALSE, !.last = code] = n
  BY <1>2, <1>3
<1>8. PICK x : x = [k EXCEPT !.extended = TRUE]
  OBVIOUS
<1>9. Faithful(x)
  <2>1. /\ x \in Keyboards /\ x.line = k.line /\ x.cursor = k.cursor /\ x.history = k.history /\ x.index = k.index
    BY <1>1, <1>8 DEF Keyboards
  <2> QED BY <2>1, SameTextFaithful
<1>10. Faithful(ShiftKey(k, code))
  <2>1. PICK b \in BOOLEAN : b = ~IsBreak(code)
    BY DEF IsBreak
  <2>2. PICK a : a = [k EXCEPT !.shift = b]
    OBVIOUS
  <2>3. PICK y : y = [a EXCEPT !.extended = FALSE]
    OBVIOUS
  <2>4. /\ a \in Keyboards /\ a.line = k.line /\ a.cursor = k.cursor /\ a.history = k.history /\ a.index = k.index
    BY <1>1, <2>2 DEF Keyboards
  <2>5. /\ y \in Keyboards /\ y.line = k.line /\ y.cursor = k.cursor /\ y.history = k.history /\ y.index = k.index
    BY <2>3, <2>4 DEF Keyboards
  <2>6. ShiftKey(k, code) = y
    BY <2>1, <2>2, <2>3 DEF ShiftKey
  <2> QED BY <2>5, <2>6, SameTextFaithful
<1>11. Faithful(Act(Pair(n, s), code, k.extended).kb)
  <2>1. k.extended \in BOOLEAN
    BY <1>1 DEF Keyboards
  <2>2. Faithful(Pair(n, s).kb)
    BY <1>6, PairIs
  <2> QED BY <2>1, <2>2, ActFaithful
<1>12. HandleScancode(Pair(k, s), code) =
         IF code = EXTENDED THEN Pair(x, s)
         ELSE IF Make(code) \in SHIFTS THEN Pair(ShiftKey(k, code), s)
         ELSE IF code = k.last \/ IsBreak(code) THEN Pair(n, s)
         ELSE Act(Pair(n, s), code, k.extended)
  BY ZenonT(60), <1>7, <1>8, PairIs DEF HandleScancode
<1> QED BY <1>6, <1>9, <1>10, <1>11, <1>12, PairIs

LEMMA BytesAre ==
  ASSUME NEW key \in Keys, NEW code \in Nat, NEW press \in BOOLEAN
  PROVE  Bytes(key, code, press) \in Seq([code : Nat, press : BOOLEAN, shifted : BOOLEAN])
<1> DEFINE S == [code : Nat, press : BOOLEAN, shifted : BOOLEAN]
<1>1. \A n \in Nat, p \in BOOLEAN : Byte(n, p) \in S
  BY DEF Byte
<1>2. Byte(EXTENDED, FALSE) \in S /\ Byte(code, press) \in S
  BY ZenonT(60), <1>1 DEF EXTENDED
<1> HIDE DEF S
<1>3. <<Byte(EXTENDED, FALSE)>> \in Seq(S) /\ <<Byte(code, press)>> \in Seq(S) /\ <<>> \in Seq(S)
  <2>1. PICK x \in S : x = Byte(EXTENDED, FALSE)
    BY <1>2
  <2>2. PICK y \in S : y = Byte(code, press)
    BY <1>2
  <2>3. <<x>> \in Seq(S) /\ <<y>> \in Seq(S) /\ <<>> \in Seq(S)
    OBVIOUS
  <2> QED BY <2>1, <2>2, <2>3
<1>4. PICK a \in Seq(S) : a = IF key.ext THEN <<Byte(EXTENDED, FALSE)>> ELSE <<>>
  BY <1>3
<1>5. PICK b \in Seq(S) : b = <<Byte(code, press)>>
  BY <1>3
<1>6. a \o b \in Seq(S)
  OBVIOUS
<1>7. Bytes(key, code, press) = a \o b
  BY <1>4, <1>5 DEF Bytes
<1> QED BY <1>6, <1>7 DEF S

LEMMA SendsEditorInv ==
  ASSUME EditorInv, NEW key \in Keys, NEW code \in Nat, NEW press \in BOOLEAN,
         port' = port \o Bytes(key, code, press), kb' = kb, down' \subseteq Keys, recent' \subseteq Keys
  PROVE  EditorInv'
<1> DEFINE S == [code : Nat, press : BOOLEAN, shifted : BOOLEAN]
<1>1. PICK a \in Seq(S) : a = port
  BY DEF EditorInv
<1>2. PICK b \in Seq(S) : b = Bytes(key, code, press)
  BY BytesAre
<1>3. a \o b \in Seq(S)
  <2> HIDE DEF S
  <2> QED OBVIOUS
<1>4. port' \in Seq(S)
  BY <1>1, <1>2, <1>3
<1> QED BY <1>4 DEF EditorInv

LEMMA NextEditorInv == ASSUME EditorInv, [Next]_vars PROVE EditorInv'
<1>1. \A key \in Keys : key.code \in Nat /\ key.code + 128 \in Nat
  BY KeysAssumption
<1>2. ASSUME NEW key \in Keys, Press(key) PROVE EditorInv'
  <2>1. port' = port \o Bytes(key, key.code, TRUE) /\ kb' = kb /\ down' \subseteq Keys /\ recent' \subseteq Keys
    BY <1>2 DEF Press, EditorInv
  <2> QED BY <1>1, <2>1, SendsEditorInv
<1>3. ASSUME NEW key \in Keys, Release(key) PROVE EditorInv'
  <2>1. port' = port \o Bytes(key, key.code + 128, FALSE) /\ kb' = kb /\ down' \subseteq Keys /\ recent' \subseteq Keys
    BY <1>3 DEF Release, EditorInv
  <2> QED BY <1>1, <2>1, SendsEditorInv
<1>4. CASE Repeat
  <2>1. PICK key \in Keys : port' = port \o Bytes(key, key.code, FALSE)
    BY <1>4 DEF Repeat, EditorInv
  <2>2. kb' = kb /\ down' \subseteq Keys /\ recent' \subseteq Keys
    BY <1>4 DEF Repeat, EditorInv
  <2> QED BY <1>1, <2>1, <2>2, SendsEditorInv
<1>5. CASE Interrupt
  <2> DEFINE S == [code : Nat, press : BOOLEAN, shifted : BOOLEAN]
  <2>1. /\ port # <<>> /\ kb' = HandleScancode(Pair(kb, screen), Head(port).code).kb
        /\ port' = Tail(port) /\ UNCHANGED <<down, recent>>
    BY <1>5 DEF Interrupt
  <2>2. Head(port) \in S /\ Tail(port) \in Seq(S)
    <3>1. port \in Seq(S)
      BY DEF EditorInv
    <3> HIDE DEF S
    <3> QED BY <2>1, <3>1
  <2>3. Head(port).code \in Nat
    BY <2>2
  <2>4. Faithful(kb')
    BY <2>1, <2>3, HandleFaithful DEF EditorInv
  <2> QED BY <2>1, <2>2, <2>4 DEF EditorInv
<1>6. CASE UNCHANGED vars
  BY <1>6 DEF vars, EditorInv
<1> QED BY <1>2, <1>3, <1>4, <1>5, <1>6 DEF Next

LEMMA InitEditorInv == ASSUME Init PROVE EditorInv
<1>1. kb = NewKeyboard /\ down = {} /\ recent = {} /\ port = <<>>
  BY DEF Init
<1>2. <<>> \in Seq(Chars) /\ <<>> \in Seq(Seq(Chars)) /\ Len(<<>>) = 0
  OBVIOUS
<1>3. kb \in Keyboards /\ kb.index = 0 /\ kb.cursor = 0 /\ kb.line = <<>> /\ kb.history = <<>>
  BY <1>1, <1>2 DEF NewKeyboard, Keyboards
<1>4. Faithful(kb)
  BY <1>2, <1>3 DEF Faithful
<1> QED BY <1>1, <1>4 DEF EditorInv

(***************************************************************************)
(* The inductive invariant of the line editor, for any keys, any order in  *)
(* which they go down, repeat and go up, overlapping or not, and lines and *)
(* histories of any length.                                                *)
(***************************************************************************)
THEOREM EditorInvariance == Spec => []EditorInv
<1>1. Init => EditorInv
  BY InitEditorInv
<1>2. EditorInv /\ [Next]_vars => EditorInv'
  BY NextEditorInv
<1> QED BY <1>1, <1>2, PTL DEF Spec

(***************************************************************************)
(* While history_index points at an entry the line is that entry, no entry *)
(* is blank, and the cursor stays where insert and remove do not panic.    *)
(***************************************************************************)
THEOREM HistoryRight == Spec => []HistoryFaithful
<1>1. EditorInv => HistoryFaithful
  <2> SUFFICES ASSUME EditorInv PROVE HistoryFaithful
    OBVIOUS
  <2>1. DOMAIN kb.history = 1 .. Len(kb.history)
    BY DEF EditorInv, Faithful, Keyboards
  <2> QED BY <2>1 DEF EditorInv, Faithful, HistoryFaithful
<1> QED BY <1>1, EditorInvariance, PTL


-----------------------------------------------------------------------------
(* Console, the bytes under way.  What handle_scancode remembers of codes  *)
(* is the last one and Shift; After is its next value, Fits says that it   *)
(* tells a press from the rest.                                            *)

Sent   == [code : Nat, press : BOOLEAN, shifted : BOOLEAN]
Codes == [last : Nat, shift : BOOLEAN]

OfShift(b) == Make(b.code) \in SHIFTS
OfKey(b)   == b.code # EXTENDED /\ ~OfShift(b)

After(m, b) ==
  [last  |-> IF OfKey(b) THEN b.code ELSE m.last,
   shift |-> IF OfShift(b) THEN ~IsBreak(b.code) ELSE m.shift]

Fits(m, b) ==
  OfKey(b) => IF b.press THEN b.code # m.last /\ ~IsBreak(b.code) /\ b.shifted = m.shift
                         ELSE b.code = m.last \/ IsBreak(b.code)

(* Handling the bytes of q leads from m to n, and each fits on the way. *)
Leads(q, m, n) ==
  \E f \in [0 .. Len(q) -> Codes] :
    /\ f[0] = m /\ f[Len(q)] = n
    /\ \A i \in 1 .. Len(q) : Fits(f[i - 1], q[i]) /\ f[i] = After(f[i - 1], q[i])

Remembered(k) == [last |-> k.last, shift |-> k.shift]

(* Once every byte is handled, the driver knows which keys are down. *)
Caught(n) ==
  /\ \A key \in down : ~IsShift(key) => n.last = key.code
  /\ (\A key \in down : IsShift(key)) => n.last = 0 \/ n.last >= 128
  /\ n.shift <=> \E key \in down : IsShift(key)

OneOfAKind == \A j, k \in down : (IsShift(j) <=> IsShift(k)) => j = k

TypedInv ==
  /\ EditorInv /\ recent \subseteq down /\ OneOfAKind
  /\ \E n \in Codes : Leads(port, Remembered(kb), n) /\ Caught(n)

LEMMA LeadsEmpty == ASSUME NEW m \in Codes PROVE Leads(<<>>, m, m)
<1>1. PICK f : f = [i \in 0 .. 0 |-> m]
  OBVIOUS
<1>2. f \in [0 .. Len(<<>>) -> Codes] /\ f[0] = m /\ f[Len(<<>>)] = m
  BY <1>1
<1>3. \A i \in 1 .. Len(<<>>) : FALSE
  OBVIOUS
<1> QED BY <1>2, <1>3 DEF Leads

LEMMA LeadsAppend ==
  ASSUME NEW q \in Seq(Sent), NEW b \in Sent, NEW m, NEW n, Leads(q, m, n),
         Fits(n, b), After(n, b) \in Codes
  PROVE  Leads(Append(q, b), m, After(n, b))
<1>1. PICK f \in [0 .. Len(q) -> Codes] :
        /\ f[0] = m /\ f[Len(q)] = n
        /\ \A i \in 1 .. Len(q) : Fits(f[i - 1], q[i]) /\ f[i] = After(f[i - 1], q[i])
  BY DEF Leads
<1>2. PICK k \in Nat : k = Len(q)
  OBVIOUS
<1>3. PICK p : p = Append(q, b)
  OBVIOUS
<1>4. Len(p) = k + 1 /\ p[k + 1] = b /\ \A i \in 1 .. k : p[i] = q[i]
  BY <1>2, <1>3
<1>5. PICK g : g = [i \in 0 .. k + 1 |-> IF i = k + 1 THEN After(n, b) ELSE f[i]]
  OBVIOUS
<1>6. g \in [0 .. k + 1 -> Codes] /\ g[0] = m /\ g[k + 1] = After(n, b) /\ g[k] = n
  BY <1>1, <1>2, <1>5
<1>7. \A i \in 1 .. k : g[i] = f[i] /\ g[i - 1] = f[i - 1]
  BY <1>2, <1>5
<1>8. ASSUME NEW i \in 1 .. k + 1 PROVE Fits(g[i - 1], p[i]) /\ g[i] = After(g[i - 1], p[i])
  <2>1. CASE i = k + 1
    <3>1. i - 1 = k
      BY <2>1
    <3> QED BY <1>4, <1>6, <2>1, <3>1
  <2>2. CASE i \in 1 .. k
    BY <1>1, <1>2, <1>4, <1>7, <2>2
  <2> QED BY <2>1, <2>2
<1> QED BY <1>3, <1>4, <1>6, <1>8 DEF Leads

LEMMA LeadsTail ==
  ASSUME NEW q \in Seq(Sent), q # <<>>, NEW m, NEW n, Leads(q, m, n)
  PROVE  Fits(m, Head(q)) /\ Leads(Tail(q), After(m, Head(q)), n)
<1>1. PICK f \in [0 .. Len(q) -> Codes] :
        /\ f[0] = m /\ f[Len(q)] = n
        /\ \A i \in 1 .. Len(q) : Fits(f[i - 1], q[i]) /\ f[i] = After(f[i - 1], q[i])
  BY DEF Leads
<1>2. PICK k \in Nat : Len(q) = k + 1
  <2>1. Len(q) \in Nat /\ Len(q) # 0
    OBVIOUS
  <2> QED BY <2>1
<1>3. PICK p : p = Tail(q)
  OBVIOUS
<1>4. Len(p) = k /\ Head(q) = q[1] /\ \A i \in 1 .. k : p[i] = q[i + 1]
  BY <1>2, <1>3
<1>5. Fits(m, q[1]) /\ f[1] = After(m, q[1])
  <2>1. 1 \in 1 .. Len(q) /\ 1 - 1 = 0
    BY <1>2
  <2> QED BY <1>1, <2>1
<1>6. PICK g : g = [i \in 0 .. k |-> f[i + 1]]
  OBVIOUS
<1>7. g \in [0 .. k -> Codes] /\ g[0] = After(m, q[1]) /\ g[k] = n
  BY <1>1, <1>2, <1>5, <1>6
<1>8. ASSUME NEW i \in 1 .. k PROVE Fits(g[i - 1], p[i]) /\ g[i] = After(g[i - 1], p[i])
  <2>1. i + 1 \in 1 .. Len(q) /\ (i + 1) - 1 = i /\ (i - 1) + 1 = i /\ i - 1 \in 0 .. k /\ i \in 0 .. k
    BY <1>2
  <2>2. g[i - 1] = f[i] /\ g[i] = f[i + 1]
    BY <1>6, <2>1
  <2>3. Fits(f[(i + 1) - 1], q[i + 1]) /\ f[i + 1] = After(f[(i + 1) - 1], q[i + 1])
    BY <1>1, <2>1
  <2> QED BY <1>4, <2>1, <2>2, <2>3
<1> QED BY <1>3, <1>4, <1>5, <1>7, <1>8 DEF Leads

LEMMA AfterKey ==
  ASSUME NEW m \in Codes, NEW b \in Sent, OfKey(b)
  PROVE  After(m, b) \in Codes /\ After(m, b).last = b.code /\ After(m, b).shift = m.shift
BY DEF After, OfKey, Codes, Sent

LEMMA AfterShift ==
  ASSUME NEW m \in Codes, NEW b \in Sent, OfShift(b)
  PROVE  /\ Fits(m, b) /\ After(m, b) \in Codes /\ After(m, b).last = m.last
         /\ After(m, b).shift <=> ~IsBreak(b.code)
<1>1. ~OfKey(b)
  BY DEF OfKey
<1>2. PICK s \in BOOLEAN : s = ~IsBreak(b.code)
  BY DEF IsBreak
<1>3. After(m, b) = [last |-> m.last, shift |-> s]
  BY <1>1, <1>2 DEF After
<1>4. Fits(m, b)
  BY <1>1 DEF Fits
<1>5. After(m, b) \in Codes /\ After(m, b).last = m.last /\ After(m, b).shift = s
  BY <1>3 DEF Codes
<1> QED BY <1>2, <1>4, <1>5

LEMMA AfterPrefix ==
  ASSUME NEW m \in Codes, NEW b \in Sent, b.code = EXTENDED
  PROVE  Fits(m, b) /\ After(m, b) = m
<1>1. ~OfKey(b)
  BY DEF OfKey
<1>2. ~OfShift(b)
  BY DEF OfShift, Make, EXTENDED, SHIFTS
<1>3. After(m, b) = [last |-> m.last, shift |-> m.shift]
  BY <1>1, <1>2 DEF After
<1> QED BY <1>1, <1>3 DEF Fits, Codes

LEMMA AfterIs == ASSUME NEW m \in Codes, NEW b \in Sent PROVE After(m, b) \in Codes
BY AfterKey, AfterShift, AfterPrefix DEF OfKey

LEMMA KeyCodes ==
  ASSUME NEW key \in Keys
  PROVE  /\ key.code \in 1 .. 95 /\ key.code \in Nat /\ key.code + 128 \in Nat
         /\ ~IsBreak(key.code) /\ IsBreak(key.code + 128)
         /\ IsShift(key) <=> key.code \in SHIFTS
BY KeysAssumption DEF IsBreak, IsShift, SHIFTS

LEMMA KeyByte ==
  ASSUME NEW key \in Keys, NEW b, b.code = key.code \/ b.code = key.code + 128
  PROVE  (OfShift(b) <=> IsShift(key)) /\ (OfKey(b) <=> ~IsShift(key))
<1>1. Make(b.code) = key.code /\ b.code # EXTENDED
  BY KeyCodes DEF Make, EXTENDED
<1> QED BY <1>1, KeyCodes DEF OfShift, OfKey

LEMMA ByteIs ==
  ASSUME NEW code \in Nat, NEW press \in BOOLEAN
  PROVE  /\ Byte(code, press) \in Sent /\ Byte(code, press).code = code /\ Byte(code, press).press = press
         /\ Byte(code, press).shifted <=> \E k \in down : IsShift(k)
<1>1. PICK s \in BOOLEAN : s = \E k \in down : IsShift(k)
  OBVIOUS
<1>2. Byte(code, press) = [code |-> code, press |-> press, shifted |-> s]
  BY <1>1 DEF Byte
<1> QED BY <1>1, <1>2 DEF Sent

LEMMA TwoMore ==
  ASSUME NEW q \in Seq(Sent), NEW p \in Sent, NEW b \in Sent
  PROVE  q \o (<<p>> \o <<b>>) = Append(Append(q, p), b)
<1>1. PICK w : w = <<p>> \o <<b>>
  OBVIOUS
<1>2. w \in Seq(Sent) /\ Len(w) = 2 /\ w[1] = p /\ w[2] = b
  <2>1. <<p>> \in Seq(Sent) /\ Len(<<p>>) = 1 /\ <<p>>[1] = p
    OBVIOUS
  <2>2. <<b>> \in Seq(Sent) /\ Len(<<b>>) = 1 /\ <<b>>[1] = b
    OBVIOUS
  <2> QED BY <1>1, <2>1, <2>2
<1>3. PICK k \in Nat : k = Len(q)
  OBVIOUS
<1>4. PICK x : x = Append(q, p)
  OBVIOUS
<1>5. x \in Seq(Sent) /\ Len(x) = k + 1 /\ x[k + 1] = p /\ \A i \in 1 .. k : x[i] = q[i]
  BY <1>3, <1>4
<1>6. PICK y : y = Append(x, b)
  OBVIOUS
<1>7. y \in Seq(Sent) /\ Len(y) = k + 2 /\ y[k + 2] = b /\ \A i \in 1 .. k + 1 : y[i] = x[i]
  BY <1>5, <1>6
<1>8. PICK z : z = q \o w
  OBVIOUS
<1>9. z \in Seq(Sent) /\ Len(z) = k + 2 /\ \A i \in 1 .. k : z[i] = q[i]
  <2>1. z \in Seq(Sent)
    BY <1>2, <1>8
  <2>2. Len(z) = Len(q) + Len(w)
    <3>1. w \in Seq(Sent)
      BY <1>2
    <3> QED BY <1>8, <3>1
  <2>3. \A i \in 1 .. Len(q) : z[i] = q[i]
    BY <1>2, <1>8
  <2> QED BY <1>2, <1>3, <2>1, <2>2, <2>3
<1>10. z[k + 1] = p /\ z[k + 2] = b
  <2>1. \A i \in 1 .. Len(w) : z[Len(q) + i] = w[i]
    <3>1. w \in Seq(Sent)
      BY <1>2
    <3> QED BY <1>8, <3>1
  <2>2. z[k + 1] = w[1] /\ z[k + 2] = w[2]
    BY <1>2, <1>3, <2>1
  <2> QED BY <1>2, <2>2
<1>11. \A i \in 1 .. k + 2 : z[i] = y[i]
  <2> SUFFICES ASSUME NEW i \in 1 .. k + 2 PROVE z[i] = y[i]
    OBVIOUS
  <2>1. i \in 1 .. k \/ i = k + 1 \/ i = k + 2
    OBVIOUS
  <2>2. y[k + 1] = p /\ y[k + 2] = b /\ \A j \in 1 .. k : y[j] = q[j]
    BY <1>5, <1>7
  <2> QED BY <1>9, <1>10, <2>1, <2>2
<1>12. z = y
  BY <1>7, <1>9, <1>11
<1> QED BY <1>1, <1>4, <1>6, <1>8, <1>12

LEMMA SendLeads ==
  ASSUME port \in Seq(Sent), NEW m, NEW n \in Codes, Leads(port, m, n), NEW key \in Keys,
         NEW code \in Nat, NEW press \in BOOLEAN, NEW b, b = Byte(code, press), Fits(n, b)
  PROVE  Leads(port \o Bytes(key, code, press), m, After(n, b))
<1>1. b \in Sent /\ After(n, b) \in Codes
  BY ByteIs, AfterIs
<1>2. PICK p \in Sent : p = Byte(EXTENDED, FALSE) /\ p.code = EXTENDED
  BY ZenonT(60), ByteIs DEF EXTENDED
<1>3. CASE key.ext
  <2>1. Leads(Append(port, p), m, n)
    <3>1. Fits(n, p) /\ After(n, p) = n
      BY <1>2, AfterPrefix
    <3> QED BY <3>1, LeadsAppend
  <2>2. PICK q : q = Append(port, p)
    OBVIOUS
  <2>3. q \in Seq(Sent)
    BY <2>2
  <2>4. Leads(Append(q, b), m, After(n, b))
    BY <1>1, <2>1, <2>2, <2>3, LeadsAppend
  <2>5. Bytes(key, code, press) = <<p>> \o <<b>>
    BY <1>2, <1>3 DEF Bytes
  <2>6. port \o (<<p>> \o <<b>>) = Append(q, b)
    BY <1>1, <1>2, <2>2, TwoMore
  <2> QED BY <2>4, <2>5, <2>6
<1>4. CASE ~key.ext
  <2>1. Leads(Append(port, b), m, After(n, b))
    BY <1>1, LeadsAppend
  <2>2. Bytes(key, code, press) = <<>> \o <<b>>
    BY <1>4 DEF Bytes
  <2>3. port \o (<<>> \o <<b>>) = Append(port, b)
    BY <1>1
  <2> QED BY <2>1, <2>2, <2>3
<1> QED BY <1>3, <1>4

(* A key sends its bytes. *)
LEMMA SendTyped ==
  ASSUME TypedInv, EditorInv', NEW n \in Codes, Leads(port, Remembered(kb), n), NEW key \in Keys,
         NEW code \in Nat, NEW press \in BOOLEAN, NEW b, b = Byte(code, press), Fits(n, b),
         port' = port \o Bytes(key, code, press), kb' = kb,
         Caught(After(n, b))', (recent \subseteq down)', OneOfAKind'
  PROVE  TypedInv'
<1>1. port \in Seq(Sent)
  BY DEF TypedInv, EditorInv, Sent
<1>2. Leads(port \o Bytes(key, code, press), Remembered(kb), After(n, b))
  BY <1>1, SendLeads
<1>3. Leads(port', Remembered(kb'), After(n, b))
  BY <1>2
<1>4. After(n, b) \in Codes
  BY ByteIs, AfterIs
<1> QED BY <1>3, <1>4 DEF TypedInv

LEMMA PressTyped ==
  ASSUME TypedInv, EditorInv', ~Rollover, NEW key \in Keys, Press(key)
  PROVE  TypedInv'
<1>1. PICK n \in Codes : Leads(port, Remembered(kb), n) /\ Caught(n)
  BY DEF TypedInv
<1>2. PICK b : b = Byte(key.code, TRUE)
  OBVIOUS
<1>3. /\ b \in Sent /\ b.code = key.code /\ b.press = TRUE /\ b.shifted \in BOOLEAN
      /\ b.shifted <=> \E k \in down : IsShift(k)
  BY <1>2, ByteIs, KeyCodes DEF Sent
<1>4. \A k \in down : IsShift(k) <=> ~IsShift(key)
  <2>1. \A k : IsShift(k) \in BOOLEAN
    BY DEF IsShift
  <2>2. \A k \in down : IsShift(k) # IsShift(key)
    BY DEF Press, MayGoDown
  <2> QED BY <2>1, <2>2
<1>5. /\ down' = down \cup {key} /\ recent' = {key} /\ kb' = kb
      /\ port' = port \o Bytes(key, key.code, TRUE)
  BY DEF Press
<1>6. (recent \subseteq down)' /\ OneOfAKind'
  BY <1>4, <1>5 DEF OneOfAKind, TypedInv
<1>7. Fits(n, b) /\ Caught(After(n, b))'
  <2>1. CASE IsShift(key)
    <3>1. OfShift(b)
      BY <1>3, <2>1, KeyByte
    <3>2. PICK a : a = After(n, b)
      OBVIOUS
    <3>3. Fits(n, b) /\ a.last = n.last /\ (a.shift <=> ~IsBreak(b.code))
      BY <1>3, <3>1, <3>2, AfterShift
    <3>4. ~IsBreak(b.code)
      BY <1>3, KeyCodes
    <3>5. Caught(a)'
      BY <1>1, <1>5, <2>1, <3>3, <3>4 DEF Caught
    <3> QED BY <3>2, <3>3, <3>5
  <2>2. CASE ~IsShift(key)
    <3>1. OfKey(b)
      BY <1>3, <2>2, KeyByte
    <3>2. PICK a : a = After(n, b)
      OBVIOUS
    <3>3. a.last = key.code /\ a.shift = n.shift
      BY <1>3, <3>1, <3>2, AfterKey
    <3>4. \A k \in down : IsShift(k)
      BY <1>4, <2>2
    <3>5. key.code # n.last /\ ~IsBreak(key.code)
      BY <1>1, <3>4, KeyCodes DEF Caught
    <3>6. b.shifted = n.shift
      <4>1. n.shift \in BOOLEAN
        BY DEF Codes
      <4>2. b.shifted <=> n.shift
        BY <1>1, <1>3 DEF Caught
      <4> QED BY <1>3, <4>1, <4>2
    <3>7. Fits(n, b)
      BY <1>3, <3>1, <3>5, <3>6 DEF Fits
    <3>8. Caught(a)'
      BY <1>1, <1>5, <2>2, <3>3, <3>4 DEF Caught
    <3> QED BY <3>2, <3>7, <3>8
  <2> QED BY <2>1, <2>2
<1> QED BY <1>1, <1>2, <1>5, <1>6, <1>7, KeyCodes, SendTyped

LEMMA RepeatTyped ==
  ASSUME TypedInv, EditorInv', Repeat
  PROVE  TypedInv'
<1>1. PICK n \in Codes : Leads(port, Remembered(kb), n) /\ Caught(n)
  BY DEF TypedInv
<1>2. PICK key \in recent : port' = port \o Bytes(key, key.code, FALSE)
  BY DEF Repeat
<1>3. key \in Keys /\ key \in down
  BY DEF TypedInv, EditorInv
<1>4. PICK b : b = Byte(key.code, FALSE)
  OBVIOUS
<1>5. b \in Sent /\ b.code = key.code /\ b.press = FALSE
  BY <1>3, <1>4, ByteIs, KeyCodes
<1>6. down' = down /\ recent' = recent /\ kb' = kb
  BY DEF Repeat
<1>7. (recent \subseteq down)' /\ OneOfAKind'
  BY <1>6 DEF OneOfAKind, TypedInv
<1>8. Fits(n, b) /\ Caught(After(n, b))'
  <2>1. CASE IsShift(key)
    <3>1. OfShift(b)
      BY <1>3, <1>5, <2>1, KeyByte
    <3>2. PICK a : a = After(n, b)
      OBVIOUS
    <3>3. Fits(n, b) /\ a.last = n.last /\ (a.shift <=> ~IsBreak(b.code))
      BY <1>5, <3>1, <3>2, AfterShift
    <3>4. ~IsBreak(b.code)
      BY <1>3, <1>5, KeyCodes
    <3>5. Caught(a)'
      BY <1>1, <1>3, <1>6, <2>1, <3>3, <3>4 DEF Caught
    <3> QED BY <3>2, <3>3, <3>5
  <2>2. CASE ~IsShift(key)
    <3>1. OfKey(b)
      BY <1>3, <1>5, <2>2, KeyByte
    <3>2. PICK a : a = After(n, b)
      OBVIOUS
    <3>3. a.last = key.code /\ a.shift = n.shift
      BY <1>5, <3>1, <3>2, AfterKey
    <3>4. n.last = key.code
      BY <1>1, <1>3, <2>2 DEF Caught
    <3>5. Fits(n, b)
      BY <1>5, <3>4 DEF Fits
    <3>6. Caught(a)'
      BY <1>1, <1>6, <3>3, <3>4 DEF Caught
    <3> QED BY <3>2, <3>5, <3>6
  <2> QED BY <2>1, <2>2
<1> QED BY <1>1, <1>2, <1>3, <1>4, <1>6, <1>7, <1>8, KeyCodes, SendTyped

LEMMA ReleaseTyped ==
  ASSUME TypedInv, EditorInv', NEW key \in Keys, Release(key)
  PROVE  TypedInv'
<1>1. PICK n \in Codes : Leads(port, Remembered(kb), n) /\ Caught(n)
  BY DEF TypedInv
<1>2. PICK b : b = Byte(key.code + 128, FALSE)
  OBVIOUS
<1>3. b \in Sent /\ b.code = key.code + 128 /\ b.press = FALSE /\ IsBreak(b.code)
  BY <1>2, ByteIs, KeyCodes
<1>4. /\ key \in down /\ down' = down \ {key} /\ recent' = recent \ {key} /\ kb' = kb
      /\ port' = port \o Bytes(key, key.code + 128, FALSE)
  BY DEF Release
<1>5. (recent \subseteq down)' /\ OneOfAKind'
  BY <1>4 DEF OneOfAKind, TypedInv
<1>6. \A k \in down' : k \in down /\ (IsShift(k) <=> ~IsShift(key))
  BY <1>4 DEF OneOfAKind, TypedInv
<1>7. Fits(n, b) /\ Caught(After(n, b))'
  <2>1. CASE IsShift(key)
    <3>1. OfShift(b)
      BY <1>3, <2>1, KeyByte
    <3>2. PICK a : a = After(n, b)
      OBVIOUS
    <3>3. Fits(n, b) /\ a.last = n.last /\ ~a.shift
      BY <1>3, <3>1, <3>2, AfterShift
    <3>4. (\A k \in down' : IsShift(k)) => \A k \in down : IsShift(k)
      BY <1>4, <2>1
    <3>5. Caught(a)'
      BY <1>1, <1>6, <2>1, <3>3, <3>4 DEF Caught
    <3> QED BY <3>2, <3>3, <3>5
  <2>2. CASE ~IsShift(key)
    <3>1. OfKey(b)
      BY <1>3, <2>2, KeyByte
    <3>2. PICK a : a = After(n, b)
      OBVIOUS
    <3>3. a.last = key.code + 128 /\ a.shift = n.shift
      BY <1>3, <3>1, <3>2, AfterKey
    <3>4. key.code + 128 >= 128
      BY KeyCodes
    <3>5. Fits(n, b)
      BY <1>3 DEF Fits
    <3>6. (\E k \in down' : IsShift(k)) <=> \E k \in down : IsShift(k)
      BY <1>4, <2>2
    <3>7. Caught(a)'
      BY <1>1, <1>6, <2>2, <3>3, <3>4, <3>6 DEF Caught
    <3> QED BY <3>2, <3>5, <3>7
  <2> QED BY <2>1, <2>2
<1> QED BY <1>1, <1>2, <1>4, <1>5, <1>7, KeyCodes, SendTyped

(* The actions of keys leave last_scancode and shift_down alone. *)
LEMMA ActRemembers ==
  ASSUME NEW c, Faithful(c.kb), NEW code \in Nat, NEW extended \in BOOLEAN
  PROVE  Act(c, code, extended).kb.last = c.kb.last /\ Act(c, code, extended).kb.shift = c.kb.shift
<1>1. PICK k : k = c.kb
  OBVIOUS
<1>2. k \in Keyboards
  BY <1>1 DEF Faithful
<1> DEFINE Same(j) == j.last = k.last /\ j.shift = k.shift
<1>3. \A i, l : Same(Show(k, i, l))
  BY <1>2 DEF Show, Keyboards
<1>4. Same(RecallOlder(k)) /\ Same(RecallNewer(k))
  <2> HIDE DEF Same
  <2>1. Same(k)
    BY DEF Same
  <2> QED BY <1>3, <2>1 DEF RecallOlder, RecallNewer
<1>5. \A j : Same(j) => Same(Recall(c, j).kb)
  BY <1>1, RedrawnIs DEF Recall
<1>6. Same(ArrowKey(c, code).kb)
  <2>1. Same([k EXCEPT !.cursor = @ - 1]) /\ Same([k EXCEPT !.cursor = @ + 1]) /\ Same(k)
    BY <1>2 DEF Keyboards
  <2>2. Same(Recall(c, RecallOlder(k)).kb) /\ Same(Recall(c, RecallNewer(k)).kb)
    <3> HIDE DEF Same
    <3> QED BY <1>4, <1>5
  <2> HIDE DEF Same
  <2> QED BY <1>1, <2>1, <2>2, PairIs DEF ArrowKey, UP, DOWN, LEFT, RIGHT
<1>7. ASSUME NEW ch PROVE Same(InsertChar(c, ch).kb)
  <2>1. PICK j : j = [k EXCEPT !.index = 0, !.line = InsertAt(@, k.cursor + 1, ch), !.cursor = @ + 1]
    OBVIOUS
  <2>2. Same(j)
    BY <1>2, <2>1 DEF Keyboards
  <2>3. InsertChar(c, ch).kb = j
    BY <1>1, <2>1, RedrawnIs DEF InsertChar
  <2> QED BY <2>2, <2>3
<1>8. Same(BackspaceChar(c).kb)
  <2>1. PICK j : j = [k EXCEPT !.index = 0, !.line = RemoveAt(@, k.cursor), !.cursor = @ - 1]
    OBVIOUS
  <2>2. Same(j) /\ Same([k EXCEPT !.index = 0])
    BY <1>2, <2>1 DEF Keyboards
  <2>3. BackspaceChar(c).kb = IF k.cursor = 0 THEN [k EXCEPT !.index = 0] ELSE j
    BY <1>1, <2>1, RedrawnIs, PairIs DEF BackspaceChar
  <2> QED BY <2>2, <2>3
<1>9. Same(EnterLine(c).kb)
  <2>1. PICK j : j = [k EXCEPT !.line = <<>>, !.cursor = 0, !.index = 0, !.history = Remember(@, k.line)]
    OBVIOUS
  <2>2. Same(j)
    BY <1>2, <2>1 DEF Keyboards
  <2>3. EnterLine(c).kb = j
    BY <1>1, <2>1, PairIs DEF EnterLine
  <2> QED BY <2>2, <2>3
<1>10. Same(c.kb)
  BY <1>1
<1> HIDE DEF Same
<1>11. Same(Act(c, code, extended).kb)
  BY <1>6, <1>7, <1>8, <1>9, <1>10 DEF Act
<1> QED BY <1>1, <1>11 DEF Same

(* handle_scancode by the kind of byte. *)
Prefixed(k)   == [k EXCEPT !.extended = TRUE]
Note(k, code) == [k EXCEPT !.extended = FALSE, !.last = code]

LEMMA HandleCases ==
  ASSUME NEW k, NEW s, NEW b \in Sent, NEW r, r = HandleScancode(Pair(k, s), b.code)
  PROVE  /\ b.code = EXTENDED => r = Pair(Prefixed(k), s)
         /\ OfShift(b) => r = Pair(ShiftKey(k, b.code), s)
         /\ OfKey(b) /\ (b.code = k.last \/ IsBreak(b.code)) => r = Pair(Note(k, b.code), s)
         /\ OfKey(b) /\ b.code # k.last /\ ~IsBreak(b.code) => r = Act(Pair(Note(k, b.code), s), b.code, k.extended)
<1>1. r = IF b.code = EXTENDED THEN Pair(Prefixed(k), s)
          ELSE IF Make(b.code) \in SHIFTS THEN Pair(ShiftKey(k, b.code), s)
          ELSE IF b.code = k.last \/ IsBreak(b.code) THEN Pair(Note(k, b.code), s)
          ELSE Act(Pair(Note(k, b.code), s), b.code, k.extended)
  <2>1. Pair(k, s).kb = k /\ Pair(k, s).screen = s
    BY PairIs
  <2> QED BY <2>1, ZenonT(60) DEF HandleScancode, Prefixed, Note
<1>2. OfShift(b) => b.code # EXTENDED
  BY DEF OfShift, Make, SHIFTS, EXTENDED
<1>3. OfKey(b) => b.code # EXTENDED /\ Make(b.code) \notin SHIFTS
  BY DEF OfKey, OfShift
<1>4. OfShift(b) => Make(b.code) \in SHIFTS
  BY DEF OfShift
<1> QED BY <1>1, <1>2, <1>3, <1>4

LEMMA Noted ==
  ASSUME NEW k, Faithful(k), NEW code \in Nat
  PROVE  /\ Faithful(Note(k, code)) /\ Note(k, code).last = code /\ Note(k, code).shift = k.shift
         /\ Edited(Note(k, code)) = Edited(k)
<1>1. k \in Keyboards
  BY DEF Faithful
<1>2. PICK e : e = [k EXCEPT !.extended = FALSE]
  OBVIOUS
<1>3. /\ e \in Keyboards /\ e.line = k.line /\ e.cursor = k.cursor /\ e.history = k.history /\ e.index = k.index
      /\ e.shift = k.shift
  BY <1>1, <1>2 DEF Keyboards
<1>4. PICK n : n = [e EXCEPT !.last = code]
  OBVIOUS
<1>5. /\ n \in Keyboards /\ n.line = k.line /\ n.cursor = k.cursor /\ n.history = k.history /\ n.index = k.index
      /\ n.last = code /\ n.shift = k.shift
  BY <1>3, <1>4 DEF Keyboards
<1>6. Faithful(n)
  BY <1>5, SameTextFaithful
<1>7. Note(k, code) = n
  BY <1>2, <1>4 DEF Note
<1> QED BY <1>5, <1>6, <1>7 DEF Edited

LEMMA ShiftKeyIs ==
  ASSUME NEW k \in Keyboards, NEW code \in Nat
  PROVE  /\ ShiftKey(k, code).last = k.last /\ Edited(ShiftKey(k, code)) = Edited(k)
         /\ ShiftKey(k, code).shift = ~IsBreak(code)
<1>1. PICK h \in BOOLEAN : h = ~IsBreak(code)
  BY DEF IsBreak
<1>2. PICK a : a = [k EXCEPT !.shift = h]
  OBVIOUS
<1>3. PICK y : y = [a EXCEPT !.extended = FALSE]
  OBVIOUS
<1>4. /\ a \in Keyboards /\ a.line = k.line /\ a.cursor = k.cursor /\ a.history = k.history /\ a.index = k.index
      /\ a.last = k.last /\ a.shift = h
  BY <1>2 DEF Keyboards
<1>5. /\ y.line = k.line /\ y.cursor = k.cursor /\ y.history = k.history /\ y.index = k.index
      /\ y.last = k.last /\ y.shift = h
  BY <1>3, <1>4 DEF Keyboards
<1>6. ShiftKey(k, code) = y
  BY <1>1, <1>2, <1>3 DEF ShiftKey
<1> QED BY <1>1, <1>5, <1>6 DEF Edited

LEMMA HandleRemembers ==
  ASSUME NEW k, Faithful(k), NEW s, NEW b \in Sent, NEW r, r = HandleScancode(Pair(k, s), b.code)
  PROVE  Remembered(r.kb) = After(Remembered(k), b)
<1>1. k \in Keyboards /\ b.code \in Nat /\ Remembered(k) \in Codes
      /\ Remembered(k).last = k.last /\ Remembered(k).shift = k.shift
  BY DEF Faithful, Keyboards, Sent, Remembered, Codes
<1>2. PICK n : n = Note(k, b.code)
  OBVIOUS
<1>3. CASE b.code = EXTENDED
  <2>1. PICK x : x = Prefixed(k)
    OBVIOUS
  <2>2. x.last = k.last /\ x.shift = k.shift
    BY <1>1, <2>1 DEF Keyboards, Prefixed
  <2>3. r.kb = x
    <3>1. r = Pair(Prefixed(k), s)
      BY <1>3, HandleCases
    <3> QED BY <2>1, <3>1, PairIs
  <2>4. After(Remembered(k), b) = Remembered(k)
    BY <1>1, <1>3, AfterPrefix
  <2> QED BY <2>2, <2>3, <2>4 DEF Remembered
<1>4. CASE OfShift(b)
  <2>1. r.kb = ShiftKey(k, b.code)
    BY SMTT(30), <1>4, HandleCases, PairIs
  <2>2. ~OfKey(b)
    BY <1>4 DEF OfKey
  <2>3. After(Remembered(k), b) = [last |-> k.last, shift |-> ~IsBreak(b.code)]
    BY <1>1, <1>4, <2>2 DEF After
  <2>4. r.kb.last = k.last /\ r.kb.shift = ~IsBreak(b.code)
    BY <1>1, <2>1, ShiftKeyIs
  <2> QED BY <2>3, <2>4 DEF Remembered
<1>5. CASE OfKey(b)
  <2>1. Faithful(n) /\ n.last = b.code /\ n.shift = k.shift
    BY <1>1, <1>2, Noted
  <2>2. r.kb.last = b.code /\ r.kb.shift = k.shift
    <3>1. CASE b.code = k.last \/ IsBreak(b.code)
      <4>1. r.kb = n
        BY <1>2, <1>5, <3>1, HandleCases, PairIs
      <4> QED BY <2>1, <4>1
    <3>2. CASE b.code # k.last /\ ~IsBreak(b.code)
      <4>1. r = Act(Pair(n, s), b.code, k.extended)
        BY <1>2, <1>5, <3>2, HandleCases
      <4>2. PICK c : c = Pair(n, s)
        OBVIOUS
      <4>3. c.kb = n /\ k.extended \in BOOLEAN
        BY <1>1, <4>2, PairIs DEF Keyboards
      <4>4. Act(c, b.code, k.extended).kb.last = n.last /\ Act(c, b.code, k.extended).kb.shift = n.shift
        BY <1>1, <2>1, <4>3, ActRemembers
      <4> QED BY <2>1, <4>1, <4>2, <4>4
    <3> QED BY <3>1, <3>2
  <2>3. ~OfShift(b)
    BY <1>5 DEF OfKey
  <2>4. After(Remembered(k), b) = [last |-> b.code, shift |-> k.shift]
    BY <1>1, <1>5, <2>3 DEF After
  <2> QED BY <2>2, <2>4 DEF Remembered
<1> QED BY <1>3, <1>4, <1>5 DEF OfKey

LEMMA InterruptTyped ==
  ASSUME TypedInv, EditorInv', Interrupt
  PROVE  TypedInv'
<1>1. PICK n \in Codes : Leads(port, Remembered(kb), n) /\ Caught(n)
  BY DEF TypedInv
<1>2. port \in Seq(Sent) /\ Faithful(kb)
  BY DEF TypedInv, EditorInv, Sent
<1>3. /\ port # <<>> /\ port' = Tail(port) /\ down' = down /\ recent' = recent
      /\ kb' = HandleScancode(Pair(kb, screen), Head(port).code).kb
  BY DEF Interrupt
<1>4. Head(port) \in Sent
  BY <1>2, <1>3
<1>5. Leads(Tail(port), After(Remembered(kb), Head(port)), n)
  BY <1>1, <1>2, <1>3, LeadsTail
<1>6. Remembered(kb') = After(Remembered(kb), Head(port))
  BY <1>2, <1>3, <1>4, HandleRemembers
<1>7. Leads(port', Remembered(kb'), n)
  BY <1>3, <1>5, <1>6
<1>8. Caught(n)' /\ (recent \subseteq down)' /\ OneOfAKind'
  BY <1>1, <1>3 DEF Caught, OneOfAKind, TypedInv
<1> QED BY <1>7, <1>8 DEF TypedInv

LEMMA NextTypedInv == ASSUME ~Rollover, TypedInv, [Next]_vars PROVE TypedInv'
<1>1. EditorInv'
  BY NextEditorInv DEF TypedInv
<1>2. CASE UNCHANGED vars
  BY <1>1, <1>2 DEF vars, TypedInv, Caught, OneOfAKind
<1> QED BY <1>1, <1>2, PressTyped, ReleaseTyped, RepeatTyped, InterruptTyped DEF Next

LEMMA InitTypedInv == ASSUME Init PROVE TypedInv
<1>1. EditorInv
  BY InitEditorInv
<1>2. down = {} /\ recent = {} /\ port = <<>> /\ kb = NewKeyboard
  BY DEF Init
<1>3. PICK m \in Codes : m = Remembered(kb) /\ m.last = 0 /\ ~m.shift
  <2>1. Remembered(kb) = [last |-> 0, shift |-> FALSE]
    BY <1>2 DEF NewKeyboard, Remembered
  <2>2. Remembered(kb) \in Codes /\ Remembered(kb).last = 0 /\ Remembered(kb).shift = FALSE
    BY <2>1 DEF Codes
  <2> QED BY <2>2
<1>4. Leads(port, Remembered(kb), m)
  BY <1>2, <1>3, LeadsEmpty
<1>5. Caught(m)
  BY <1>2, <1>3 DEF Caught
<1>6. recent \subseteq down /\ OneOfAKind
  BY <1>2 DEF OneOfAKind
<1> QED BY <1>1, <1>4, <1>5, <1>6 DEF TypedInv

(* What a step of the handler does with a byte that fits. *)
LEMMA NotPressed ==
  ASSUME NEW k, Faithful(k), NEW s, NEW b \in Sent, NEW r, r = HandleScancode(Pair(k, s), b.code),
         Fits(Remembered(k), b), ~b.press
  PROVE  Edited(r.kb) = Edited(k) /\ r.screen = s
<1>1. k \in Keyboards /\ b.code \in Nat
  BY DEF Faithful, Sent
<1>2. CASE b.code = EXTENDED
  <2>1. r = Pair(Prefixed(k), s)
    BY <1>2, HandleCases
  <2>2. Edited(Prefixed(k)) = Edited(k)
    BY <1>1 DEF Edited, Prefixed, Keyboards
  <2> QED BY <2>1, <2>2, PairIs
<1>3. CASE OfShift(b)
  <2>1. r = Pair(ShiftKey(k, b.code), s)
    BY <1>3, HandleCases
  <2>2. Edited(ShiftKey(k, b.code)) = Edited(k)
    BY <1>1, ShiftKeyIs
  <2> QED BY <2>1, <2>2, PairIs
<1>4. CASE OfKey(b)
  <2>1. b.code = k.last \/ IsBreak(b.code)
    BY <1>4 DEF Fits, Remembered
  <2>2. r = Pair(Note(k, b.code), s)
    BY <1>4, <2>1, HandleCases
  <2>3. Edited(Note(k, b.code)) = Edited(k)
    BY <1>1, Noted
  <2> QED BY <2>2, <2>3, PairIs
<1> QED BY <1>2, <1>3, <1>4 DEF OfKey

(* Codes that are no character. *)
LEMMA NoCharacter ==
  ASSUME NEW shift, NEW code \in Nat, code \in {EXTENDED, ENTER, BACKSPACE} \/ Make(code) \in SHIFTS
  PROVE  ScancodeToChar(shift, code) = <<>>
<1>1. /\ code \notin 2 .. 11 /\ code # 12 /\ code \notin 16 .. 25 /\ code \notin 30 .. 38 /\ code # 41
      /\ code \notin 44 .. 53 /\ code # 57
  BY DEF EXTENDED, ENTER, BACKSPACE, Make, SHIFTS
<1> QED BY <1>1 DEF ScancodeToChar

LEMMA EnterKey ==
  ASSUME NEW c, Faithful(c.kb)
  PROVE  /\ EnterLine(c).kb.line = <<>>
         /\ ~IsBlank(c.kb.line) => Last(EnterLine(c).kb.history) = c.kb.line
<1>1. PICK k : k = c.kb
  OBVIOUS
<1>2. k \in Keyboards /\ k.line \in Seq(Chars) /\ k.history \in Seq(Seq(Chars))
  BY <1>1 DEF Faithful, Keyboards
<1>3. PICK h : h = Remember(k.history, k.line)
  OBVIOUS
<1>4. PICK r : r = [k EXCEPT !.line = <<>>, !.cursor = 0, !.index = 0, !.history = h]
  OBVIOUS
<1>5. r.line = <<>> /\ r.history = h
  BY <1>2, <1>4 DEF Keyboards
<1>6. EnterLine(c).kb = r
  BY <1>1, <1>3, <1>4, PairIs DEF EnterLine
<1>7. ~IsBlank(k.line) => Last(h) = k.line
  <2>1. ~IsBlank(k.line) => h = Append(k.history, k.line)
    BY <1>3 DEF Remember
  <2>2. Append(k.history, k.line)[Len(Append(k.history, k.line))] = k.line
    BY <1>2
  <2> QED BY <2>1, <2>2 DEF Last
<1> QED BY <1>1, <1>5, <1>6, <1>7

LEMMA UpKey ==
  ASSUME NEW c, Faithful(c.kb)
  PROVE  ArrowKey(c, UP).kb.index # 0 \/ c.kb.history = <<>>
<1>1. PICK k : k = c.kb
  OBVIOUS
<1>2. k \in Keyboards /\ k.index \in Nat /\ k.history \in Seq(Seq(Chars))
  BY <1>1 DEF Faithful, Keyboards
<1>3. ArrowKey(c, UP).kb = RecallOlder(k)
  <2>1. ArrowKey(c, UP) = Recall(c, RecallOlder(c.kb))
    BY DEF ArrowKey, UP, DOWN, LEFT, RIGHT
  <2> QED BY <1>1, <2>1, RedrawnIs DEF Recall
<1>4. PICK i : i = IF k.index = 0 THEN Len(k.history) ELSE k.index - 1
  OBVIOUS
<1>5. RecallOlder(k) = IF i = 0 THEN k ELSE Show(k, i, k.history[i])
  BY <1>4 DEF RecallOlder
<1>6. Show(k, i, k.history[i]).index = i
  BY <1>2 DEF Show, Keyboards
<1>7. Len(k.history) = 0 => k.history = <<>>
  BY <1>2
<1>8. CASE i = 0
  BY <1>1, <1>3, <1>4, <1>5, <1>7, <1>8
<1>9. CASE i # 0
  BY <1>3, <1>5, <1>6, <1>9
<1> QED BY <1>8, <1>9

LEMMA Pressed ==
  ASSUME NEW k, Faithful(k), NEW s, NEW b \in Sent, NEW r, r = HandleScancode(Pair(k, s), b.code),
         Fits(Remembered(k), b), b.press,
         NEW ch, ch = IF k.extended THEN <<>> ELSE ScancodeToChar(b.shifted, b.code)
  PROVE  /\ ch # <<>> => r.kb.line = InsertAt(k.line, k.cursor + 1, ch[1])
         /\ b.code = ENTER /\ ~k.extended =>
              r.kb.line = <<>> /\ (~IsBlank(k.line) => Last(r.kb.history) = k.line)
         /\ b.code = UP /\ k.extended => r.kb.index # 0 \/ k.history = <<>>
<1>1. k \in Keyboards /\ b.code \in Nat /\ k.extended \in BOOLEAN
  BY DEF Faithful, Keyboards, Sent
<1>2. CASE b.code = EXTENDED \/ OfShift(b)
  <2>1. ch = <<>>
    BY <1>1, <1>2, NoCharacter DEF OfShift
  <2>2. b.code # ENTER /\ b.code # UP
    BY <1>1, <1>2 DEF OfShift, Make, SHIFTS, EXTENDED, ENTER, UP
  <2> QED BY <2>1, <2>2
<1>3. CASE OfKey(b)
  <2>1. b.code # k.last /\ ~IsBreak(b.code) /\ b.shifted = k.shift
    BY <1>3 DEF Fits, Remembered
  <2>2. PICK n : n = Note(k, b.code)
    OBVIOUS
  <2>3. Faithful(n) /\ n.shift = k.shift /\ Edited(n) = Edited(k)
    BY <1>1, <2>2, Noted
  <2>4. n.line = k.line /\ n.cursor = k.cursor /\ n.history = k.history
    BY <2>3 DEF Edited
  <2>5. PICK c : c = Pair(n, s)
    OBVIOUS
  <2>6. c.kb = n
    BY <2>5, PairIs
  <2>7. r = Act(c, b.code, k.extended)
    BY <1>3, <2>1, <2>2, <2>5, HandleCases
  <2>8. CASE k.extended
    <3>1. r = ArrowKey(c, b.code)
      BY <2>7, <2>8 DEF Act
    <3>2. ch = <<>>
      BY <2>8
    <3>3. b.code = UP => r.kb.index # 0 \/ k.history = <<>>
      BY <2>3, <2>4, <2>6, <3>1, UpKey
    <3> QED BY <2>8, <3>2, <3>3
  <2>9. CASE ~k.extended /\ b.code = BACKSPACE
    <3>1. ch = <<>>
      BY <1>1, <2>9, NoCharacter
    <3> QED BY <2>9, <3>1 DEF BACKSPACE, ENTER
  <2>10. CASE ~k.extended /\ b.code = ENTER
    <3>1. r = EnterLine(c)
      BY <2>7, <2>10 DEF Act, ENTER, BACKSPACE
    <3>2. ch = <<>>
      BY <1>1, <2>10, NoCharacter
    <3>3. r.kb.line = <<>> /\ (~IsBlank(k.line) => Last(r.kb.history) = k.line)
      BY <2>3, <2>4, <2>6, <3>1, EnterKey
    <3> QED BY <2>10, <3>2, <3>3
  <2>11. CASE ~k.extended /\ b.code # BACKSPACE /\ b.code # ENTER
    <3>1. ch = ScancodeToChar(n.shift, b.code)
      BY <2>1, <2>3, <2>11
    <3>2. r = IF ch = <<>> THEN c ELSE InsertChar(c, ch[1])
      BY <2>6, <2>7, <2>11, <3>1 DEF Act
    <3>3. PICK j : j = [n EXCEPT !.index = 0, !.line = InsertAt(@, n.cursor + 1, ch[1]), !.cursor = @ + 1]
      OBVIOUS
    <3>4. InsertChar(c, ch[1]).kb = j
      BY <2>6, <3>3, RedrawnIs DEF InsertChar
    <3>5. n \in Keyboards
      BY <2>3 DEF Faithful
    <3>6. j.line = InsertAt(n.line, n.cursor + 1, ch[1])
      BY <3>3, <3>5 DEF Keyboards
    <3> QED BY <2>4, <2>11, <3>2, <3>4, <3>6
  <2> QED BY <1>1, <2>8, <2>9, <2>10, <2>11
<1> QED BY <1>2, <1>3 DEF OfKey

(* The step that TypedAsPressed speaks of. *)
TypedStep ==
  port # <<>> /\ port' = Tail(port) =>
    LET b == Head(port)
        ch == IF kb.extended THEN <<>> ELSE ScancodeToChar(b.shifted, b.code)
    IN  IF ~b.press THEN Edited(kb') = Edited(kb) /\ screen' = screen
        ELSE /\ ch # <<>> => kb'.line = InsertAt(kb.line, kb.cursor + 1, ch[1])
             /\ b.code = ENTER /\ ~kb.extended =>
                  kb'.line = <<>> /\ (~IsBlank(kb.line) => Last(kb'.history) = kb.line)
             /\ b.code = UP /\ kb.extended => kb'.index # 0 \/ kb.history = <<>>

LEMMA OnlyInterruptTakes ==
  ASSUME TypedInv, Next, port # <<>>, port' = Tail(port)
  PROVE  Interrupt
<1>1. port \in Seq(Sent) /\ Len(Tail(port)) < Len(port)
  <2>1. port \in Seq(Sent)
    BY DEF TypedInv, EditorInv, Sent
  <2> QED BY <2>1
<1>2. ASSUME NEW key \in Keys, NEW code \in Nat, NEW press \in BOOLEAN, port' = port \o Bytes(key, code, press)
      PROVE  FALSE
  <2>1. Bytes(key, code, press) \in Seq(Sent)
    BY BytesAre DEF Sent
  <2>2. PICK w \in Seq(Sent) : w = Bytes(key, code, press)
    BY <2>1
  <2>3. Len(port \o w) = Len(port) + Len(w) /\ Len(w) \in Nat /\ Len(port) \in Nat
    BY <1>1
  <2> QED BY <1>1, <1>2, <2>2, <2>3
<1>3. \A key \in Keys : ~Press(key)
  BY <1>2, KeyCodes DEF Press
<1>4. \A key \in Keys : ~Release(key)
  BY <1>2, KeyCodes DEF Release
<1>5. ~Repeat
  <2>1. recent \subseteq Keys
    BY DEF TypedInv, EditorInv
  <2> QED BY <1>2, <2>1, KeyCodes DEF Repeat
<1> QED BY <1>3, <1>4, <1>5 DEF Next

LEMMA NextTyped == ASSUME TypedInv, [Next]_vars PROVE [TypedStep]_vars
<1> SUFFICES ASSUME Next, port # <<>>, port' = Tail(port) PROVE TypedStep
  BY DEF TypedStep
<1>1. Interrupt
  BY OnlyInterruptTakes
<1>2. PICK b : b = Head(port)
  OBVIOUS
<1>3. PICK k : k = kb
  OBVIOUS
<1>4. PICK r : r = HandleScancode(Pair(k, screen), b.code)
  OBVIOUS
<1>5. kb' = r.kb /\ screen' = r.screen
  BY <1>1, <1>2, <1>3, <1>4 DEF Interrupt
<1>6. Faithful(k) /\ b \in Sent /\ Fits(Remembered(k), b) /\ b.press \in BOOLEAN
  <2>1. PICK n \in Codes : Leads(port, Remembered(kb), n)
    BY DEF TypedInv
  <2>2. port \in Seq(Sent) /\ Faithful(kb)
    BY DEF TypedInv, EditorInv, Sent
  <2>3. Fits(Remembered(kb), Head(port))
    BY <2>1, <2>2, LeadsTail
  <2>4. Head(port) \in Sent
    BY <2>2
  <2> QED BY <1>2, <1>3, <2>2, <2>3, <2>4 DEF Sent
<1>7. CASE ~b.press
  <2>1. Edited(r.kb) = Edited(k) /\ r.screen = screen
    BY <1>4, <1>6, <1>7, NotPressed
  <2> QED BY <1>2, <1>3, <1>5, <1>7, <2>1 DEF TypedStep
<1>8. CASE b.press
  <2>1. PICK ch : ch = IF k.extended THEN <<>> ELSE ScancodeToChar(b.shifted, b.code)
    OBVIOUS
  <2>2. /\ ch # <<>> => r.kb.line = InsertAt(k.line, k.cursor + 1, ch[1])
        /\ b.code = ENTER /\ ~k.extended =>
             r.kb.line = <<>> /\ (~IsBlank(k.line) => Last(r.kb.history) = k.line)
        /\ b.code = UP /\ k.extended => r.kb.index # 0 \/ k.history = <<>>
    BY <1>4, <1>6, <1>8, <2>1, Pressed
  <2> QED BY <1>2, <1>3, <1>5, <1>8, <2>1, <2>2, Zenon DEF TypedStep
<1> QED BY <1>6, <1>7, <1>8

(***************************************************************************)
(* The inductive invariant of driver, keyboard and the bytes between them, *)
(* for any keys and any number of bytes held back, when keys do not        *)
(* overlap.                                                                *)
(***************************************************************************)
THEOREM TypingInvariance == ~Rollover /\ Spec => []TypedInv
<1>1. Init => TypedInv
  BY InitTypedInv
<1>2. ~Rollover /\ TypedInv /\ [Next]_vars => TypedInv'
  BY NextTypedInv
<1>3. CASE ~Rollover
  <2>1. TypedInv /\ [Next]_vars => TypedInv'
    BY <1>2, <1>3
  <2> QED BY <1>1, <2>1, PTL DEF Spec
<1>4. CASE Rollover
  BY <1>4
<1> QED BY <1>3, <1>4

(***************************************************************************)
(* handle_scancode acts once each time a key goes down, as the key that it *)
(* is and in the case Shift gave it then; repetitions, prefixes and keys   *)
(* going up change nothing.  With keys that overlap this is false: see the *)
(* run of MCRollover.                                                      *)
(***************************************************************************)
THEOREM TypedRight == ~Rollover /\ Spec => TypedAsPressed
<1>1. CASE ~Rollover
  <2>1. Spec => []TypedInv
    BY <1>1, TypingInvariance
  <2>2. TypedInv /\ [Next]_vars => [TypedStep]_vars
    BY NextTyped
  <2>3. Spec => [][TypedStep]_vars
    BY <2>1, <2>2, PTL DEF Spec
  <2> QED BY <2>3, PTL DEF TypedAsPressed, TypedStep
<1>2. CASE Rollover
  BY <1>2
<1> QED BY <1>1, <1>2

-----------------------------------------------------------------------------
(* Console, the screen.  write_string is a loop; what it leaves is shown   *)
(* by induction on the number of bytes written.                            *)

(* A set of numbers has a least one: the principle of induction used here. *)
LEMMA LeastOf ==
  ASSUME NEW T, T \subseteq Nat, T # {}
  PROVE  \E x \in T : \A y \in T : x <= y
<1> DEFINE R == {ss \in Nat \X Nat : ss[1] < ss[2]}
<1>1. IsWellFoundedOn(R, Nat)
  BY NatLessThanWellFounded, Zenon DEF OpToRel
<1>2. PICK x \in T : \A y \in T : ~(<<y, x>> \in R)
  <2> HIDE DEF R
  <2> QED BY <1>1, WFMin, Zenon
<1>3. \A y \in T : ~(y < x)
  BY <1>2
<1> QED BY <1>3

(* The equation of Written holds: some function satisfies it. *)
Stages(s, text, n, f) ==
  f = [k \in 0 .. n |-> IF k = 0 THEN s ELSE WriteByte(f[k - 1], text[k])]

LEMMA StagesExist == ASSUME NEW s, NEW text, NEW n \in Nat PROVE \E f : Stages(s, text, n, f)
<1>1. PICK T : T = {k \in Nat : ~\E f : Stages(s, text, k, f)}
  OBVIOUS
<1>2. SUFFICES ASSUME T # {} PROVE FALSE
  BY <1>1
<1>3. PICK k \in T : \A j \in T : k <= j
  BY <1>1, <1>2, LeastOf
<1>4. k \in Nat /\ ~\E f : Stages(s, text, k, f)
  BY <1>1
<1>5. CASE k = 0
  <2>1. PICK f : f = [i \in 0 .. 0 |-> s]
    OBVIOUS
  <2>2. Stages(s, text, 0, f)
    BY <2>1 DEF Stages
  <2> QED BY <1>4, <1>5, <2>2
<1>6. CASE k # 0
  <2>1. PICK j \in Nat : k = j + 1
    BY <1>4, <1>6
  <2>2. j \notin T
    BY <1>3, <2>1
  <2>3. PICK f : Stages(s, text, j, f)
    BY <1>1, <2>2
  <2>4. \A i \in 0 .. j : f[i] = IF i = 0 THEN s ELSE WriteByte(f[i - 1], text[i])
    BY <2>3 DEF Stages
  <2>5. PICK v : v = WriteByte(f[j], text[k])
    OBVIOUS
  <2>6. PICK g : g = [i \in 0 .. k |-> IF i = k THEN v ELSE f[i]]
    OBVIOUS
  <2>7. \A i \in 0 .. j : g[i] = f[i]
    BY <2>1, <2>6
  <2>8. ASSUME NEW i \in 0 .. k PROVE g[i] = IF i = 0 THEN s ELSE WriteByte(g[i - 1], text[i])
    <3>1. CASE i = k
      <4>1. g[i] = v /\ i - 1 = j /\ g[j] = f[j] /\ i # 0
        BY <1>6, <2>1, <2>6, <2>7, <3>1
      <4> QED BY <2>5, <3>1, <4>1
    <3>2. CASE i = 0
      BY <2>4, <2>7, <3>2
    <3>3. CASE i \in 1 .. j
      <4>1. i - 1 \in 0 .. j /\ i \in 0 .. j /\ i # 0
        BY <3>3
      <4> QED BY <2>4, <2>7, <4>1
    <3> QED BY <2>1, <3>1, <3>2, <3>3
  <2>9. Stages(s, text, k, g)
    BY <2>6, <2>8 DEF Stages
  <2> QED BY <1>4, <2>9
<1> QED BY <1>5, <1>6

LEMMA WrittenIs ==
  ASSUME NEW s, NEW text, Len(text) \in Nat
  PROVE  /\ Written(s, text)[0] = s
         /\ \A k \in 1 .. Len(text) : Written(s, text)[k] = WriteByte(Written(s, text)[k - 1], text[k])
<1>1. PICK n \in Nat : n = Len(text)
  OBVIOUS
<1>2. PICK w : w = Written(s, text)
  OBVIOUS
<1>3. w = CHOOSE f : f = [k \in 0 .. n |-> IF k = 0 THEN s ELSE WriteByte(f[k - 1], text[k])]
  BY <1>1, <1>2, Zenon DEF Written
<1>4. \E f : f = [k \in 0 .. n |-> IF k = 0 THEN s ELSE WriteByte(f[k - 1], text[k])]
  <2>1. PICK f : Stages(s, text, n, f)
    BY StagesExist, Zenon
  <2> QED BY <2>1, Zenon DEF Stages
<1>5. w = [k \in 0 .. n |-> IF k = 0 THEN s ELSE WriteByte(w[k - 1], text[k])]
  BY <1>3, <1>4, Zenon
<1>6. \A k \in 0 .. n : w[k] = IF k = 0 THEN s ELSE WriteByte(w[k - 1], text[k])
  BY <1>5
<1>7. w[0] = s /\ \A k \in 1 .. n : w[k] = WriteByte(w[k - 1], text[k])
  BY <1>6
<1> QED BY <1>1, <1>2, <1>7

Cells   == Chars \cup {" ", ">"}
Screens == [row : [1 .. Width -> Cells], col : 0 .. Width, wrapped : BOOLEAN]

LEMMA BlankIs == NewLine \in Screens /\ NewLine.row = Blank /\ NewLine.col = 0 /\ NewLine.wrapped = FALSE
<1>1. Blank \in [1 .. Width -> Cells]
  BY DEF Blank, Cells
<1>2. 0 \in 0 .. Width
  BY WidthAssumption
<1> QED BY <1>1, <1>2 DEF NewLine, Screens

(* write_byte. *)
LEMMA WriteByteIs ==
  ASSUME NEW s \in Screens, NEW ch \in Cells, NEW r, r = WriteByte(s, ch)
  PROVE  /\ r \in Screens
         /\ s.wrapped \/ s.col >= Width => r.wrapped
         /\ ~s.wrapped /\ s.col < Width =>
              /\ ~r.wrapped /\ r.col = s.col + 1
              /\ \A i \in 1 .. Width : r.row[i] = IF i = s.col + 1 THEN ch ELSE s.row[i]
<1>1. PICK t : t = IF s.col >= Width THEN [NewLine EXCEPT !.wrapped = TRUE] ELSE s
  OBVIOUS
<1>2. t \in Screens /\ t.col < Width /\ (s.col >= Width => t.wrapped = TRUE)
  <2>1. CASE s.col >= Width
    <3>1. t = [NewLine EXCEPT !.wrapped = TRUE]
      BY <1>1, <2>1
    <3>2. t \in Screens /\ t.col = 0 /\ t.wrapped = TRUE
      BY <3>1, BlankIs DEF Screens
    <3> QED BY <3>2, WidthAssumption
  <2>2. CASE ~(s.col >= Width)
    <3>1. s.col \in 0 .. Width
      BY DEF Screens
    <3> QED BY <1>1, <2>2, <3>1, WidthAssumption
  <2> QED BY <2>1, <2>2
<1>3. PICK c \in 0 .. Width : c = t.col
  BY <1>2 DEF Screens
<1>4. PICK w : w = [t.row EXCEPT ![c + 1] = ch]
  OBVIOUS
<1>5. /\ w \in [1 .. Width -> Cells]
      /\ \A i \in 1 .. Width : w[i] = IF i = c + 1 THEN ch ELSE t.row[i]
  <2>1. t.row \in [1 .. Width -> Cells]
    BY <1>2 DEF Screens
  <2> QED BY <1>4, <2>1
<1>6. PICK a : a = [t EXCEPT !.row = w]
  OBVIOUS
<1>7. a \in Screens /\ a.row = w /\ a.col = c /\ a.wrapped = t.wrapped
  BY <1>2, <1>3, <1>5, <1>6 DEF Screens
<1>8. c + 1 \in 0 .. Width
  BY <1>2, <1>3, WidthAssumption
<1>9. PICK z : z = [a EXCEPT !.col = c + 1]
  OBVIOUS
<1>10. z \in Screens /\ z.row = w /\ z.col = c + 1 /\ z.wrapped = t.wrapped
  BY <1>7, <1>8, <1>9 DEF Screens
<1>11. r = z
  <2>1. r = [t EXCEPT !.row[t.col + 1] = ch, !.col = @ + 1]
    BY <1>1 DEF WriteByte
  <2> QED BY <1>2, <1>3, <1>4, <1>6, <1>9, <2>1 DEF Screens
<1>12. s.wrapped \/ s.col >= Width => r.wrapped
  BY <1>1, <1>2, <1>10, <1>11
<1>13. CASE ~s.wrapped /\ s.col < Width
  <2>1. t = s
    <3>1. s.col \in 0 .. Width
      BY DEF Screens
    <3> QED BY <1>1, <1>13, <3>1, WidthAssumption
  <2> QED BY <1>3, <1>5, <1>10, <1>11, <1>12, <1>13, <2>1
<1> QED BY <1>10, <1>11, <1>12, <1>13

(* What write_string has done once n bytes are out. *)
Out(s, text, n, w) ==
  /\ w \in Screens
  /\ s.wrapped \/ s.col + n > Width => w.wrapped
  /\ ~s.wrapped /\ s.col + n <= Width =>
       /\ ~w.wrapped /\ w.col = s.col + n
       /\ \A i \in 1 .. Width :
            w.row[i] = IF s.col < i /\ i <= s.col + n THEN text[i - s.col] ELSE s.row[i]

LEMMA OutNone == ASSUME NEW s \in Screens, NEW text PROVE Out(s, text, 0, s)
<1>1. s.col \in 0 .. Width
  BY DEF Screens
<1> QED BY <1>1, WidthAssumption DEF Out

LEMMA OutOne ==
  ASSUME NEW s \in Screens, NEW text, NEW n \in Nat, NEW w, Out(s, text, n, w),
         NEW ch \in Cells, ch = text[n + 1], NEW r, r = WriteByte(w, ch)
  PROVE  Out(s, text, n + 1, r)
<1>1. PICK c \in Nat : c = s.col /\ c <= Width
  BY WidthAssumption DEF Screens
<1>2. w \in Screens /\ Width \in Nat
  BY WidthAssumption DEF Out
<1>3. r \in Screens /\ (w.wrapped \/ w.col >= Width => r.wrapped)
  BY <1>2, WriteByteIs
<1>4. CASE s.wrapped
  BY <1>3, <1>4 DEF Out
<1>5. CASE ~s.wrapped /\ c + n >= Width
  <2>1. w.wrapped \/ w.col >= Width
    <3>1. CASE c + n = Width
      <4>1. w.col = c + n
        BY <1>1, <1>2, <1>5, <3>1 DEF Out
      <4> QED BY <1>2, <3>1, <4>1
    <3>2. CASE c + n > Width
      BY <1>1, <3>2 DEF Out
    <3> QED BY <1>2, <1>5, <3>1, <3>2
  <2>2. r.wrapped
    BY <1>3, <2>1
  <2>3. ~(c + (n + 1) <= Width)
    BY <1>2, <1>5
  <2> QED BY <1>1, <1>3, <2>2, <2>3 DEF Out
<1>6. CASE ~s.wrapped /\ c + n < Width
  <2>1. /\ ~w.wrapped /\ w.col = c + n
        /\ \A i \in 1 .. Width : w.row[i] = IF c < i /\ i <= c + n THEN text[i - c] ELSE s.row[i]
    BY <1>1, <1>2, <1>6 DEF Out
  <2>2. /\ ~r.wrapped /\ r.col = c + n + 1
        /\ \A i \in 1 .. Width : r.row[i] = IF i = c + n + 1 THEN ch ELSE w.row[i]
    BY <1>2, <1>6, <2>1, WriteByteIs
  <2>3. ASSUME NEW i \in 1 .. Width
        PROVE  r.row[i] = IF c < i /\ i <= c + (n + 1) THEN text[i - c] ELSE s.row[i]
    <3>1. CASE i = c + n + 1
      <4>1. i - c = n + 1 /\ c < i /\ i <= c + (n + 1)
        BY <3>1
      <4> QED BY <2>2, <3>1, <4>1
    <3>2. CASE i # c + n + 1
      <4>1. (c < i /\ i <= c + (n + 1)) <=> (c < i /\ i <= c + n)
        BY <3>2
      <4> QED BY <2>1, <2>2, <3>2, <4>1
    <3> QED BY <3>1, <3>2
  <2>4. ~(c + (n + 1) > Width) /\ c + n + 1 = c + (n + 1)
    BY <1>2, <1>6
  <2> QED BY <1>1, <1>3, <1>6, <2>2, <2>3, <2>4 DEF Out
<1> QED BY <1>1, <1>2, <1>4, <1>5, <1>6

LEMMA WriteIs ==
  ASSUME NEW s \in Screens, NEW text \in Seq(Cells)
  PROVE  Out(s, text, Len(text), Write(s, text))
<1>1. PICK n \in Nat : n = Len(text)
  OBVIOUS
<1>2. PICK w : w = Written(s, text)
  OBVIOUS
<1>3. w[0] = s /\ \A k \in 1 .. n : w[k] = WriteByte(w[k - 1], text[k])
  BY <1>1, <1>2, WrittenIs
<1>4. \A k \in 0 .. n : Out(s, text, k, w[k])
  <2>1. PICK T : T = {k \in 0 .. n : ~Out(s, text, k, w[k])}
    OBVIOUS
  <2>2. SUFFICES ASSUME T # {} PROVE FALSE
    BY <2>1
  <2>3. T \subseteq Nat
    BY <2>1
  <2>4. PICK k \in T : \A j \in T : k <= j
    BY <2>2, <2>3, LeastOf
  <2>5. k \in 0 .. n /\ ~Out(s, text, k, w[k])
    BY <2>1
  <2>6. k # 0
    BY <1>3, <2>5, OutNone
  <2>7. PICK j \in Nat : k = j + 1
    BY <2>5, <2>6
  <2>8. Out(s, text, j, w[j])
    BY <2>1, <2>4, <2>5, <2>7
  <2>9. text[k] \in Cells /\ w[k] = WriteByte(w[j], text[k])
    BY <1>1, <1>3, <2>5, <2>7
  <2>10. Out(s, text, j + 1, w[k])
    BY <2>7, <2>8, <2>9, OutOne
  <2> QED BY <2>5, <2>7, <2>10
<1>5. Write(s, text) = w[n]
  BY <1>1, <1>2 DEF Write
<1> QED BY <1>1, <1>4, <1>5

LEMMA LeftIs == ASSUME NEW c \in 0 .. Width, NEW n \in Nat PROVE Left(c, n) \in 0 .. Width
BY WidthAssumption DEF Left

(* cursor_left and cursor_right move the cursor within the row. *)
LEMMA CursorLeftIs ==
  ASSUME NEW s \in Screens, NEW n \in Nat, NEW r, r = CursorLeft(s, n)
  PROVE  r \in Screens /\ r.wrapped = s.wrapped /\ r.row = s.row /\ r.col = Left(s.col, n)
<1>1. PICK c \in 0 .. Width : c = Left(s.col, n)
  BY LeftIs DEF Screens
<1>2. r = [s EXCEPT !.col = c]
  BY <1>1 DEF CursorLeft
<1> QED BY <1>1, <1>2 DEF Screens

LEMMA CursorRightIs ==
  ASSUME NEW s \in Screens, NEW n \in Nat, NEW r, r = CursorRight(s, n)
  PROVE  /\ r \in Screens /\ r.wrapped = s.wrapped /\ r.row = s.row
         /\ r.col = IF s.col + n > Width THEN Width ELSE s.col + n
<1>1. s.col \in 0 .. Width
  BY DEF Screens
<1>2. PICK c \in 0 .. Width : c = IF s.col + n > Width THEN Width ELSE s.col + n
  BY <1>1, WidthAssumption
<1>3. r = [s EXCEPT !.col = c]
  BY <1>2 DEF CursorRight, Screens
<1> QED BY <1>2, <1>3 DEF Screens

(* What n calls of backspace do. *)
Erased(s, n, r) ==
  /\ r \in Screens /\ r.wrapped = s.wrapped /\ r.col = Left(s.col, n)
  /\ \A i \in 1 .. Width :
       r.row[i] = IF Left(s.col, n) < i /\ i <= s.col THEN " " ELSE s.row[i]

LEMMA EraseIs ==
  ASSUME NEW s \in Screens, NEW n \in Nat, NEW r, r = Erase(s, n)
  PROVE  Erased(s, n, r)
<1>1. PICK c \in 0 .. Width : c = Left(s.col, n)
  BY LeftIs DEF Screens
<1>2. PICK w : w = [i \in 1 .. Width |-> IF c < i /\ i <= s.col THEN " " ELSE s.row[i]]
  OBVIOUS
<1>3. w \in [1 .. Width -> Cells]
  BY <1>2 DEF Screens, Cells
<1>4. PICK a : a = [s EXCEPT !.col = c]
  OBVIOUS
<1>5. a \in Screens /\ a.wrapped = s.wrapped /\ a.row = s.row /\ a.col = c
  BY <1>4 DEF Screens
<1>6. PICK z : z = [a EXCEPT !.row = w]
  OBVIOUS
<1>7. z \in Screens /\ z.wrapped = s.wrapped /\ z.row = w /\ z.col = c
  BY <1>3, <1>5, <1>6 DEF Screens
<1>8. r = z
  BY <1>1, <1>2, <1>4, <1>6 DEF Erase, Screens
<1>9. \A i \in 1 .. Width : w[i] = IF c < i /\ i <= s.col THEN " " ELSE s.row[i]
  BY <1>2
<1>10. z = r /\ c = Left(s.col, n)
  BY <1>1, <1>8
<1> QED BY <1>7, <1>9, <1>10, ZenonT(60) DEF Erased

(* The row shows the line behind the prompt, and the cursor in it. *)
Shown(k, s) ==
  ~s.wrapped =>
    /\ s.col = 1 + k.cursor
    /\ 1 + Len(k.line) <= Width
    /\ \A i \in 1 .. Width :
         s.row[i] = IF i = 1 THEN ">" ELSE IF i <= 1 + Len(k.line) THEN k.line[i - 1] ELSE " "

LEMMA TextSizes ==
  ASSUME NEW k, Faithful(k)
  PROVE  /\ k.line \in Seq(Chars) /\ k.line \in Seq(Cells) /\ Len(k.line) \in Nat
         /\ k.cursor \in Nat /\ k.cursor <= Len(k.line)
<1>1. k.line \in Seq(Chars) /\ k.cursor \in Nat /\ k.cursor <= Len(k.line)
  BY DEF Faithful, Keyboards
<1>2. Chars \subseteq Cells
  BY DEF Cells
<1>3. k.line \in Seq(Cells)
  BY <1>1, <1>2
<1> QED BY <1>1, <1>3

(* redraw_line, from wherever the cursor was. *)
LEMMA RedrawShows ==
  ASSUME NEW old, Faithful(old), NEW new, Faithful(new), NEW s \in Screens, Shown(old, s),
         NEW r, r = RedrawLine(s, old, new)
  PROVE  r \in Screens /\ Shown(new, r)
<1>1. PICK m \in Nat, x \in Nat : m = Len(old.line) /\ x = old.cursor /\ x <= m
  BY TextSizes
<1>2. PICK n \in Nat, y \in Nat : n = Len(new.line) /\ y = new.cursor /\ y <= n
  BY TextSizes
<1>3. m - x \in Nat /\ n - y \in Nat /\ Width \in Nat /\ Width > 0
  BY <1>1, <1>2, WidthAssumption
<1>4. PICK end : end = CursorRight(s, m - x)
  OBVIOUS
<1>5. /\ end \in Screens /\ end.wrapped = s.wrapped /\ end.row = s.row
      /\ end.col = IF s.col + (m - x) > Width THEN Width ELSE s.col + (m - x)
  BY <1>3, <1>4, CursorRightIs
<1>6. PICK e : e = Erase(end, m)
  OBVIOUS
<1>7. /\ e \in Screens /\ e.wrapped = end.wrapped /\ e.col = Left(end.col, m)
      /\ \A i \in 1 .. Width : e.row[i] = IF Left(end.col, m) < i /\ i <= end.col THEN " " ELSE end.row[i]
  <2>1. end \in Screens
    BY <1>5
  <2>2. Erased(end, m, e)
    BY <1>6, <2>1, EraseIs
  <2> QED BY <2>2 DEF Erased
<1>8. PICK w : w = Write(e, new.line)
  OBVIOUS
<1>9. Out(e, new.line, n, w)
  BY <1>2, <1>7, <1>8, TextSizes, WriteIs
<1>10. r = CursorLeft(w, n - y)
  BY <1>1, <1>2, <1>4, <1>6, <1>8 DEF RedrawLine
<1>11. w \in Screens
  BY <1>9 DEF Out
<1>12. r \in Screens /\ r.wrapped = w.wrapped /\ r.row = w.row /\ r.col = Left(w.col, n - y)
  BY <1>3, <1>10, <1>11, CursorLeftIs
<1>13. ASSUME ~r.wrapped
       PROVE  /\ r.col = 1 + y /\ 1 + n <= Width
              /\ \A i \in 1 .. Width :
                   r.row[i] = IF i = 1 THEN ">" ELSE IF i <= 1 + n THEN new.line[i - 1] ELSE " "
  <2>1. ~w.wrapped /\ ~e.wrapped /\ ~s.wrapped
    BY <1>5, <1>7, <1>9, <1>12, <1>13 DEF Out
  <2>2. /\ s.col = 1 + x /\ 1 + m <= Width
        /\ \A i \in 1 .. Width : s.row[i] = IF i = 1 THEN ">" ELSE IF i <= 1 + m THEN old.line[i - 1] ELSE " "
    BY <1>1, <2>1 DEF Shown
  <2>3. end.col = 1 + m
    <3>0. s.col = 1 + x /\ 1 + m <= Width
      BY <2>2
    <3>1. s.col + (m - x) = 1 + m /\ 1 + m <= Width
      BY <3>0
    <3>2. end.col = IF s.col + (m - x) > Width THEN Width ELSE s.col + (m - x)
      BY <1>5
    <3>3. ~(1 + m > Width)
      BY <1>3, <3>1
    <3> QED BY <3>1, <3>2, <3>3
  <2>4. Left(end.col, m) = 1
    BY <2>3 DEF Left
  <2>5. e.col = 1 /\ \A i \in 1 .. Width : e.row[i] = IF i = 1 THEN ">" ELSE " "
    <3>1. e.col = 1
      BY <1>7, <2>4
    <3>2. ASSUME NEW i \in 1 .. Width PROVE e.row[i] = IF i = 1 THEN ">" ELSE " "
      <4>1. e.row[i] = IF 1 < i /\ i <= 1 + m THEN " " ELSE s.row[i]
        BY <1>5, <1>7, <2>3, <2>4
      <4>2. s.row[i] = IF i = 1 THEN ">" ELSE IF i <= 1 + m THEN old.line[i - 1] ELSE " "
        BY <2>2
      <4>3. CASE i = 1
        BY <4>1, <4>2, <4>3
      <4>4. CASE 1 < i
        <5>1. i # 1 /\ i \in Nat
          BY <4>4
        <5>2. CASE i <= 1 + m
          BY <4>1, <4>4, <5>1, <5>2, Zenon
        <5>3. CASE ~(i <= 1 + m)
          BY <4>1, <4>2, <5>1, <5>3, Zenon
        <5> QED BY <5>2, <5>3
      <4>5. i = 1 \/ 1 < i
        OBVIOUS
      <4> QED BY <4>3, <4>4, <4>5, Zenon
    <3> QED BY <3>1, <3>2
  <2>6. 1 + n <= Width
    <3>1. ~(e.col + n > Width)
      BY <1>9, <2>1 DEF Out
    <3>2. e.col = 1
      BY <2>5
    <3> QED BY <1>3, <3>1, <3>2
  <2>7. /\ w.col = 1 + n
        /\ \A i \in 1 .. Width : w.row[i] = IF 1 < i /\ i <= 1 + n THEN new.line[i - 1] ELSE e.row[i]
    BY <1>9, <2>1, <2>5, <2>6 DEF Out
  <2>8. r.col = 1 + y
    BY <1>2, <1>12, <2>7 DEF Left
  <2>9. ASSUME NEW i \in 1 .. Width
        PROVE  r.row[i] = IF i = 1 THEN ">" ELSE IF i <= 1 + n THEN new.line[i - 1] ELSE " "
    <3>1. r.row[i] = IF 1 < i /\ i <= 1 + n THEN new.line[i - 1] ELSE e.row[i]
      BY <1>12, <2>7
    <3>2. e.row[i] = IF i = 1 THEN ">" ELSE " "
      BY <2>5
    <3>3. CASE i = 1
      BY <3>1, <3>2, <3>3
    <3>4. CASE 1 < i
      <4>1. i # 1
        BY <3>4
      <4>2. CASE i <= 1 + n
        BY <3>1, <3>4, <4>1, <4>2, Zenon
      <4>3. CASE ~(i <= 1 + n)
        BY <3>1, <3>2, <4>1, <4>3, Zenon
      <4> QED BY <4>2, <4>3
    <3>5. i = 1 \/ 1 < i
      OBVIOUS
    <3> QED BY <3>3, <3>4, <3>5, Zenon
  <2> QED BY <2>6, <2>8, <2>9
<1> QED BY <1>2, <1>12, <1>13 DEF Shown

LEMMA EmptyLength == Len(<<>>) = 0
OBVIOUS

LEMMA PromptIs == Prompt \in Seq(Cells) /\ Len(Prompt) = 1 /\ Prompt[1] = ">"
BY DEF Prompt, Cells

(* The first prompt, and the one after each command. *)
LEMMA PromptShows ==
  ASSUME NEW k, k.line = <<>>, k.cursor = 0
  PROVE  Write(NewLine, Prompt) \in Screens /\ Shown(k, Write(NewLine, Prompt))
<1>1. Prompt \in Seq(Cells) /\ Len(Prompt) = 1 /\ Prompt[1] = ">"
  BY PromptIs
<1>2. PICK w : w = Write(NewLine, Prompt)
  OBVIOUS
<1>3. Out(NewLine, Prompt, 1, w)
  BY <1>1, <1>2, BlankIs, WriteIs
<1>4. Width \in Nat /\ Width > 0
  BY WidthAssumption
<1>5. /\ w \in Screens /\ ~w.wrapped /\ w.col = 1
      /\ \A i \in 1 .. Width : w.row[i] = IF 0 < i /\ i <= 1 THEN Prompt[i] ELSE Blank[i]
  BY <1>3, <1>4, BlankIs DEF Out
<1>6. \A i \in 1 .. Width : w.row[i] = IF i = 1 THEN ">" ELSE " "
  <2> SUFFICES ASSUME NEW i \in 1 .. Width PROVE w.row[i] = IF i = 1 THEN ">" ELSE " "
    OBVIOUS
  <2>1. w.row[i] = IF 0 < i /\ i <= 1 THEN Prompt[i] ELSE Blank[i]
    BY <1>5
  <2>2. Blank[i] = " "
    BY DEF Blank
  <2>3. CASE i = 1
    BY <1>1, <2>1, <2>3
  <2>4. CASE 1 < i
    <3>1. i # 1 /\ ~(i <= 1)
      BY <2>4
    <3> QED BY <2>1, <2>2, <3>1, Zenon
  <2>5. i = 1 \/ 1 < i
    OBVIOUS
  <2> QED BY <2>3, <2>4, <2>5, Zenon
<1>7. Len(k.line) = 0
  BY ZenonT(10), EmptyLength
<1>8. \A i \in 1 .. Width :
        w.row[i] = IF i = 1 THEN ">" ELSE IF i <= 1 + Len(k.line) THEN k.line[i - 1] ELSE " "
  <2> SUFFICES ASSUME NEW i \in 1 .. Width
               PROVE  w.row[i] = IF i = 1 THEN ">" ELSE IF i <= 1 + Len(k.line) THEN k.line[i - 1] ELSE " "
    OBVIOUS
  <2>1. i = 1 \/ ~(i <= 1 + Len(k.line))
    BY <1>7
  <2> QED BY <1>6, <2>1
<1>9. w.col = 1 + k.cursor /\ 1 + Len(k.line) <= Width
  BY <1>4, <1>5, <1>7
<1>10. Shown(k, w)
  BY <1>8, <1>9 DEF Shown
<1> QED BY <1>2, <1>5, <1>10

(* A driver whose line is on its screen. *)
OnScreen(c) == c.screen \in Screens /\ Shown(c.kb, c.screen)

LEMMA RedrawnShows ==
  ASSUME NEW c, Faithful(c.kb), OnScreen(c), NEW k, Faithful(k)
  PROVE  OnScreen(Redrawn(c, k))
<1>1. c.screen \in Screens /\ Shown(c.kb, c.screen)
  BY DEF OnScreen
<1>2. PICK r : r = RedrawLine(c.screen, c.kb, k)
  OBVIOUS
<1>3. r \in Screens /\ Shown(k, r)
  BY <1>1, <1>2, RedrawShows
<1>4. Redrawn(c, k) = Pair(k, r)
  BY <1>2 DEF Redrawn
<1> QED BY <1>3, <1>4, PairIs DEF OnScreen

LEMMA InsertCharShows ==
  ASSUME NEW c, Faithful(c.kb), OnScreen(c), NEW ch \in Chars
  PROVE  OnScreen(InsertChar(c, ch))
<1>1. PICK k : k = [c.kb EXCEPT !.index = 0, !.line = InsertAt(@, c.kb.cursor + 1, ch), !.cursor = @ + 1]
  OBVIOUS
<1>2. InsertChar(c, ch) = Redrawn(c, k)
  BY <1>1, Zenon DEF InsertChar
<1>3. Faithful(InsertChar(c, ch).kb)
  BY InsertCharFaithful
<1>4. Faithful(k)
  BY <1>2, <1>3, RedrawnIs
<1> QED BY <1>2, <1>4, RedrawnShows

LEMMA SameTextShows ==
  ASSUME NEW k, NEW r, r.line = k.line, r.cursor = k.cursor, NEW s, Shown(k, s)
  PROVE  Shown(r, s)
BY DEF Shown

LEMMA BackspaceShows ==
  ASSUME NEW c, Faithful(c.kb), OnScreen(c)
  PROVE  OnScreen(BackspaceChar(c))
<1>1. CASE c.kb.cursor = 0
  <2>1. PICK r : r = [c.kb EXCEPT !.index = 0]
    OBVIOUS
  <2>2. r.line = c.kb.line /\ r.cursor = c.kb.cursor
    BY <2>1 DEF Faithful, Keyboards
  <2>3. Shown(r, c.screen)
    BY <2>2, SameTextShows DEF OnScreen
  <2>4. BackspaceChar(c) = Pair(r, c.screen)
    BY <1>1, <2>1 DEF BackspaceChar
  <2> QED BY <2>3, <2>4, PairIs DEF OnScreen
<1>2. CASE c.kb.cursor # 0
  <2>1. PICK k : k = [c.kb EXCEPT !.index = 0, !.line = RemoveAt(@, c.kb.cursor), !.cursor = @ - 1]
    OBVIOUS
  <2>2. BackspaceChar(c) = Redrawn(c, k)
    BY <1>2, <2>1, Zenon DEF BackspaceChar
  <2>3. Faithful(BackspaceChar(c).kb)
    BY BackspaceFaithful
  <2>4. Faithful(k)
    BY <2>2, <2>3, RedrawnIs
  <2> QED BY <2>2, <2>4, RedrawnShows
<1> QED BY <1>1, <1>2

(* The cursor moves on the row as it moves in the line. *)
LEMMA MoveShows ==
  ASSUME NEW k, NEW s, Shown(k, s), NEW j, j.line = k.line,
         NEW t, t.wrapped = s.wrapped, t.row = s.row, ~s.wrapped => t.col = 1 + j.cursor
  PROVE  Shown(j, t)
BY DEF Shown

LEMMA LeftShows ==
  ASSUME NEW c, Faithful(c.kb), OnScreen(c), c.kb.cursor > 0
  PROVE  OnScreen(Pair([c.kb EXCEPT !.cursor = @ - 1], CursorLeft(c.screen, 1)))
<1>1. PICK k : k = c.kb
  OBVIOUS
<1>2. PICK s : s = c.screen
  OBVIOUS
<1>3. s \in Screens /\ Shown(k, s) /\ k \in Keyboards /\ k.cursor \in Nat /\ k.cursor > 0
  BY <1>1, <1>2 DEF OnScreen, Faithful, Keyboards
<1>4. PICK j : j = [k EXCEPT !.cursor = @ - 1]
  OBVIOUS
<1>5. j.line = k.line /\ j.cursor = k.cursor - 1
  BY <1>3, <1>4 DEF Keyboards
<1>6. PICK t : t = CursorLeft(s, 1)
  OBVIOUS
<1>7. t \in Screens /\ t.wrapped = s.wrapped /\ t.row = s.row /\ t.col = Left(s.col, 1)
  BY <1>3, <1>6, CursorLeftIs
<1>8. ASSUME ~s.wrapped PROVE t.col = 1 + j.cursor
  <2>1. s.col = 1 + k.cursor
    BY <1>3, <1>8 DEF Shown
  <2>2. Left(s.col, 1) = k.cursor
    BY <1>3, <2>1 DEF Left
  <2>3. 1 + (k.cursor - 1) = k.cursor
    BY <1>3
  <2> QED BY <1>5, <1>7, <2>2, <2>3
<1>9. Shown(j, t)
  BY <1>3, <1>5, <1>7, <1>8, MoveShows
<1>10. OnScreen(Pair(j, t))
  BY <1>7, <1>9, PairIs DEF OnScreen
<1> QED BY <1>1, <1>2, <1>4, <1>6, <1>10, Zenon

LEMMA RightShows ==
  ASSUME NEW c, Faithful(c.kb), OnScreen(c), c.kb.cursor < Len(c.kb.line)
  PROVE  OnScreen(Pair([c.kb EXCEPT !.cursor = @ + 1], CursorRight(c.screen, 1)))
<1>1. PICK k : k = c.kb
  OBVIOUS
<1>2. PICK s : s = c.screen
  OBVIOUS
<1>3. s \in Screens /\ Shown(k, s) /\ k \in Keyboards /\ k.cursor \in Nat /\ Len(k.line) \in Nat
  BY <1>1, <1>2 DEF OnScreen, Faithful, Keyboards
<1>4. PICK j : j = [k EXCEPT !.cursor = @ + 1]
  OBVIOUS
<1>5. j.line = k.line /\ j.cursor = k.cursor + 1
  BY <1>3, <1>4 DEF Keyboards
<1>6. PICK t : t = CursorRight(s, 1)
  OBVIOUS
<1>7. /\ t \in Screens /\ t.wrapped = s.wrapped /\ t.row = s.row
      /\ t.col = IF s.col + 1 > Width THEN Width ELSE s.col + 1
  BY <1>3, <1>6, CursorRightIs
<1>8. ASSUME ~s.wrapped PROVE t.col = 1 + j.cursor
  <2>1. s.col = 1 + k.cursor /\ 1 + Len(k.line) <= Width
    BY <1>3, <1>8 DEF Shown
  <2>2. ~(s.col + 1 > Width) /\ s.col + 1 = 1 + (k.cursor + 1)
    BY <1>1, <1>3, <2>1, WidthAssumption
  <2> QED BY <1>5, <1>7, <2>2
<1>9. Shown(j, t)
  BY <1>3, <1>5, <1>7, <1>8, MoveShows
<1>10. OnScreen(Pair(j, t))
  BY <1>7, <1>9, PairIs DEF OnScreen
<1> QED BY <1>1, <1>2, <1>4, <1>6, <1>10, Zenon

LEMMA ArrowShows ==
  ASSUME NEW c, Faithful(c.kb), OnScreen(c), NEW code
  PROVE  OnScreen(ArrowKey(c, code))
<1>1. \A j : Faithful(j) => OnScreen(Recall(c, j))
  BY RedrawnShows DEF Recall
<1>2. OnScreen(Recall(c, RecallOlder(c.kb))) /\ OnScreen(Recall(c, RecallNewer(c.kb)))
  BY <1>1, RecallFaithful
<1>3. CASE code = UP
  <2>1. ArrowKey(c, code) = Recall(c, RecallOlder(c.kb))
    BY <1>3 DEF ArrowKey, UP, DOWN, LEFT, RIGHT
  <2> QED BY <1>2, <2>1
<1>4. CASE code = DOWN
  <2>1. ArrowKey(c, code) = Recall(c, RecallNewer(c.kb))
    BY <1>4 DEF ArrowKey, UP, DOWN, LEFT, RIGHT
  <2> QED BY <1>2, <2>1
<1>5. CASE code = LEFT /\ c.kb.cursor > 0
  <2>1. ArrowKey(c, code) = Pair([c.kb EXCEPT !.cursor = @ - 1], CursorLeft(c.screen, 1))
    BY <1>5 DEF ArrowKey, UP, DOWN, LEFT, RIGHT
  <2>2. OnScreen(Pair([c.kb EXCEPT !.cursor = @ - 1], CursorLeft(c.screen, 1)))
    BY <1>5, LeftShows
  <2> QED BY <2>1, <2>2
<1>6. CASE code = RIGHT /\ c.kb.cursor < Len(c.kb.line)
  <2>1. ArrowKey(c, code) = Pair([c.kb EXCEPT !.cursor = @ + 1], CursorRight(c.screen, 1))
    BY <1>6 DEF ArrowKey, UP, DOWN, LEFT, RIGHT
  <2>2. OnScreen(Pair([c.kb EXCEPT !.cursor = @ + 1], CursorRight(c.screen, 1)))
    BY <1>6, RightShows
  <2> QED BY <2>1, <2>2
<1>7. CASE ~(code = UP \/ code = DOWN \/ (code = LEFT /\ c.kb.cursor > 0) \/ (code = RIGHT /\ c.kb.cursor < Len(c.kb.line)))
  <2>1. ArrowKey(c, code) = c
    BY <1>7 DEF ArrowKey
  <2> QED BY <2>1
<1> QED BY <1>3, <1>4, <1>5, <1>6, <1>7

LEMMA EnterShows == ASSUME NEW c, Faithful(c.kb) PROVE OnScreen(EnterLine(c))
<1>1. PICK k : k = [c.kb EXCEPT !.line = <<>>, !.cursor = 0, !.index = 0,
                                !.history = Remember(@, c.kb.line)]
  OBVIOUS
<1>2. k.line = <<>> /\ k.cursor = 0
  BY <1>1 DEF Faithful, Keyboards
<1>3. EnterLine(c) = Pair(k, Write(NewLine, Prompt))
  BY <1>1, Zenon DEF EnterLine
<1>4. Write(NewLine, Prompt) \in Screens /\ Shown(k, Write(NewLine, Prompt))
  BY <1>2, PromptShows
<1> QED BY <1>3, <1>4, PairIs DEF OnScreen

LEMMA ActShows ==
  ASSUME NEW c, Faithful(c.kb), OnScreen(c), NEW code \in Nat, NEW extended \in BOOLEAN
  PROVE  OnScreen(Act(c, code, extended))
<1>1. CASE extended
  BY <1>1, ArrowShows DEF Act
<1>2. CASE ~extended /\ code = BACKSPACE
  BY <1>2, BackspaceShows DEF Act
<1>3. CASE ~extended /\ code # BACKSPACE /\ code = ENTER
  BY <1>3, EnterShows DEF Act
<1>4. CASE ~extended /\ code # BACKSPACE /\ code # ENTER
  <2>1. PICK ch : ch = ScancodeToChar(c.kb.shift, code)
    OBVIOUS
  <2>2. Act(c, code, extended) = IF ch = <<>> THEN c ELSE InsertChar(c, ch[1])
    BY <1>4, <2>1 DEF Act
  <2>3. c.kb.shift \in BOOLEAN
    BY DEF Faithful, Keyboards
  <2>4. ch[1] \in Chars
    BY <2>1, <2>3 DEF Chars
  <2>5. OnScreen(InsertChar(c, ch[1]))
    BY <2>4, InsertCharShows
  <2> QED BY <2>2, <2>5
<1> QED BY <1>1, <1>2, <1>3, <1>4

LEMMA HandleShows ==
  ASSUME NEW k, Faithful(k), NEW s \in Screens, Shown(k, s), NEW code \in Nat
  PROVE  OnScreen(HandleScancode(Pair(k, s), code))
<1>1. k \in Keyboards /\ k.extended \in BOOLEAN
  BY DEF Faithful, Keyboards
<1>2. \A r : r.line = k.line /\ r.cursor = k.cursor => OnScreen(Pair(r, s))
  BY SameTextShows, PairIs DEF OnScreen
<1>3. OnScreen(Pair(Prefixed(k), s))
  <2>1. Prefixed(k).line = k.line /\ Prefixed(k).cursor = k.cursor
    BY <1>1 DEF Prefixed, Keyboards
  <2> QED BY <1>2, <2>1
<1>4. OnScreen(Pair(ShiftKey(k, code), s))
  <2>1. ShiftKey(k, code).line = k.line /\ ShiftKey(k, code).cursor = k.cursor
    BY <1>1, ShiftKeyIs DEF Edited
  <2> QED BY <1>2, <2>1
<1>5. Faithful(Note(k, code)) /\ OnScreen(Pair(Note(k, code), s))
  <2>1. Note(k, code).line = k.line /\ Note(k, code).cursor = k.cursor
    BY Noted DEF Edited
  <2> QED BY <1>2, <2>1, Noted
<1>6. OnScreen(Act(Pair(Note(k, code), s), code, k.extended))
  BY <1>1, <1>5, PairIs, ActShows
<1>7. HandleScancode(Pair(k, s), code)
        = IF code = EXTENDED THEN Pair(Prefixed(k), s)
          ELSE IF Make(code) \in SHIFTS THEN Pair(ShiftKey(k, code), s)
          ELSE IF code = k.last \/ IsBreak(code) THEN Pair(Note(k, code), s)
          ELSE Act(Pair(Note(k, code), s), code, k.extended)
  <2>1. Pair(k, s).kb = k /\ Pair(k, s).screen = s
    BY PairIs
  <2> QED BY <2>1, ZenonT(60) DEF HandleScancode, Prefixed, Note
<1> QED BY <1>3, <1>4, <1>5, <1>6, <1>7

(* The driver and the last row of the screen, between two interrupts. *)
DisplayInv == EditorInv /\ screen \in Screens /\ Shown(kb, screen)

LEMMA NextDisplayInv == ASSUME DisplayInv, [Next]_vars PROVE DisplayInv'
<1>1. EditorInv /\ EditorInv'
  BY NextEditorInv DEF DisplayInv
<1>2. CASE Interrupt
  <2> DEFINE S == [code : Nat, press : BOOLEAN, shifted : BOOLEAN]
  <2>1. PICK c : c = HandleScancode(Pair(kb, screen), Head(port).code)
    OBVIOUS
  <2>2. port # <<>> /\ kb' = c.kb /\ screen' = c.screen
    BY <1>2, <2>1 DEF Interrupt
  <2>3. Head(port) \in S
    <3>1. port \in Seq(S)
      BY <1>1 DEF EditorInv
    <3> HIDE DEF S
    <3> QED BY <2>2, <3>1
  <2>4. Head(port).code \in Nat
    BY <2>3
  <2>5. Faithful(kb) /\ screen \in Screens /\ Shown(kb, screen)
    BY DEF DisplayInv, EditorInv
  <2>6. OnScreen(c)
    BY <2>1, <2>4, <2>5, HandleShows
  <2>7. screen' \in Screens /\ Shown(kb', screen')
    BY <2>2, <2>6 DEF OnScreen
  <2>8. Screens' = Screens
    BY DEF Screens, Cells, Chars
  <2> QED BY <1>1, <2>7 DEF DisplayInv
<1>3. CASE UNCHANGED <<kb, screen>>
  <2>1. screen \in Screens /\ Shown(kb, screen)
    BY DEF DisplayInv
  <2> QED BY <1>1, <1>3, <2>1 DEF DisplayInv, Shown
<1>4. [Next]_vars => Interrupt \/ UNCHANGED <<kb, screen>>
  BY DEF Next, Press, Release, Repeat, vars
<1> QED BY <1>2, <1>3, <1>4

LEMMA InitDisplayInv == ASSUME Init PROVE DisplayInv
<1>1. kb.line = <<>> /\ kb.cursor = 0
  BY DEF Init, NewKeyboard
<1>2. screen = Write(NewLine, Prompt)
  BY DEF Init
<1>3. screen \in Screens /\ Shown(kb, screen)
  BY <1>1, <1>2, PromptShows
<1> QED BY <1>3, InitEditorInv DEF DisplayInv

(***************************************************************************)
(* The inductive invariant of the line editor and the row it draws on, for *)
(* any width of the screen, any keys in any order and lines of any length: *)
(* until the row scrolls it shows the prompt, the line and nothing else.   *)
(***************************************************************************)
THEOREM DisplayInvariance == Spec => []DisplayInv
<1>1. Init => DisplayInv
  BY InitDisplayInv
<1>2. DisplayInv /\ [Next]_vars => DisplayInv'
  BY NextDisplayInv
<1> QED BY <1>1, <1>2, PTL DEF Spec

LEMMA PromptBefore ==
  ASSUME NEW l \in Seq(Cells)
  PROVE  /\ Len(Prompt) = 1 /\ Len(Prompt \o l) = 1 + Len(l)
         /\ \A i \in 1 .. (1 + Len(l)) : (Prompt \o l)[i] = IF i = 1 THEN ">" ELSE l[i - 1]
<1>1. PICK p \in Seq(Cells) : p = Prompt /\ Len(p) = 1 /\ p[1] = ">"
  BY PromptIs, Zenon
<1>2. Len(l) \in Nat
  OBVIOUS
<1>3. /\ Len(p \o l) = Len(p) + Len(l)
      /\ \A i \in 1 .. (Len(p) + Len(l)) : (p \o l)[i] = IF i <= Len(p) THEN p[i] ELSE l[i - Len(p)]
  OBVIOUS
<1>4. /\ Len(p \o l) = 1 + Len(l)
      /\ \A i \in 1 .. (1 + Len(l)) : (p \o l)[i] = IF i <= 1 THEN p[i] ELSE l[i - 1]
  BY <1>1, <1>3
<1>5. ASSUME NEW i \in 1 .. (1 + Len(l)) PROVE (p \o l)[i] = IF i = 1 THEN ">" ELSE l[i - 1]
  <2>1. (i <= 1) <=> (i = 1)
    BY <1>2
  <2> QED BY <1>1, <1>4, <2>1
<1> QED BY <1>1, <1>4, <1>5

(***************************************************************************)
(* What is on the row is what Enter would hand to the shell, and the next  *)
(* character goes where the row shows the cursor, through any edits in any *)
(* place (redraw_line keeps "the screen in sync").                         *)
(***************************************************************************)
THEOREM ScreenRight == Spec => []ScreenShowsLine
<1>1. DisplayInv => ScreenShowsLine
  <2> SUFFICES ASSUME DisplayInv, ~screen.wrapped
               PROVE  /\ screen.col = Len(Prompt) + kb.cursor
                      /\ Len(Prompt \o kb.line) <= Width
                      /\ \A i \in 1 .. Width :
                           screen.row[i] = IF i <= Len(Prompt \o kb.line) THEN (Prompt \o kb.line)[i] ELSE " "
    BY DEF ScreenShowsLine
  <2>1. PICK l : l = kb.line
    OBVIOUS
  <2>2. l \in Seq(Cells) /\ Len(l) \in Nat
    BY <2>1, TextSizes DEF DisplayInv, EditorInv
  <2>3. /\ screen.col = 1 + kb.cursor /\ 1 + Len(l) <= Width
        /\ \A i \in 1 .. Width :
             screen.row[i] = IF i = 1 THEN ">" ELSE IF i <= 1 + Len(l) THEN l[i - 1] ELSE " "
    BY <2>1 DEF DisplayInv, Shown
  <2>4. PICK q : q = Prompt \o l
    OBVIOUS
  <2>5. /\ Len(Prompt) = 1 /\ Len(q) = 1 + Len(l)
        /\ \A i \in 1 .. (1 + Len(l)) : q[i] = IF i = 1 THEN ">" ELSE l[i - 1]
    BY <2>2, <2>4, PromptBefore
  <2>6. ASSUME NEW i \in 1 .. Width
        PROVE  screen.row[i] = IF i <= Len(q) THEN q[i] ELSE " "
    <3>1. screen.row[i] = IF i = 1 THEN ">" ELSE IF i <= 1 + Len(l) THEN l[i - 1] ELSE " "
      BY <2>3
    <3>2. CASE i <= 1 + Len(l)
      <4>1. i \in 1 .. (1 + Len(l))
        BY <2>2, <3>2, WidthAssumption
      <4>2. q[i] = IF i = 1 THEN ">" ELSE l[i - 1]
        BY <2>5, <4>1
      <4>3. screen.row[i] = q[i]
        BY <3>1, <3>2, <4>2, Zenon
      <4> QED BY <2>5, <3>2, <4>3, Zenon
    <3>3. CASE ~(i <= 1 + Len(l))
      <4>1. i # 1
        BY <2>2, <3>3
      <4>2. screen.row[i] = " "
        BY <3>1, <3>3, <4>1, Zenon
      <4> QED BY <2>5, <3>3, <4>2, Zenon
    <3> QED BY <3>2, <3>3
  <2>7. screen.col = Len(Prompt) + kb.cursor /\ Len(q) <= Width
    BY <2>3, <2>5
  <2> QED BY <2>1, <2>4, <2>6, <2>7
<1> QED BY <1>1, DisplayInvariance, PTL

=============================================================================
