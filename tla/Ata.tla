-------------------------------- MODULE Ata --------------------------------
(***************************************************************************)
(* ata.rs: reading and writing one sector by programmed I/O.  A call runs  *)
(* with interrupts off, so calls do not overlap; what runs beside them is  *)
(* the drive, which takes its time.  A poll gives up after a bounded       *)
(* number of reads of the status register, and the next call begins with   *)
(* whatever the drive is doing by then.                                    *)
(*                                                                         *)
(* The drive is external: BSY as soon as a command or the last word of     *)
(* data is in, then DRQ or the end or ERR; a volatile cache in front of    *)
(* the medium, which CACHE FLUSH empties and the drive may empty itself.   *)
(* While BSY or DRQ is set it ignores commands and task registers, as      *)
(* QEMU's does (the ATA standard leaves it open).  A sector is one datum,  *)
(* its 256 words one transfer.                                             *)
(***************************************************************************)
EXTENDS Naturals

CONSTANTS
  Sectors,      (* the LBAs in use                                         *)
  Data,         (* the contents of sectors                                 *)
  MaxCalls,     (* bound on the calls of a behaviour                       *)
  MaxTimeouts,  (* how many of them may give up                            *)
  MaxErrors     (* how often the drive reports an error                    *)

(* What is assumed of them; the instance in MCConsole evaluates it. *)
Assumptions == MaxCalls \in Nat /\ MaxTimeouts \in Nat /\ MaxErrors \in Nat /\ Data # {}

VARIABLES
  pc,       (* where the call is, "idle" between calls                     *)
  call,     (* its operation, LBA and buffer                               *)
  quiet,    (* neither BSY nor DRQ was set when it began                   *)
  ok,       (* the last call returned Ok                                   *)
  lba,      (* the task registers                                          *)
  drive,    (* what the drive does: st, cmd, lba, buf, and the ERR bit     *)
  cache,    (* sectors stored and not yet on the medium                    *)
  medium,
  calls, timeouts, errors

vars == <<pc, call, quiet, ok, lba, drive, cache, medium, calls, timeouts, errors>>
driveVars == <<lba, drive, cache, medium, errors>>

-----------------------------------------------------------------------------
BSY == drive.st = "busy"
DRQ == drive.st \in {"in", "out"}

Content(s) == IF s \in DOMAIN cache THEN cache[s] ELSE medium[s]

Init ==
  /\ pc = "idle" /\ ok = FALSE /\ quiet = TRUE
  /\ lba \in Sectors
  /\ medium \in [Sectors -> Data]
  /\ call = [op |-> "read", lba |-> lba, buf |-> medium[lba]]
  /\ drive = [st |-> "idle", cmd |-> "none", lba |-> lba, buf |-> medium[lba], err |-> FALSE]
  /\ cache = <<>>
  /\ calls = 0 /\ timeouts = 0 /\ errors = 0

(* read_sector, write_sector. *)
Call(op, s, d) ==
  /\ pc = "idle" /\ calls < MaxCalls
  /\ call' = [op |-> op, lba |-> s, buf |-> d]
  /\ quiet' = (~BSY /\ ~DRQ)
  /\ calls' = calls + 1
  /\ pc' = "select"
  /\ UNCHANGED <<ok, driveVars, timeouts>>

Return(result) ==
  /\ pc' = "idle"
  /\ ok' = result

-----------------------------------------------------------------------------
(* select_drive_and_issue_command: the task registers, then the command.   *)
(* The writes to the registers are one step: a quiet drive takes them all, *)
(* and one that ends its work among them would take some.                  *)
Select ==
  /\ pc = "select"
  /\ lba' = IF BSY \/ DRQ THEN lba ELSE call.lba
  /\ pc' = "issue"
  /\ UNCHANGED <<call, quiet, ok, drive, cache, medium, calls, timeouts, errors>>

(* A write to the command register. *)
Command(cmd) ==
  drive' = IF BSY \/ DRQ THEN drive
           ELSE [drive EXCEPT !.st = "busy", !.cmd = cmd, !.lba = lba, !.err = FALSE]

Issue ==
  /\ pc = "issue"
  /\ Command(call.op)
  /\ pc' = "ready"
  /\ UNCHANGED <<call, quiet, ok, lba, cache, medium, calls, timeouts, errors>>

(* What poll_until waits for, and what follows: DRQ after the command, the *)
(* end of BSY otherwise.                                                   *)
Waits == {"ready", "drq", "stored", "flushed"}

Done == IF pc = "drq" THEN DRQ ELSE ~BSY

After(w) == CASE w = "ready" -> "drq" [] w = "drq" -> "data" [] w = "stored" -> "flush" [] w = "flushed" -> "idle"

(* poll_until has seen it, and ERR is looked at. *)
Poll ==
  /\ pc \in Waits /\ Done
  /\ IF drive.err THEN Return(FALSE)
     ELSE pc' = After(pc) /\ ok' = (pc = "flushed")
  /\ UNCHANGED <<call, quiet, driveVars, calls, timeouts>>

(* MAX_POLL_ITERATIONS are used up. *)
GiveUp ==
  /\ pc \in Waits /\ ~Done
  /\ timeouts < MaxTimeouts
  /\ timeouts' = timeouts + 1
  /\ Return(FALSE)
  /\ UNCHANGED <<call, quiet, driveVars, calls>>

(* The words come from the drive's buffer; without one, from nowhere. *)
ReadData ==
  /\ pc = "data" /\ call.op = "read"
  /\ \E d \in Data :
       /\ drive.st = "in" => d = drive.buf
       /\ call' = [call EXCEPT !.buf = d]
  /\ drive' = IF drive.st = "in" THEN [drive EXCEPT !.st = "idle"] ELSE drive
  /\ Return(TRUE)
  /\ UNCHANGED <<quiet, lba, cache, medium, calls, timeouts, errors>>

WriteData ==
  /\ pc = "data" /\ call.op = "write"
  /\ drive' = IF drive.st = "out" THEN [drive EXCEPT !.st = "busy", !.cmd = "store", !.buf = call.buf] ELSE drive
  /\ pc' = "stored"
  /\ UNCHANGED <<call, quiet, ok, lba, cache, medium, calls, timeouts, errors>>

(* Slip: the data are with the drive, and that is taken for enough. *)
FlushSkipped == UNCHANGED drive

IssueFlush == Command("flush")

Flush ==
  /\ pc = "flush"
  /\ IssueFlush
  /\ pc' = "flushed"
  /\ UNCHANGED <<call, quiet, ok, lba, cache, medium, calls, timeouts, errors>>

-----------------------------------------------------------------------------
callVars == <<pc, call, quiet, ok, lba, calls, timeouts>>

(* The drive ends what it was doing. *)
DriveDone ==
  /\ BSY
  /\ \/ /\ drive.cmd = "read"
        /\ drive' = [drive EXCEPT !.st = "in", !.buf = Content(drive.lba)]
        /\ UNCHANGED <<cache, medium>>
     \/ /\ drive.cmd = "write"
        /\ drive' = [drive EXCEPT !.st = "out"]
        /\ UNCHANGED <<cache, medium>>
     \/ /\ drive.cmd = "store"
        /\ drive' = [drive EXCEPT !.st = "idle"]
        /\ cache' = [s \in DOMAIN cache \cup {drive.lba} |-> IF s = drive.lba THEN drive.buf ELSE cache[s]]
        /\ UNCHANGED medium
     \/ /\ drive.cmd = "flush"
        /\ drive' = [drive EXCEPT !.st = "idle"]
        /\ medium' = [s \in Sectors |-> Content(s)]
        /\ cache' = <<>>
  /\ UNCHANGED <<callVars, errors>>

DriveFails ==
  /\ BSY /\ errors < MaxErrors
  /\ errors' = errors + 1
  /\ drive' = [drive EXCEPT !.st = "idle", !.err = TRUE]
  /\ UNCHANGED <<callVars, cache, medium>>

(* A sector leaves the cache by itself. *)
Destage(s) ==
  /\ s \in DOMAIN cache
  /\ medium' = [medium EXCEPT ![s] = cache[s]]
  /\ cache' = [t \in DOMAIN cache \ {s} |-> cache[t]]
  /\ UNCHANGED <<callVars, drive, errors>>

Next ==
  \/ \E op \in {"read", "write"}, s \in Sectors, d \in Data : Call(op, s, d)
  \/ Select \/ Issue \/ Poll \/ GiveUp
  \/ ReadData \/ WriteData \/ Flush
  \/ DriveDone \/ DriveFails
  \/ \E s \in Sectors : Destage(s)

Spec == Init /\ [][Next]_vars

-----------------------------------------------------------------------------
TypeOK ==
  /\ pc \in Waits \cup {"idle", "select", "issue", "data", "flush"}
  /\ call \in [op : {"read", "write"}, lba : Sectors, buf : Data]
  /\ quiet \in BOOLEAN /\ ok \in BOOLEAN
  /\ lba \in Sectors
  /\ drive \in [st : {"idle", "busy", "in", "out"}, cmd : {"none", "read", "write", "store", "flush"},
                lba : Sectors, buf : Data, err : BOOLEAN]
  /\ DOMAIN cache \subseteq Sectors
  /\ medium \in [Sectors -> Data]
  /\ calls \in 0 .. MaxCalls /\ timeouts \in 0 .. MaxTimeouts /\ errors \in 0 .. MaxErrors

Answered == pc = "idle" /\ calls > 0 /\ ok

(***************************************************************************)
(* A call that finds the drive quiet and returns Ok has done its work: the *)
(* sector read is the one asked for, as it is now, and the one written is  *)
(* on the medium, not only in the drive's cache; whatever calls gave up or *)
(* failed before.                                                          *)
(***************************************************************************)
QuietDriveServes ==
  Answered /\ quiet =>
    IF call.op = "write" THEN medium[call.lba] = call.buf ELSE Content(call.lba) = call.buf

(***************************************************************************)
(* write_sector's documentation: "a caller that gets Ok back knows the     *)
(* write is genuinely committed, not just accepted into a volatile write   *)
(* cache".                                                                 *)
(***************************************************************************)
OkMeansCommitted == Answered /\ call.op = "write" => medium[call.lba] = call.buf

=============================================================================
