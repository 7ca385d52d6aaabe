-------------------------------- MODULE Rtc --------------------------------
(***************************************************************************)
(* rtc.rs: reading the time of day from the CMOS clock, one register at a  *)
(* time, while the clock goes on.  Every second the clock updates all its  *)
(* registers; while it does, status register A says so and a register      *)
(* reads as anything.  Which of the two encodings of a byte and of the two *)
(* of the hours it uses is in status register B.                           *)
(*                                                                         *)
(* The clock is external.  A second is long: between two updates the CPU   *)
(* makes at least Quiet reads.                                             *)
(***************************************************************************)
EXTENDS Naturals, Sequences

CONSTANTS
  Starts,     (* the times at which a call may begin                       *)
  Undefined,  (* what a register may read as during an update              *)
  Quiet,      (* reads that fit between two updates                        *)
  MaxTicks    (* bound on the updates of a behaviour                       *)

VARIABLES
  time,      (* the clock, <<second, minute, hour, day, month, year>>      *)
  mode,      (* status register B: [binary, h24]                           *)
  updating,  (* STATUS_A_UPDATE_IN_PROGRESS                                *)
  quiet,     (* reads since the last update, up to Quiet                   *)
  ticks,     (* updates so far                                             *)
  pc,        (* "wait" for the update, "read", or the call is "done"       *)
  raw,       (* the previous pass; empty before the first                  *)
  pass,      (* the registers read in this pass                            *)
  seen       (* the times the clock has shown since the call began         *)

vars == <<time, mode, updating, quiet, ticks, pc, raw, pass, seen>>

-----------------------------------------------------------------------------
(* The clock counts on. *)
DaysIn(month, year) ==
  CASE month = 2 -> IF year % 4 = 0 THEN 29 ELSE 28
    [] month \in {4, 6, 9, 11} -> 30
    [] OTHER -> 31

Times ==
  { t \in [1 .. 6 -> 0 .. 99] :
      t[1] < 60 /\ t[2] < 60 /\ t[3] < 24 /\ t[5] \in 1 .. 12 /\ t[4] \in 1 .. DaysIn(t[5], t[6]) }

(* What is assumed of the constants; the instance in MCConsole evaluates   *)
(* it.  Two passes over the registers fit, with a look at status A before  *)
(* each.                                                                   *)
Assumptions == Starts \subseteq Times /\ Quiet \in Nat /\ Quiet >= 16 /\ MaxTicks \in Nat

Later(t) ==
  LET carry == <<t[1] = 59, t[2] = 59, t[3] = 23, t[4] = DaysIn(t[5], t[6]), t[5] = 12, t[6] = 99>>
      base  == <<0, 0, 0, 1, 1, 0>>
      moves(i) == \A j \in 1 .. i - 1 : carry[j]
  IN  [i \in 1 .. 6 |-> IF ~moves(i) THEN t[i] ELSE IF carry[i] THEN base[i] ELSE t[i] + 1]

(* What the registers hold for a time. *)
ToBcd(n) == (n \div 10) * 16 + (n % 10)
Encode(n, m) == IF m.binary THEN n ELSE ToBcd(n)
EncodeHours(h, m) ==
  IF m.h24 THEN Encode(h, m)
  ELSE Encode(IF h % 12 = 0 THEN 12 ELSE h % 12, m) + (IF h >= 12 THEN 128 ELSE 0)
Registers(t, m) ==
  [i \in 1 .. 6 |-> IF i = 3 THEN EncodeHours(t[3], m) ELSE Encode(t[i], m)]

-----------------------------------------------------------------------------
(* What read_time makes of them. *)
BcdToBinary(v) == (v % 16) + (v \div 16) * 10

IsPm(hours_raw) == hours_raw >= 128

NormalizeHours12h(hours_raw, hours12) ==
  IF IsPm(hours_raw) THEN (hours12 % 12) + 12
  ELSE IF hours12 = 12 THEN 0 ELSE hours12

(* Slip: the documentation's own example, 0x59 taken for 89. *)
DecodeAsBinary(r, m) == r

Decode(r, m) ==
  LET plain(v) == IF m.binary THEN v ELSE BcdToBinary(v)
      hours    == plain(r[3] % 128)
  IN  [i \in 1 .. 6 |-> IF i # 3 THEN plain(r[i])
                        ELSE IF m.h24 THEN hours ELSE NormalizeHours12h(r[3], hours)]

-----------------------------------------------------------------------------
Init ==
  /\ time \in Starts
  /\ mode \in [binary : BOOLEAN, h24 : BOOLEAN]
  /\ updating \in BOOLEAN
  /\ quiet \in {0, Quiet} /\ (updating => quiet = 0)
  /\ ticks = 0
  /\ pc = "wait"
  /\ raw = <<>> /\ pass = <<>>
  /\ seen = {time}

(* The update cycle begins, and ends with the next second. *)
BeginUpdate ==
  /\ ~updating /\ quiet = Quiet /\ ticks < MaxTicks
  /\ updating' = TRUE
  /\ quiet' = 0
  /\ UNCHANGED <<time, mode, ticks, pc, raw, pass, seen>>

EndUpdate ==
  /\ updating
  /\ updating' = FALSE
  /\ ticks' = ticks + 1
  /\ time' = Later(time)
  /\ seen' = IF pc = "done" THEN seen ELSE seen \cup {time'}
  /\ UNCHANGED <<mode, quiet, pc, raw, pass>>

(* Time passes with every read. *)
Passes == quiet' = IF updating \/ quiet = Quiet THEN quiet ELSE quiet + 1

(* read_raw_registers begins when no update is in progress. *)
SeesNoUpdate ==
  /\ pc = "wait" /\ ~updating
  /\ pc' = "read" /\ pass' = <<>>
  /\ Passes
  /\ UNCHANGED <<time, mode, updating, ticks, raw, seen>>

ReadRegister ==
  /\ pc = "read" /\ Len(pass) < 6
  /\ \E v \in IF updating THEN Undefined ELSE {Registers(time, mode)[Len(pass) + 1]} :
       pass' = Append(pass, v)
  /\ Passes
  /\ UNCHANGED <<time, mode, updating, ticks, pc, raw, seen>>

(* Slip: one pass is enough. *)
AgreesAtOnce(previous, this) == TRUE

Agrees(previous, this) == previous = this

(* Status B is the last register of a pass; then read_time compares. *)
Compare ==
  /\ pc = "read" /\ Len(pass) = 6
  /\ pc' = IF Agrees(raw, pass) THEN "done" ELSE "wait"
  /\ raw' = pass
  /\ Passes
  /\ UNCHANGED <<time, mode, updating, ticks, pass, seen>>

Next == BeginUpdate \/ EndUpdate \/ SeesNoUpdate \/ ReadRegister \/ Compare

Spec == Init /\ [][Next]_vars

-----------------------------------------------------------------------------
(***************************************************************************)
(* The time read_time returns is one the clock really showed while the     *)
(* call was running, never a mixture of two seconds or one with a register *)
(* caught in an update, whatever carries from the seconds up to the year   *)
(* in between.  The encoding is the same throughout a call.                *)
(***************************************************************************)
TimeExisted == pc = "done" => Decode(raw, mode) \in seen

=============================================================================
