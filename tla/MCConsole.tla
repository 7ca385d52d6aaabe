----------------------------- MODULE MCConsole -----------------------------
(***************************************************************************)
(* TLC instance of the console and of the two devices its commands poll,   *)
(* the clock and the disk.  read_time, read_sector and write_sector run    *)
(* inside one command or before the first, and share nothing with the      *)
(* editor or with each other: a behaviour is one of Console, of Rtc or of  *)
(* Ata, and the others stay as they were initialised.                      *)
(***************************************************************************)
EXTENDS Console

CONSTANTS
  Starts, Undefined, Quiet, MaxTicks,                (* of Rtc             *)
  Sectors, Data, MaxCalls, MaxTimeouts, MaxErrors    (* of Ata             *)

VARIABLES
  part,   (* "console", "rtc" or "ata"                                     *)
  time, mode, updating, quiet, ticks, pc, raw, pass, seen,                       (* of Rtc *)
  at, call, foundQuiet, ok, lba, drive, cache, medium, calls, timeouts, errors   (* of Ata *)

C == INSTANCE Rtc
D == INSTANCE Ata WITH pc <- at, quiet <- foundQuiet

ASSUME RtcAssumption == C!Assumptions
ASSUME AtaAssumption == D!Assumptions

cvars == <<time, mode, updating, quiet, ticks, pc, raw, pass, seen>>
dvars == <<at, call, foundQuiet, ok, lba, drive, cache, medium, calls, timeouts, errors>>
all   == <<part, vars, cvars, dvars>>

-----------------------------------------------------------------------------
(* A letter, the space bar, Enter, Backspace and Shift; the four arrows,   *)
(* and the Enter of the number pad.                                        *)
MCKeys == {Plain(code) : code \in {30, 57, ENTER, BACKSPACE, 42}}
            \cup {Extended(code) : code \in {UP, DOWN, LEFT, RIGHT, ENTER}}

(* Carries through every register, noon, and midnight in both encodings. *)
MCStarts == {<<59, 59, 23, 31, 12, 25>>, <<59, 59, 11, 28, 2, 24>>,
             <<58, 59, 0, 9, 9, 9>>, <<59, 9, 12, 30, 4, 19>>}

-----------------------------------------------------------------------------
(* A clock not in use: one of its initial states is enough. *)
ClockIdle ==
  /\ C!Init
  /\ time = CHOOSE t \in Starts : TRUE
  /\ mode = [binary |-> TRUE, h24 |-> TRUE] /\ quiet = Quiet

(* A drive not in use. *)
DriveIdle ==
  /\ D!Init
  /\ lba = CHOOSE s \in Sectors : TRUE
  /\ medium = [s \in Sectors |-> CHOOSE d \in Data : TRUE]

MCInit ==
  /\ Init
  /\ \/ part = "console" /\ ClockIdle /\ DriveIdle
     \/ part = "rtc" /\ C!Init /\ DriveIdle
     \/ part = "ata" /\ ClockIdle /\ D!Init

MCNext ==
  \/ part = "console" /\ Next   /\ UNCHANGED <<part, cvars, dvars>>
  \/ part = "rtc"     /\ C!Next /\ UNCHANGED <<part, vars, dvars>>
  \/ part = "ata"     /\ D!Next /\ UNCHANGED <<part, vars, cvars>>

MCSpec == MCInit /\ [][MCNext]_all

-----------------------------------------------------------------------------
(***************************************************************************)
(* The time read_time returns is one the clock really showed while the     *)
(* call was running, never a mixture of two seconds.                       *)
(***************************************************************************)
TimeExisted == C!TimeExisted

(***************************************************************************)
(* A sector read or written with Ok by a call that found the drive quiet   *)
(* is the one asked for, and a written one is on the medium, whatever      *)
(* calls gave up or failed before it.                                      *)
(***************************************************************************)
QuietDriveServes == D!QuietDriveServes
=============================================================================
