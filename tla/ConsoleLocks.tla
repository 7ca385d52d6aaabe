---------------------------- MODULE ConsoleLocks ----------------------------
(***************************************************************************)
(* The keyboard interrupt during the boot, which has interrupts on from    *)
(* main.rs:183.  The handler runs the line editor and, on Enter, a whole   *)
(* shell command before it returns, and takes the spin locks of what it    *)
(* touches; on the one CPU the code it interrupted cannot release a lock   *)
(* before the handler has returned.                                        *)
(***************************************************************************)
EXTENDS Console

VARIABLES
  held,      (* the locks of the code in main.rs that may be interrupted   *)
  awaited    (* those of them for which the handler spins                  *)

Printing == {"WRITER", "SERIAL1"}
Locks    == Printing \cup {"KEYBOARD", "SCHEDULER", "KV_MANAGER"}

(* Every command prints; `ps` and `mem` do so under a table's lock. *)
CommandLocks == {Printing, Printing \cup {"SCHEDULER"}, Printing \cup {"KV_MANAGER"}}

(* What handle_scancode takes for a byte, given those of the command. *)
Needed(code, command) ==
  LET c == HandleScancode(Pair(kb, screen), code)
  IN  {"KEYBOARD"}
        \cup (IF c.screen # screen THEN {"WRITER"} ELSE {})
        \cup (IF c.kb.history # kb.history THEN command ELSE {})

(* The boot spawns, prints and tests under the locks, one within another. *)
KernelTakes(l) ==
  /\ awaited = {} /\ l \notin held
  /\ held # {} => l \in Printing
  /\ held' = held \cup {l}
  /\ UNCHANGED <<vars, awaited>>

KernelReleases(l) ==
  /\ awaited = {} /\ l \in held
  /\ held' = held \ {l}
  /\ UNCHANGED <<vars, awaited>>

Handler(command) ==
  /\ awaited = {} /\ port # <<>>
  /\ awaited' = Needed(Head(port).code, command) \cap held
  /\ IF awaited' # {} THEN UNCHANGED vars ELSE Interrupt
  /\ UNCHANGED held

Typing ==
  /\ \E key \in Keys : Press(key) \/ Release(key)
  /\ UNCHANGED <<held, awaited>>

LInit == Init /\ held = {} /\ awaited = {}

LNext ==
  \/ \E l \in Locks : KernelTakes(l) \/ KernelReleases(l)
  \/ \E command \in CommandLocks : Handler(command)
  \/ Typing

LSpec == LInit /\ [][LNext]_<<vars, held, awaited>>

(***************************************************************************)
(* No interrupt handler waits for SCHEDULER while the code it interrupted  *)
(* holds it: preemptive.rs explains that taking it the blocking way from   *)
(* interrupt context "would be a real bug on this single core", a          *)
(* "guaranteed permanent deadlock", and has the timer use try_lock.        *)
(***************************************************************************)
SchedulerNotAwaited == "SCHEDULER" \notin awaited

=============================================================================
