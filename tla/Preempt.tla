------------------------------- MODULE Preempt -------------------------------
(***************************************************************************)
(* scheduler/preemptive.rs: the timer forces two ring-0 tasks that never   *)
(* yield off the CPU for a budget of ticks, then hands control back to the *)
(* kernel context that started them.                                       *)
(*                                                                         *)
(* Three contexts share the CPU: the kernel (slot None) and tasks 0, 1.    *)
(* A tick runs with interrupts off, so `tick` is one atomic step; between  *)
(* ticks the context on the CPU executes, one step at a time.  A saved RSP *)
(* is abstracted to the position of the context that was saved there.      *)
(* Task 0 runs the shell's `ps` first, which holds SCHEDULER with          *)
(* interrupts on; `tick` only ever try_locks it.                           *)
(***************************************************************************)
EXTENDS Integers

CONSTANTS
  Budgets,    (* tick budgets a demo may be started with                   *)
  Prios,      (* values of `Priority as u8`                                *)
  PsLength    (* lines `ps` prints while it holds SCHEDULER                *)

ASSUME BudgetsAssumption  == Budgets \subseteq Nat \ {0}
ASSUME PriosAssumption    == Prios \subseteq Nat
ASSUME PsLengthAssumption == PsLength \in Nat

(***************************************************************************)
(* `ps` ends within the demo: task 0 gets at least half of the slices, one *)
(* step of it fits in each, and entry, lock, the lines, unlock and one     *)
(* count fit in its share (50 and 30 ticks of 55 ms in the code).          *)
(***************************************************************************)
ASSUME PsFitsAssumption == \A b \in Budgets : b >= 2 * (PsLength + 4)

None  == -1            \* PREEMPT_CURRENT's None: the kernel context
Tasks == {0, 1}
Ctxs  == {None} \cup Tasks

VARIABLES
  enabled,    (* PREEMPT_ENABLED                                           *)
  remaining,  (* PREEMPT_TICKS_REMAINING                                   *)
  current,    (* PREEMPT_CURRENT                                           *)
  present,    (* PREEMPT_TASKS[i].is_some()                                *)
  prio,       (* PREEMPT_TASKS[i].priority                                 *)
  saved,      (* PREEMPT_TASKS[i].saved_rsp, PREEMPT_IDLE_RSP              *)
  pcb,        (* state of the demo's two entries in SCHEDULER              *)
  lock,       (* who holds SCHEDULER                                       *)
  cpu,        (* the context executing and its position                    *)
  psLeft,     (* lines task 0's `ps` has still to print                    *)
  snap,       (* ticks_before_ring3, ticks_after_ring3                     *)
  counted,    (* PREEMPT_COUNTERS[i] moved since the demo started          *)
  pos,        (* history: where each context really stopped                *)
  stepped,    (* history: the task executed since the last tick            *)
  ran,        (* history: the task was given the CPU in this demo          *)
  lead,       (* history: slices task 0 got more than a task 1 of its rank *)
  stale       (* history: consecutive ticks that left pcb wrong            *)

vars == <<enabled, remaining, current, present, prio, saved, pcb, lock, cpu,
          psLeft, snap, counted, pos, stepped, ran, lead, stale>>

(***************************************************************************)
(* Positions.  Kernel: "out" of any demo, in the window around the ring-3  *)
(* test, "wait" in the hlt loop, cleaning up.  Tasks: "entry" (interrupts  *)
(* still off), at and inside `ps`, the counting "loop".                    *)
(***************************************************************************)
KernelAt == {"out", "before", "entering", "ring3", "after", "wait", "clean0", "clean1"}
TaskAt   == {"none", "entry", "ps", "print", "loop"}

At(c, p) == [ctx |-> c, at |-> p]
Rsp      == [ctx : Ctxs, at : KernelAt \cup TaskAt]

TypeOK ==
  /\ enabled \in BOOLEAN
  /\ remaining \in Nat
  /\ current \in Ctxs
  /\ present \in [Tasks -> BOOLEAN]
  /\ prio \in [Tasks -> Prios \cup {0}]
  /\ saved \in [Ctxs -> Rsp]
  /\ pcb \in [Tasks -> {"none", "Ready", "Running", "Terminated"}]
  /\ lock \in BOOLEAN
  /\ cpu \in Rsp
  /\ psLeft \in 0 .. PsLength
  /\ snap \in [before : Nat, after : Nat]
  /\ counted \in [Tasks -> BOOLEAN]
  /\ pos \in [Ctxs -> KernelAt \cup TaskAt]
  /\ stepped \in BOOLEAN
  /\ ran \in [Tasks -> BOOLEAN]
  /\ lead \in Int
  /\ stale \in Nat

Init ==
  /\ enabled = FALSE
  /\ remaining = 0
  /\ current = None
  /\ present = [i \in Tasks |-> FALSE]
  /\ prio = [i \in Tasks |-> 0]
  /\ saved = [c \in Ctxs |-> At(c, "none")]
  /\ pcb = [i \in Tasks |-> "none"]
  /\ lock = FALSE
  /\ cpu = At(None, "out")
  /\ psLeft = 0
  /\ snap = [before |-> 0, after |-> 0]
  /\ counted = [i \in Tasks |-> FALSE]
  /\ pos = [c \in Ctxs |-> IF c = None THEN "out" ELSE "none"]
  /\ stepped = FALSE
  /\ ran = [i \in Tasks |-> FALSE]
  /\ lead = 0
  /\ stale = 0

-----------------------------------------------------------------------------
(* Steps of the context on the CPU. *)

Goto(c, from, to) ==
  /\ cpu = At(c, from)
  /\ cpu' = At(c, to)
  /\ pos' = [pos EXCEPT ![c] = to]

demoVars == <<enabled, remaining, current, present, prio, saved, ran, lead, stale>>

(***************************************************************************)
(* start_demo: two PCBs, two fresh stacks, the budget, then ENABLED.  The  *)
(* scheduler is disabled until its last store, so ticks during it do       *)
(* nothing.  SCHEDULER.lock() blocks as long as somebody holds it.         *)
(* `inRing3` tells run_concurrent_ring3_preemption_test from the others.   *)
(***************************************************************************)
StartDemo(ticks, p, inRing3) ==
  /\ cpu = At(None, "out")
  /\ cpu' = At(None, IF inRing3 THEN "before" ELSE "wait")
  /\ pos' = [c \in Ctxs |-> IF c = None THEN cpu'.at ELSE "entry"]
  /\ ~lock
  /\ pcb' = [i \in Tasks |-> "Ready"]
  /\ present' = [i \in Tasks |-> TRUE]
  /\ prio' = p
  /\ saved' = [saved EXCEPT ![0] = At(0, "entry"), ![1] = At(1, "entry")]
  /\ remaining' = ticks
  /\ enabled' = TRUE
  /\ counted' = [i \in Tasks |-> FALSE]
  /\ snap' = [before |-> 0, after |-> 0]
  /\ ran' = [i \in Tasks |-> FALSE]
  /\ lead' = 0
  /\ stale' = 0
  /\ UNCHANGED <<current, lock, psLeft, stepped>>

(* run_concurrent_ring3_preemption_test, between start_demo and cleanup. *)
ReadBefore ==
  /\ Goto(None, "before", "entering")
  /\ snap' = [snap EXCEPT !.before = remaining]
  /\ UNCHANGED <<demoVars, pcb, lock, psLeft, counted, stepped>>

EnterRing3 ==
  /\ Goto(None, "entering", "ring3")
  /\ UNCHANGED <<demoVars, pcb, lock, psLeft, snap, counted, stepped>>

ExitRing3 ==
  /\ Goto(None, "ring3", "after")
  /\ UNCHANGED <<demoVars, pcb, lock, psLeft, snap, counted, stepped>>

ReadAfter ==
  /\ Goto(None, "after", "wait")
  /\ snap' = [snap EXCEPT !.after = remaining]
  /\ UNCHANGED <<demoVars, pcb, lock, psLeft, counted, stepped>>

(* wait_for_demo_and_cleanup: the hlt loop ends once the demo is disabled. *)
WaitOver ==
  /\ Goto(None, "wait", "clean0")
  /\ ~enabled
  /\ UNCHANGED <<demoVars, pcb, lock, psLeft, snap, counted, stepped>>

(* ... then each task's slot is taken and its PCB marked Terminated. *)
Cleanup(i) ==
  /\ Goto(None, IF i = 0 THEN "clean0" ELSE "clean1", IF i = 0 THEN "clean1" ELSE "out")
  /\ ~lock
  /\ present' = [present EXCEPT ![i] = FALSE]
  /\ pcb' = [pcb EXCEPT ![i] = IF present[i] THEN "Terminated" ELSE @]
  /\ UNCHANGED <<enabled, remaining, current, prio, saved, lock, psLeft, snap,
                 counted, stepped, ran, lead, stale>>

(* preempt_task_body. *)
TaskEntry(i) ==
  /\ Goto(i, "entry", IF i = 0 THEN "ps" ELSE "loop")
  /\ stepped' = TRUE
  /\ UNCHANGED <<demoVars, pcb, lock, psLeft, snap, counted>>

PsLock ==
  /\ Goto(0, "ps", "print")
  /\ ~lock
  /\ lock' = TRUE
  /\ psLeft' = PsLength
  /\ stepped' = TRUE
  /\ UNCHANGED <<demoVars, pcb, snap, counted>>

PsPrintLeaks ==    \* slip: the guard is leaked, SCHEDULER stays locked
  /\ Goto(0, "print", IF psLeft = 0 THEN "loop" ELSE "print")
  /\ psLeft' = IF psLeft = 0 THEN 0 ELSE psLeft - 1
  /\ stepped' = TRUE
  /\ UNCHANGED <<demoVars, pcb, lock, snap, counted>>

PsPrint ==
  /\ Goto(0, "print", IF psLeft = 0 THEN "loop" ELSE "print")
  /\ lock' = (psLeft # 0)
  /\ psLeft' = IF psLeft = 0 THEN 0 ELSE psLeft - 1
  /\ stepped' = TRUE
  /\ UNCHANGED <<demoVars, pcb, snap, counted>>

Count(i) ==
  /\ Goto(i, "loop", "loop")
  /\ counted' = [counted EXCEPT ![i] = TRUE]
  /\ stepped' = TRUE
  /\ UNCHANGED <<demoVars, pcb, lock, psLeft, snap>>

-----------------------------------------------------------------------------
(* The timer. *)


(* The slots that hold a task of the top priority present. *)
TopTier == { i \in Tasks : present[i] /\ \A j \in Tasks : present[j] => prio[i] <= prio[j] }

ChooseFirst(from) ==    \* slip: the search always starts at slot 0
  IF 0 \in TopTier THEN 0 ELSE IF 1 \in TopTier THEN 1 ELSE None

(* Round robin: the other slot first, task 0 when coming from the kernel. *)
Choose(from) ==
  LET start == IF from = None THEN 0 ELSE 1 - from
  IN  IF start \in TopTier THEN start
      ELSE IF 1 - start \in TopTier THEN 1 - start ELSE None

SyncNextOnly(from, next) ==    \* slip: the preempted task stays RUNNING
  IF lock THEN pcb ELSE [i \in Tasks |-> IF present[i] /\ i = next THEN "Running" ELSE pcb[i]]

(***************************************************************************)
(* The PCB update, skipped when SCHEDULER is held by the code interrupted: *)
(* `from` becomes Ready, `next` becomes Running.                           *)
(***************************************************************************)
SyncPcbs(from, next) ==
  IF lock THEN pcb
  ELSE [i \in Tasks |-> IF ~present[i] THEN pcb[i]
                        ELSE IF i = next THEN "Running"
                        ELSE IF i = from THEN "Ready" ELSE pcb[i]]

(* What `ps` shows for the demo's tasks agrees with who is on the CPU. *)
PcbsShow(table, c) == \A i \in Tasks : table[i] = "Running" <=> c = i

(* switch_to: save the interrupted context, load the chosen one. *)
SwitchTo(from, next) ==
  /\ saved' = [saved EXCEPT ![from] = cpu]
  /\ cpu' = saved[next]
  /\ current' = next

LeftStuck == remaining    \* slip: the decrement is lost

Left == IF remaining = 0 THEN 0 ELSE remaining - 1   \* saturating_sub(1)

(* The body of tick once its two early returns are passed. *)
PreemptTick ==
  LET left == Left
      from == current
      next == IF left = 0 THEN None ELSE Choose(from)
  IN  /\ remaining' = left
      /\ enabled' = (left # 0)
      /\ ran' = [i \in Tasks |-> ran[i] \/ i = next]
      /\ lead' = IF prio[0] # prio[1] \/ next = None THEN lead
                 ELSE IF next = 0 THEN lead + 1 ELSE lead - 1
      /\ \/ /\ next = from
            /\ UNCHANGED <<saved, cpu, current, pcb>>
         \/ /\ next # from
            /\ pcb' = SyncPcbs(from, next)
            /\ SwitchTo(from, next)
      /\ stale' = IF PcbsShow(pcb', next) THEN 0 ELSE stale + 1

TickIgnoredInRing0 == ~enabled    \* slip: ring-3 ticks count too

(* tick's two early returns: no demo, or the tick interrupted ring 3. *)
TickIgnored == ~enabled \/ cpu.at = "ring3"

(* Interrupts are off only before a task's first instruction. *)
Interruptible == cpu.at # "entry" /\ (cpu.ctx \in Tasks => stepped)

TickCountsFirst ==    \* slip: the ring-3 test comes after the countdown
  /\ Interruptible
  /\ enabled
  /\ \/ /\ cpu.at # "ring3"
        /\ PreemptTick
        /\ stepped' = FALSE
     \/ /\ cpu.at = "ring3"
        /\ remaining' = Left
        /\ enabled' = (Left # 0)
        /\ UNCHANGED <<saved, cpu, current, pcb, ran, lead, stale, stepped>>
  /\ UNCHANGED <<present, prio, lock, psLeft, snap, counted, pos>>

Tick ==
  /\ Interruptible
  /\ ~TickIgnored
  /\ PreemptTick
  /\ stepped' = FALSE
  /\ UNCHANGED <<present, prio, lock, psLeft, snap, counted, pos>>

-----------------------------------------------------------------------------
Next ==
  \/ \E b \in Budgets, p \in [Tasks -> Prios], r \in BOOLEAN : StartDemo(b, p, r)
  \/ ReadBefore \/ EnterRing3 \/ ExitRing3 \/ ReadAfter
  \/ WaitOver
  \/ \E i \in Tasks : Cleanup(i)
  \/ \E i \in Tasks : TaskEntry(i)
  \/ PsLock \/ PsPrint
  \/ \E i \in Tasks : Count(i)
  \/ Tick

Spec == Init /\ [][Next]_vars

(* The PIT keeps firing; the kernel and the tasks execute when on the CPU. *)
Fairness ==
  /\ WF_vars(Tick)
  /\ WF_vars(ReadBefore \/ EnterRing3 \/ ExitRing3 \/ ReadAfter \/ WaitOver)
  /\ \A i \in Tasks : WF_vars(Cleanup(i)) /\ WF_vars(TaskEntry(i)) /\ WF_vars(Count(i))
  /\ WF_vars(PsLock) /\ WF_vars(PsPrint)

FairSpec == Spec /\ Fairness

-----------------------------------------------------------------------------
(* Properties *)

(***************************************************************************)
(* switch_to always resumes the context the scheduler calls current where  *)
(* it was interrupted; the others wait in their own saved_rsp.  Ring-3     *)
(* code, whose ticks arrive on a stack the next interrupt overwrites, is   *)
(* never switched away from.                                               *)
(***************************************************************************)
ResumesExactly ==
  /\ cpu = At(current, pos[current])
  /\ \A c \in Ctxs \ {current} : c = None \/ present[c] => saved[c] = At(c, pos[c])
  /\ pos[None] = "ring3" => current = None

(***************************************************************************)
(* Tasks of one priority share the budget evenly: their slices never       *)
(* differ by more than one.  A task of a lower priority gets nothing at    *)
(* all (priority_test's claim).                                            *)
(***************************************************************************)
SharesFollowPriority ==
  /\ lead \in {0, 1}
  /\ \A i \in Tasks : prio[1 - i] < prio[i] => ~counted[i] /\ ~ran[i]

(***************************************************************************)
(* Module documentation: a contended SCHEDULER makes `ps` show at most one *)
(* tick's worth of stale state, although try_lock may fail many times in a *)
(* row while `ps` itself is preempted.                                     *)
(***************************************************************************)
StaleAtMostOneTick == stale <= 1

(***************************************************************************)
(* wait_for_demo_and_cleanup may reclaim the tasks' stacks: both were      *)
(* abandoned in their loops, neither inside `ps` with SCHEDULER held, and  *)
(* a demo of equals has let both count.  Once it is out, `ps` shows no     *)
(* abandoned task as READY or RUNNING.                                     *)
(***************************************************************************)
SafeToReclaim ==
  /\ cpu.ctx = None /\ cpu.at \in {"clean0", "clean1"} =>
       /\ ~lock
       /\ prio[0] = prio[1] => counted[0] /\ counted[1]
  /\ cpu.at = "out" => \A i \in Tasks : ~present[i] /\ pcb[i] \in {"none", "Terminated"}

(***************************************************************************)
(* run_concurrent_ring3_preemption_test: ticks in ring 3 cost the demo     *)
(* nothing.  The two readings of the budget around the ring-3 program are  *)
(* equal, or the whole demo has run between them, because a tick landed in *)
(* ring 0 on the way in or out.                                            *)
(***************************************************************************)
BudgetAllOrNothing ==
  pos[None] \in {"wait", "clean0", "clean1"} => snap.after \in {snap.before, 0}

(* Every demo's budget runs out and its caller gets the CPU back. *)
DemoReturns == (pos[None] = "wait") ~> (pos[None] = "out")

=============================================================================
