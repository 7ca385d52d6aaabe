------------------------------- MODULE Ring3Mt -------------------------------
(***************************************************************************)
(* Timer-driven multitasking of ring-3 tasks: scheduler/ring3_mt.rs and    *)
(* scheduler/ring3_preempt.rs, the interrupt stubs that reach them         *)
(* (interrupts.rs, ring3.rs) and the ring-3 entry and exit paths           *)
(* (enter_ring3, vector 0x81).                                             *)
(*                                                                         *)
(* Every stub enters with interrupts off (interrupt gates) on the single   *)
(* RSP0 stack, so each handler is one atomic step.  It pushes the complete *)
(* context of the interrupted program on that stack, calls a Rust handler  *)
(* with the address of the pushed context, and resumes from whatever       *)
(* address the handler returns.  `mem` is the memory those addresses name. *)
(* A 160-byte context is abstracted to the task it belongs to and how far  *)
(* that task's program has come.                                           *)
(***************************************************************************)
EXTENDS Integers, TierSelect

CONSTANTS
  MaxTasks,     (* RING3_MT_MAX_TASKS                                      *)
  Priorities,   (* the values of `Priority as u8` a session may use        *)
  WorkBound     (* steps a ring-3 program takes before its last instruction*)

ASSUME MaxTasksAssumption   == MaxTasks \in Nat \ {0}
ASSUME PrioritiesAssumption == Priorities \subseteq Nat
ASSUME WorkBoundAssumption  == WorkBound \in Nat

Slots   == 0 .. MaxTasks - 1
Frame   == -1   \* the context pushed on the RSP0 stack
FullBuf == -2   \* RING3_FULL_TASK_CTX's buffer
Addr    == Slots \cup {Frame, FullBuf}

Ctx     == [task : Slots \cup {-1}, work : 0 .. WorkBound]
Garbage == [task |-> -1, work |-> 0]   \* zeroed, or poisoned with 0xAA

Endings == {"exit", "retire", "spin"}  \* enum ProgramEnding

VARIABLES
  enabled,      (* RING3_MT_ENABLED                                        *)
  active,       (* RING3_MT_ACTIVE_TASKS                                   *)
  current,      (* RING3_MT_CURRENT                                        *)
  prio,         (* RING3_MT_TASK_PRIORITY                                  *)
  done,         (* RING3_MT_TASK_DONE                                      *)
  fullEnabled,  (* RING3_FULL_PREEMPT_ENABLED                              *)
  fullHit,      (* RING3_FULL_PREEMPT_HIT                                  *)
  mem,          (* the contexts at RING3_MT_TASK_CTX[i], FullBuf and Frame *)
  mode,         (* privilege level, or "hung" inside select_next's loop    *)
  phase,        (* where the kernel stands in run_multitasking/_intercepting*)
  cpu,          (* the context executing in ring 3                         *)
  ending,       (* how each task's program ends                            *)
  work,         (* history: steps each program has really executed         *)
  switched,     (* RING3_MT_SWITCH_COUNT is not zero                       *)
  bypass        (* history: switches to others while the task was eligible *)

schedVars == <<enabled, active, current, prio, done>>
fullVars  == <<fullEnabled, fullHit>>
histVars  == <<work, switched, bypass>>
vars == <<schedVars, fullVars, mem, mode, phase, cpu, ending, histVars>>

TypeOK ==
  /\ enabled \in BOOLEAN
  /\ active \in 0 .. MaxTasks
  /\ current \in Slots
  /\ prio \in [Slots -> Priorities \cup {0}]
  /\ done \in [Slots -> BOOLEAN]
  /\ fullEnabled \in BOOLEAN
  /\ fullHit \in BOOLEAN
  /\ mem \in [Addr -> Ctx]
  /\ mode \in {"ring0", "ring3", "hung"}
  /\ phase \in {"idle", "armed", "running"}
  /\ cpu \in Ctx
  /\ ending \in [Slots -> Endings]
  /\ work \in [Slots -> 0 .. WorkBound]
  /\ switched \in BOOLEAN
  /\ bypass \in [Slots -> Nat]

Init ==
  /\ enabled = FALSE
  /\ active = 0
  /\ current = 0
  /\ prio = [i \in Slots |-> 0]
  /\ done = [i \in Slots |-> FALSE]
  /\ fullEnabled = FALSE
  /\ fullHit = FALSE
  /\ mem = [a \in Addr |-> Garbage]
  /\ mode = "ring0"
  /\ phase = "idle"
  /\ cpu = Garbage
  /\ ending = [i \in Slots |-> "exit"]
  /\ work = [i \in Slots |-> 0]
  /\ switched = FALSE
  /\ bypass = [i \in Slots |-> 0]

-----------------------------------------------------------------------------
(* The kernel side of a session. *)

Fresh(i) == [task |-> i, work |-> 0]   \* prepare_ring3_mt_task_ctx

(***************************************************************************)
(* The sessions a caller may start, the precondition run_multitasking has  *)
(* in its documentation and does not test (CallersAreSafe: every caller    *)
(* keeps it).  Task 0 alone ends the session, with int 0x81; a task that   *)
(* out-ranks task 0 must retire, or task 0 never runs again.               *)
(***************************************************************************)
SafeSession(n, p, e) ==
  /\ e[0] = "exit"
  /\ \A i \in 1 .. n - 1 :
       /\ e[i] \in {"retire", "spin"}
       /\ p[i] < p[0] => e[i] = "retire"

(***************************************************************************)
(* The sessions the kernel starts: every caller of run_multitasking is one *)
(* of four self-tests of three tasks each.  A session is the priority and  *)
(* the ending of each task; the yield that run_voluntary_yield_ring3_mt_   *)
(* test's task 1 makes before it retires is YieldInt, open to every task.  *)
(***************************************************************************)
High       == 1   \* Priority::High as u8
Normal     == 2
Background == 3

Session(p0, p1, p2, e0, e1, e2) ==
  [prio   |-> [i \in 0 .. 2 |-> <<p0, p1, p2>>[i + 1]],
   ending |-> [i \in 0 .. 2 |-> <<e0, e1, e2>>[i + 1]]]

RunRing3MtTest ==
  Session(Normal, Normal, Normal, "exit", "spin", "spin")

RunPriorityRing3MtTest ==
  Session(High, Background, Background, "exit", "spin", "spin")

RunEarlyExitRing3MtTest ==
  Session(Normal, Normal, Normal, "exit", "retire", "spin")

RunVoluntaryYieldRing3MtTest ==
  Session(Normal, Normal, Normal, "exit", "retire", "spin")

KernelSessions == {RunRing3MtTest, RunPriorityRing3MtTest,
                   RunEarlyExitRing3MtTest, RunVoluntaryYieldRing3MtTest}

(* The rules RunMultitasking asks of its caller hold of every caller. *)
ASSUME CallersAreSafe ==
  \A s \in KernelSessions : SafeSession(3, s.prio, s.ending)

(* arm_task_slots: the first n slots are overwritten, `done` is cleared.   *)
ArmTaskSlots(n, p) ==
  /\ mem' = [a \in Addr |-> IF a = 0 THEN Garbage
                            ELSE IF a \in 1 .. n - 1 THEN Fresh(a) ELSE mem[a]]
  /\ prio' = [i \in Slots |-> IF i < n THEN p[i] ELSE prio[i]]
  /\ done' = [i \in Slots |-> FALSE]

(* run_multitasking up to the call of f. *)
RunMultitasking(n, p, e) ==
  /\ phase = "idle"
  /\ SafeSession(n, p, e)
  /\ ArmTaskSlots(n, p)
  /\ active' = n
  /\ current' = 0
  /\ enabled' = TRUE
  /\ phase' = "armed"
  /\ ending' = [i \in Slots |-> IF i < n THEN e[i] ELSE "exit"]
  /\ work' = [i \in Slots |-> 0]
  /\ switched' = FALSE
  /\ bypass' = [i \in Slots |-> 0]
  /\ UNCHANGED <<fullVars, mode, cpu>>

(* The caller of run_intercepting: one program, which leaves by int 0x81. *)
RunRing3FullPreemptTest == [i \in Slots |-> "exit"]

(* run_intercepting up to the call of f; the only program is task 0's. *)
RunIntercepting ==
  /\ phase = "idle"
  /\ mem' = [mem EXCEPT ![FullBuf] = Garbage]
  /\ fullHit' = FALSE
  /\ fullEnabled' = TRUE
  /\ phase' = "armed"
  /\ ending' = RunRing3FullPreemptTest
  /\ work' = [i \in Slots |-> 0]
  /\ UNCHANGED <<schedVars, mode, cpu, switched, bypass>>

(* f: enter_ring3's iretq into task 0's program. *)
EnterRing3 ==
  /\ phase = "armed"
  /\ mode' = "ring3"
  /\ phase' = "running"
  /\ cpu' = Fresh(0)
  /\ UNCHANGED <<schedVars, fullVars, mem, ending, histVars>>

-----------------------------------------------------------------------------
(* Ring-3 execution and the interrupt handlers it can reach. *)

Finished(c) == c.work = WorkBound

(* One step of the program whose context is on the CPU. *)
UserStep(t) ==
  /\ mode = "ring3"
  /\ cpu.task = t
  /\ ~Finished(cpu)
  /\ cpu' = [cpu EXCEPT !.work = @ + 1]
  /\ work' = [work EXCEPT ![t] = IF @ < WorkBound THEN @ + 1 ELSE @]
  /\ UNCHANGED <<schedVars, fullVars, mem, mode, phase, ending, switched, bypass>>

(* The stub's epilogue: pop every register from `ptr`, then iretq. *)
Resume(m, ptr) ==
  /\ mem' = m
  /\ cpu' = m[ptr]

(* History: who was passed over by this choice. *)
CountBypass(next, d) ==
  bypass' = [i \in Slots |->
               IF i # next /\ i \in Eligible(active, prio, d)
               THEN bypass[i] + 1 ELSE 0]

SaveInNext(m, ptr) ==      \* slip: the context is saved over the next task's
  [m EXCEPT ![After(active, current, 1)] = m[ptr], ![ptr] = Garbage]

(* Copy the context at `ptr` to the current task's slot, poison the original. *)
SaveContext(m, ptr) == [m EXCEPT ![current] = m[ptr], ![ptr] = Garbage]

(***************************************************************************)
(* The common tail of ring3_mt::tick and ring3_mt::task_done: save the     *)
(* context at `ptr`, choose the next task, hand back its slot.             *)
(***************************************************************************)
SaveAndSwitch(m, ptr, d) ==
  LET saved == SaveContext(m, ptr)
      next  == SelectNext(active, current, prio, d)
  IN  \/ /\ \E n \in next :
              /\ current' = n
              /\ Resume(saved, n)
              /\ CountBypass(n, d)
         /\ mode' = mode
      \/ /\ next = {}
         /\ mem' = saved
         /\ mode' = "hung"
         /\ UNCHANGED <<current, cpu, bypass>>

(* ring3_mt::tick *)
MtTick(m, ptr) ==
  \/ /\ ~enabled
     /\ Resume(m, ptr)
     /\ UNCHANGED <<current, mode, bypass, switched>>
  \/ /\ enabled
     /\ SaveAndSwitch(m, ptr, done)
     /\ switched' = TRUE

(* What every entry stub does first: push the whole context on RSP0. *)
Pushed == [mem EXCEPT ![Frame] = cpu]

(* ring3_preempt::tick copies the context away and poisons the original. *)
Intercepted == [Pushed EXCEPT ![FullBuf] = cpu, ![Frame] = Garbage]

(***************************************************************************)
(* handle_timer_tick for a tick that lands in ring 3: ring3_preempt::tick, *)
(* then ring3_mt::tick on the address the former returned.                 *)
(***************************************************************************)
FullPreemptFires == fullEnabled /\ ~fullHit

TimerTick ==
  /\ mode = "ring3"
  /\ fullHit' = (fullHit \/ fullEnabled)
  /\ IF FullPreemptFires
     THEN MtTick(Intercepted, FullBuf)
     ELSE MtTick(Pushed, Frame)
  /\ UNCHANGED <<enabled, active, prio, done, fullEnabled, phase, ending, work>>

(* int 0x86: the program gives up its turn. *)
YieldInt ==
  /\ mode = "ring3"
  /\ MtTick(Pushed, Frame)
  /\ UNCHANGED <<enabled, active, prio, done, fullVars, phase, ending, work>>

MarkDoneOnly == [i \in Slots |-> i = current]   \* slip: forgets earlier ones
MarkDoneNever == done                            \* slip: no mark at all

MarkDone == [done EXCEPT ![current] = TRUE]

(* int 0x84: a finished program retires for good. *)
TaskDone ==
  /\ mode = "ring3"
  /\ Finished(cpu)
  /\ cpu.task # -1
  /\ ending[cpu.task] = "retire"
  /\ done' = MarkDone
  /\ SaveAndSwitch(Pushed, Frame, done')
  /\ switched' = TRUE
  /\ UNCHANGED <<enabled, active, prio, fullVars, phase, ending, work>>

(***************************************************************************)
(* int 0x81: ring3_exit_entry_asm drops the ring-3 context and returns     *)
(* from enter_ring3; run_multitasking and run_intercepting disarm.         *)
(***************************************************************************)
ExitRing3 ==
  /\ mode = "ring3"
  /\ Finished(cpu)
  /\ cpu.task # -1
  /\ ending[cpu.task] = "exit"
  /\ mode' = "ring0"
  /\ phase' = "idle"
  /\ enabled' = FALSE
  /\ fullEnabled' = FALSE
  /\ UNCHANGED <<active, current, prio, done, fullHit, mem, cpu, ending, histVars>>

-----------------------------------------------------------------------------
Next ==
  \/ \E n \in 1 .. MaxTasks, p \in [Slots -> Priorities], e \in [Slots -> Endings] :
       RunMultitasking(n, p, e)
  \/ RunIntercepting
  \/ EnterRing3
  \/ \E t \in Slots : UserStep(t)
  \/ TimerTick
  \/ YieldInt
  \/ TaskDone
  \/ ExitRing3

Spec == Init /\ [][Next]_vars

(***************************************************************************)
(* The PIT keeps firing; a time slice is far longer than one instruction,  *)
(* so a program that is scheduled again and again also executes.           *)
(***************************************************************************)
Fairness ==
  /\ WF_vars(EnterRing3)
  /\ WF_vars(TimerTick)
  /\ \A t \in Slots : SF_vars(UserStep(t))
  /\ SF_vars(TaskDone)
  /\ SF_vars(ExitRing3)

FairSpec == Spec /\ Fairness

-----------------------------------------------------------------------------
(* Properties *)

(***************************************************************************)
(* What runs in ring 3 is the task the scheduler calls current, exactly    *)
(* where its program left off: no tick, yield or retirement resumes a      *)
(* poisoned, stale or foreign context.                                     *)
(***************************************************************************)
RunsWhereItStopped ==
  mode = "ring3" /\ enabled =>
    cpu = [task |-> current, work |-> work[current]]

(* The full-preempt interception hands the one program back unharmed.      *)
InterceptTransparent ==
  mode = "ring3" /\ ~enabled => cpu = [task |-> 0, work |-> work[0]]

(***************************************************************************)
(* The context of every task that is not on the CPU is intact in its own   *)
(* slot: it can still be resumed, and the last register values that        *)
(* run_multitasking reports for a retired task are its final ones.         *)
(***************************************************************************)
ParkedIntact ==
  mode = "ring3" /\ enabled =>
    \A i \in 0 .. active - 1 :
      i # current => mem[i] = [task |-> i, work |-> work[i]]

(***************************************************************************)
(* Contexts are neither lost, mixed up, replayed nor damaged: not by the   *)
(* scheduler, not by the interception.                                     *)
(***************************************************************************)
ContextsIntact == RunsWhereItStopped /\ InterceptTransparent /\ ParkedIntact

(* A retired task never runs again in its session (int 0x84). *)
RetiredNeverRuns == mode = "ring3" /\ enabled => ~done[current]

(***************************************************************************)
(* select_next's caller guarantee: task 0 is never marked done, so the     *)
(* search for the next task never comes up empty and never spins forever.  *)
(***************************************************************************)
SelectionNeverHangs == mode # "hung"

(***************************************************************************)
(* Strict priority: once the scheduler has chosen, no unfinished task of   *)
(* a higher priority is waiting while a lower one runs.                    *)
(***************************************************************************)
TopTierRuns ==
  mode = "ring3" /\ enabled /\ switched =>
    \A i \in 0 .. active - 1 : ~done[i] => prio[current] <= prio[i]

(***************************************************************************)
(* Round robin within the top tier: an eligible task is passed over fewer  *)
(* than `active` times before it runs.                                     *)
(***************************************************************************)
BoundedBypass ==
  mode = "ring3" /\ enabled =>
    \A i \in 0 .. active - 1 : bypass[i] < active

(* Every choice of select_next is right, and so is every sequence of them. *)
ChoicesAreFair == RetiredNeverRuns /\ TopTierRuns /\ BoundedBypass

(***************************************************************************)
(* The strengthening that makes the invariants above inductive.            *)
(***************************************************************************)

(* Only a session's tasks are scheduled; task 0 ends it and never retires. *)
SessionShape ==
  /\ mode # "hung"
  /\ mode = "ring3" <=> phase = "running"
  /\ phase = "idle" => ~enabled
  /\ phase # "idle" => ending[0] = "exit"
  /\ enabled => /\ active \in 1 .. MaxTasks
                /\ current \in 0 .. active - 1
  /\ ~done[0]

(* Between arming and iretq nothing has run; every other task is fresh. *)
ArmedFresh ==
  phase = "armed" =>
    /\ work[0] = 0
    /\ enabled =>
         /\ current = 0
         /\ ~switched
         /\ \A i \in 0 .. active - 1 : ~done[i] /\ work[i] = 0 /\ bypass[i] = 0
         /\ \A i \in 1 .. active - 1 : mem[i] = Fresh(i)

(* Steps of select_next's walk from slot c to slot i, a full turn from i. *)
Dist(c, i) == IF i > c THEN i - c ELSE i - c + active

(* Every time a task is passed over, the walk comes closer to it. *)
WalkClosesIn ==
  mode = "ring3" /\ enabled =>
    \A i \in 0 .. active - 1 : bypass[i] + Dist(current, i) <= active

IInv ==
  /\ TypeOK
  /\ SessionShape
  /\ ArmedFresh
  /\ RunsWhereItStopped
  /\ InterceptTransparent
  /\ ParkedIntact
  /\ RetiredNeverRuns
  /\ TopTierRuns
  /\ WalkClosesIn

(* A retirement is final for the session: `done` is only cleared by arming. *)
RetirementIsFinal ==
  [][\A i \in Slots : done[i] /\ phase # "idle" => done'[i] /\ work'[i] = work[i]]_vars

(* run_multitasking and run_intercepting return. *)
SessionReturns == phase = "armed" ~> phase = "idle"

=============================================================================
