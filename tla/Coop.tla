-------------------------------- MODULE Coop --------------------------------
(***************************************************************************)
(* scheduler/context_switch.rs: ring-0 tasks that give up the CPU only by  *)
(* yield_now or by ending.  switch_to pushes the callee-saved registers    *)
(* and stores RSP through one pointer, then loads RSP from another; a      *)
(* saved RSP is modelled by the context it resumes.  spawn_cooperative     *)
(* enters every task in SCHEDULER's table, which `ps` prints; yield_now    *)
(* and finish_current_task keep the table up to date.                      *)
(***************************************************************************)
EXTENDS Naturals, FiniteSetsExt

CONSTANTS
  MaxTasks,     (* MAX_COOP_TASKS                                          *)
  Priorities,   (* priority classes, lower is more urgent                  *)
  Iterations,   (* rounds of a task body (2 in the code)                   *)
  MaxDemos      (* bound on the demos of a behaviour                       *)

(* What is assumed of them; the instance in MCSchedulers evaluates it. *)
Assumptions ==
  /\ Priorities \subseteq Nat /\ Priorities # {}
  /\ MaxTasks \in Nat \ {0} /\ Iterations \in Nat \ {0} /\ MaxDemos \in Nat

Tasks  == 0 .. MaxTasks - 1
Kernel == MaxTasks

VARIABLES
  cpu,        (* the context being executed                                *)
  slots,      (* COOP_TASKS                                                *)
  current,    (* COOP_CURRENT, Kernel for None                             *)
  kernelRsp,  (* COOP_KERNEL_RSP                                           *)
  pcb,        (* the tasks' states in SCHEDULER's table                    *)
  demos       (* demos begun so far                                        *)

vars == <<cpu, slots, current, kernelRsp, pcb, demos>>

-----------------------------------------------------------------------------
Context(who, at) == [who |-> who, at |-> at]
InKernel == cpu.who = Kernel
Pushed   == Context(cpu.who, cpu.at + 1)

Empty == [used |-> FALSE, done |-> FALSE, prio |-> 0, rsp |-> Context(Kernel, 0)]

(* The stack prepare_initial_stack lays out: switch_to returns into entry. *)
NewTask(i, p) == [used |-> TRUE, done |-> FALSE, prio |-> p, rsp |-> Context(i, 0)]

(* Where run_cooperative_demo is: adding tasks, or back from its yield_now. *)
Spawning == InKernel /\ cpu.at % 2 = 0
Back     == InKernel /\ cpu.at % 2 = 1

Init ==
  /\ cpu = Context(Kernel, 0)
  /\ slots = [i \in Tasks |-> Empty]
  /\ current = Kernel
  /\ kernelRsp = Context(Kernel, 0)
  /\ pcb = [i \in Tasks |-> "none"]
  /\ demos = 0

-----------------------------------------------------------------------------
FreeSlots == {i \in Tasks : ~slots[i].used}

(* spawn_cooperative takes the first free slot, if the table has room too. *)
SpawnCooperative(p) ==
  /\ Spawning /\ demos < MaxDemos
  /\ FreeSlots # {}
  /\ LET i == Min(FreeSlots)
     IN  /\ slots' = [slots EXCEPT ![i] = NewTask(i, p)]
         /\ pcb' = [pcb EXCEPT ![i] = "Ready"]
  /\ cpu' = Context(Kernel, cpu.at + 2)
  /\ UNCHANGED <<current, kernelRsp, demos>>

Runnable(s) == {i \in Tasks : s[i].used /\ ~s[i].done}

(* The scan of yield_now: the most urgent, the first of equals. *)
Best(s) ==
  LET top == {i \in Runnable(s) : \A j \in Runnable(s) : s[i].prio <= s[j].prio}
  IN  IF top = {} THEN Kernel ELSE Min(top)

(* Slip: a task that is still the best switches to its own, older RSP. *)
StaysNever(from, best) == FALSE

Stays(from, best) == best = from

(* switch_to's store through old_rsp_ptr, when that is a task's slot. *)
Saved(s, from) ==
  IF from = Kernel THEN s ELSE [s EXCEPT ![from].rsp = Pushed]

(* Slip: whoever leaves is Ready, finished or not. *)
ShownLeaverReady(s, t, from, best) ==
  [i \in Tasks |-> IF i = best THEN "Running" ELSE IF i = from THEN "Ready" ELSE t[i]]

(* The update_process calls: a finished task stays Terminated. *)
Shown(s, t, from, best) ==
  [i \in Tasks |-> IF i = best THEN "Running"
                   ELSE IF i = from /\ ~s[i].done THEN "Ready" ELSE t[i]]

(* yield_now, called with the slots s and the table t. *)
YieldNow(s, t) ==
  LET from == current
      best == Best(s)
      back == IF best = Kernel THEN kernelRsp ELSE s[best].rsp
  IN  IF Stays(from, best)
      THEN /\ cpu' = Pushed
           /\ slots' = s /\ pcb' = t
           /\ UNCHANGED <<current, kernelRsp>>
      ELSE /\ pcb' = Shown(s, t, from, best)
           /\ slots' = Saved(s, from)
           /\ kernelRsp' = IF from = Kernel THEN Pushed ELSE kernelRsp
           /\ current' = best
           /\ cpu' = back

(* run_cooperative_demo has spawned what it could and yields. *)
Start ==
  /\ Spawning /\ demos < MaxDemos
  /\ demos' = demos + 1
  /\ YieldNow(slots, pcb)

(* It has the CPU back and empties the slots. *)
Clear ==
  /\ Back
  /\ cpu' = Pushed
  /\ slots' = [i \in Tasks |-> Empty]
  /\ UNCHANGED <<current, kernelRsp, pcb, demos>>

(* coop_task_body: print, yield, and so on; then finish_current_task. *)
TaskWorks ==
  /\ ~InKernel /\ cpu.at < 2 * Iterations /\ cpu.at % 2 = 0
  /\ cpu' = Pushed
  /\ UNCHANGED <<slots, current, kernelRsp, pcb, demos>>

TaskYields ==
  /\ ~InKernel /\ cpu.at < 2 * Iterations /\ cpu.at % 2 = 1
  /\ YieldNow(slots, pcb)
  /\ UNCHANGED demos

FinishCurrentTask ==
  /\ ~InKernel /\ cpu.at = 2 * Iterations
  /\ YieldNow([slots EXCEPT ![current].done = TRUE],
              [pcb EXCEPT ![current] = "Terminated"])
  /\ UNCHANGED demos

Run  == Start \/ Clear \/ TaskWorks \/ TaskYields \/ FinishCurrentTask
Next == (\E p \in Priorities : SpawnCooperative(p)) \/ Run

(* Whoever has the CPU executes. *)
Spec == Init /\ [][Next]_vars /\ WF_vars(Run)

-----------------------------------------------------------------------------
(* Between demos there are no tasks; a waiting context is its saved RSP. *)
Position(c) ==
  IF c = cpu.who THEN cpu.at
  ELSE IF c = Kernel THEN kernelRsp.at
  ELSE IF Back THEN 0 ELSE slots[c].rsp.at

H == INSTANCE Handover WITH
       running <- cpu.who,
       pos     <- [c \in Tasks \cup {Kernel} |-> Position(c)],
       over    <- {i \in Tasks : ~Back /\ slots[i].done}

(***************************************************************************)
(* yield_now and finish_current_task implement a hand-over: every context  *)
(* resumes where it gave up the CPU, a finished task never does (the two   *)
(* `unreachable!` are unreachable), and run_cooperative_demo goes on.      *)
(***************************************************************************)
HandsOver == H!HSpec

(***************************************************************************)
(* COOP_CURRENT is who runs, and the most urgent; `ps`, called from any    *)
(* task or from the kernel, shows that task and no other as Running, the   *)
(* waiting ones as Ready and the finished ones as Terminated.  The kernel  *)
(* drops the stacks only when nobody can return to them.                   *)
(***************************************************************************)
TableShowsSchedule ==
  /\ cpu.who = current
  /\ ~InKernel => current = Best(slots)
  /\ Back => Runnable(slots) = {}
  /\ \A i \in Tasks : slots[i].used =>
       pcb[i] = IF slots[i].done THEN "Terminated"
                ELSE IF i = current THEN "Running" ELSE "Ready"

=============================================================================
