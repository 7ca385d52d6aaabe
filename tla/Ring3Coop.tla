------------------------------ MODULE Ring3Coop ------------------------------
(***************************************************************************)
(* ring3.rs: ring-3 tasks that hand over to each other with int 0x83       *)
(* (yield) and int 0x85 (done), entered from a kernel function through     *)
(* switch_to and left for good with int 0x82.                              *)
(*                                                                         *)
(* The CPU pushes the interrupted context at RSP0, one place for all tasks *)
(* and all interrupts; the helpers copy the 96 bytes to the task's own     *)
(* kernel stack.  A context is the task identity it keeps in BL and the    *)
(* instruction it is at.                                                   *)
(***************************************************************************)
EXTENDS TierSelect, Sequences

CONSTANTS
  Priorities,   (* priority classes, lower is more urgent                  *)
  MaxSessions   (* bound on the sessions of a behaviour                    *)

(* The largest session; RING3_COOP_MAX_TASKS is 4, the tests arm 3. *)
CONSTANT MaxTasks

(* What is assumed of them; the instance in MCSchedulers evaluates it. *)
Assumptions ==
  /\ Priorities \subseteq Nat /\ Priorities # {}
  /\ MaxTasks \in Nat \ {0} /\ MaxSessions \in Nat

Tasks  == 0 .. MaxTasks - 1
Kernel == MaxTasks

VARIABLES
  cpu,      (* the context being executed                                  *)
  stack,    (* the frame at RING3_COOP_TASK_RSP[i]                         *)
  rsp0,     (* the frame last pushed at RSP0                               *)
  caller,   (* where RING3_TASK_CALLER_RSP resumes the kernel              *)
  active,   (* RING3_COOP_ACTIVE_TASKS                                     *)
  current,  (* RING3_COOP_CURRENT                                          *)
  prios,    (* RING3_COOP_TASK_PRIORITY                                    *)
  done,     (* RING3_COOP_TASK_DONE                                        *)
  bodies,   (* the program each task has been given                        *)
  sig       (* the signature bytes the programs write                      *)

vars == <<cpu, stack, rsp0, caller, active, current, prios, done, bodies, sig>>

-----------------------------------------------------------------------------
(***************************************************************************)
(* The programs.  "mark" writes bl + 'A' to sig[bl], "last" bl + 'X' to    *)
(* the byte behind the tasks' own.                                         *)
(***************************************************************************)
YieldBody  == <<"mark", "yield", "last", "exit">>
RetireBody == <<"mark", "retire">>

Context(who, at) == [who |-> who, at |-> at]
Fresh(i)  == Context(i, 0)
InKernel  == cpu.who = Kernel
Instruction == bodies[cpu.who][cpu.at + 1]
AtInstruction(s) == ~InKernel /\ Instruction = s
Pushed == Context(cpu.who, cpu.at + 1)

Unset == -1   \* the byte is still zero

Init ==
  /\ cpu = Context(Kernel, 0)
  /\ stack = [i \in Tasks |-> Fresh(i)]
  /\ rsp0 = Fresh(0)
  /\ caller = Context(Kernel, 0)
  /\ active = 0 /\ current = 0
  /\ prios = [i \in Tasks |-> 0]
  /\ done = [i \in Tasks |-> FALSE]
  /\ bodies = [i \in Tasks |-> YieldBody]
  /\ sig = [i \in 0 .. MaxTasks |-> Unset]

-----------------------------------------------------------------------------
(* arm_ring3_coop_tasks: n tasks of priorities p, each at its first frame. *)
ArmRing3CoopTasks(n, p) ==
  /\ active' = n
  /\ current' = 0
  /\ prios' = [i \in Tasks |-> IF i < n THEN p[i] ELSE prios[i]]
  /\ stack' = [i \in Tasks |-> IF i < n THEN Fresh(i) ELSE stack[i]]
  /\ done' = [i \in Tasks |-> FALSE]

(***************************************************************************)
(* A test writes its programs, clears the signature, builds each task's    *)
(* first frame (prepare_ring3_initial_stack) and arms the tasks.  Task 0   *)
(* is never given the retiring program.                                    *)
(***************************************************************************)
Arm ==
  /\ InKernel /\ cpu.at % 2 = 0 /\ cpu.at < 2 * MaxSessions
  /\ cpu' = Pushed
  /\ \E n \in 1 .. MaxTasks :
     \E p \in [0 .. n - 1 -> Priorities], r \in SUBSET (1 .. n - 1) :
       /\ ArmRing3CoopTasks(n, p)
       /\ bodies' = [i \in Tasks |-> IF i \in r THEN RetireBody ELSE YieldBody]
  /\ sig' = [i \in 0 .. MaxTasks |-> Unset]
  /\ UNCHANGED <<rsp0, caller>>

(* switch_to(&mut RING3_TASK_CALLER_RSP, rsp0). *)
Enter ==
  /\ InKernel /\ cpu.at % 2 = 1
  /\ caller' = Pushed
  /\ cpu' = stack[0]
  /\ UNCHANGED <<stack, rsp0, active, current, prios, done, bodies, sig>>

(* Plain instructions of a program. *)
Execute ==
  /\ \/ AtInstruction("mark") /\ sig' = [sig EXCEPT ![cpu.who] = cpu.who]
     \/ AtInstruction("last") /\ sig' = [sig EXCEPT ![MaxTasks] = cpu.who]
  /\ cpu' = Pushed
  /\ UNCHANGED <<stack, rsp0, caller, active, current, prios, done, bodies>>

(* Slip: the first version of Fase 83 kept the pointer into RSP0, so that  *)
(* the frame of whoever yields last is what every task resumes from.       *)
ParkAtRsp0(f) == [i \in Tasks |-> IF stack[i] = Fresh(i) /\ i # current THEN stack[i] ELSE f]

(* The copy off RSP0 into the current task's own stack. *)
Park(f) == [stack EXCEPT ![current] = f]

(* select_next, and resuming from the chosen task's stack. *)
HandOn(d) ==
  \E n \in SelectNext(active, current, prios, d) :
    /\ current' = n
    /\ cpu' = stack'[n]

(* ring3_coop_yield_entry_asm and ring3_coop_yield_helper. *)
Yield ==
  /\ AtInstruction("yield")
  /\ rsp0' = Pushed
  /\ stack' = Park(Pushed)
  /\ HandOn(done)
  /\ UNCHANGED <<caller, active, prios, done, bodies, sig>>

(* ring3_coop_task_done_entry_asm and ring3_coop_task_done_helper. *)
TaskDone ==
  /\ AtInstruction("retire")
  /\ rsp0' = Pushed
  /\ stack' = Park(Pushed)
  /\ done' = [done EXCEPT ![current] = TRUE]
  /\ HandOn(done')
  /\ UNCHANGED <<caller, active, prios, bodies, sig>>

(* ring3_task_exit_entry_asm: the caller of switch_to goes on, the test    *)
(* reads the signature and drops the stacks.                               *)
Exit ==
  /\ AtInstruction("exit")
  /\ rsp0' = Pushed
  /\ cpu' = caller
  /\ UNCHANGED <<stack, caller, active, current, prios, done, bodies, sig>>

(* A timer tick in ring 3 pushes a frame of its own at RSP0. *)
TimerTick ==
  /\ ~InKernel
  /\ rsp0' = cpu
  /\ UNCHANGED <<cpu, stack, caller, active, current, prios, done, bodies, sig>>

Run  == Enter \/ Execute \/ Yield \/ TaskDone \/ Exit
Next == Arm \/ Run \/ TimerTick

(* Whoever has the CPU executes. *)
Spec == Init /\ [][Next]_vars /\ WF_vars(Run)

-----------------------------------------------------------------------------
(* Only a session has tasks, and only its own; a waiting context is the    *)
(* frame it will be resumed from.                                          *)
Session == ~InKernel \/ cpu.at % 2 = 1

Position(c) ==
  IF c = cpu.who THEN cpu.at
  ELSE IF c = Kernel THEN caller.at
  ELSE IF Session /\ c < active THEN stack[c].at ELSE 0

H == INSTANCE Handover WITH
       running <- cpu.who,
       pos     <- [c \in Tasks \cup {Kernel} |-> Position(c)],
       over    <- {i \in Tasks : Session /\ done[i]}

(***************************************************************************)
(* The vectors implement a hand-over: through yields, retirements and      *)
(* ticks no context is lost, mixed up or run after its end, and the kernel *)
(* function that entered the session gets the CPU back.                    *)
(***************************************************************************)
HandsOver == H!HSpec

(***************************************************************************)
(* The signatures the tests expect: with equal priorities the turn goes    *)
(* round once and task 0 is the first to come back ("ABC" and its marker); *)
(* a task 0 that outranks the others resumes itself and no other runs; a   *)
(* task is marked done if and only if it ran the retiring program.         *)
(***************************************************************************)
SignatureAsExpected ==
  LET others == 1 .. active - 1
  IN  InKernel /\ cpu.at % 2 = 0 /\ cpu.at > 0 =>
        /\ (\A i \in others : prios[i] >= prios[0]) => sig[0] = 0 /\ sig[MaxTasks] = 0
        /\ (\A i \in others : prios[i] = prios[0]) => \A i \in others : sig[i] = i
        /\ (\A i \in others : prios[i] > prios[0]) => \A i \in others : sig[i] = Unset
        /\ \A i \in Tasks : done[i] <=> bodies[i] = RetireBody /\ sig[i] = i

=============================================================================
