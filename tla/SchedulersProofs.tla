-------------------------- MODULE SchedulersProofs --------------------------
(***************************************************************************)
(* Proofs about the three schedulers.  About Preempt: for every budget,    *)
(* every pair of priorities and every length of `ps` that fits.            *)
(*                                                                         *)
(* About Coop, for any number of slots, priorities, rounds of the          *)
(* bodies and demos (the process table shows the schedule), and about      *)
(* Ring3Coop, for any number of tasks, priorities and retirements (the     *)
(* signatures are the ones the tests expect).  Of both: every step is a    *)
(* step of the abstract hand-over of Handover or changes nothing that      *)
(* Handover sees.                                                          *)
(***************************************************************************)
EXTENDS MCSchedulers, TierSelectProofs

Contexts == [who : C!Tasks \cup {C!Kernel}, at : Nat]
States   == {"none", "Ready", "Running", "Terminated"}

CoopTypeOK ==
  /\ ccpu \in Contexts
  /\ cslots \in [C!Tasks -> [used : BOOLEAN, done : BOOLEAN, prio : Nat, rsp : Contexts]]
  /\ ccurrent \in C!Tasks \cup {C!Kernel}
  /\ ckernelRsp \in Contexts
  /\ cpcb \in [C!Tasks -> States]
  /\ cdemos \in Nat

(* A saved RSP resumes the context that was saved: a task's slot that task, *)
(* COOP_KERNEL_RSP run_cooperative_demo behind its yield_now.              *)
SavedWhere ==
  /\ \A i \in C!Tasks : cslots[i].used => cslots[i].rsp.who = i
  /\ ~C!InKernel => ckernelRsp.who = C!Kernel /\ ckernelRsp.at % 2 = 1

(* A slot that is free holds nothing; the tasks a demo is adding have not  *)
(* begun; whoever runs has a slot and is not done.                         *)
SlotsSound ==
  /\ \A i \in C!Tasks : ~cslots[i].used => ~cslots[i].done
  /\ C!Spawning => \A i \in C!Tasks : ~cslots[i].done /\ cslots[i].rsp.at = 0
  /\ ~C!InKernel => ccpu.who \in C!Runnable(cslots)

CoopInv == CoopTypeOK /\ SavedWhere /\ SlotsSound /\ C!TableShowsSchedule

-----------------------------------------------------------------------------
(* Min, of FiniteSetsExt, of a set of slots. *)
LEMMA MinIsOneOf ==
  ASSUME NEW S, S \subseteq Nat, S # {}
  PROVE  C!Min(S) \in S /\ \A y \in S : C!Min(S) <= y
<1>1. \E x \in S : \A y \in S : x <= y
  BY LeastNat
<1> QED BY <1>1 DEF C!Min

LEMMA TaskNumbers ==
  ASSUME C!Assumptions
  PROVE  C!Tasks \subseteq Nat /\ C!Kernel \in Nat /\ C!Kernel \notin C!Tasks
BY DEF C!Assumptions, C!Tasks, C!Kernel

(* The scan of yield_now finds a task that may run, if there is one. *)
LEMMA BestRuns ==
  ASSUME C!Assumptions, NEW s, \A i \in C!Tasks : s[i].prio \in Nat
  PROVE  IF C!Runnable(s) = {} THEN C!Best(s) = C!Kernel ELSE C!Best(s) \in C!Runnable(s)
<1> DEFINE P   == {s[i].prio : i \in C!Runnable(s)}
           top == {i \in C!Runnable(s) : \A j \in C!Runnable(s) : s[i].prio <= s[j].prio}
<1>1. C!Runnable(s) \subseteq C!Tasks /\ top \subseteq C!Runnable(s)
  BY DEF C!Runnable
<1>2. C!Runnable(s) # {} => top # {}
  <2> SUFFICES ASSUME C!Runnable(s) # {} PROVE top # {}
    OBVIOUS
  <2>1. P # {} /\ P \subseteq Nat
    BY <1>1
  <2>2. PICK x \in P : \A y \in P : x <= y
    <3> HIDE DEF P
    <3> QED BY <2>1, LeastNat
  <2>3. PICK i \in C!Runnable(s) : x = s[i].prio
    BY <2>2
  <2>4. i \in top
    BY <2>2, <2>3
  <2> QED BY <2>4
<1>3. C!Best(s) = IF top = {} THEN C!Kernel ELSE C!Min(top)
  BY DEF C!Best
<1>4. top # {} => C!Min(top) \in top
  <2> HIDE DEF top
  <2> QED BY <1>1, TaskNumbers, MinIsOneOf
<1> HIDE DEF top
<1> QED BY <1>1, <1>2, <1>3, <1>4

(* It looks at nothing but the flags and the priorities. *)
LEMMA BestSame ==
  ASSUME NEW s, NEW t,
         \A i \in C!Tasks : t[i].used = s[i].used /\ t[i].done = s[i].done /\ t[i].prio = s[i].prio
  PROVE  C!Runnable(t) = C!Runnable(s) /\ C!Best(t) = C!Best(s)
<1>1. C!Runnable(t) = C!Runnable(s)
  BY DEF C!Runnable
<1>2. {i \in C!Runnable(t) : \A j \in C!Runnable(t) : t[i].prio <= t[j].prio}
        = {i \in C!Runnable(s) : \A j \in C!Runnable(s) : s[i].prio <= s[j].prio}
  BY <1>1 DEF C!Runnable
<1> QED BY <1>1, <1>2 DEF C!Best

-----------------------------------------------------------------------------
(* What yield_now is called with: slots s and a table t that agree. *)
Callable(s, t) ==
  /\ s \in [C!Tasks -> [used : BOOLEAN, done : BOOLEAN, prio : Nat, rsp : Contexts]]
  /\ t \in [C!Tasks -> States]
  /\ \A i \in C!Tasks : s[i].used => s[i].rsp.who = i
  /\ \A i \in C!Tasks : ~s[i].used => ~s[i].done
  /\ C!InKernel => ccpu.at % 2 = 0
  /\ ~C!InKernel => s[ccpu.who].used
  /\ \A i \in C!Tasks : s[i].used =>
       t[i] = IF s[i].done THEN "Terminated" ELSE IF i = ccurrent THEN "Running" ELSE "Ready"

LEMMA PushedParity == ASSUME CoopInv, ccpu.at % 2 = 0 PROVE (ccpu.at + 1) % 2 = 1
<1>1. ccpu.at \in Nat
  BY DEF CoopInv, CoopTypeOK, Contexts
<1> QED BY <1>1

(* Whether or not it switches, the slots change in the saved RSP only. *)
LEMMA YieldSlots ==
  ASSUME C!Assumptions, CoopInv, NEW s, NEW t, Callable(s, t), C!YieldNow(s, t)
  PROVE  /\ cslots' \in [C!Tasks -> [used : BOOLEAN, done : BOOLEAN, prio : Nat, rsp : Contexts]]
         /\ \A i \in C!Tasks : /\ cslots'[i].used = s[i].used /\ cslots'[i].done = s[i].done
                               /\ cslots'[i].prio = s[i].prio
                               /\ cslots'[i].rsp.who = IF i = ccurrent /\ ~C!Stays(ccurrent, C!Best(s)) THEN i
                                                    ELSE s[i].rsp.who
                               /\ cslots'[i].rsp.at = IF i = ccurrent /\ ~C!Stays(ccurrent, C!Best(s)) THEN ccpu.at + 1
                                                   ELSE s[i].rsp.at
<1>1. C!Pushed \in Contexts /\ C!Pushed.at = ccpu.at + 1 /\ C!Pushed.who = ccurrent
  BY DEF CoopInv, CoopTypeOK, C!TableShowsSchedule, C!Pushed, C!Context, Contexts
<1>2. cslots' = IF C!Stays(ccurrent, C!Best(s)) THEN s ELSE C!Saved(s, ccurrent)
  BY DEF C!YieldNow
<1>3. CASE C!Stays(ccurrent, C!Best(s)) \/ ccurrent = C!Kernel
  BY <1>2, <1>3, TaskNumbers DEF C!Saved, Callable
<1>4. CASE ~C!Stays(ccurrent, C!Best(s)) /\ ccurrent # C!Kernel
  <2>1. ccurrent \in C!Tasks
    BY <1>4 DEF CoopInv, CoopTypeOK
  <2>2. cslots' = [s EXCEPT ![ccurrent].rsp = C!Pushed]
    BY <1>2, <1>4 DEF C!Saved
  <2> QED BY <1>1, <1>4, <2>1, <2>2 DEF Callable
<1> QED BY <1>3, <1>4

LEMMA YieldTypes ==
  ASSUME C!Assumptions, CoopInv, NEW s, NEW t, Callable(s, t), C!YieldNow(s, t)
  PROVE  /\ ccpu' \in Contexts /\ ckernelRsp' \in Contexts
         /\ ccurrent' = C!Best(s) /\ ccurrent' \in C!Tasks \cup {C!Kernel}
         /\ cpcb' \in [C!Tasks -> States]
<1>1. C!Best(s) \in C!Tasks \cup {C!Kernel}
  BY BestRuns DEF Callable, C!Runnable
<1>2. C!Pushed \in Contexts
  BY DEF CoopInv, CoopTypeOK, C!Pushed, C!Context, Contexts
<1>3. C!Best(s) # C!Kernel => s[C!Best(s)].rsp \in Contexts
  BY <1>1 DEF Callable
<1>4. ccpu' \in Contexts /\ ckernelRsp' \in Contexts
  BY <1>2, <1>3 DEF C!YieldNow, CoopInv, CoopTypeOK
<1>5. ccurrent' = C!Best(s)
  BY DEF C!YieldNow, C!Stays
<1>6. cpcb' \in [C!Tasks -> States]
  <2>1. C!Shown(s, t, ccurrent, C!Best(s)) \in [C!Tasks -> States]
    BY DEF C!Shown, Callable, States
  <2> QED BY <2>1 DEF C!YieldNow, Callable
<1> QED BY <1>1, <1>4, <1>5, <1>6

(* After yield_now the CPU is where the slots and the table say. *)
LEMMA YieldKeeps ==
  ASSUME C!Assumptions, CoopInv, NEW s, NEW t, Callable(s, t), C!YieldNow(s, t)
  PROVE  SavedWhere' /\ SlotsSound' /\ C!TableShowsSchedule'
<1> DEFINE best == C!Best(s)
<1>1. IF C!Runnable(s) = {} THEN best = C!Kernel ELSE best \in C!Runnable(s)
  BY BestRuns DEF Callable
<1>2. C!Runnable(cslots') = C!Runnable(s) /\ C!Best(cslots') = best
  BY YieldSlots, BestSame
<1>3. C!Runnable(s) \subseteq C!Tasks
  BY DEF C!Runnable
<1>4. ccurrent' = best
  BY YieldTypes
<1>5. ccpu'.who = best /\ (best # C!Kernel => ccpu'.at = s[best].rsp.at \/ best = ccurrent)
  <2>1. CASE best = ccurrent
    BY <2>1 DEF C!YieldNow, C!Stays, C!Pushed, C!Context, CoopInv, C!TableShowsSchedule
  <2>2. CASE best # ccurrent /\ best = C!Kernel
    BY <2>2 DEF C!YieldNow, C!Stays, CoopInv, SavedWhere, C!TableShowsSchedule, C!InKernel
  <2>3. CASE best # ccurrent /\ best # C!Kernel
    <3>1. best \in C!Tasks /\ s[best].used
      BY <1>1, <1>3, <2>3 DEF C!Runnable
    <3> QED BY <2>3, <3>1 DEF C!YieldNow, C!Stays, Callable
  <2> QED BY <2>1, <2>2, <2>3
<1>6. ccpu'.who = C!Kernel => ccpu'.at % 2 = 1
  <2>1. CASE best = ccurrent
    <3>1. ccpu'.at = ccpu.at + 1
      BY <2>1 DEF C!YieldNow, C!Stays, C!Pushed, C!Context
    <3>2. ccpu'.who = C!Kernel => ccpu.at % 2 = 0
      BY <1>5, <2>1 DEF CoopInv, C!TableShowsSchedule, Callable, C!InKernel
    <3> QED BY <3>1, <3>2, PushedParity
  <2>2. CASE best # ccurrent /\ best = C!Kernel
    BY <2>2 DEF C!YieldNow, C!Stays, CoopInv, SavedWhere, C!TableShowsSchedule, C!InKernel
  <2> QED BY <1>5, <2>1, <2>2
<1>7. SavedWhere'
  <2>1. \A i \in C!Tasks : cslots'[i].used => cslots'[i].rsp.who = i
    BY YieldSlots DEF Callable
  <2>2. ccpu'.who # C!Kernel => ckernelRsp'.who = C!Kernel /\ ckernelRsp'.at % 2 = 1
    <3>1. CASE ccurrent = C!Kernel
      <4>1. ccpu'.who # C!Kernel => ckernelRsp' = C!Pushed
        BY <1>5, <3>1 DEF C!YieldNow, C!Stays
      <4>2. ccpu.who = C!Kernel /\ ccpu.at % 2 = 0
        BY <3>1 DEF CoopInv, C!TableShowsSchedule, Callable, C!InKernel
      <4> QED BY <4>1, <4>2, PushedParity DEF C!Pushed, C!Context
    <3>2. CASE ccurrent # C!Kernel
      BY <3>2 DEF C!YieldNow, CoopInv, SavedWhere, C!TableShowsSchedule, C!InKernel
    <3> QED BY <3>1, <3>2
  <2> QED BY <2>1, <2>2 DEF SavedWhere, C!InKernel
<1>8. SlotsSound'
  <2>1. \A i \in C!Tasks : ~cslots'[i].used => ~cslots'[i].done
    BY YieldSlots DEF Callable
  <2>2. ccpu'.who # C!Kernel => ccpu'.who \in C!Runnable(cslots')
    BY <1>1, <1>2, <1>5
  <2>3. ~C!Spawning'
    BY <1>6 DEF C!Spawning, C!InKernel
  <2> QED BY <2>1, <2>2, <2>3 DEF SlotsSound, C!InKernel
<1>9. \A i \in C!Tasks : cslots'[i].used =>
        cpcb'[i] = IF cslots'[i].done THEN "Terminated" ELSE IF i = ccurrent' THEN "Running" ELSE "Ready"
  <2> SUFFICES ASSUME NEW i \in C!Tasks, s[i].used
               PROVE  cpcb'[i] = IF s[i].done THEN "Terminated" ELSE IF i = best THEN "Running" ELSE "Ready"
    BY <1>4, YieldSlots
  <2>1. i = best => ~s[i].done
    BY <1>1, TaskNumbers DEF C!Runnable
  <2>2. CASE best = ccurrent
    BY <2>2 DEF C!YieldNow, C!Stays, Callable
  <2>3. CASE best # ccurrent
    BY <2>1, <2>3 DEF C!YieldNow, C!Stays, C!Shown, Callable
  <2> QED BY <2>2, <2>3
<1>10. C!TableShowsSchedule'
  <2>1. ccpu'.who = C!Kernel => C!Runnable(cslots') = {}
    BY <1>1, <1>2, <1>3, <1>5, TaskNumbers
  <2> QED BY <1>2, <1>4, <1>5, <1>9, <2>1 DEF C!TableShowsSchedule, C!InKernel, C!Back
<1> QED BY <1>7, <1>8, <1>10

-----------------------------------------------------------------------------
(* The invariant, action by action. *)

LEMMA EmptySlot == ASSUME C!Assumptions PROVE C!Empty \in [used : BOOLEAN, done : BOOLEAN, prio : Nat, rsp : Contexts]
BY TaskNumbers DEF C!Empty, C!Context, Contexts

LEMMA InitCoopInv == ASSUME C!Assumptions, C!Init PROVE CoopInv
<1>1. CoopTypeOK
  BY EmptySlot, TaskNumbers DEF C!Init, CoopTypeOK, C!Context, Contexts, States
<1>2. SavedWhere
  BY DEF C!Init, SavedWhere, C!Empty, C!InKernel, C!Context
<1>3. SlotsSound
  BY DEF C!Init, SlotsSound, C!Empty, C!InKernel, C!Context
<1>4. C!TableShowsSchedule
  BY DEF C!Init, C!TableShowsSchedule, C!Empty, C!InKernel, C!Back, C!Context
<1> QED BY <1>1, <1>2, <1>3, <1>4 DEF CoopInv

LEMMA SpawnCoopInv ==
  ASSUME C!Assumptions, CoopInv, NEW p \in Priorities, C!SpawnCooperative(p)
  PROVE  CoopInv'
<1> DEFINE i == C!Min(C!FreeSlots)
<1>1. i \in C!Tasks /\ ~cslots[i].used
  <2>1. C!FreeSlots # {} /\ C!FreeSlots \subseteq Nat
    BY TaskNumbers DEF C!SpawnCooperative, C!FreeSlots
  <2>2. i \in C!FreeSlots
    BY <2>1, MinIsOneOf
  <2> HIDE DEF i
  <2> QED BY <2>2 DEF C!FreeSlots
<1>2. /\ cslots' = [cslots EXCEPT ![i] = C!NewTask(i, p)]
      /\ cpcb' = [cpcb EXCEPT ![i] = "Ready"]
      /\ ccpu' = C!Context(C!Kernel, ccpu.at + 2)
      /\ UNCHANGED <<ccurrent, ckernelRsp, cdemos>>
  BY DEF C!SpawnCooperative
<1>3. ccpu.who = C!Kernel /\ ccpu.at % 2 = 0 /\ ccpu.at \in Nat /\ ccurrent = C!Kernel
  BY DEF C!SpawnCooperative, C!Spawning, C!InKernel, CoopInv, CoopTypeOK, Contexts, C!TableShowsSchedule
<1>4. C!NewTask(i, p) \in [used : BOOLEAN, done : BOOLEAN, prio : Nat, rsp : Contexts]
  BY <1>1, TaskNumbers DEF C!NewTask, C!Context, Contexts, C!Assumptions
<1> HIDE DEF i
<1>5. ccpu' \in Contexts /\ ccpu'.who = C!Kernel /\ ccpu'.at % 2 = 0
  BY <1>2, <1>3 DEF C!Context, Contexts
<1>6. CoopTypeOK'
  BY <1>1, <1>2, <1>4, <1>5 DEF CoopInv, CoopTypeOK, States
<1>7. SavedWhere'
  BY <1>1, <1>2, <1>5 DEF CoopInv, CoopTypeOK, SavedWhere, C!NewTask, C!Context, C!InKernel
<1>8. SlotsSound'
  BY <1>1, <1>2, <1>3, <1>5 DEF CoopInv, CoopTypeOK, SlotsSound, C!NewTask, C!Context, C!InKernel, C!Spawning
<1>9. C!TableShowsSchedule'
  <2>1. \A j \in C!Tasks : cslots'[j].used =>
          cpcb'[j] = IF cslots'[j].done THEN "Terminated" ELSE IF j = ccurrent' THEN "Running" ELSE "Ready"
    BY <1>1, <1>2, <1>3, TaskNumbers DEF CoopInv, CoopTypeOK, C!TableShowsSchedule, C!NewTask
  <2> QED BY <1>2, <1>3, <1>5, <2>1 DEF C!TableShowsSchedule, C!InKernel, C!Back
<1> QED BY <1>6, <1>7, <1>8, <1>9 DEF CoopInv

(* Every call of yield_now meets what it needs. *)
LEMMA StartCalls == ASSUME C!Assumptions, CoopInv, C!Start PROVE Callable(cslots, cpcb)
BY DEF C!Start, C!Spawning, C!InKernel, CoopInv, CoopTypeOK, SavedWhere, SlotsSound, C!TableShowsSchedule, Callable

LEMMA TaskYieldsCalls == ASSUME C!Assumptions, CoopInv, C!TaskYields PROVE Callable(cslots, cpcb)
BY DEF C!TaskYields, C!InKernel, CoopInv, CoopTypeOK, SavedWhere, SlotsSound, C!TableShowsSchedule, Callable, C!Runnable

LEMMA FinishCalls ==
  ASSUME C!Assumptions, CoopInv, C!FinishCurrentTask
  PROVE  /\ Callable([cslots EXCEPT ![ccurrent].done = TRUE], [cpcb EXCEPT ![ccurrent] = "Terminated"])
         /\ ccurrent \in C!Tasks /\ cslots[ccurrent].used
<1>1. ccurrent \in C!Tasks /\ cslots[ccurrent].used /\ ccurrent = ccpu.who
  BY DEF C!FinishCurrentTask, C!InKernel, CoopInv, SlotsSound, C!TableShowsSchedule, C!Runnable
<1>2. /\ [cslots EXCEPT ![ccurrent].done = TRUE]
           \in [C!Tasks -> [used : BOOLEAN, done : BOOLEAN, prio : Nat, rsp : Contexts]]
      /\ [cpcb EXCEPT ![ccurrent] = "Terminated"] \in [C!Tasks -> States]
  BY ZenonT(60), <1>1 DEF CoopInv, CoopTypeOK, States
<1> QED BY <1>1, <1>2 DEF C!FinishCurrentTask, CoopInv, CoopTypeOK, SavedWhere, SlotsSound, C!TableShowsSchedule, Callable

LEMMA YieldCoopInv ==
  ASSUME C!Assumptions, CoopInv, NEW s, NEW t, Callable(s, t), C!YieldNow(s, t), cdemos' \in Nat
  PROVE  CoopInv'
BY YieldSlots, YieldTypes, YieldKeeps DEF CoopInv, CoopTypeOK

LEMMA ClearCoopInv == ASSUME C!Assumptions, CoopInv, C!Clear PROVE CoopInv'
<1>1. ccpu' \in Contexts /\ ccpu'.who = C!Kernel /\ ccurrent = C!Kernel
  BY DEF C!Clear, C!Back, C!InKernel, C!Pushed, C!Context, Contexts, CoopInv, CoopTypeOK, C!TableShowsSchedule
<1>2. ccpu'.at % 2 = 0
  <2>1. ccpu.at \in Nat /\ ccpu.at % 2 = 1 /\ ccpu'.at = ccpu.at + 1
    BY DEF C!Clear, C!Back, C!Pushed, C!Context, Contexts, CoopInv, CoopTypeOK
  <2> QED BY <2>1
<1>3. cslots' = [i \in C!Tasks |-> C!Empty] /\ UNCHANGED <<ccurrent, ckernelRsp, cpcb, cdemos>>
  BY DEF C!Clear
<1>4. CoopTypeOK'
  BY <1>1, <1>3, EmptySlot DEF CoopInv, CoopTypeOK
<1>5. SavedWhere'
  BY <1>1, <1>3 DEF SavedWhere, C!Empty, C!InKernel
<1>6. SlotsSound'
  BY <1>1, <1>3 DEF SlotsSound, C!Empty, C!InKernel, C!Context
<1>7. C!TableShowsSchedule'
  BY <1>1, <1>2, <1>3 DEF C!TableShowsSchedule, C!Empty, C!InKernel, C!Back
<1> QED BY <1>4, <1>5, <1>6, <1>7 DEF CoopInv

LEMMA TaskWorksCoopInv == ASSUME C!Assumptions, CoopInv, C!TaskWorks PROVE CoopInv'
<1>1. ccpu' \in Contexts /\ ccpu'.who = ccpu.who /\ ccpu.who # C!Kernel
  BY DEF C!TaskWorks, C!InKernel, C!Pushed, C!Context, Contexts, CoopInv, CoopTypeOK
<1>2. UNCHANGED <<cslots, ccurrent, ckernelRsp, cpcb, cdemos>>
  BY DEF C!TaskWorks
<1>3. CoopTypeOK'
  BY <1>1, <1>2 DEF CoopInv, CoopTypeOK
<1>4. SavedWhere' /\ SlotsSound' /\ C!TableShowsSchedule'
  BY <1>1, <1>2 DEF CoopInv, SavedWhere, SlotsSound, C!TableShowsSchedule, C!InKernel, C!Spawning, C!Back
<1> QED BY <1>3, <1>4 DEF CoopInv

LEMMA NextCoopInv == ASSUME C!Assumptions, CoopInv, [C!Next]_C!vars PROVE CoopInv'
<1>1. CASE C!Start
  BY <1>1, StartCalls, YieldCoopInv DEF C!Start, CoopInv, CoopTypeOK
<1>2. CASE C!TaskYields
  BY <1>2, TaskYieldsCalls, YieldCoopInv DEF C!TaskYields, CoopInv, CoopTypeOK
<1>3. CASE C!FinishCurrentTask
  <2> DEFINE s == [cslots EXCEPT ![ccurrent].done = TRUE]
             t == [cpcb EXCEPT ![ccurrent] = "Terminated"]
  <2>1. Callable(s, t) /\ C!YieldNow(s, t) /\ cdemos' \in Nat
    BY <1>3, FinishCalls DEF C!FinishCurrentTask, CoopInv, CoopTypeOK
  <2> HIDE DEF s, t
  <2> QED BY <2>1, YieldCoopInv
<1>4. CASE UNCHANGED C!vars
  BY <1>4 DEF C!vars, CoopInv, CoopTypeOK, SavedWhere, SlotsSound, C!TableShowsSchedule, C!InKernel, C!Spawning, C!Back
<1> QED
  BY <1>1, <1>2, <1>3, <1>4, SpawnCoopInv, ClearCoopInv, TaskWorksCoopInv DEF C!Next, C!Run

(***************************************************************************)
(* The inductive invariant holds in every state of the cooperative         *)
(* scheduler.                                                              *)
(***************************************************************************)
THEOREM CoopInvariance == C!Spec => []CoopInv
<1>1. C!Init => CoopInv
  BY InitCoopInv, CoopAssumption
<1>2. CoopInv /\ [C!Next]_C!vars => CoopInv'
  BY NextCoopInv, CoopAssumption
<1> QED BY <1>1, <1>2, PTL DEF C!Spec

(***************************************************************************)
(* COOP_CURRENT is who runs and the most urgent, `ps` shows the tasks as   *)
(* they are, and run_cooperative_demo drops the stacks only when nobody    *)
(* can return to them.                                                     *)
(***************************************************************************)
THEOREM TableRight == C!Spec => []TableShowsSchedule
<1>1. CoopInv => TableShowsSchedule
  BY DEF CoopInv, TableShowsSchedule
<1> QED BY <1>1, CoopInvariance, PTL

-----------------------------------------------------------------------------
(* Every step is one of Handover's.  Pos and Over are Handover's pos and   *)
(* over under the refinement mapping of Coop.                              *)

Pos  == [c \in C!Tasks \cup {C!Kernel} |-> C!Position(c)]
Over == {i \in C!Tasks : ~C!Back /\ cslots[i].done}

USE DEF C!H!Fresh

LEMMA InitRefines == ASSUME C!Assumptions, C!Init PROVE C!H!HInit
<1>1. ccpu.who = C!Kernel /\ ccpu.at = 0 /\ \A i \in C!Tasks : cslots[i].rsp.at = 0 /\ ~cslots[i].done
  BY DEF C!Init, C!Context, C!Empty
<1>2. \A c \in C!Tasks \cup {C!Kernel} : C!Position(c) = 0
  BY <1>1 DEF C!Position
<1> QED BY <1>1, <1>2 DEF C!H!HInit

(* While the kernel prepares, every task is at its beginning. *)
LEMMA KernelFresh ==
  ASSUME C!Assumptions, CoopInv, C!InKernel
  PROVE  Pos = C!H!Fresh(ccpu.at) /\ Over = {}
<1>1. C!Spawning \/ C!Back
  BY DEF C!Spawning, C!Back, C!InKernel, CoopInv, CoopTypeOK, Contexts
<1>2. \A c \in C!Tasks : C!Position(c) = 0
  BY <1>1, TaskNumbers DEF C!Position, C!InKernel, CoopInv, SlotsSound
<1>3. C!Position(C!Kernel) = ccpu.at
  BY DEF C!Position, C!InKernel
<1>4. Over = {}
  BY <1>1 DEF Over, CoopInv, SlotsSound
<1> QED BY <1>2, <1>3, <1>4, TaskNumbers DEF Pos

LEMMA KernelFreshNext ==
  ASSUME C!Assumptions, CoopInv', C!InKernel'
  PROVE  Pos' = C!H!Fresh(ccpu'.at) /\ Over' = {}
<1>1. C!Spawning' \/ C!Back'
  BY DEF C!Spawning, C!Back, C!InKernel, CoopInv, CoopTypeOK, Contexts
<1>2. \A c \in C!Tasks : C!Position(c)' = 0
  BY <1>1, TaskNumbers DEF C!Position, C!InKernel, CoopInv, SlotsSound
<1>3. C!Position(C!Kernel)' = ccpu'.at
  BY DEF C!Position, C!InKernel
<1>4. Over' = {}
  BY <1>1 DEF Over, CoopInv, SlotsSound
<1> QED BY <1>2, <1>3, <1>4, TaskNumbers DEF Pos

(* The kernel prepares, and stays in the kernel. *)
LEMMA PrepareRefines ==
  ASSUME C!Assumptions, CoopInv, CoopInv', C!InKernel, C!InKernel', ccpu'.at > ccpu.at
  PROVE  C!H!Prepare
<1>1. /\ Pos = C!H!Fresh(ccpu.at) /\ Pos' = C!H!Fresh(ccpu'.at)
      /\ Over' = {}
  BY KernelFresh, KernelFreshNext
<1>2. Pos[C!Kernel] = ccpu.at /\ Pos'[C!Kernel] = ccpu'.at
  BY <1>1
<1>3. ccpu.who = C!Kernel /\ ccpu'.who = C!Kernel
  BY DEF C!InKernel
<1> QED BY <1>1, <1>2, <1>3 DEF C!H!Prepare, Pos, Over

(* What yield_now changes for Handover.  The caller has not touched the    *)
(* saved RSPs, and has at most marked the running task as done.            *)
Marks(s) ==
  /\ \A i \in C!Tasks : s[i].rsp = cslots[i].rsp
  /\ \/ \A i \in C!Tasks : s[i].done = cslots[i].done
     \/ /\ ccurrent \in C!Tasks
        /\ \A i \in C!Tasks : s[i].done = (cslots[i].done \/ i = ccurrent)

LEMMA YieldSteps ==
  ASSUME C!Assumptions, CoopInv, CoopInv', NEW s, NEW t, Callable(s, t), C!YieldNow(s, t), Marks(s),
         C!Best(s) # C!Kernel
  PROVE  C!H!Step
<1> DEFINE best == C!Best(s)
<1>1. best \in C!Tasks /\ s[best].used /\ ~s[best].done
  BY BestRuns DEF Callable, C!Runnable
<1>2. ccurrent' = best /\ ccpu'.who = best /\ ccpu.who = ccurrent /\ ccurrent \in C!Tasks \cup {C!Kernel}
  BY YieldTypes DEF CoopInv, CoopTypeOK, C!TableShowsSchedule
<1>3. ~C!Back /\ ~C!Back'
  BY <1>1, <1>2, TaskNumbers DEF C!Back, C!InKernel, Callable
<1>4. \A i \in C!Tasks : /\ cslots'[i].done = s[i].done
                         /\ cslots'[i].rsp.at = IF i = ccurrent /\ best # ccurrent THEN ccpu.at + 1 ELSE cslots[i].rsp.at
  BY YieldSlots DEF Marks, C!Stays
<1>5. ckernelRsp'.at = IF ccurrent = C!Kernel THEN ccpu.at + 1 ELSE ckernelRsp.at
  BY <1>1, <1>2, TaskNumbers DEF C!YieldNow, C!Stays, C!Pushed, C!Context
<1>6. ccpu'.at = IF best = ccurrent THEN ccpu.at + 1 ELSE cslots[best].rsp.at
  BY <1>1, TaskNumbers DEF C!YieldNow, C!Stays, C!Pushed, C!Context, Marks
<1> HIDE DEF best
<1>7. C!Position(ccurrent) = ccpu.at
  BY <1>2 DEF C!Position
<1>8. \A c \in C!Tasks \cup {C!Kernel} : C!Position(c)' = IF c = ccpu.who THEN C!Position(c) + 1 ELSE C!Position(c)
  <2> SUFFICES ASSUME NEW c \in C!Tasks \cup {C!Kernel}
               PROVE  C!Position(c)' = IF c = ccurrent THEN ccpu.at + 1 ELSE C!Position(c)
    BY <1>2, <1>7
  <2>1. CASE c = best
    <3>1. C!Position(c)' = ccpu'.at
      BY <1>2, <2>1 DEF C!Position
    <3>2. best # ccurrent => C!Position(c) = cslots[best].rsp.at
      BY <1>1, <1>2, <1>3, <2>1, TaskNumbers DEF C!Position
    <3> QED BY <1>6, <2>1, <3>1, <3>2
  <2>2. CASE c # best /\ c = C!Kernel
    <3>1. C!Position(c)' = ckernelRsp'.at
      BY <1>2, <2>2 DEF C!Position
    <3>2. c # ccurrent => C!Position(c) = ckernelRsp.at
      BY <1>2, <2>2 DEF C!Position
    <3> QED BY <1>5, <2>2, <3>1, <3>2
  <2>3. CASE c # best /\ c # C!Kernel
    <3>1. c \in C!Tasks /\ C!Position(c)' = cslots'[c].rsp.at
      BY <1>2, <1>3, <2>3 DEF C!Position
    <3>2. c # ccurrent => C!Position(c) = cslots[c].rsp.at
      BY <1>2, <1>3, <2>3 DEF C!Position
    <3> QED BY <1>4, <2>3, <3>1, <3>2
  <2> QED BY <2>1, <2>2, <2>3
<1>9. Pos' = [Pos EXCEPT ![ccpu.who] = @ + 1]
  BY <1>2, <1>8 DEF Pos
<1>10. Over' = Over \/ (ccpu.who # C!Kernel /\ Over' = Over \cup {ccpu.who})
  <2>1. Over' = {i \in C!Tasks : s[i].done} /\ Over = {i \in C!Tasks : cslots[i].done}
    BY <1>3, <1>4 DEF Over
  <2>2. CASE \A i \in C!Tasks : s[i].done = cslots[i].done
    BY <2>1, <2>2
  <2>3. CASE ccurrent \in C!Tasks /\ \A i \in C!Tasks : s[i].done = (cslots[i].done \/ i = ccurrent)
    BY <1>2, <2>1, <2>3, TaskNumbers
  <2> QED BY <2>2, <2>3 DEF Marks
<1>11. ccpu'.who \in C!Tasks \ Over'
  BY <1>1, <1>2, <1>4 DEF Over, best
<1> QED BY <1>9, <1>10, <1>11 DEF C!H!Step, Pos, Over

LEMMA YieldRefines ==
  ASSUME C!Assumptions, CoopInv, CoopInv', NEW s, NEW t, Callable(s, t), C!YieldNow(s, t), Marks(s)
  PROVE  C!H!HNext
<1>1. CASE C!Best(s) # C!Kernel
  BY <1>1, YieldSteps DEF C!H!HNext
<1>2. CASE C!Best(s) = C!Kernel /\ ccurrent = C!Kernel
  <2>1. C!InKernel /\ C!InKernel' /\ ccpu'.at = ccpu.at + 1 /\ ccpu.at \in Nat
    BY <1>2 DEF C!YieldNow, C!Stays, C!Pushed, C!Context, C!InKernel, CoopInv, CoopTypeOK, Contexts, C!TableShowsSchedule
  <2> QED BY <2>1, PrepareRefines DEF C!H!HNext
<1>3. CASE C!Best(s) = C!Kernel /\ ccurrent # C!Kernel
  <2>1. ccpu.who # C!Kernel /\ ccpu'.who = C!Kernel /\ ccpu'.at = ckernelRsp.at
    BY <1>3 DEF C!YieldNow, C!Stays, CoopInv, SavedWhere, C!InKernel, C!TableShowsSchedule
  <2>2. Pos[C!Kernel] = ccpu'.at
    BY <2>1 DEF Pos, C!Position
  <2>3. Pos' = C!H!Fresh(ccpu'.at) /\ Over' = {}
    BY <2>1, KernelFreshNext DEF C!InKernel
  <2> QED BY <2>1, <2>2, <2>3 DEF C!H!HNext, C!H!Leave, Pos, Over
<1> QED BY <1>1, <1>2, <1>3

LEMMA TaskWorksRefines == ASSUME C!Assumptions, CoopInv, C!TaskWorks PROVE C!H!Step
<1>1. /\ ccpu.who \in C!Tasks /\ ccpu.who # C!Kernel /\ ccpu'.who = ccpu.who /\ ccpu'.at = ccpu.at + 1
      /\ ~cslots[ccpu.who].done
      /\ UNCHANGED <<cslots, ckernelRsp>>
  BY DEF C!TaskWorks, C!InKernel, C!Pushed, C!Context, CoopInv, SlotsSound, C!Runnable
<1>2. ~C!Back /\ ~C!Back'
  BY <1>1 DEF C!Back, C!InKernel
<1>3. \A c \in C!Tasks \cup {C!Kernel} : C!Position(c)' = IF c = ccpu.who THEN C!Position(c) + 1 ELSE C!Position(c)
  BY <1>1, <1>2 DEF C!Position
<1>4. Pos' = [Pos EXCEPT ![ccpu.who] = @ + 1]
  BY <1>1, <1>3 DEF Pos
<1>5. Over' = Over /\ ccpu'.who \in C!Tasks \ Over'
  BY <1>1, <1>2 DEF Over
<1> QED BY <1>4, <1>5 DEF C!H!Step, Pos, Over

LEMMA NextRefines == ASSUME C!Assumptions, CoopInv, CoopInv', [C!Next]_C!vars PROVE [C!H!HNext]_C!H!hvars
<1>1. ASSUME NEW p \in Priorities, C!SpawnCooperative(p) PROVE C!H!HNext
  <2>1. C!InKernel /\ C!InKernel' /\ ccpu'.at = ccpu.at + 2 /\ ccpu.at \in Nat
    BY <1>1 DEF C!SpawnCooperative, C!Spawning, C!Context, C!InKernel, CoopInv, CoopTypeOK, Contexts
  <2> QED BY <2>1, PrepareRefines DEF C!H!HNext
<1>2. CASE C!Clear
  <2>1. C!InKernel /\ C!InKernel' /\ ccpu'.at = ccpu.at + 1 /\ ccpu.at \in Nat
    BY <1>2 DEF C!Clear, C!Back, C!Pushed, C!Context, C!InKernel, CoopInv, CoopTypeOK, Contexts
  <2> QED BY <2>1, PrepareRefines DEF C!H!HNext
<1>3. CASE C!Start
  BY <1>3, StartCalls, YieldRefines DEF C!Start, Marks
<1>4. CASE C!TaskYields
  BY <1>4, TaskYieldsCalls, YieldRefines DEF C!TaskYields, Marks
<1>5. CASE C!FinishCurrentTask
  <2> DEFINE s == [cslots EXCEPT ![ccurrent].done = TRUE]
             t == [cpcb EXCEPT ![ccurrent] = "Terminated"]
  <2>1. Callable(s, t) /\ C!YieldNow(s, t)
    BY <1>5, FinishCalls DEF C!FinishCurrentTask
  <2>2. Marks(s)
    BY <1>5, FinishCalls DEF Marks, CoopInv, CoopTypeOK
  <2> HIDE DEF s, t
  <2> QED BY <2>1, <2>2, YieldRefines
<1>6. CASE C!TaskWorks
  BY <1>6, TaskWorksRefines DEF C!H!HNext
<1>7. CASE UNCHANGED C!vars
  BY <1>7 DEF C!vars, C!H!hvars, C!Position, C!Back, C!InKernel
<1> QED BY <1>1, <1>2, <1>3, <1>4, <1>5, <1>6, <1>7 DEF C!Next, C!Run

(***************************************************************************)
(* The safety part of HandsOver: yield_now, finish_current_task and        *)
(* switch_to implement Handover step by step, so every context resumes     *)
(* where it gave up the CPU and a finished task never does.                *)
(***************************************************************************)
THEOREM HandsOverSafely == C!Spec => C!H!HInit /\ [][C!H!HNext]_C!H!hvars
<1>1. C!Init => C!H!HInit
  BY InitRefines, CoopAssumption
<1>2. CoopInv /\ CoopInv' /\ [C!Next]_C!vars => [C!H!HNext]_C!H!hvars
  BY NextRefines, CoopAssumption
<1> QED BY <1>1, <1>2, CoopInvariance, PTL DEF C!Spec

-----------------------------------------------------------------------------
(* The inductive invariant of Ring3Coop. *)

Frames == [who : R!Tasks \cup {R!Kernel}, at : Nat]

Ring3TypeOK ==
  /\ rcpu \in Frames /\ rcaller \in Frames
  /\ rstack \in [R!Tasks -> Frames]
  /\ ractive \in 0 .. Ring3Tasks
  /\ rcurrent \in R!Tasks
  /\ rprios \in [R!Tasks -> Nat]
  /\ rdone \in [R!Tasks -> BOOLEAN]
  /\ rbodies \in [R!Tasks -> {R!YieldBody, R!RetireBody}]
  /\ rsig \in [0 .. Ring3Tasks -> R!Tasks \cup {R!Unset}]

(* The tasks of the session, and how far each has come. *)
Members == 0 .. ractive - 1
Place(i) == IF i = rcurrent THEN rcpu.at ELSE rstack[i].at

(* Whoever runs is the current task and not done; it resumes as itself,    *)
(* and so does the kernel behind switch_to.                                *)
Resumable ==
  /\ R!Session => ractive > 0 /\ rbodies[0] = R!YieldBody /\ \A i \in Members : rstack[i].who = i
  /\ R!InKernel /\ R!Session =>
       rcurrent = 0 /\ \A i \in Members : rstack[i].at = 0 /\ ~rdone[i] /\ rsig[i] = R!Unset
  /\ ~R!InKernel => /\ rcpu.who = rcurrent /\ rcurrent \in Members /\ ~rdone[rcurrent]
                    /\ rcaller.who = R!Kernel /\ rcaller.at % 2 = 0 /\ rcaller.at > 0

(* Between instructions a task is parked behind its yield or its end; it   *)
(* has written its byte unless it is at its beginning.                     *)
Progress ==
  /\ ~R!InKernel => \A i \in Members :
       /\ rbodies[i] = R!YieldBody  => ~rdone[i] /\ Place(i) \in (IF i = rcurrent THEN 0 .. 3 ELSE {0, 2})
       /\ rbodies[i] = R!RetireBody => Place(i) \in (IF i = rcurrent THEN 0 .. 1 ELSE {0, 2})
                                       /\ (rdone[i] <=> Place(i) = 2)
       /\ rsig[i] = IF Place(i) = 0 THEN R!Unset ELSE i
  /\ R!Session => \A i \in R!Tasks \ Members : ~rdone[i] /\ rsig[i] = R!Unset
  /\ R!InKernel /\ R!Session => rsig[Ring3Tasks] = R!Unset

(* Task 0 outranks or equals the others. *)
Leads == \A i \in Members : rprios[i] >= rprios[0]
Peers == {i \in Members : rprios[i] = rprios[0]}

(* Then the turn goes round its peers once, in order, and back to it. *)
OneRound ==
  ~R!InKernel /\ Leads =>
    /\ rcurrent \in Peers
    /\ rcurrent # 0 => rcpu.at < 2 /\ rstack[0].at = 2
    /\ \A i \in Peers : i < rcurrent \/ (rcurrent = 0 /\ rcpu.at >= 2) => rsig[i] = i
    /\ ~(rcurrent = 0 /\ rcpu.at >= 2) => \A i \in Members : i > rcurrent => rstack[i].at = 0
    /\ \A i \in Members \ Peers : rstack[i].at = 0
    /\ rsig[Ring3Tasks] = IF rcurrent = 0 /\ rcpu.at = 3 THEN 0 ELSE R!Unset

Ring3Inv == Ring3TypeOK /\ Resumable /\ Progress /\ OneRound /\ R!SignatureAsExpected

-----------------------------------------------------------------------------
LEMMA Ring3Sizes ==
  /\ Ring3Tasks \in Nat /\ Ring3Tasks > 0 /\ R!Tasks = 0 .. Ring3Tasks - 1 /\ R!Kernel = Ring3Tasks
  /\ R!Kernel \notin R!Tasks /\ R!Tasks \subseteq Nat /\ 0 \in R!Tasks
  /\ R!Unset \notin Nat /\ Ring3Priorities \subseteq Nat
BY Ring3CoopAssumption DEF R!Assumptions, R!Tasks, R!Kernel, R!Unset

LEMMA MembersAreTasks == ASSUME Ring3TypeOK PROVE Members \subseteq R!Tasks /\ Peers \subseteq Members
                                                  /\ (ractive > 0 => 0 \in Peers)
<1>1. ractive \in Nat /\ ractive <= Ring3Tasks
  BY Ring3Sizes DEF Ring3TypeOK
<1>2. Members \subseteq R!Tasks
  BY <1>1, Ring3Sizes DEF Members
<1> QED BY <1>1, <1>2 DEF Peers, Members

(* Which instruction the current task is at. *)
LEMMA AtWhich ==
  ASSUME Ring3TypeOK, Resumable, Progress, ~R!InKernel
  PROVE  /\ rcpu.who = rcurrent /\ rcurrent \in Members /\ rcurrent \in R!Tasks /\ rcpu.at \in 0 .. 3
         /\ R!AtInstruction("mark")   => rcpu.at = 0
         /\ R!AtInstruction("yield")  => rcpu.at = 1 /\ rbodies[rcurrent] = R!YieldBody
         /\ R!AtInstruction("retire") => rcpu.at = 1 /\ rbodies[rcurrent] = R!RetireBody
         /\ R!AtInstruction("last")   => rcpu.at = 2 /\ rbodies[rcurrent] = R!YieldBody
         /\ R!AtInstruction("exit")   => rcpu.at = 3 /\ rbodies[rcurrent] = R!YieldBody
<1>1. rcpu.who = rcurrent /\ rcurrent \in Members /\ rcurrent \in R!Tasks
  BY DEF Resumable, Ring3TypeOK
<1>2. rbodies[rcurrent] \in {R!YieldBody, R!RetireBody}
  BY <1>1 DEF Ring3TypeOK
<1>3. R!Instruction = rbodies[rcurrent][rcpu.at + 1]
  BY <1>1 DEF R!Instruction
<1>4. CASE rbodies[rcurrent] = R!YieldBody
  <2>1. rcpu.at \in 0 .. 3
    BY <1>1, <1>4 DEF Progress, Place
  <2>2. rcpu.at \in {0, 1, 2, 3}
    BY <2>1
  <2>3. /\ rcpu.at = 0 => R!Instruction = "mark"
        /\ rcpu.at = 1 => R!Instruction = "yield"
        /\ rcpu.at = 2 => R!Instruction = "last"
        /\ rcpu.at = 3 => R!Instruction = "exit"
    BY <1>3, <1>4 DEF R!YieldBody
  <2> QED BY <1>1, <1>4, <2>1, <2>2, <2>3 DEF R!AtInstruction
<1>5. CASE rbodies[rcurrent] = R!RetireBody
  <2>1. rcpu.at \in {0, 1}
    <3>1. rcpu.at \in 0 .. 1
      BY <1>1, <1>5 DEF Progress, Place
    <3> QED BY <3>1
  <2>2. /\ rcpu.at = 0 => R!Instruction = "mark"
        /\ rcpu.at = 1 => R!Instruction = "retire"
    BY <1>3, <1>5 DEF R!RetireBody
  <2> QED BY <1>1, <1>5, <2>1, <2>2 DEF R!AtInstruction
<1> QED BY <1>2, <1>4, <1>5

LEMMA BodiesDiffer == R!YieldBody # R!RetireBody
<1>1. R!YieldBody[2] = "yield" /\ R!RetireBody[2] = "retire"
  BY DEF R!YieldBody, R!RetireBody
<1> QED BY <1>1

(* The walk of select_next when slot 0 may be chosen: up from the current  *)
(* slot, and to slot 0 if nobody above it may be.                          *)
LEMMA WalksUp ==
  ASSUME NEW active \in Nat, NEW from \in 0 .. active - 1, NEW prios, NEW done,
         0 \in R!Eligible(active, prios, done), NEW n \in R!SelectNext(active, from, prios, done)
  PROVE  \/ n > from /\ \A j \in from + 1 .. n - 1 : j \notin R!Eligible(active, prios, done)
         \/ n = 0 /\ \A j \in from + 1 .. active - 1 : j \notin R!Eligible(active, prios, done)
<1> DEFINE E == R!Eligible(active, prios, done)
<1>1. PICK k \in 1 .. active :
        n = R!After(active, from, k) /\ \A j \in 1 .. k - 1 : R!After(active, from, j) \notin E
  BY DEF R!SelectNext
<1>2. n \in 0 .. active - 1
  BY DEF R!SelectNext, R!Eligible
<1>3. 0 \in E
  OBVIOUS
<1> HIDE DEF E
<1>4. CASE from + k < active
  <2>1. n = from + k
    BY <1>1, <1>4 DEF R!After
  <2>2. ASSUME NEW j \in from + 1 .. n - 1 PROVE j \notin E
    <3>1. j - from \in 1 .. k - 1 /\ R!After(active, from, j - from) = j
      BY <1>4, <2>1 DEF R!After
    <3> QED BY <1>1, <3>1
  <2> QED BY <2>1, <2>2 DEF E
<1>5. CASE ~(from + k < active)
  <2>1. n = from + k - active
    BY <1>1, <1>5 DEF R!After
  <2>2. n = 0
    <3> SUFFICES ASSUME n # 0 PROVE FALSE
      OBVIOUS
    <3>1. active - from \in 1 .. k - 1 /\ R!After(active, from, active - from) = 0
      BY <1>2, <2>1 DEF R!After
    <3> QED BY <1>1, <1>3, <3>1
  <2>3. ASSUME NEW j \in from + 1 .. active - 1 PROVE j \notin E
    <3>1. j - from \in 1 .. k - 1 /\ R!After(active, from, j - from) = j
      BY <2>1, <2>2 DEF R!After
    <3> QED BY <1>1, <3>1
  <2> QED BY <2>2, <2>3 DEF E
<1> QED BY <1>4, <1>5

LEMMA InitGivesRing3 == ASSUME R!Init PROVE Ring3Inv
<1>1. /\ rcpu = [who |-> R!Kernel, at |-> 0] /\ rcaller = [who |-> R!Kernel, at |-> 0]
      /\ rstack = [i \in R!Tasks |-> [who |-> i, at |-> 0]]
      /\ ractive = 0 /\ rcurrent = 0 /\ rprios = [i \in R!Tasks |-> 0]
      /\ rdone = [i \in R!Tasks |-> FALSE] /\ rbodies = [i \in R!Tasks |-> R!YieldBody]
      /\ rsig = [i \in 0 .. Ring3Tasks |-> R!Unset]
  BY DEF R!Init, R!Context, R!Fresh
<1>2. Ring3TypeOK
  BY <1>1, Ring3Sizes DEF Ring3TypeOK, Frames
<1>3. R!InKernel /\ ~R!Session /\ rcpu.at = 0
  BY <1>1 DEF R!InKernel, R!Session
<1>4. R!SignatureAsExpected
  BY <1>3 DEF R!SignatureAsExpected
<1> QED BY <1>2, <1>3, <1>4 DEF Ring3Inv, Resumable, Progress, OneRound

LEMMA ArmKeepsRing3 == ASSUME Ring3Inv, R!Arm PROVE Ring3Inv'
<1>1. PICK n \in 1 .. Ring3Tasks : \E p \in [0 .. n - 1 -> Ring3Priorities], r \in SUBSET (1 .. n - 1) :
        R!ArmRing3CoopTasks(n, p) /\ rbodies' = [i \in R!Tasks |-> IF i \in r THEN R!RetireBody ELSE R!YieldBody]
  BY DEF R!Arm
<1>2. PICK p \in [0 .. n - 1 -> Ring3Priorities], r \in SUBSET (1 .. n - 1) :
        R!ArmRing3CoopTasks(n, p) /\ rbodies' = [i \in R!Tasks |-> IF i \in r THEN R!RetireBody ELSE R!YieldBody]
  BY <1>1
<1>3. /\ ractive' = n /\ rcurrent' = 0
      /\ rprios' = [i \in R!Tasks |-> IF i < n THEN p[i] ELSE rprios[i]]
      /\ rstack' = [i \in R!Tasks |-> IF i < n THEN R!Fresh(i) ELSE rstack[i]]
      /\ rdone' = [i \in R!Tasks |-> FALSE]
  BY <1>2 DEF R!ArmRing3CoopTasks
<1>4. /\ rcpu.who = R!Kernel /\ rcpu.at % 2 = 0 /\ rcpu' = [who |-> rcpu.who, at |-> rcpu.at + 1]
      /\ rsig' = [i \in 0 .. Ring3Tasks |-> R!Unset] /\ rcaller' = rcaller
  BY DEF R!Arm, R!Pushed, R!Context, R!InKernel
<1>5. rcpu.at \in Nat /\ rcpu'.who = R!Kernel /\ rcpu'.at = rcpu.at + 1 /\ rcpu' \in Frames
  BY <1>4 DEF Ring3Inv, Ring3TypeOK, Frames
<1>6. rcpu'.at % 2 = 1
  BY <1>4, <1>5
<1>7. n \in Nat /\ n > 0 /\ n <= Ring3Tasks /\ Members' = 0 .. n - 1
  BY <1>3, Ring3Sizes DEF Members
<1>8. \A i \in R!Tasks : R!Fresh(i) \in Frames /\ R!Fresh(i).who = i /\ R!Fresh(i).at = 0
  BY DEF R!Fresh, R!Context, Frames
<1>9. Ring3TypeOK'
  <2>1. rstack' \in [R!Tasks -> Frames]
    BY <1>3, <1>8 DEF Ring3Inv, Ring3TypeOK
  <2>2. rprios' \in [R!Tasks -> Nat]
    <3>1. \A i \in R!Tasks : i < n => p[i] \in Nat
      <4> SUFFICES ASSUME NEW i \in R!Tasks, i < n PROVE p[i] \in Nat
        OBVIOUS
      <4>1. i \in 0 .. n - 1
        BY <1>7, Ring3Sizes
      <4>2. p[i] \in Ring3Priorities
        BY <4>1
      <4> QED BY <4>2, Ring3Sizes
    <3>2. \A i \in R!Tasks : rprios[i] \in Nat
      BY DEF Ring3Inv, Ring3TypeOK
    <3> QED BY <1>3, <3>1, <3>2
  <2>3. rbodies' \in [R!Tasks -> {R!YieldBody, R!RetireBody}]
    BY <1>2
  <2>4. rsig' \in [0 .. Ring3Tasks -> R!Tasks \cup {R!Unset}]
    BY <1>4
  <2>5. ractive' \in 0 .. Ring3Tasks /\ rcurrent' \in R!Tasks /\ rdone' \in [R!Tasks -> BOOLEAN]
    BY <1>3, <1>7, Ring3Sizes
  <2> QED BY <1>4, <1>5, <2>1, <2>2, <2>3, <2>4, <2>5 DEF Ring3Inv, Ring3TypeOK
<1>10. R!InKernel' /\ R!Session'
  BY <1>5, <1>6 DEF R!InKernel, R!Session
<1>11. \A i \in Members' : i \in R!Tasks /\ i < n /\ i \in 0 .. Ring3Tasks
  BY <1>7, Ring3Sizes
<1>12. Resumable'
  <2>1. rbodies'[0] = R!YieldBody
    BY <1>2, Ring3Sizes
  <2>2. \A i \in Members' : rstack'[i].who = i /\ rstack'[i].at = 0 /\ ~rdone'[i] /\ rsig'[i] = R!Unset
    BY <1>3, <1>4, <1>8, <1>11
  <2> QED BY <1>3, <1>7, <1>10, <2>1, <2>2 DEF Resumable
<1>13. Progress'
  <2>1. \A i \in R!Tasks : ~rdone'[i] /\ rsig'[i] = R!Unset
    BY <1>3, <1>4, Ring3Sizes
  <2>2. rsig'[Ring3Tasks] = R!Unset
    BY <1>4, Ring3Sizes
  <2> QED BY <1>10, <2>1, <2>2 DEF Progress
<1>14. R!SignatureAsExpected'
  BY <1>6 DEF R!SignatureAsExpected
<1> QED BY <1>9, <1>10, <1>12, <1>13, <1>14 DEF Ring3Inv, OneRound

LEMMA EnterKeepsRing3 == ASSUME Ring3Inv, R!Enter PROVE Ring3Inv'
<1>1. /\ rcpu.who = R!Kernel /\ rcpu.at % 2 = 1 /\ rcaller' = [who |-> rcpu.who, at |-> rcpu.at + 1]
      /\ rcpu' = rstack[0] /\ UNCHANGED <<rstack, ractive, rcurrent, rprios, rdone, rbodies, rsig>>
  BY DEF R!Enter, R!InKernel, R!Pushed, R!Context
<1>2. R!InKernel /\ R!Session
  BY <1>1 DEF R!InKernel, R!Session
<1>3. /\ ractive > 0 /\ ractive \in Nat /\ 0 \in Members /\ rbodies[0] = R!YieldBody /\ rcurrent = 0
      /\ \A i \in Members : rstack[i].who = i /\ rstack[i].at = 0 /\ ~rdone[i] /\ rsig[i] = R!Unset
  BY <1>2, Ring3Sizes DEF Ring3Inv, Ring3TypeOK, Resumable, Members
<1>4. rcpu' \in Frames /\ rcpu'.who = 0 /\ rcpu'.at = 0
  BY <1>1, <1>3, Ring3Sizes DEF Ring3Inv, Ring3TypeOK
<1>5. rcpu.at \in Nat /\ rcaller' \in Frames /\ rcaller'.who = R!Kernel /\ rcaller'.at = rcpu.at + 1
  BY <1>1, Ring3Sizes DEF Ring3Inv, Ring3TypeOK, Frames
<1>6. rcaller'.at % 2 = 0 /\ rcaller'.at > 0
  BY <1>1, <1>5
<1>7. Ring3TypeOK'
  BY <1>1, <1>4, <1>5 DEF Ring3Inv, Ring3TypeOK
<1>8. ~R!InKernel' /\ R!Session' /\ Members' = Members /\ Peers' = Peers
  BY <1>1, <1>4, Ring3Sizes DEF R!InKernel, R!Session, Members, Peers
<1>9. Resumable'
  BY <1>1, <1>3, <1>4, <1>5, <1>6, <1>8 DEF Resumable
<1>10. Progress'
  <2>1. \A i \in Members : Place(i)' = 0
    BY <1>1, <1>3, <1>4 DEF Place
  <2>2. \A i \in R!Tasks \ Members : ~rdone[i] /\ rsig[i] = R!Unset
    BY <1>2 DEF Ring3Inv, Progress
  <2>3. 0 \in 0 .. 3 /\ 0 \in 0 .. 1 /\ 0 # 2
    OBVIOUS
  <2> QED BY <1>1, <1>3, <1>8, <2>1, <2>2, <2>3 DEF Progress
<1>11. OneRound'
  <2>1. rsig[Ring3Tasks] = R!Unset
    BY <1>2 DEF Ring3Inv, Progress
  <2>2. 0 \in Peers /\ Peers \subseteq Members /\ Members \subseteq Nat
    BY <1>3, MembersAreTasks DEF Ring3Inv, Members
  <2>3. rcurrent' = 0 /\ rcpu'.at = 0 /\ ~(0 >= 2) /\ 0 # 3
    BY <1>1, <1>3, <1>4
  <2>4. \A i \in Peers' : ~(i < rcurrent') /\ ~(rcpu'.at >= 2)
    BY <1>8, <2>2, <2>3
  <2> QED BY <1>1, <1>3, <1>8, <2>1, <2>2, <2>3, <2>4 DEF OneRound
<1>12. R!SignatureAsExpected'
  BY <1>8 DEF R!SignatureAsExpected
<1>13. Ring3Inv'
  BY <1>7, <1>9, <1>10, <1>11, <1>12 DEF Ring3Inv
<1> QED BY <1>13

-----------------------------------------------------------------------------
(* What the invariant says of one task while a program runs. *)
LEMMA OfMember ==
  ASSUME Ring3TypeOK, Progress, ~R!InKernel, NEW i \in Members
  PROVE  /\ i \in R!Tasks /\ i \in 0 .. Ring3Tasks /\ i # Ring3Tasks
         /\ rbodies[i] = R!YieldBody \/ rbodies[i] = R!RetireBody
         /\ i # rcurrent => Place(i) = rstack[i].at /\ (rstack[i].at = 0 \/ rstack[i].at = 2)
         /\ i = rcurrent => Place(i) = rcpu.at
         /\ rbodies[i] = R!YieldBody => ~rdone[i]
         /\ rbodies[i] = R!RetireBody => (rdone[i] <=> Place(i) = 2)
         /\ Place(i) = 0 => rsig[i] = R!Unset
         /\ Place(i) # 0 => rsig[i] = i
<1>1. i \in R!Tasks /\ i \in 0 .. Ring3Tasks /\ i # Ring3Tasks
  BY MembersAreTasks, Ring3Sizes
<1>2. rbodies[i] = R!YieldBody \/ rbodies[i] = R!RetireBody
  BY <1>1 DEF Ring3TypeOK
<1>3. /\ rbodies[i] = R!YieldBody  => ~rdone[i] /\ Place(i) \in (IF i = rcurrent THEN 0 .. 3 ELSE {0, 2})
      /\ rbodies[i] = R!RetireBody => Place(i) \in (IF i = rcurrent THEN 0 .. 1 ELSE {0, 2})
                                       /\ (rdone[i] <=> Place(i) = 2)
      /\ rsig[i] = IF Place(i) = 0 THEN R!Unset ELSE i
  BY DEF Progress
<1>4. Place(i) = IF i = rcurrent THEN rcpu.at ELSE rstack[i].at
  BY DEF Place
<1> QED BY <1>1, <1>2, <1>3, <1>4

(* Conversely, how the parts of Progress are put together. *)
LEMMA MembersProgress ==
  ASSUME NEW i,
         rbodies'[i] = R!YieldBody \/ rbodies'[i] = R!RetireBody,
         rbodies'[i] = R!YieldBody => ~rdone'[i],
         rbodies'[i] = R!RetireBody => (rdone'[i] <=> Place(i)' = 2),
         i # rcurrent' => Place(i)' = 0 \/ Place(i)' = 2,
         i = rcurrent' => /\ rbodies'[i] = R!YieldBody => Place(i)' \in 0 .. 3
                          /\ rbodies'[i] = R!RetireBody => Place(i)' \in 0 .. 1,
         Place(i)' = 0 => rsig'[i] = R!Unset, Place(i)' # 0 => rsig'[i] = i
  PROVE  /\ rbodies'[i] = R!YieldBody
              => ~rdone'[i] /\ Place(i)' \in (IF i = rcurrent' THEN 0 .. 3 ELSE {0, 2})
         /\ rbodies'[i] = R!RetireBody => /\ Place(i)' \in (IF i = rcurrent' THEN 0 .. 1 ELSE {0, 2})
                                          /\ (rdone'[i] <=> Place(i)' = 2)
         /\ rsig'[i] = IF Place(i)' = 0 THEN R!Unset ELSE i
OBVIOUS

LEMMA ExecuteKeepsRing3 == ASSUME Ring3Inv, R!Execute PROVE Ring3Inv'
<1>1. /\ ~R!InKernel /\ rcpu' = [who |-> rcpu.who, at |-> rcpu.at + 1]
      /\ UNCHANGED <<rstack, rcaller, ractive, rcurrent, rprios, rdone, rbodies>>
  BY DEF R!Execute, R!AtInstruction, R!Pushed, R!Context
<1>2. /\ rcpu.who = rcurrent /\ rcurrent \in Members /\ rcurrent \in R!Tasks /\ rcpu.at \in 0 .. 3
      /\ \/ rcpu.at = 0 /\ rsig' = [rsig EXCEPT ![rcurrent] = rcurrent]
         \/ rcpu.at = 2 /\ rbodies[rcurrent] = R!YieldBody /\ rsig' = [rsig EXCEPT ![Ring3Tasks] = rcurrent]
  BY <1>1, AtWhich DEF Ring3Inv, R!Execute
<1>3. rcpu'.who = rcurrent /\ rcpu'.at = rcpu.at + 1 /\ rcpu' \in Frames
  BY <1>1, <1>2 DEF Frames
<1>4. ~R!InKernel' /\ R!Session' /\ R!Session /\ Members' = Members /\ Peers' = Peers /\ (Leads' <=> Leads)
  BY <1>1, <1>2, <1>3, Ring3Sizes DEF R!InKernel, R!Session, Members, Peers, Leads
<1>5. Ring3TypeOK'
  <2>1. rsig' \in [0 .. Ring3Tasks -> R!Tasks \cup {R!Unset}]
    BY <1>2 DEF Ring3Inv, Ring3TypeOK
  <2> QED BY <1>1, <1>3, <2>1 DEF Ring3Inv, Ring3TypeOK
<1>6. Resumable'
  BY <1>1, <1>2, <1>3, <1>4 DEF Ring3Inv, Resumable
<1>7. /\ \A i \in 0 .. Ring3Tasks : i # rcurrent /\ i # Ring3Tasks => rsig'[i] = rsig[i]
      /\ rcpu.at = 0 => rsig'[rcurrent] = rcurrent /\ rsig'[Ring3Tasks] = rsig[Ring3Tasks]
      /\ rcpu.at = 2 => rsig'[Ring3Tasks] = rcurrent /\ rsig'[rcurrent] = rsig[rcurrent]
  <2>1. rsig \in [0 .. Ring3Tasks -> R!Tasks \cup {R!Unset}] /\ rcurrent \in 0 .. Ring3Tasks /\ rcurrent # Ring3Tasks
        /\ Ring3Tasks \in 0 .. Ring3Tasks
    BY <1>2, Ring3Sizes DEF Ring3Inv, Ring3TypeOK
  <2> QED BY <1>2, <2>1
<1>8. \A i \in Members : i # rcurrent => Place(i)' = Place(i)
  BY <1>1 DEF Place
<1>10. Progress'
  <2>1. ASSUME NEW i \in Members
        PROVE  /\ rbodies'[i] = R!YieldBody
                    => ~rdone'[i] /\ Place(i)' \in (IF i = rcurrent' THEN 0 .. 3 ELSE {0, 2})
               /\ rbodies'[i] = R!RetireBody => /\ Place(i)' \in (IF i = rcurrent' THEN 0 .. 1 ELSE {0, 2})
                                                /\ (rdone'[i] <=> Place(i)' = 2)
               /\ rsig'[i] = IF Place(i)' = 0 THEN R!Unset ELSE i
    <3>1. /\ i \in R!Tasks /\ i \in 0 .. Ring3Tasks /\ i # Ring3Tasks
          /\ rbodies[i] = R!YieldBody \/ rbodies[i] = R!RetireBody
          /\ i # rcurrent => Place(i) = rstack[i].at /\ (rstack[i].at = 0 \/ rstack[i].at = 2)
          /\ rbodies[i] = R!YieldBody => ~rdone[i]
          /\ rbodies[i] = R!RetireBody => (rdone[i] <=> Place(i) = 2)
          /\ Place(i) = 0 => rsig[i] = R!Unset
          /\ Place(i) # 0 => rsig[i] = i
      BY <1>1, OfMember DEF Ring3Inv
    <3>2. CASE i # rcurrent
      BY <1>1, <1>7, <1>8, <3>1, <3>2, MembersProgress
    <3>3. CASE i = rcurrent
      <4>0. Place(i) = rcpu.at /\ Place(i)' = rcpu.at + 1 /\ (rcpu.at = 0 \/ rcpu.at = 2)
        BY <1>1, <1>2, <1>3, <3>3 DEF Place
      <4>1. Place(i)' # 0 /\ Place(i)' # 2 /\ Place(i)' \in 0 .. 3
            /\ (rbodies[i] = R!RetireBody => Place(i)' = 1 /\ ~rdone[i])
        BY <1>2, <4>0, <3>1, <3>3, BodiesDiffer
      <4>2. rsig'[i] = i
        BY <1>7, <4>0, <3>1, <3>3
      <4> QED BY <1>1, <3>1, <3>3, <4>1, <4>2, MembersProgress
    <3> QED BY <3>2, <3>3
  <2>2. ASSUME NEW i \in R!Tasks \ Members PROVE ~rdone'[i] /\ rsig'[i] = R!Unset
    <3>1. ~rdone[i] /\ rsig[i] = R!Unset /\ i # rcurrent /\ i \in 0 .. Ring3Tasks /\ i # Ring3Tasks
      BY <1>2, <1>4, Ring3Sizes DEF Ring3Inv, Progress
    <3> QED BY <1>1, <1>7, <3>1
  <2> QED BY <1>4, <2>1, <2>2 DEF Progress
<1>11. OneRound'
  <2> SUFFICES ASSUME Leads
      PROVE  /\ rcurrent \in Peers
             /\ rcurrent # 0 => rcpu'.at < 2 /\ rstack[0].at = 2
             /\ \A i \in Peers : i < rcurrent \/ (rcurrent = 0 /\ rcpu'.at >= 2) => rsig'[i] = i
             /\ ~(rcurrent = 0 /\ rcpu'.at >= 2) => \A i \in Members : i > rcurrent => rstack[i].at = 0
             /\ \A i \in Members \ Peers : rstack[i].at = 0
             /\ rsig'[Ring3Tasks] = IF rcurrent = 0 /\ rcpu'.at = 3 THEN 0 ELSE R!Unset
    BY <1>1, <1>4 DEF OneRound
  <2>1. /\ rcurrent \in Peers
        /\ rcurrent # 0 => rcpu.at < 2 /\ rstack[0].at = 2
        /\ \A i \in Peers : i < rcurrent \/ (rcurrent = 0 /\ rcpu.at >= 2) => rsig[i] = i
        /\ ~(rcurrent = 0 /\ rcpu.at >= 2) => \A i \in Members : i > rcurrent => rstack[i].at = 0
        /\ \A i \in Members \ Peers : rstack[i].at = 0
        /\ rsig[Ring3Tasks] = IF rcurrent = 0 /\ rcpu.at = 3 THEN 0 ELSE R!Unset
    BY <1>1 DEF Ring3Inv, OneRound
  <2>2. \A i \in Peers : i \in 0 .. Ring3Tasks /\ i # Ring3Tasks /\ i \in Members
    BY <1>1, OfMember DEF Ring3Inv, Peers
  <2>3. rcurrent \in Nat
    BY <1>2, Ring3Sizes
  <2>4. CASE rcpu.at = 0
    <3>1. rcpu'.at = 1
      BY <1>3, <2>4
    <3>2. \A i \in Peers : i < rcurrent => rsig'[i] = i
      BY <1>7, <2>1, <2>2, <2>3
    <3> QED BY <1>7, <2>1, <2>3, <2>4, <3>1, <3>2
  <2>5. CASE rcpu.at = 2
    <3>1. rcpu'.at = 3 /\ rcurrent = 0
      BY <1>3, <2>1, <2>5
    <3>2. \A i \in Peers : rsig'[i] = i
      BY <1>7, <2>1, <2>2, <2>5, <3>1
    <3> QED BY <1>7, <2>1, <2>5, <3>1, <3>2
  <2> QED BY <1>2, <2>4, <2>5
<1>12. R!SignatureAsExpected'
  BY <1>4 DEF R!SignatureAsExpected
<1> QED BY <1>5, <1>6, <1>10, <1>11, <1>12 DEF Ring3Inv

-----------------------------------------------------------------------------
(* What int 0x83 and int 0x85 have in common: the caller parks behind the  *)
(* instruction, d are the tasks that are done from now on.                 *)
HandsOn(n) ==
  /\ ~R!InKernel /\ rcpu.at = 1
  /\ rstack' = [rstack EXCEPT ![rcurrent] = [who |-> rcurrent, at |-> 2]]
  /\ \A i \in R!Tasks : i # rcurrent => (rdone'[i] <=> rdone[i])
  /\ rdone'[rcurrent] <=> rbodies[rcurrent] = R!RetireBody
  /\ rdone' \in [R!Tasks -> BOOLEAN]
  /\ n \in R!SelectNext(ractive, rcurrent, rprios, rdone')
  /\ rcurrent' = n /\ rcpu' = rstack'[n]
  /\ UNCHANGED <<rcaller, ractive, rprios, rbodies, rsig>>

LEMMA HandsOnPlaces ==
  ASSUME Ring3Inv, NEW n, HandsOn(n)
  PROVE  /\ rcurrent \in Members /\ n \in Members /\ ~rdone'[n] /\ Members' = Members /\ Members \subseteq R!Tasks
         /\ \A j \in Members : ~rdone'[j] => rprios[n] <= rprios[j]
         /\ rstack' \in [R!Tasks -> Frames]
         /\ \A i \in R!Tasks : i # rcurrent => rstack'[i] = rstack[i]
         /\ rstack'[rcurrent] = [who |-> rcurrent, at |-> 2]
         /\ \A i \in R!Tasks : Place(i)' = rstack'[i].at
         /\ rcpu' \in Frames /\ rcpu'.who = n /\ ~R!InKernel' /\ R!Session' /\ R!Session
<1>1. rcurrent \in Members /\ rcurrent \in R!Tasks /\ Members \subseteq R!Tasks
  BY AtWhich, MembersAreTasks DEF Ring3Inv, HandsOn
<1>2. n \in Members /\ ~rdone'[n] /\ \A j \in Members : ~rdone'[j] => rprios[n] <= rprios[j]
  BY DEF HandsOn, R!SelectNext, R!Eligible, Members
<1>3. [who |-> rcurrent, at |-> 2] \in Frames
  BY <1>1 DEF Frames
<1>4. /\ rstack' \in [R!Tasks -> Frames]
      /\ \A i \in R!Tasks : i # rcurrent => rstack'[i] = rstack[i]
      /\ rstack'[rcurrent] = [who |-> rcurrent, at |-> 2]
  BY <1>1, <1>3 DEF HandsOn, Ring3Inv, Ring3TypeOK
<1>5. rcpu' \in Frames /\ rcpu' = rstack'[n] /\ rcurrent' = n
  BY <1>1, <1>2, <1>4 DEF HandsOn
<1>6. \A i \in R!Tasks : Place(i)' = rstack'[i].at
  BY <1>5 DEF Place
<1>7. R!Session
  BY DEF HandsOn, R!Session
<1>8. rcpu'.who = n
  <2>1. CASE n = rcurrent
    BY <1>4, <1>5, <2>1
  <2>2. CASE n # rcurrent
    <3>1. rstack[n].who = n
      BY <1>2, <1>7 DEF Ring3Inv, Resumable
    <3> QED BY <1>1, <1>2, <1>4, <1>5, <2>2, <3>1
  <2> QED BY <2>1, <2>2
<1>9. ~R!InKernel'
  BY <1>1, <1>2, <1>8, Ring3Sizes DEF R!InKernel
<1>10. R!Session' /\ Members' = Members
  BY <1>9 DEF R!Session, HandsOn, Members
<1> QED BY <1>1, <1>2, <1>4, <1>5, <1>6, <1>7, <1>8, <1>9, <1>10

LEMMA HandsOnProgress == ASSUME Ring3Inv, NEW n, HandsOn(n) PROVE Progress'
<1>1. /\ rcurrent \in Members /\ n \in Members /\ ~rdone'[n] /\ Members' = Members /\ Members \subseteq R!Tasks
      /\ \A i \in R!Tasks : i # rcurrent => rstack'[i] = rstack[i]
      /\ rstack'[rcurrent] = [who |-> rcurrent, at |-> 2]
      /\ \A i \in R!Tasks : Place(i)' = rstack'[i].at
      /\ ~R!InKernel' /\ R!Session' /\ R!Session
  BY HandsOnPlaces
<1>2. /\ ~R!InKernel /\ rcpu.at = 1 /\ rcurrent' = n
      /\ \A i \in R!Tasks : i # rcurrent => (rdone'[i] <=> rdone[i])
      /\ rdone'[rcurrent] <=> rbodies[rcurrent] = R!RetireBody
      /\ UNCHANGED <<rbodies, rsig>>
  BY DEF HandsOn
<1>3. ASSUME NEW i \in Members
      PROVE  /\ rbodies'[i] = R!YieldBody
                  => ~rdone'[i] /\ Place(i)' \in (IF i = rcurrent' THEN 0 .. 3 ELSE {0, 2})
             /\ rbodies'[i] = R!RetireBody => /\ Place(i)' \in (IF i = rcurrent' THEN 0 .. 1 ELSE {0, 2})
                                              /\ (rdone'[i] <=> Place(i)' = 2)
             /\ rsig'[i] = IF Place(i)' = 0 THEN R!Unset ELSE i
  <2>1. /\ i \in R!Tasks
        /\ rbodies[i] = R!YieldBody \/ rbodies[i] = R!RetireBody
        /\ i # rcurrent => Place(i) = rstack[i].at /\ (rstack[i].at = 0 \/ rstack[i].at = 2)
        /\ i = rcurrent => Place(i) = rcpu.at
        /\ rbodies[i] = R!YieldBody => ~rdone[i]
        /\ rbodies[i] = R!RetireBody => (rdone[i] <=> Place(i) = 2)
        /\ Place(i) = 0 => rsig[i] = R!Unset
        /\ Place(i) # 0 => rsig[i] = i
    BY <1>2, OfMember DEF Ring3Inv
  <2>2. /\ Place(i)' = 0 \/ Place(i)' = 2
        /\ rbodies[i] = R!YieldBody => ~rdone'[i]
        /\ rbodies[i] = R!RetireBody => (rdone'[i] <=> Place(i)' = 2)
        /\ Place(i)' = 0 => rsig[i] = R!Unset
        /\ Place(i)' # 0 => rsig[i] = i
    <3>1. CASE i # rcurrent
      <4>1. Place(i)' = Place(i) /\ (rdone'[i] <=> rdone[i])
        BY <1>1, <1>2, <2>1, <3>1
      <4> QED BY <2>1, <3>1, <4>1
    <3>2. CASE i = rcurrent
      <4>1. Place(i)' = 2 /\ Place(i) = 1 /\ (rdone'[i] <=> rbodies[i] = R!RetireBody)
        BY <1>1, <1>2, <2>1, <3>2
      <4> QED BY <2>1, <4>1, BodiesDiffer
    <3> QED BY <3>1, <3>2
  <2>3. i = rcurrent' => /\ rbodies'[i] = R!YieldBody => Place(i)' \in 0 .. 3
                         /\ rbodies'[i] = R!RetireBody => Place(i)' \in 0 .. 1
    BY <1>1, <1>2, <2>2
  <2> QED BY <1>2, <2>1, <2>2, <2>3, MembersProgress
<1>4. ASSUME NEW i \in R!Tasks \ Members PROVE ~rdone'[i] /\ rsig'[i] = R!Unset
  <2>1. ~rdone[i] /\ rsig[i] = R!Unset /\ i # rcurrent
    BY <1>1 DEF Ring3Inv, Progress
  <2> QED BY <1>2, <2>1
<1> QED BY <1>1, <1>3, <1>4 DEF Progress

(* With task 0 in front, every peer that has not been reached is eligible. *)
LEMMA HandsOnRound == ASSUME Ring3Inv, NEW n, HandsOn(n) PROVE OneRound'
<1>1. /\ rcurrent \in Members /\ n \in Members /\ ~rdone'[n] /\ Members' = Members /\ Members \subseteq R!Tasks
      /\ \A j \in Members : ~rdone'[j] => rprios[n] <= rprios[j]
      /\ \A i \in R!Tasks : i # rcurrent => rstack'[i] = rstack[i]
      /\ rstack'[rcurrent] = [who |-> rcurrent, at |-> 2]
      /\ ~R!InKernel' /\ R!Session
  BY HandsOnPlaces
<1>2. /\ ~R!InKernel /\ rcpu.at = 1 /\ rcurrent' = n /\ rcpu' = rstack'[n]
      /\ \A i \in R!Tasks : i # rcurrent => (rdone'[i] <=> rdone[i])
      /\ rdone'[rcurrent] <=> rbodies[rcurrent] = R!RetireBody
      /\ n \in R!SelectNext(ractive, rcurrent, rprios, rdone')
      /\ UNCHANGED <<rsig, rprios>>
  BY DEF HandsOn
<1>3. Peers' = Peers /\ (Leads' <=> Leads)
  BY <1>1, <1>2 DEF Peers, Leads
<1> SUFFICES ASSUME Leads
    PROVE  /\ n \in Peers
           /\ n # 0 => rcpu'.at < 2 /\ rstack'[0].at = 2
           /\ \A i \in Peers : i < n \/ (n = 0 /\ rcpu'.at >= 2) => rsig[i] = i
           /\ ~(n = 0 /\ rcpu'.at >= 2) => \A i \in Members : i > n => rstack'[i].at = 0
           /\ \A i \in Members \ Peers : rstack'[i].at = 0
           /\ rsig[Ring3Tasks] = IF n = 0 /\ rcpu'.at = 3 THEN 0 ELSE R!Unset
  BY <1>1, <1>2, <1>3 DEF OneRound
<1>4. /\ rcurrent \in Peers
      /\ rcurrent # 0 => rstack[0].at = 2
      /\ \A i \in Peers : i < rcurrent => rsig[i] = i
      /\ \A i \in Members : i > rcurrent => rstack[i].at = 0
      /\ \A i \in Members \ Peers : rstack[i].at = 0
      /\ rsig[Ring3Tasks] = R!Unset
  BY <1>2 DEF Ring3Inv, OneRound
<1>5. ractive \in Nat /\ ractive > 0 /\ 0 \in Members /\ 0 \in Peers /\ Peers \subseteq Members
      /\ Members = 0 .. ractive - 1 /\ 0 \in R!Tasks
  BY <1>1, MembersAreTasks, Ring3Sizes DEF Ring3Inv, Ring3TypeOK, Resumable, Members
<1>6. \A i \in Members : rprios[i] \in Nat
  BY <1>1 DEF Ring3Inv, Ring3TypeOK
<1>7. \A i \in Members : i > rcurrent => ~rdone'[i]
  <2> SUFFICES ASSUME NEW i \in Members, i > rcurrent PROVE ~rdone'[i]
    OBVIOUS
  <2>1. i # rcurrent /\ rstack[i].at = 0
    BY <1>1, <1>4, <1>5
  <2>2. ~rdone[i]
    BY <1>2, <2>1, OfMember DEF Ring3Inv
  <2> QED BY <1>1, <1>2, <2>1, <2>2
<1>8. ~rdone'[0]
  <2>1. rbodies[0] = R!YieldBody
    BY <1>1 DEF Ring3Inv, Resumable
  <2>2. ~rdone[0]
    BY <1>2, <1>5, <2>1, OfMember DEF Ring3Inv
  <2> QED BY <1>2, <1>5, <2>1, <2>2, BodiesDiffer
<1>9. \A i \in Peers : ~rdone'[i] => i \in R!Eligible(ractive, rprios, rdone')
  BY <1>5, <1>6 DEF R!Eligible, Leads, Peers
<1>10. n \in Peers
  <2>1. rprios[n] <= rprios[0] /\ rprios[n] >= rprios[0]
    BY <1>1, <1>5, <1>8 DEF Leads
  <2> QED BY <1>1, <1>5, <1>6, <2>1 DEF Peers
<1>11. rstack'[0].at = 2
  BY <1>1, <1>4, <1>5
<1>12. rsig[rcurrent] = rcurrent
  <2>1. Place(rcurrent) = 1
    BY <1>2 DEF Place
  <2> QED BY <1>1, <1>2, <2>1, OfMember DEF Ring3Inv
<1>13. \A i \in Members \ Peers : rstack'[i].at = 0
  BY <1>1, <1>4
<1>14. \/ n > rcurrent /\ \A j \in rcurrent + 1 .. n - 1 : j \notin R!Eligible(ractive, rprios, rdone')
       \/ n = 0 /\ \A j \in rcurrent + 1 .. ractive - 1 : j \notin R!Eligible(ractive, rprios, rdone')
  BY <1>1, <1>2, <1>5, <1>8, <1>9, WalksUp
<1>15. CASE n > rcurrent /\ \A j \in rcurrent + 1 .. n - 1 : j \notin R!Eligible(ractive, rprios, rdone')
  <2>1. n # 0 /\ rcpu'.at = 0
    BY <1>1, <1>2, <1>4, <1>5, <1>15
  <2>2. \A i \in Peers : i < n => rsig[i] = i
    <3> SUFFICES ASSUME NEW i \in Peers, i < n PROVE rsig[i] = i
      OBVIOUS
    <3>1. CASE i < rcurrent
      BY <1>4, <3>1
    <3>2. CASE i = rcurrent
      BY <1>12, <3>2
    <3>3. CASE i > rcurrent
      <4>1. i \in rcurrent + 1 .. n - 1
        BY <1>1, <1>5, <3>3
      <4> QED BY <1>5, <1>7, <1>9, <1>15, <3>3, <4>1
    <3> QED BY <1>1, <1>5, <3>1, <3>2, <3>3
  <2>3. \A i \in Members : i > n => rstack'[i].at = 0
    BY <1>1, <1>4, <1>5, <1>15
  <2> QED BY <1>4, <1>10, <1>11, <1>13, <2>1, <2>2, <2>3
<1>16. CASE n = 0 /\ \A j \in rcurrent + 1 .. ractive - 1 : j \notin R!Eligible(ractive, rprios, rdone')
  <2>1. rcpu'.at = 2
    BY <1>2, <1>11, <1>16
  <2>2. \A i \in Peers : rsig[i] = i
    <3> SUFFICES ASSUME NEW i \in Peers PROVE rsig[i] = i
      OBVIOUS
    <3>1. CASE i < rcurrent
      BY <1>4, <3>1
    <3>2. CASE i = rcurrent
      BY <1>12, <3>2
    <3>3. CASE i > rcurrent
      <4>1. i \in rcurrent + 1 .. ractive - 1
        BY <1>1, <1>5, <3>3
      <4> QED BY <1>5, <1>7, <1>9, <1>16, <3>3, <4>1
    <3> QED BY <1>1, <1>5, <3>1, <3>2, <3>3
  <2> QED BY <1>4, <1>10, <1>13, <1>16, <2>1, <2>2
<1> QED BY <1>14, <1>15, <1>16

LEMMA HandsOnKeepsRing3 == ASSUME Ring3Inv, NEW n, HandsOn(n) PROVE Ring3Inv'
<1>1. /\ rcurrent \in Members /\ n \in Members /\ ~rdone'[n] /\ Members' = Members /\ Members \subseteq R!Tasks
      /\ rstack' \in [R!Tasks -> Frames]
      /\ \A i \in R!Tasks : i # rcurrent => rstack'[i] = rstack[i]
      /\ rstack'[rcurrent] = [who |-> rcurrent, at |-> 2]
      /\ rcpu' \in Frames /\ rcpu'.who = n /\ ~R!InKernel' /\ R!Session' /\ R!Session
  BY HandsOnPlaces
<1>2. /\ ~R!InKernel /\ rcurrent' = n /\ rdone' \in [R!Tasks -> BOOLEAN]
      /\ UNCHANGED <<rcaller, ractive, rprios, rbodies, rsig>>
  BY DEF HandsOn
<1>3. Ring3TypeOK'
  BY <1>1, <1>2 DEF Ring3Inv, Ring3TypeOK
<1>4. Resumable'
  <2>1. /\ ractive > 0 /\ rbodies[0] = R!YieldBody /\ \A i \in Members : rstack[i].who = i
        /\ rcaller.who = R!Kernel /\ rcaller.at % 2 = 0 /\ rcaller.at > 0
    BY <1>1, <1>2 DEF Ring3Inv, Resumable
  <2>2. \A i \in Members : rstack'[i].who = i
    BY <1>1, <2>1
  <2> QED BY <1>1, <1>2, <2>1, <2>2 DEF Resumable
<1>5. R!SignatureAsExpected'
  BY <1>1 DEF R!SignatureAsExpected
<1> QED BY <1>3, <1>4, <1>5, HandsOnProgress, HandsOnRound DEF Ring3Inv

LEMMA YieldHandsOn == ASSUME Ring3Inv, R!Yield PROVE \E n : HandsOn(n)
<1>1. /\ ~R!InKernel /\ R!AtInstruction("yield") /\ rstack' = [rstack EXCEPT ![rcurrent] = R!Pushed]
      /\ UNCHANGED <<rcaller, ractive, rprios, rdone, rbodies, rsig>>
  BY DEF R!Yield, R!AtInstruction, R!Park
<1>2. PICK n \in R!SelectNext(ractive, rcurrent, rprios, rdone) : rcurrent' = n /\ rcpu' = rstack'[n]
  BY DEF R!Yield, R!HandOn
<1>3. rcpu.at = 1 /\ rbodies[rcurrent] = R!YieldBody /\ rcpu.who = rcurrent /\ rcurrent \in Members
  BY <1>1, AtWhich DEF Ring3Inv
<1>4. R!Pushed = [who |-> rcurrent, at |-> 2]
  BY <1>3 DEF R!Pushed, R!Context
<1>5. ~rdone[rcurrent] /\ rdone \in [R!Tasks -> BOOLEAN]
  BY <1>1 DEF Ring3Inv, Ring3TypeOK, Resumable
<1>6. HandsOn(n)
  BY <1>1, <1>2, <1>3, <1>4, <1>5, BodiesDiffer DEF HandsOn
<1> QED BY <1>6

LEMMA TaskDoneHandsOn == ASSUME Ring3Inv, R!TaskDone PROVE \E n : HandsOn(n)
<1>1. /\ ~R!InKernel /\ R!AtInstruction("retire") /\ rstack' = [rstack EXCEPT ![rcurrent] = R!Pushed]
      /\ rdone' = [rdone EXCEPT ![rcurrent] = TRUE]
      /\ UNCHANGED <<rcaller, ractive, rprios, rbodies, rsig>>
  BY DEF R!TaskDone, R!AtInstruction, R!Park
<1>2. PICK n \in R!SelectNext(ractive, rcurrent, rprios, rdone') : rcurrent' = n /\ rcpu' = rstack'[n]
  BY DEF R!TaskDone, R!HandOn
<1>3. rcpu.at = 1 /\ rbodies[rcurrent] = R!RetireBody /\ rcpu.who = rcurrent /\ rcurrent \in R!Tasks
  BY <1>1, AtWhich DEF Ring3Inv
<1>4. R!Pushed = [who |-> rcurrent, at |-> 2]
  BY <1>3 DEF R!Pushed, R!Context
<1>5. rdone \in [R!Tasks -> BOOLEAN]
  BY DEF Ring3Inv, Ring3TypeOK
<1>6. /\ rdone' \in [R!Tasks -> BOOLEAN] /\ rdone'[rcurrent]
      /\ \A i \in R!Tasks : i # rcurrent => (rdone'[i] <=> rdone[i])
  BY <1>1, <1>3, <1>5, Zenon
<1>7. HandsOn(n)
  BY <1>1, <1>2, <1>3, <1>4, <1>6 DEF HandsOn
<1> QED BY <1>7

-----------------------------------------------------------------------------
(* The session ends at task 0 or, where it does not lead, at any task. *)
LEMMA ExitKeepsRing3 == ASSUME Ring3Inv, R!Exit PROVE Ring3Inv'
<1>1. /\ ~R!InKernel /\ R!AtInstruction("exit") /\ rcpu' = rcaller
      /\ UNCHANGED <<rstack, rcaller, ractive, rcurrent, rprios, rdone, rbodies, rsig>>
  BY DEF R!Exit, R!AtInstruction
<1>2. /\ rcpu.at = 3 /\ rbodies[rcurrent] = R!YieldBody /\ rcurrent \in Members
      /\ rcaller.who = R!Kernel /\ rcaller.at % 2 = 0 /\ rcaller.at > 0 /\ ractive \in Nat /\ ractive > 0
  BY <1>1, AtWhich, Ring3Sizes DEF Ring3Inv, Resumable, Ring3TypeOK, R!Session
<1>3. R!InKernel' /\ ~R!Session'
  BY <1>1, <1>2 DEF R!InKernel, R!Session
<1>4. Ring3TypeOK'
  BY <1>1 DEF Ring3Inv, Ring3TypeOK
<1>5. Resumable' /\ Progress' /\ OneRound'
  BY <1>3 DEF Resumable, Progress, OneRound
<1>6. Members \subseteq R!Tasks /\ Members = 0 .. ractive - 1 /\ 0 \in Members /\ 0 \in Peers /\ R!Tasks \subseteq Nat
  BY <1>2, MembersAreTasks, Ring3Sizes DEF Ring3Inv, Members
<1>7. \A i \in Members : rprios[i] \in Nat
  BY <1>6 DEF Ring3Inv, Ring3TypeOK
<1>8. Leads => /\ rcurrent = 0 /\ rsig[Ring3Tasks] = 0
               /\ \A i \in Peers : rsig[i] = i
               /\ \A i \in Members \ Peers : rsig[i] = R!Unset
  <2> SUFFICES ASSUME Leads
      PROVE  /\ rcurrent = 0 /\ rsig[Ring3Tasks] = 0
             /\ \A i \in Peers : rsig[i] = i
             /\ \A i \in Members \ Peers : rsig[i] = R!Unset
    OBVIOUS
  <2>1. rcurrent = 0
    BY <1>1, <1>2 DEF Ring3Inv, OneRound
  <2>2. rsig[Ring3Tasks] = 0 /\ (\A i \in Peers : rsig[i] = i) /\ \A i \in Members \ Peers : rstack[i].at = 0
    BY <1>1, <1>2, <2>1 DEF Ring3Inv, OneRound
  <2>3. ASSUME NEW i \in Members \ Peers PROVE rsig[i] = R!Unset
    <3>1. i # rcurrent /\ Place(i) = 0
      BY <1>6, <2>1, <2>2 DEF Place
    <3> QED BY <1>1, <3>1, OfMember DEF Ring3Inv
  <2> QED BY <2>1, <2>2, <2>3
<1>9. \A i \in R!Tasks : rdone[i] <=> rbodies[i] = R!RetireBody /\ rsig[i] = i
  <2>1. ASSUME NEW i \in Members PROVE rdone[i] <=> rbodies[i] = R!RetireBody /\ rsig[i] = i
    <3>1. /\ rbodies[i] = R!YieldBody \/ rbodies[i] = R!RetireBody
          /\ i # rcurrent => Place(i) = rstack[i].at /\ (rstack[i].at = 0 \/ rstack[i].at = 2)
          /\ rbodies[i] = R!YieldBody => ~rdone[i]
          /\ rbodies[i] = R!RetireBody => (rdone[i] <=> Place(i) = 2)
          /\ Place(i) = 0 => rsig[i] = R!Unset
          /\ Place(i) # 0 => rsig[i] = i
      BY <1>1, OfMember DEF Ring3Inv
    <3>2. i # R!Unset
      BY <1>6, Ring3Sizes
    <3> QED BY <1>2, <3>1, <3>2, BodiesDiffer
  <2>2. ASSUME NEW i \in R!Tasks \ Members PROVE rdone[i] <=> rbodies[i] = R!RetireBody /\ rsig[i] = i
    <3>1. ~rdone[i] /\ rsig[i] = R!Unset /\ i # R!Unset
      BY <1>1, Ring3Sizes DEF Ring3Inv, Progress, R!Session
    <3> QED BY <3>1
  <2> QED BY <2>1, <2>2
<1>10. \A i \in Members : i = 0 \/ i \in 1 .. ractive - 1
  BY <1>2, <1>6
<1>11. \A i \in 1 .. ractive - 1 : i \in Members
  BY <1>6
<1>12. (\A i \in 1 .. ractive - 1 : rprios[i] >= rprios[0]) => Leads
  BY <1>6, <1>7, <1>10 DEF Leads
<1>13. (\A i \in 1 .. ractive - 1 : rprios[i] >= rprios[0]) => rsig[0] = 0 /\ rsig[Ring3Tasks] = 0
  BY <1>6, <1>8, <1>12
<1>14. (\A i \in 1 .. ractive - 1 : rprios[i] = rprios[0]) => \A i \in 1 .. ractive - 1 : rsig[i] = i
  <2> SUFFICES ASSUME \A i \in 1 .. ractive - 1 : rprios[i] = rprios[0]
      PROVE  \A i \in 1 .. ractive - 1 : rsig[i] = i
    OBVIOUS
  <2>1. Leads
    BY <1>6, <1>7, <1>11, <1>12
  <2>2. \A i \in 1 .. ractive - 1 : i \in Peers
    BY <1>11 DEF Peers
  <2> QED BY <1>8, <2>1, <2>2
<1>15. (\A i \in 1 .. ractive - 1 : rprios[i] > rprios[0]) => \A i \in 1 .. ractive - 1 : rsig[i] = R!Unset
  <2> SUFFICES ASSUME \A i \in 1 .. ractive - 1 : rprios[i] > rprios[0]
      PROVE  \A i \in 1 .. ractive - 1 : rsig[i] = R!Unset
    OBVIOUS
  <2>1. Leads
    BY <1>6, <1>7, <1>11, <1>12
  <2>2. \A i \in 1 .. ractive - 1 : i \in Members \ Peers
    BY <1>6, <1>7, <1>11 DEF Peers
  <2> QED BY <1>8, <2>1, <2>2
<1>16. R!SignatureAsExpected'
  BY <1>1, <1>9, <1>13, <1>14, <1>15 DEF R!SignatureAsExpected
<1> QED BY <1>4, <1>5, <1>16 DEF Ring3Inv

LEMMA SameKeepsRing3 ==
  ASSUME Ring3Inv, UNCHANGED <<rcpu, rstack, rcaller, ractive, rcurrent, rprios, rdone, rbodies, rsig>>
  PROVE  Ring3Inv'
<1>1. /\ (R!InKernel' <=> R!InKernel) /\ (R!Session' <=> R!Session) /\ Members' = Members /\ Peers' = Peers
      /\ (Leads' <=> Leads) /\ (R!SignatureAsExpected' <=> R!SignatureAsExpected)
  BY DEF R!InKernel, R!Session, Members, Peers, Leads, R!SignatureAsExpected
<1>2. Ring3TypeOK'
  BY DEF Ring3Inv, Ring3TypeOK
<1>3. Resumable' /\ OneRound'
  BY <1>1 DEF Ring3Inv, Resumable, OneRound
<1>4. Progress'
  <2>1. \A i \in Members : Place(i)' = Place(i)
    BY DEF Place
  <2> QED BY <1>1, <2>1 DEF Ring3Inv, Progress
<1> QED BY <1>1, <1>2, <1>3, <1>4 DEF Ring3Inv

LEMMA NextKeepsRing3 == ASSUME Ring3Inv, [R!Next]_R!vars PROVE Ring3Inv'
<1>1. CASE R!Arm
  BY <1>1, ArmKeepsRing3
<1>2. CASE R!Enter
  BY <1>2, EnterKeepsRing3
<1>3. CASE R!Execute
  BY <1>3, ExecuteKeepsRing3
<1>4. CASE R!Yield
  BY <1>4, YieldHandsOn, HandsOnKeepsRing3
<1>5. CASE R!TaskDone
  BY <1>5, TaskDoneHandsOn, HandsOnKeepsRing3
<1>6. CASE R!Exit
  BY <1>6, ExitKeepsRing3
<1>7. CASE R!TimerTick
  BY <1>7, SameKeepsRing3 DEF R!TimerTick
<1>8. CASE UNCHANGED R!vars
  BY <1>8, SameKeepsRing3 DEF R!vars
<1> QED BY <1>1, <1>2, <1>3, <1>4, <1>5, <1>6, <1>7, <1>8 DEF R!Next, R!Run

(***************************************************************************)
(* The inductive invariant of the ring-3 cooperative scheduler, for every  *)
(* number of tasks, every order of priorities and every choice of which    *)
(* tasks retire.                                                           *)
(***************************************************************************)
THEOREM Ring3Invariance == R!Spec => []Ring3Inv
<1>1. R!Init => Ring3Inv
  BY InitGivesRing3
<1>2. Ring3Inv /\ [R!Next]_R!vars => Ring3Inv'
  BY NextKeepsRing3
<1> QED BY <1>1, <1>2, PTL DEF R!Spec

(***************************************************************************)
(* The bytes the programs leave behind are the ones the ring-3 cooperative *)
(* tests of main.rs compare with, whatever ticks overwrite RSP0.           *)
(***************************************************************************)
THEOREM SignatureRight == R!Spec => []SignatureAsExpected
<1>1. Ring3Inv => SignatureAsExpected
  BY DEF Ring3Inv, SignatureAsExpected
<1> QED BY <1>1, Ring3Invariance, PTL

-----------------------------------------------------------------------------
(* Every step is one of Handover's or, for a tick, none.  Ring3Pos and     *)
(* Ring3Over are its pos and over under the refinement mapping.            *)

Ring3Pos  == [c \in R!Tasks \cup {R!Kernel} |-> R!Position(c)]
Ring3Over == {i \in R!Tasks : R!Session /\ rdone[i]}

USE DEF R!H!Fresh

LEMMA Ring3InitRefines == ASSUME R!Init PROVE R!H!HInit
<1>1. /\ rcpu = [who |-> R!Kernel, at |-> 0]
      /\ ractive = 0 /\ \A i \in R!Tasks : rstack[i].at = 0 /\ ~rdone[i]
  BY DEF R!Init, R!Context, R!Fresh
<1>2. rcpu.who = R!Kernel /\ rcpu.at = 0
  BY <1>1
<1>3. \A c \in R!Tasks \cup {R!Kernel} : R!Position(c) = 0
  BY <1>1, <1>2 DEF R!Position
<1> QED BY <1>1, <1>2, <1>3 DEF R!H!HInit

(* While the kernel prepares, every task is at its beginning. *)
LEMMA Ring3KernelFresh ==
  ASSUME Ring3Inv, R!InKernel
  PROVE  Ring3Pos = R!H!Fresh(rcpu.at) /\ Ring3Over = {}
<1>1. \A c \in R!Tasks : c # rcpu.who /\ c # R!Kernel
  BY Ring3Sizes DEF R!InKernel
<1>2. \A c \in R!Tasks : c < ractive <=> c \in Members
  <2>1. ractive \in Nat /\ Members = 0 .. ractive - 1
    BY Ring3Sizes DEF Ring3Inv, Ring3TypeOK, Members
  <2> QED BY <2>1, Ring3Sizes
<1>3. R!Session => /\ \A c \in Members : rstack[c].at = 0 /\ ~rdone[c]
                   /\ \A c \in R!Tasks \ Members : ~rdone[c]
  BY DEF Ring3Inv, Resumable, Progress
<1>4. \A c \in R!Tasks : R!Position(c) = 0
  BY <1>1, <1>2, <1>3 DEF R!Position
<1>5. R!Position(R!Kernel) = rcpu.at
  BY DEF R!Position, R!InKernel
<1>6. Ring3Over = {}
  BY <1>3 DEF Ring3Over
<1> QED BY <1>1, <1>4, <1>5, <1>6 DEF Ring3Pos

LEMMA Ring3KernelFreshNext ==
  ASSUME Ring3Inv', R!InKernel'
  PROVE  Ring3Pos' = R!H!Fresh(rcpu'.at) /\ Ring3Over' = {}
<1>1. \A c \in R!Tasks : c # rcpu'.who /\ c # R!Kernel
  BY Ring3Sizes DEF R!InKernel
<1>2. \A c \in R!Tasks : c < ractive' <=> c \in Members'
  <2>1. ractive' \in Nat /\ Members' = 0 .. ractive' - 1
    BY Ring3Sizes DEF Ring3Inv, Ring3TypeOK, Members
  <2>2. PICK a \in Nat : a = ractive'
    BY <2>1
  <2>3. \A c \in R!Tasks : c < a <=> c \in 0 .. a - 1
    BY Ring3Sizes
  <2> QED BY <2>1, <2>2, <2>3
<1>3. R!Session' => /\ \A c \in Members' : rstack'[c].at = 0 /\ ~rdone'[c]
                    /\ \A c \in R!Tasks \ Members' : ~rdone'[c]
  BY DEF Ring3Inv, Resumable, Progress
<1>4. \A c \in R!Tasks : R!Position(c)' = 0
  BY <1>1, <1>2, <1>3 DEF R!Position
<1>5. R!Position(R!Kernel)' = rcpu'.at
  BY DEF R!Position, R!InKernel
<1>6. Ring3Over' = {}
  BY <1>3 DEF Ring3Over
<1> QED BY <1>1, <1>4, <1>5, <1>6 DEF Ring3Pos

LEMMA ArmRefines == ASSUME Ring3Inv, Ring3Inv', R!Arm PROVE R!H!Prepare
<1>1. /\ R!InKernel /\ rcpu.who = R!Kernel /\ rcpu' = [who |-> rcpu.who, at |-> rcpu.at + 1] /\ rcpu.at \in Nat
  BY DEF R!Arm, R!Pushed, R!Context, R!InKernel, Ring3Inv, Ring3TypeOK, Frames
<1>2. R!InKernel' /\ rcpu'.who = R!Kernel /\ rcpu'.at = rcpu.at + 1
  BY <1>1 DEF R!InKernel
<1>3. Ring3Pos = R!H!Fresh(rcpu.at) /\ Ring3Pos' = R!H!Fresh(rcpu'.at) /\ Ring3Over' = {}
  BY <1>1, <1>2, Ring3KernelFresh, Ring3KernelFreshNext
<1>4. Ring3Pos[R!Kernel] = rcpu.at /\ Ring3Pos'[R!Kernel] = rcpu'.at
  BY <1>3
<1>5. Ring3Pos'[R!Kernel] > Ring3Pos[R!Kernel]
  BY <1>1, <1>2, <1>4
<1> QED BY <1>1, <1>2, <1>3, <1>4, <1>5 DEF R!H!Prepare, Ring3Pos, Ring3Over

(* What is to be shown of a step that leaves a task on the CPU. *)
LEMMA StepsOn ==
  ASSUME rcpu.who \in R!Tasks \cup {R!Kernel}, R!Session, R!Session',
         \A c \in R!Tasks \cup {R!Kernel} :
           R!Position(c)' = IF c = rcpu.who THEN R!Position(c) + 1 ELSE R!Position(c),
         \/ \A i \in R!Tasks : rdone'[i] <=> rdone[i]
         \/ rcpu.who \in R!Tasks /\ \A i \in R!Tasks : rdone'[i] <=> rdone[i] \/ i = rcpu.who,
         rcpu'.who \in R!Tasks, ~rdone'[rcpu'.who]
  PROVE  R!H!Step
<1>1. Ring3Pos' = [Ring3Pos EXCEPT ![rcpu.who] = @ + 1]
  BY DEF Ring3Pos
<1>2. Ring3Over' = {i \in R!Tasks : rdone'[i]} /\ Ring3Over = {i \in R!Tasks : rdone[i]}
  BY DEF Ring3Over
<1>3. Ring3Over' = Ring3Over \/ (rcpu.who # R!Kernel /\ Ring3Over' = Ring3Over \cup {rcpu.who})
  BY <1>2, Ring3Sizes
<1>4. rcpu'.who \in R!Tasks \ Ring3Over'
  BY <1>2
<1> QED BY <1>1, <1>3, <1>4 DEF R!H!Step, Ring3Pos, Ring3Over

LEMMA EnterRefines == ASSUME Ring3Inv, R!Enter PROVE R!H!Step
<1>1. /\ rcpu.who = R!Kernel /\ rcpu.at % 2 = 1 /\ rcaller' = [who |-> rcpu.who, at |-> rcpu.at + 1]
      /\ rcpu' = rstack[0] /\ UNCHANGED <<rstack, ractive, rdone>>
  BY DEF R!Enter, R!InKernel, R!Pushed, R!Context
<1>2. R!InKernel /\ R!Session /\ R!Kernel \notin R!Tasks
  BY <1>1, Ring3Sizes DEF R!InKernel, R!Session
<1>3. 0 \in Members /\ 0 \in R!Tasks /\ 0 < ractive
  BY <1>2, Ring3Sizes DEF Ring3Inv, Ring3TypeOK, Resumable, Members
<1>4. rcpu'.who = 0 /\ ~rdone[0] /\ rcaller'.at = rcpu.at + 1
  BY <1>1, <1>2, <1>3 DEF Ring3Inv, Resumable
<1>5. R!Session'
  BY <1>2, <1>3, <1>4 DEF R!Session, R!InKernel
<1>6. ASSUME NEW c \in R!Tasks \cup {R!Kernel}
      PROVE  R!Position(c)' = IF c = rcpu.who THEN R!Position(c) + 1 ELSE R!Position(c)
  <2>1. CASE c = R!Kernel
    <3>1. R!Position(c) = rcpu.at /\ R!Position(c)' = rcaller'.at
      BY <1>1, <1>2, <1>3, <1>4, <2>1 DEF R!Position
    <3> QED BY <1>1, <1>4, <2>1, <3>1
  <2>2. CASE c \in R!Tasks
    <3>1. c # rcpu.who /\ c # R!Kernel
      BY <1>1, <1>2, <2>2
    <3>2. R!Position(c) = (IF c < ractive THEN rstack[c].at ELSE 0)
      BY <1>2, <3>1 DEF R!Position
    <3>3. R!Position(c)' = (IF c < ractive THEN rstack[c].at ELSE 0)
      BY <1>1, <1>3, <1>4, <1>5, <3>1 DEF R!Position
    <3> QED BY <3>1, <3>2, <3>3
  <2> QED BY <2>1, <2>2
<1> QED BY <1>1, <1>2, <1>3, <1>4, <1>5, <1>6, StepsOn

LEMMA ExecuteRefines == ASSUME Ring3Inv, R!Execute PROVE R!H!Step
<1>1. /\ ~R!InKernel /\ rcpu' = [who |-> rcpu.who, at |-> rcpu.at + 1]
      /\ UNCHANGED <<rstack, rcaller, ractive, rdone>>
  BY DEF R!Execute, R!AtInstruction, R!Pushed, R!Context
<1>2. rcpu.who = rcurrent /\ rcurrent \in Members /\ rcurrent \in R!Tasks /\ ~rdone[rcurrent]
  BY <1>1, AtWhich DEF Ring3Inv, Resumable
<1>3. rcpu'.who = rcpu.who /\ rcpu'.at = rcpu.at + 1
  BY <1>1
<1>4. R!Session /\ R!Session'
  BY <1>1, <1>3 DEF R!Session, R!InKernel
<1>5. \A c \in R!Tasks \cup {R!Kernel} : R!Position(c)' = IF c = rcpu.who THEN R!Position(c) + 1 ELSE R!Position(c)
  BY <1>1, <1>3, <1>4 DEF R!Position
<1> QED BY <1>1, <1>2, <1>3, <1>4, <1>5, StepsOn

LEMMA HandsOnRefines == ASSUME Ring3Inv, NEW n, HandsOn(n) PROVE R!H!Step
<1>1. /\ rcurrent \in Members /\ n \in Members /\ ~rdone'[n] /\ Members \subseteq R!Tasks
      /\ \A i \in R!Tasks : i # rcurrent => rstack'[i] = rstack[i]
      /\ rstack'[rcurrent] = [who |-> rcurrent, at |-> 2]
      /\ rcpu'.who = n /\ R!Session' /\ R!Session
  BY HandsOnPlaces
<1>2. /\ ~R!InKernel /\ rcpu.at = 1 /\ rcpu' = rstack'[n] /\ UNCHANGED <<rcaller, ractive>>
      /\ \A i \in R!Tasks : i # rcurrent => (rdone'[i] <=> rdone[i])
  BY DEF HandsOn
<1>3. rcpu.who = rcurrent /\ ~rdone[rcurrent] /\ rcurrent < ractive /\ n < ractive
  BY <1>1, <1>2, Ring3Sizes DEF Ring3Inv, Ring3TypeOK, Resumable, Members
<1>4. R!Kernel \notin R!Tasks
  BY Ring3Sizes
<1>5. ASSUME NEW c \in R!Tasks \cup {R!Kernel}
      PROVE  R!Position(c)' = IF c = rcpu.who THEN R!Position(c) + 1 ELSE R!Position(c)
  <2>1. CASE c = R!Kernel
    <3>1. R!Position(c) = rcaller.at /\ R!Position(c)' = rcaller.at
      BY <1>1, <1>2, <1>3, <1>4, <2>1 DEF R!Position
    <3> QED BY <1>1, <1>3, <1>4, <2>1, <3>1
  <2>2. CASE c \in R!Tasks
    <3>1. c # R!Kernel
      BY <1>4, <2>2
    <3>2. R!Position(c)' = (IF c < ractive THEN rstack'[c].at ELSE 0)
      BY <1>1, <1>2, <1>3, <3>1 DEF R!Position
    <3>3. c # rcurrent => R!Position(c) = (IF c < ractive THEN rstack[c].at ELSE 0)
      BY <1>1, <1>3, <3>1 DEF R!Position
    <3>4. c = rcurrent => R!Position(c) = 1 /\ R!Position(c)' = 2
      BY <1>1, <1>2, <1>3, <3>2 DEF R!Position
    <3> QED BY <1>1, <1>3, <2>2, <3>2, <3>3, <3>4
  <2> QED BY <2>1, <2>2
<1>6. \/ \A i \in R!Tasks : rdone'[i] <=> rdone[i]
      \/ rcpu.who \in R!Tasks /\ \A i \in R!Tasks : rdone'[i] <=> rdone[i] \/ i = rcpu.who
  BY <1>1, <1>2, <1>3
<1> QED BY <1>1, <1>3, <1>5, <1>6, StepsOn

LEMMA ExitRefines == ASSUME Ring3Inv, Ring3Inv', R!Exit PROVE R!H!Leave
<1>1. ~R!InKernel /\ rcpu' = rcaller
  BY DEF R!Exit, R!AtInstruction
<1>2. rcpu.who # R!Kernel /\ rcaller.who = R!Kernel
  BY <1>1 DEF Ring3Inv, Resumable, R!InKernel
<1>3. R!InKernel' /\ rcpu'.who = R!Kernel
  BY <1>1, <1>2 DEF R!InKernel
<1>4. Ring3Pos' = R!H!Fresh(rcaller.at) /\ Ring3Over' = {}
  BY <1>1, <1>3, Ring3KernelFreshNext
<1>5. Ring3Pos[R!Kernel] = rcaller.at
  BY <1>2 DEF Ring3Pos, R!Position
<1> QED BY <1>2, <1>3, <1>4, <1>5 DEF R!H!Leave, Ring3Pos, Ring3Over

LEMMA Ring3NextRefines == ASSUME Ring3Inv, Ring3Inv', [R!Next]_R!vars PROVE [R!H!HNext]_R!H!hvars
<1>1. CASE R!Arm
  BY <1>1, ArmRefines DEF R!H!HNext
<1>2. CASE R!Enter
  BY <1>2, EnterRefines DEF R!H!HNext
<1>3. CASE R!Execute
  BY <1>3, ExecuteRefines DEF R!H!HNext
<1>4. CASE R!Yield
  BY <1>4, YieldHandsOn, HandsOnRefines DEF R!H!HNext
<1>5. CASE R!TaskDone
  BY <1>5, TaskDoneHandsOn, HandsOnRefines DEF R!H!HNext
<1>6. CASE R!Exit
  BY <1>6, ExitRefines DEF R!H!HNext
<1>7. CASE R!TimerTick \/ UNCHANGED R!vars
  <2>1. UNCHANGED <<rcpu, rstack, rcaller, ractive, rdone>>
    BY <1>7 DEF R!TimerTick, R!vars
  <2> QED BY <2>1 DEF R!H!hvars, R!Position, R!Session, R!InKernel
<1> QED BY <1>1, <1>2, <1>3, <1>4, <1>5, <1>6, <1>7 DEF R!Next, R!Run

(***************************************************************************)
(* The safety part of Ring3HandsOver: through yields, retirements and the  *)
(* ticks that overwrite RSP0, every task resumes where it gave up the CPU, *)
(* a task that is done never does, and int 0x82 resumes the kernel behind  *)
(* switch_to.                                                              *)
(***************************************************************************)
THEOREM Ring3HandsOverSafely == R!Spec => R!H!HInit /\ [][R!H!HNext]_R!H!hvars
<1>1. R!Init => R!H!HInit
  BY Ring3InitRefines
<1>2. Ring3Inv /\ Ring3Inv' /\ [R!Next]_R!vars => [R!H!HNext]_R!H!hvars
  BY Ring3NextRefines
<1> QED BY <1>1, <1>2, Ring3Invariance, PTL DEF R!Spec

-----------------------------------------------------------------------------
(* The preemptive scheduler: the inductive invariant. *)

(* Where the kernel is decides what is armed. *)
Phases ==
  /\ pos[None] \in KernelAt /\ pos[0] \in TaskAt /\ pos[1] \in {"none", "entry", "loop"}
  /\ pos[None] = "out" => ~present[0] /\ ~present[1]
  /\ pos[None] = "clean1" => ~present[0] /\ present[1]
  /\ pos[None] \notin {"out", "clean1"} => present[0] /\ present[1]
  /\ pos[None] # "out" => pos[0] # "none" /\ pos[1] # "none"
  /\ enabled => remaining # 0 /\ pos[None] \notin {"out", "clean0", "clean1"}
  /\ ~enabled => current = None

(* SCHEDULER is held exactly while task 0 prints.  Until the first tick    *)
(* the tasks have not begun and the budget is whole.                       *)
Locking ==
  /\ lock <=> pos[0] = "print"
  /\ enabled /\ current = None =>
       pos[0] = "entry" /\ pos[1] = "entry" /\ remaining >= 2 * (PsLength + 4)

(* The steps task 0 and task 1 need until they have counted. *)
Work0 ==
  IF pos[0] = "entry" THEN PsLength + 4
  ELSE IF pos[0] = "ps" THEN PsLength + 3
  ELSE IF pos[0] = "print" THEN psLeft + 2
  ELSE IF counted[0] THEN 0 ELSE 1

Work1 == IF pos[1] = "entry" THEN 2 ELSE IF counted[1] THEN 0 ELSE 1

(* The ticks left are enough for `work` steps of task i, which gets every  *)
(* second slice at least and makes a step in each.                         *)
Enough(i, work) ==
  IF enabled
  THEN 2 * work <= IF current = i THEN (IF stepped THEN remaining - 1 ELSE remaining + 1)
                                  ELSE remaining
  ELSE work = 0

PsProgress ==
  pos[None] # "out" =>
    /\ prio[0] <= prio[1] => Enough(0, Work0)
    /\ prio[0] > prio[1] => pos[0] = "entry"
    /\ prio[0] = prio[1] => Enough(1, Work1)

(* Slices alternate between equals; a lower priority never runs. *)
Shares ==
  /\ lead \in {0, 1}
  /\ enabled /\ prio[0] = prio[1] => lead = IF current = 0 THEN 1 ELSE 0
  /\ \A i \in Tasks : prio[1 - i] < prio[i] => ~counted[i] /\ ~ran[i] /\ current # i

(* The table shows who runs; while SCHEDULER is held, task 0. *)
Table ==
  /\ pos[None] \notin {"out", "clean1"} => PcbsShow(pcb, IF lock THEN 0 ELSE current)
  /\ pos[None] = "clean1" => pcb[0] = "Terminated"
  /\ pos[None] = "out" => \A i \in Tasks : pcb[i] \in {"none", "Terminated"}
  /\ stale = IF enabled /\ lock /\ current # 0 THEN 1 ELSE 0

PreemptInv == TypeOK /\ ResumesExactly /\ Phases /\ Locking /\ PsProgress /\ Shares /\ Table

-----------------------------------------------------------------------------
USE DEF None, Tasks, Ctxs

LEMMA PreemptInit == Init => PreemptInv
<1> SUFFICES ASSUME Init PROVE PreemptInv
  OBVIOUS
<1>1. TypeOK
  <2>1. \A c \in Ctxs : At(c, "none") \in Rsp
    BY DEF At, Rsp, TaskAt
  <2>2. At(None, "out") \in Rsp /\ "out" \in KernelAt /\ "none" \in TaskAt
    BY DEF At, Rsp, KernelAt, TaskAt
  <2>3. 0 \in 0 .. PsLength
    BY PsLengthAssumption
  <2>4. saved \in [Ctxs -> Rsp]
    BY <2>1 DEF Init
  <2>5. pos \in [Ctxs -> KernelAt \cup TaskAt]
    BY <2>2 DEF Init
  <2>6. enabled \in BOOLEAN /\ lock \in BOOLEAN /\ stepped \in BOOLEAN
    BY DEF Init
  <2>7. /\ present \in [Tasks -> BOOLEAN] /\ counted \in [Tasks -> BOOLEAN]
        /\ ran \in [Tasks -> BOOLEAN] /\ prio \in [Tasks -> Prios \cup {0}]
    BY DEF Init
  <2> QED BY <2>2, <2>3, <2>4, <2>5, <2>6, <2>7 DEF Init, TypeOK
<1>2. ResumesExactly
  BY DEF Init, ResumesExactly, At
<1>3. Phases /\ Locking /\ PsProgress /\ Shares /\ Table
  BY DEF Init, Phases, Locking, PsProgress, Shares, Table, KernelAt, TaskAt
<1> QED BY <1>1, <1>2, <1>3 DEF PreemptInv

LEMMA StartDemoInv ==
  ASSUME PreemptInv, NEW b \in Budgets, NEW p \in [Tasks -> Prios], NEW r \in BOOLEAN,
         StartDemo(b, p, r)
  PROVE  PreemptInv'
<1>1. current = None /\ ~lock /\ pos[None] = "out"
  BY DEF PreemptInv, ResumesExactly, At, StartDemo, TypeOK
<1>2. b \in Nat \ {0} /\ b >= 2 * (PsLength + 4)
  BY BudgetsAssumption, PsFitsAssumption
<1>3. TypeOK'
  BY <1>2 DEF PreemptInv, StartDemo, TypeOK, At, Rsp, KernelAt, TaskAt
<1>4. /\ pos'[None] \in {"before", "wait"} /\ pos'[0] = "entry" /\ pos'[1] = "entry"
      /\ cpu' = At(None, pos'[None])
  BY DEF StartDemo, At
<1>5. ResumesExactly'
  BY <1>1, <1>4 DEF PreemptInv, StartDemo, TypeOK, ResumesExactly
<1>6. Phases' /\ Locking'
  BY <1>1, <1>2, <1>4 DEF StartDemo, Phases, Locking, KernelAt, TaskAt
<1>7. PsProgress'
  BY <1>1, <1>2, <1>4, PsLengthAssumption, PriosAssumption
     DEF StartDemo, PsProgress, Enough, Work0, Work1
<1>8. Shares' /\ Table'
  BY <1>1, <1>4 DEF StartDemo, Shares, Table, PcbsShow
<1> QED BY <1>3, <1>5, <1>6, <1>7, <1>8 DEF PreemptInv

(***************************************************************************)
(* A step of the kernel that leaves the demo alone: its position moves on  *)
(* among those of a demo that is set up, or from the wait to the cleanup.  *)
(***************************************************************************)
LEMMA KernelMoves ==
  ASSUME PreemptInv, NEW from, NEW to, Goto(None, from, to),
         from \notin {"out", "clean0", "clean1"},
         to \in KernelAt \ {"out", "clean1"}, to = "clean0" => ~enabled,
         snap' \in [before : Nat, after : Nat],
         UNCHANGED <<demoVars, pcb, lock, psLeft, counted, stepped>>
  PROVE  PreemptInv'
<1>1. current = None /\ pos[None] = from
  BY DEF PreemptInv, ResumesExactly, At, Goto, TypeOK
<1>2. pos' = [pos EXCEPT ![None] = to] /\ cpu' = At(None, to)
  BY DEF Goto
<1>3. pos \in [Ctxs -> KernelAt \cup TaskAt]
  BY DEF PreemptInv, TypeOK
<1>4. pos'[None] = to /\ pos'[0] = pos[0] /\ pos'[1] = pos[1]
  BY <1>2, <1>3
<1>5. TypeOK'
  BY <1>2 DEF PreemptInv, TypeOK, demoVars, At, Rsp
<1>6. ResumesExactly'
  BY <1>1, <1>2, <1>4 DEF PreemptInv, ResumesExactly, demoVars
<1>7. Phases' /\ Locking'
  BY <1>1, <1>4 DEF PreemptInv, Phases, Locking, demoVars
<1>8. PsProgress' /\ Shares'
  BY <1>1, <1>4 DEF PreemptInv, PsProgress, Enough, Work0, Work1, Shares, demoVars
<1>9. Table'
  BY <1>1, <1>4 DEF PreemptInv, Table, PcbsShow, demoVars
<1> QED BY <1>5, <1>6, <1>7, <1>8, <1>9 DEF PreemptInv

LEMMA KernelInv ==
  ASSUME PreemptInv, ReadBefore \/ EnterRing3 \/ ExitRing3 \/ ReadAfter \/ WaitOver
  PROVE  PreemptInv'
<1>1. snap \in [before : Nat, after : Nat] /\ remaining \in Nat
  BY DEF PreemptInv, TypeOK
<1>2. CASE ReadBefore
  BY <1>1, <1>2, KernelMoves DEF ReadBefore, KernelAt
<1>3. CASE EnterRing3
  BY <1>1, <1>3, KernelMoves DEF EnterRing3, KernelAt
<1>4. CASE ExitRing3
  BY <1>1, <1>4, KernelMoves DEF ExitRing3, KernelAt
<1>5. CASE ReadAfter
  BY <1>1, <1>5, KernelMoves DEF ReadAfter, KernelAt
<1>6. CASE WaitOver
  BY <1>1, <1>6, KernelMoves DEF WaitOver, KernelAt
<1> QED BY <1>2, <1>3, <1>4, <1>5, <1>6

LEMMA CleanupInv ==
  ASSUME PreemptInv, NEW i \in Tasks, Cleanup(i)
  PROVE  PreemptInv'
<1> DEFINE from == IF i = 0 THEN "clean0" ELSE "clean1"
           to   == IF i = 0 THEN "clean1" ELSE "out"
<1>1. current = None /\ pos[None] = from
  BY DEF PreemptInv, ResumesExactly, At, Goto, TypeOK, Cleanup
<1>2. /\ pos' = [pos EXCEPT ![None] = to] /\ cpu' = At(None, to)
      /\ pos \in [Ctxs -> KernelAt \cup TaskAt]
  BY DEF Goto, Cleanup, PreemptInv, TypeOK
<1>3. pos'[None] = to /\ pos'[0] = pos[0] /\ pos'[1] = pos[1]
  BY <1>2
<1>4. present[i] /\ ~enabled /\ ~lock
  BY <1>1 DEF PreemptInv, Phases, Cleanup
<1>5. TypeOK'
  BY <1>2 DEF PreemptInv, TypeOK, At, Rsp, KernelAt, Cleanup
<1>6. ResumesExactly'
  BY <1>1, <1>2, <1>3 DEF PreemptInv, ResumesExactly, Cleanup, TypeOK
<1>7. Phases' /\ Locking'
  BY <1>1, <1>3, <1>4 DEF PreemptInv, Phases, Locking, Cleanup, TypeOK, KernelAt
<1>8. PsProgress' /\ Shares'
  BY <1>1, <1>3, <1>4 DEF PreemptInv, PsProgress, Enough, Work0, Work1, Shares, Cleanup
<1>9. Table'
  BY <1>1, <1>3, <1>4 DEF PreemptInv, Table, PcbsShow, Cleanup, TypeOK
<1> QED BY <1>5, <1>6, <1>7, <1>8, <1>9 DEF PreemptInv

LEMMA PrioIsNat == TypeOK => prio[0] \in Nat /\ prio[1] \in Nat
<1>1. Prios \cup {0} \subseteq Nat
  BY PriosAssumption
<1> QED BY <1>1 DEF TypeOK

(* A task runs only inside a demo, and then the kernel waits. *)
LEMMA TaskRuns ==
  ASSUME PreemptInv, NEW i \in Tasks, NEW from, NEW to, Goto(i, from, to)
  PROVE  /\ current = i /\ pos[i] = from /\ enabled /\ remaining \in Nat \ {0}
         /\ pos[None] \notin {"out", "clean0", "clean1"}
         /\ present[0] /\ present[1] /\ ~(prio[1 - i] < prio[i])
         /\ pos' = [pos EXCEPT ![i] = to] /\ cpu' = At(i, to)
<1>1. cpu = At(i, from) /\ cpu = At(current, pos[current])
  BY DEF PreemptInv, ResumesExactly, Goto
<1>2. current = i /\ pos[i] = from
  BY <1>1 DEF At
<1>3. enabled
  BY <1>2 DEF PreemptInv, Phases
<1> QED BY <1>2, <1>3 DEF PreemptInv, Phases, Shares, TypeOK, Goto

LEMMA WorkIsNat ==
  /\ TypeOK => Work0 \in Nat /\ Work1 \in Nat
  /\ TypeOK' => Work0' \in Nat /\ Work1' \in Nat
BY PsLengthAssumption DEF TypeOK, Work0, Work1

(* Less work after a step of task i is still in reach. *)
LEMMA EnoughKept ==
  ASSUME TypeOK, NEW i \in Tasks, NEW j \in Tasks, NEW work \in Nat, NEW rest \in Nat,
         Enough(j, work), rest <= work, i = j => rest = 0 \/ rest < work,
         current = i, enabled, remaining # 0, stepped' = TRUE,
         UNCHANGED <<enabled, current, remaining>>
  PROVE  Enough(j, rest)'
<1>1. remaining \in Nat
  BY DEF TypeOK
<1>2. CASE i = j
  BY <1>1, <1>2 DEF Enough
<1>3. CASE i # j
  BY <1>1, <1>3 DEF Enough
<1> QED BY <1>2, <1>3

(***************************************************************************)
(* A step of a task: it comes nearer to having counted, and SCHEDULER is   *)
(* held afterwards exactly if task 0 is printing.                          *)
(***************************************************************************)
LEMMA TaskMoves ==
  ASSUME PreemptInv, NEW i \in Tasks, NEW from, NEW to \in TaskAt \ {"none"}, Goto(i, from, to),
         i = 1 => to = "loop", stepped' = TRUE, UNCHANGED <<demoVars, pcb, snap>>,
         lock' \in BOOLEAN, lock' <=> pos'[0] = "print",
         psLeft' \in 0 .. PsLength, counted' \in [Tasks -> BOOLEAN],
         counted'[1 - i] = counted[1 - i],
         Work0' <= Work0, i = 0 => Work0' = 0 \/ Work0' < Work0,
         Work1' <= Work1, i = 1 => Work1' = 0 \/ Work1' < Work1
  PROVE  PreemptInv'
<1>1. /\ current = i /\ pos[i] = from /\ enabled /\ remaining \in Nat \ {0}
      /\ pos[None] \notin {"out", "clean0", "clean1"}
      /\ present[0] /\ present[1] /\ ~(prio[1 - i] < prio[i])
      /\ pos' = [pos EXCEPT ![i] = to] /\ cpu' = At(i, to)
  BY TaskRuns
<1>2. /\ pos \in [Ctxs -> KernelAt \cup TaskAt] /\ counted \in [Tasks -> BOOLEAN]
      /\ psLeft \in Nat /\ psLeft' \in Nat /\ PsLength \in Nat
      /\ prio[0] \in Nat /\ prio[1] \in Nat
  <2>1. psLeft \in 0 .. PsLength /\ PsLength \in Nat
    BY PsLengthAssumption DEF PreemptInv, TypeOK
  <2>2. prio[0] \in Nat /\ prio[1] \in Nat
    BY PrioIsNat DEF PreemptInv
  <2> QED BY <2>1, <2>2 DEF PreemptInv, TypeOK
<1>3. pos'[i] = to /\ \A c \in Ctxs \ {i} : pos'[c] = pos[c]
  BY <1>1, <1>2
<1>4. TypeOK'
  <2>1. At(i, to) \in Rsp
    BY DEF At, Rsp
  <2> QED BY <1>1, <2>1 DEF PreemptInv, TypeOK, demoVars
<1>5. ResumesExactly'
  BY <1>1, <1>3 DEF PreemptInv, ResumesExactly, demoVars
<1>6. Phases' /\ Locking'
  BY <1>1, <1>3 DEF PreemptInv, Phases, Locking, demoVars
<1>7. PsProgress'
  <2>1. /\ Work0 \in Nat /\ Work1 \in Nat /\ Work0' \in Nat /\ Work1' \in Nat /\ TypeOK
        /\ UNCHANGED <<enabled, current, remaining, prio>>
    BY <1>4, WorkIsNat DEF PreemptInv, demoVars
  <2>2. prio[0] <= prio[1] => Enough(0, Work0)'
    <3>1. prio[0] <= prio[1] => Enough(0, Work0)
      BY <1>1 DEF PreemptInv, PsProgress
    <3> QED BY <1>1, <2>1, <3>1, EnoughKept
  <2>3. prio[0] = prio[1] => Enough(1, Work1)'
    <3>1. prio[0] = prio[1] => Enough(1, Work1)
      BY <1>1 DEF PreemptInv, PsProgress
    <3> QED BY <1>1, <2>1, <3>1, EnoughKept
  <2>4. prio[0] > prio[1] => pos'[0] = "entry"
    BY <1>1, <1>2, <1>3 DEF PreemptInv, PsProgress
  <2> QED BY <2>2, <2>3, <2>4 DEF PsProgress, demoVars
<1>8. Shares'
  BY <1>1, <1>2 DEF PreemptInv, Shares, demoVars
<1>9. Table'
  BY <1>1, <1>3 DEF PreemptInv, Table, Locking, PcbsShow, demoVars
<1> QED BY <1>4, <1>5, <1>6, <1>7, <1>8, <1>9 DEF PreemptInv

LEMMA TaskInv ==
  ASSUME PreemptInv, \/ \E i \in Tasks : TaskEntry(i) \/ Count(i)
               \/ PsLock \/ PsPrint
  PROVE  PreemptInv'
<1>1. /\ psLeft \in 0 .. PsLength /\ PsLength \in Nat /\ lock \in BOOLEAN
      /\ counted \in [Tasks -> BOOLEAN] /\ pos \in [Ctxs -> KernelAt \cup TaskAt]
      /\ (lock <=> pos[0] = "print")
  BY PsLengthAssumption DEF PreemptInv, TypeOK, Locking
<1>2. {"entry", "ps", "print", "loop"} \subseteq TaskAt \ {"none"}
  BY DEF TaskAt
<1>3. CASE TaskEntry(0)
  <2>1. /\ Goto(0, "entry", "ps") /\ stepped' = TRUE
        /\ UNCHANGED <<demoVars, pcb, lock, psLeft, snap, counted>>
    BY <1>3 DEF TaskEntry
  <2>2. pos[0] = "entry" /\ pos' = [pos EXCEPT ![0] = "ps"]
    BY <2>1, TaskRuns
  <2>3. Work0' < Work0 /\ Work0' <= Work0 /\ Work1' <= Work1
    BY <1>1, <2>1, <2>2 DEF Work0, Work1
  <2>4. lock' <=> pos'[0] = "print"
    BY <1>1, <2>1, <2>2
  <2> QED BY <1>1, <1>2, <2>1, <2>3, <2>4, TaskMoves
<1>7. CASE TaskEntry(1)
  <2>1. /\ Goto(1, "entry", "loop") /\ stepped' = TRUE
        /\ UNCHANGED <<demoVars, pcb, lock, psLeft, snap, counted>>
    BY <1>7 DEF TaskEntry
  <2>2. pos[1] = "entry" /\ pos' = [pos EXCEPT ![1] = "loop"]
    BY <2>1, TaskRuns
  <2>3. Work1' < Work1 /\ Work1' <= Work1 /\ Work0' <= Work0
    BY <1>1, <2>1, <2>2 DEF Work0, Work1
  <2>4. lock' <=> pos'[0] = "print"
    BY <1>1, <2>1, <2>2
  <2> QED BY <1>1, <1>2, <2>1, <2>3, <2>4, TaskMoves
<1>4. ASSUME NEW i \in Tasks, Count(i) PROVE PreemptInv'
  <2>1. /\ Goto(i, "loop", "loop") /\ stepped' = TRUE /\ counted' = [counted EXCEPT ![i] = TRUE]
        /\ UNCHANGED <<demoVars, pcb, lock, psLeft, snap>>
    BY <1>4 DEF Count
  <2>2. pos[i] = "loop" /\ pos' = [pos EXCEPT ![i] = "loop"]
    BY <2>1, TaskRuns
  <2>3. /\ Work0' <= Work0 /\ (i = 0 => Work0' = 0)
        /\ Work1' <= Work1 /\ (i = 1 => Work1' = 0)
    BY <1>1, <2>1, <2>2 DEF Work0, Work1
  <2>4. lock' <=> pos'[0] = "print"
    BY <1>1, <2>1, <2>2
  <2>5. counted' \in [Tasks -> BOOLEAN] /\ counted'[1 - i] = counted[1 - i]
    <3>1. 1 - i \in Tasks /\ 1 - i # i
      OBVIOUS
    <3> HIDE DEF Tasks
    <3>2. counted'[1 - i] = counted[1 - i]
      BY <1>1, <2>1, <3>1
    <3>3. counted' \in [Tasks -> BOOLEAN]
      BY <1>1, <2>1, Zenon
    <3> QED BY <3>2, <3>3
  <2> QED BY <1>1, <1>2, <2>1, <2>3, <2>4, <2>5, TaskMoves
<1>5. CASE PsLock
  <2>1. /\ Goto(0, "ps", "print") /\ stepped' = TRUE /\ lock' = TRUE /\ psLeft' = PsLength
        /\ UNCHANGED <<demoVars, pcb, snap, counted>>
    BY <1>5 DEF PsLock
  <2>2. pos[0] = "ps" /\ pos' = [pos EXCEPT ![0] = "print"]
    BY <2>1, TaskRuns
  <2>3. Work0' < Work0 /\ Work0' <= Work0 /\ Work1' <= Work1
    BY <1>1, <2>1, <2>2 DEF Work0, Work1
  <2>4. lock' <=> pos'[0] = "print"
    BY <1>1, <2>1, <2>2
  <2> QED BY <1>1, <1>2, <2>1, <2>3, <2>4, TaskMoves
<1>6. CASE PsPrint
  <2> DEFINE to == IF psLeft = 0 THEN "loop" ELSE "print"
  <2>1. /\ Goto(0, "print", to) /\ stepped' = TRUE /\ lock' = (psLeft # 0)
        /\ psLeft' = IF psLeft = 0 THEN 0 ELSE psLeft - 1
        /\ UNCHANGED <<demoVars, pcb, snap, counted>>
    BY <1>6 DEF PsPrint
  <2>2. pos[0] = "print" /\ pos' = [pos EXCEPT ![0] = to]
    BY <2>1, TaskRuns
  <2>3. Work0' < Work0 /\ Work0' <= Work0 /\ Work1' <= Work1
    BY <1>1, <2>1, <2>2 DEF Work0, Work1
  <2>4. lock' <=> pos'[0] = "print"
    BY <1>1, <2>1, <2>2
  <2> QED BY <1>1, <1>2, <2>1, <2>3, <2>4, TaskMoves
<1> QED BY <1>3, <1>4, <1>5, <1>6, <1>7

(* Which task a tick gives the CPU to when both are present. *)
Chosen == IF prio[0] < prio[1] THEN 0 ELSE IF prio[1] < prio[0] THEN 1
          ELSE IF current = 0 THEN 1 ELSE 0

LEMMA ChoiceIs ==
  ASSUME TypeOK, present[0], present[1]
  PROVE  Choose(current) = Chosen
<1>1. prio[0] \in Nat /\ prio[1] \in Nat /\ current \in Ctxs
  BY PrioIsNat DEF TypeOK
<1>2. (0 \in TopTier <=> prio[0] <= prio[1]) /\ (1 \in TopTier <=> prio[1] <= prio[0])
  BY <1>1 DEF TopTier
<1> QED BY <1>1, <1>2 DEF Choose, Chosen

LEMMA TickInv ==
  ASSUME PreemptInv, Tick
  PROVE  PreemptInv'
<1> DEFINE next == IF remaining = 1 THEN None ELSE Chosen
<1>1. /\ enabled /\ cpu.at # "ring3" /\ cpu.at # "entry" /\ (cpu.ctx \in Tasks => stepped)
      /\ PreemptTick /\ stepped' = FALSE
      /\ UNCHANGED <<present, prio, lock, psLeft, snap, counted, pos>>
  BY DEF Tick, TickIgnored, Interruptible
<1>2. /\ TypeOK /\ remaining \in Nat \ {0} /\ current \in Ctxs /\ present[0] /\ present[1]
      /\ pos[None] \notin {"out", "clean0", "clean1"}
      /\ prio[0] \in Nat /\ prio[1] \in Nat
  BY <1>1, PrioIsNat DEF PreemptInv, Phases, TypeOK
<1>3. cpu = At(current, pos[current]) /\ (current \in Tasks => stepped) /\ pos[None] # "ring3"
  BY <1>1, <1>2 DEF PreemptInv, ResumesExactly, At
<1>4. /\ Left = remaining - 1 /\ (Left = 0 <=> remaining = 1)
      /\ next = IF Left = 0 THEN None ELSE Choose(current)
  BY <1>2, ChoiceIs DEF Left
<1>5. next \in Ctxs /\ Chosen \in Tasks
  BY DEF Chosen
<1>6. /\ remaining' = remaining - 1
      /\ enabled' = (remaining # 1)
      /\ ran' = [i \in Tasks |-> ran[i] \/ i = next]
      /\ lead' = IF prio[0] # prio[1] \/ next = None THEN lead
                 ELSE IF next = 0 THEN lead + 1 ELSE lead - 1
      /\ \/ /\ next = current
            /\ UNCHANGED <<saved, cpu, current, pcb>>
         \/ /\ next # current
            /\ pcb' = SyncPcbs(current, next)
            /\ SwitchTo(current, next)
      /\ stale' = IF PcbsShow(pcb', next) THEN 0 ELSE stale + 1
  <2> HIDE DEF next
  <2> QED BY <1>1, <1>4, <1>2 DEF PreemptTick
<1> HIDE DEF next
<1>7. /\ current' = next /\ (enabled' <=> remaining # 1)
      /\ remaining = 1 => next = None
      /\ remaining # 1 => next = Chosen /\ next \in Tasks
  BY <1>5, <1>6 DEF SwitchTo, next
<1>8. /\ cpu' = At(next, pos[next])
      /\ \A c \in Ctxs \ {next} : saved'[c] = At(c, pos[c])
  <2>1. \A c \in Ctxs \ {current} : saved[c] = At(c, pos[c])
    BY <1>2 DEF PreemptInv, ResumesExactly
  <2>2. saved \in [Ctxs -> Rsp]
    BY <1>2 DEF TypeOK
  <2> QED BY <1>2, <1>3, <1>5, <1>6, <2>1, <2>2 DEF SwitchTo
<1>9. TypeOK'
  <2>1. pcb' \in [Tasks -> {"none", "Ready", "Running", "Terminated"}]
    BY <1>2, <1>6 DEF SyncPcbs, TypeOK
  <2>2. saved' \in [Ctxs -> Rsp] /\ cpu' \in Rsp
    BY <1>2, <1>5, <1>6 DEF SwitchTo, TypeOK
  <2>3. ran' \in [Tasks -> BOOLEAN]
    BY <1>2, <1>6 DEF TypeOK
  <2>4. remaining' \in Nat /\ lead' \in Int /\ stale' \in Nat
    BY <1>2, <1>6 DEF TypeOK
  <2>5. enabled' \in BOOLEAN /\ stepped' \in BOOLEAN
    BY <1>1, <1>6
  <2> QED BY <1>1, <1>2, <1>5, <1>7, <2>1, <2>2, <2>3, <2>4, <2>5 DEF TypeOK
<1>10. ResumesExactly'
  BY <1>1, <1>3, <1>7, <1>8 DEF ResumesExactly
<1>11. Phases'
  BY <1>1, <1>2, <1>6, <1>7 DEF PreemptInv, Phases, next
<1>12. Locking'
  BY <1>1, <1>2, <1>5, <1>6, <1>7 DEF PreemptInv, Locking, next
<1>13. PsProgress'
  <2>1. Work0' = Work0 /\ Work1' = Work1 /\ Work0 \in Nat /\ Work1 \in Nat
    BY <1>1, <1>2, WorkIsNat DEF Work0, Work1
  <2>2. prio[0] <= prio[1] => Enough(0, Work0)'
    <3>1. prio[0] <= prio[1] => Enough(0, Work0)
      BY <1>2 DEF PreemptInv, PsProgress
    <3> QED BY <1>1, <1>2, <1>3, <1>6, <1>7, <2>1, <3>1 DEF Enough, next, Chosen
  <2>3. prio[0] = prio[1] => Enough(1, Work1)'
    <3>1. prio[0] = prio[1] => Enough(1, Work1)
      BY <1>2 DEF PreemptInv, PsProgress
    <3>2. current = None => Work1 = 2 /\ remaining >= 8
      BY <1>1, <1>2, PsLengthAssumption DEF PreemptInv, Locking, Work1
    <3> QED BY <1>1, <1>2, <1>3, <1>6, <1>7, <2>1, <3>1, <3>2 DEF Enough, next, Chosen
  <2> QED BY <1>1, <1>2, <2>2, <2>3 DEF PreemptInv, PsProgress
<1>14. Shares'
  BY <1>1, <1>2, <1>6, <1>7 DEF PreemptInv, Shares, next, Chosen, TypeOK
<1>15. Table'
  BY <1>1, <1>2, <1>6, <1>7, <1>12, <1>13 DEF PreemptInv, Table, PcbsShow, SyncPcbs, next, Chosen, TypeOK, Locking, PsProgress, Enough, Work0
<1> QED BY <1>9, <1>10, <1>11, <1>12, <1>13, <1>14, <1>15 DEF PreemptInv

LEMMA PreemptNext == PreemptInv /\ [Next]_vars => PreemptInv'
<1> SUFFICES ASSUME PreemptInv, [Next]_vars PROVE PreemptInv'
  OBVIOUS
<1>1. ASSUME NEW b \in Budgets, NEW p \in [Tasks -> Prios], NEW r \in BOOLEAN, StartDemo(b, p, r)
      PROVE  PreemptInv'
  BY <1>1, StartDemoInv
<1>2. CASE ReadBefore \/ EnterRing3 \/ ExitRing3 \/ ReadAfter \/ WaitOver
  BY <1>2, KernelInv
<1>3. ASSUME NEW i \in Tasks, Cleanup(i) PROVE PreemptInv'
  BY <1>3, CleanupInv
<1>4. CASE (\E i \in Tasks : TaskEntry(i) \/ Count(i)) \/ PsLock \/ PsPrint
  BY <1>4, TaskInv
<1>5. CASE Tick
  BY <1>5, TickInv
<1>6. CASE UNCHANGED vars
  BY <1>6 DEF vars, PreemptInv, TypeOK, ResumesExactly, Phases, Locking, PsProgress, Enough,
              Work0, Work1, Shares, Table, PcbsShow
<1> QED
  <2> HIDE DEF Tasks
  <2> QED BY <1>1, <1>2, <1>3, <1>4, <1>5, <1>6 DEF Next

(***************************************************************************)
(* The inductive invariant of start_demo, tick, the task bodies and        *)
(* wait_for_demo_and_cleanup.                                              *)
(***************************************************************************)
THEOREM PreemptInvariance == Spec => []PreemptInv
BY PreemptInit, PreemptNext, PTL DEF Spec

(* The statics of preemptive.rs and the contexts keep their types. *)
THEOREM PreemptTypeCorrect == Spec => []TypeOK
<1>1. PreemptInv => TypeOK
  BY DEF PreemptInv
<1> QED BY <1>1, PreemptInvariance, PTL

(***************************************************************************)
(* switch_to resumes every context exactly where it was interrupted, and   *)
(* tick never switches away from ring-3 code.                              *)
(***************************************************************************)
THEOREM ExactResumption == Spec => []ResumesExactly
<1>1. PreemptInv => ResumesExactly
  BY DEF PreemptInv
<1> QED BY <1>1, PreemptInvariance, PTL

(* Equals share the budget to within one slice; a lower priority gets none. *)
THEOREM FairShares == Spec => []SharesFollowPriority
<1>1. PreemptInv => SharesFollowPriority
  BY DEF PreemptInv, Shares, SharesFollowPriority
<1> QED BY <1>1, PreemptInvariance, PTL

(***************************************************************************)
(* However often try_lock fails in a row, the table `ps` prints is at most *)
(* one tick behind: while SCHEDULER is held it shows task 0, and every     *)
(* other tick gives the CPU to task 0.                                     *)
(***************************************************************************)
THEOREM TableFresh == Spec => []StaleAtMostOneTick
<1>1. PreemptInv => StaleAtMostOneTick
  BY DEF PreemptInv, Table, StaleAtMostOneTick
<1> QED BY <1>1, PreemptInvariance, PTL

(***************************************************************************)
(* When the budget has run out no task holds SCHEDULER, equals have both   *)
(* counted, and after the cleanup no abandoned task is shown as alive: for *)
(* every budget in which `ps` fits.                                        *)
(***************************************************************************)
THEOREM ReclaimSafe == Spec => []SafeToReclaim
<1>1. PreemptInv => SafeToReclaim
  <2> SUFFICES ASSUME PreemptInv PROVE SafeToReclaim
    OBVIOUS
  <2>1. /\ cpu = At(current, pos[current]) /\ current \in Ctxs
        /\ prio[0] \in Nat /\ prio[1] \in Nat /\ psLeft \in Nat /\ PsLength \in Nat
    BY PrioIsNat, PsLengthAssumption DEF PreemptInv, ResumesExactly, TypeOK
  <2>2. ASSUME cpu.ctx = None, cpu.at \in {"clean0", "clean1"}
        PROVE  ~lock /\ (prio[0] = prio[1] => counted[0] /\ counted[1])
    <3>1. pos[None] \in {"clean0", "clean1"} /\ ~enabled
      BY <2>1, <2>2 DEF At, PreemptInv, Phases
    <3> QED BY <2>1, <3>1 DEF PreemptInv, Locking, PsProgress, Enough, Work0, Work1
  <2>3. ASSUME cpu.at = "out"
        PROVE  \A i \in Tasks : ~present[i] /\ pcb[i] \in {"none", "Terminated"}
    <3>1. pos[None] = "out"
      BY <2>1, <2>3 DEF At, PreemptInv, Phases, TaskAt
    <3> QED BY <3>1 DEF PreemptInv, Phases, Table
  <2> QED BY <2>2, <2>3 DEF SafeToReclaim
<1> QED BY <1>1, PreemptInvariance, PTL

(***************************************************************************)
(* Between the two readings of the budget the kernel has the CPU only with *)
(* the budget as it was read or, once a tick took the CPU away, used up.   *)
(***************************************************************************)
Readings ==
  /\ pos[None] \in {"entering", "ring3", "after"} /\ current = None => remaining \in {snap.before, 0}
  /\ BudgetAllOrNothing

(* A tick that leaves the kernel on the CPU is the last of the budget. *)
LEMMA TickReadings ==
  ASSUME PreemptInv, Readings, Tick
  PROVE  Readings'
<1>1. PreemptTick /\ enabled /\ UNCHANGED <<snap, pos>>
  BY DEF Tick, TickIgnored
<1>2. /\ TypeOK /\ remaining \in Nat /\ current \in Ctxs /\ present[0] /\ present[1]
      /\ prio[0] \in Nat /\ prio[1] \in Nat
  BY <1>1, PrioIsNat DEF PreemptInv, Phases, TypeOK
<1>3. Choose(current) \in Tasks
  BY <1>2, ChoiceIs DEF Chosen
<1>4. remaining' = Left /\ (current' = None => Left = 0)
  BY <1>1, <1>2, <1>3 DEF PreemptTick, SwitchTo
<1> QED BY <1>1, <1>4 DEF Readings, BudgetAllOrNothing

(* A step of the kernel between start_demo and cleanup. *)
LEMMA KernelReadings ==
  ASSUME PreemptInv, Readings, ReadBefore \/ EnterRing3 \/ ExitRing3 \/ ReadAfter \/ WaitOver
  PROVE  Readings'
<1>1. /\ cpu = At(current, pos[current]) /\ current \in Ctxs
      /\ pos \in [Ctxs -> KernelAt \cup TaskAt] /\ snap \in [before : Nat, after : Nat]
  BY DEF PreemptInv, ResumesExactly, TypeOK
<1>2. ASSUME NEW from, NEW to, Goto(None, from, to)
      PROVE  current = None /\ pos[None] = from /\ pos'[None] = to
  BY <1>1, <1>2 DEF Goto, At
<1>3. UNCHANGED <<remaining, current>>
  BY DEF ReadBefore, EnterRing3, ExitRing3, ReadAfter, WaitOver, demoVars
<1>4. CASE ReadBefore
  <2>1. pos'[None] = "entering" /\ snap'.before = remaining
    BY <1>1, <1>2, <1>4 DEF ReadBefore
  <2> QED BY <1>3, <2>1 DEF Readings, BudgetAllOrNothing
<1>5. CASE EnterRing3 \/ ExitRing3
  <2>1. /\ pos[None] \in {"entering", "ring3"} /\ current = None
        /\ pos'[None] \in {"ring3", "after"} /\ UNCHANGED snap
    BY <1>2, <1>5 DEF EnterRing3, ExitRing3
  <2> QED BY <1>3, <2>1 DEF Readings, BudgetAllOrNothing
<1>6. CASE ReadAfter
  <2>1. /\ pos[None] = "after" /\ current = None /\ pos'[None] = "wait"
        /\ snap'.after = remaining /\ snap'.before = snap.before
    BY <1>1, <1>2, <1>6 DEF ReadAfter
  <2> QED BY <1>3, <2>1 DEF Readings, BudgetAllOrNothing
<1>7. CASE WaitOver
  <2>1. pos[None] = "wait" /\ pos'[None] = "clean0" /\ UNCHANGED snap
    BY <1>2, <1>7 DEF WaitOver
  <2> QED BY <2>1 DEF Readings, BudgetAllOrNothing
<1> QED BY <1>4, <1>5, <1>6, <1>7

LEMMA ReadingsNext == PreemptInv /\ Readings /\ [Next]_vars => Readings'
<1> SUFFICES ASSUME PreemptInv, Readings, [Next]_vars PROVE Readings'
  OBVIOUS
<1>0. /\ cpu = At(current, pos[current]) /\ current \in Ctxs /\ pos \in [Ctxs -> KernelAt \cup TaskAt]
  BY DEF PreemptInv, ResumesExactly, TypeOK
<1>1. ASSUME NEW b \in Budgets, NEW p \in [Tasks -> Prios], NEW r \in BOOLEAN, StartDemo(b, p, r)
      PROVE  Readings'
  <2>1. pos'[None] \in {"before", "wait"} /\ snap' = [before |-> 0, after |-> 0]
    BY <1>1 DEF StartDemo, At
  <2> QED BY <2>1 DEF Readings, BudgetAllOrNothing
<1>2. CASE ReadBefore \/ EnterRing3 \/ ExitRing3 \/ ReadAfter \/ WaitOver
  BY <1>2, KernelReadings
<1>3. ASSUME NEW i \in Tasks, Cleanup(i) PROVE Readings'
  <2>1. /\ pos[None] \in {"clean0", "clean1"} /\ pos'[None] \in {"clean1", "out"}
        /\ UNCHANGED snap
    BY <1>0, <1>3 DEF Cleanup, Goto, At
  <2> QED BY <2>1 DEF Readings, BudgetAllOrNothing
<1>4. CASE (\E i \in Tasks : TaskEntry(i) \/ Count(i)) \/ PsLock \/ PsPrint
  <2>1. UNCHANGED <<remaining, current, snap>> /\ \E i \in Tasks : \E from, to : Goto(i, from, to)
    BY <1>4 DEF TaskEntry, Count, PsLock, PsPrint, demoVars
  <2>2. pos'[None] = pos[None]
    BY <1>0, <2>1 DEF Goto
  <2> QED BY <2>1, <2>2 DEF Readings, BudgetAllOrNothing
<1>5. CASE Tick
  BY <1>5, TickReadings
<1>6. CASE UNCHANGED vars
  BY <1>6 DEF vars, Readings, BudgetAllOrNothing
<1> QED
  <2> HIDE DEF Tasks
  <2> QED BY <1>1, <1>2, <1>3, <1>4, <1>5, <1>6 DEF Next

(***************************************************************************)
(* Ticks in ring 3 cost the demo nothing, for every budget and priority:   *)
(* the readings of run_concurrent_ring3_preemption_test are equal unless   *)
(* the whole demo has run between them.                                    *)
(***************************************************************************)
THEOREM BudgetKept == Spec => []BudgetAllOrNothing
<1>1. Init => Readings
  BY DEF Init, Readings, BudgetAllOrNothing
<1>2. Readings => BudgetAllOrNothing
  BY DEF Readings
<1> QED BY <1>1, <1>2, ReadingsNext, PreemptInvariance, PTL DEF Spec

=============================================================================
