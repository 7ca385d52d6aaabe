---------------------------- MODULE Ring3MtProofs ----------------------------
(***************************************************************************)
(* Proofs about Ring3Mt for any number of task slots, any priorities and   *)
(* programs of any length.  IInv is inductive; each safety property        *)
(* follows from it.                                                        *)
(***************************************************************************)
EXTENDS Ring3Mt, TierSelectProofs

USE DEF Slots, Addr, Frame, FullBuf

LEMMA GarbageType == Garbage \in Ctx
BY WorkBoundAssumption DEF Garbage, Ctx

LEMMA FreshType == \A i \in Slots : Fresh(i) \in Ctx
BY WorkBoundAssumption DEF Fresh, Ctx

(* The slot select_next returns lies before every other eligible slot on   *)
(* the walk.                                                               *)
LEMMA WalkCloser ==
  ASSUME NEW ACTION d, active \in Nat, current \in 0 .. active - 1,
         NEW ACTION n, n \in SelectNext(active, current, prio, d),
         NEW CONSTANT i \in Eligible(active, prio, d), i # n
  PROVE  Dist(n, i) < Dist(current, i)
<1>1. n \in 0 .. active - 1 /\ i \in 0 .. active - 1
  BY DEF SelectNext, Eligible
<1>2. PICK k \in 1 .. active :
        /\ n = After(active, current, k)
        /\ \A j \in 1 .. k - 1 :
             After(active, current, j) \notin Eligible(active, prio, d)
  BY DEF SelectNext
<1>3. /\ Dist(current, i) \in 1 .. active
      /\ After(active, current, Dist(current, i)) = i
  BY <1>1 DEF Dist, After
<1>4. k <= Dist(current, i)
  BY <1>2, <1>3
<1>5. k # Dist(current, i)
  BY <1>2, <1>3
<1> QED
  BY <1>1, <1>2, <1>4, <1>5 DEF Dist, After

(***************************************************************************)
(* Saving the interrupted context and resuming the chosen one keeps every  *)
(* task's progress, wherever the interrupted context was handed over.      *)
(***************************************************************************)
LEMMA SwitchStep ==
  ASSUME IInv, mode = "ring3", enabled,
         NEW STATE m, m \in [Addr -> Ctx], NEW CONSTANT ptr \in {Frame, FullBuf},
         m[ptr] = cpu, \A i \in Slots : m[i] = mem[i],
         NEW ACTION d, d \in [Slots -> BOOLEAN], ~d[0],
         SaveAndSwitch(m, ptr, d)
  PROVE  /\ mode' = "ring3"
         /\ current' \in Eligible(active, prio, d)
         /\ mem' \in [Addr -> Ctx]
         /\ cpu' = [task |-> current', work |-> work[current']]
         /\ \A i \in 0 .. active - 1 : mem'[i] = [task |-> i, work |-> work[i]]
         /\ bypass' \in [Slots -> Nat]
         /\ \A i \in 0 .. active - 1 : bypass'[i] + Dist(current', i) <= active
<1> DEFINE saved == SaveContext(m, ptr)
           next  == SelectNext(active, current, prio, d)
<1>a. active \in 1 .. MaxTasks /\ current \in 0 .. active - 1 /\ MaxTasks \in Nat
  BY MaxTasksAssumption DEF IInv, SessionShape
<1>b. cpu \in Ctx /\ bypass \in [Slots -> Nat]
  BY DEF IInv, TypeOK
<1>c. (\A i \in Slots : prio[i] \in Nat)
  <2>1. prio \in [Slots -> Priorities \cup {0}]
    BY DEF IInv, TypeOK
  <2>2. Priorities \cup {0} \subseteq Nat
    BY PrioritiesAssumption
  <2> QED BY <2>1, <2>2
<1>0. /\ active \in 1 .. MaxTasks /\ current \in 0 .. active - 1 /\ MaxTasks \in Nat
      /\ cpu \in Ctx /\ bypass \in [Slots -> Nat]
      /\ (\A i \in Slots : prio[i] \in Nat)
  BY <1>a, <1>b, <1>c
<1>1. next # {}
  <2>1. /\ active \in Nat /\ current \in 0 .. active - 1
        /\ 0 \in 0 .. active - 1 /\ ~d[0]
        /\ \A i \in 0 .. active - 1 : prio[i] \in Nat
    BY <1>0
  <2> QED BY <2>1, SelectNextExists, Zenon
<1>2. PICK n \in next :
        /\ current' = n
        /\ Resume(saved, n)
        /\ CountBypass(n, d)
        /\ mode' = mode
  BY <1>1 DEF SaveAndSwitch
<1>3. n \in Eligible(active, prio, d) /\ n \in 0 .. active - 1
  BY DEF SelectNext, Eligible
<1>4. saved \in [Addr -> Ctx]
  BY <1>0, GarbageType DEF SaveContext
<1>5. \A i \in 0 .. active - 1 : saved[i] = [task |-> i, work |-> work[i]]
  <2>0. current \in Addr /\ ptr \in Addr /\ ptr # current
    BY <1>0
  <2>a. cpu = [task |-> current, work |-> work[current]]
    BY DEF IInv, RunsWhereItStopped
  <2>1. saved[current] = [task |-> current, work |-> work[current]]
    BY <2>0, <2>a DEF SaveContext
  <2>2. \A i \in 0 .. active - 1 : i # current => saved[i] = mem[i]
    <3> SUFFICES ASSUME NEW i \in 0 .. active - 1, i # current
                 PROVE  saved[i] = mem[i]
      OBVIOUS
    <3>1. i \in Slots /\ i # ptr
      BY <1>0
    <3> QED BY <2>0, <3>1 DEF SaveContext
  <2> QED BY <2>1, <2>2 DEF IInv, ParkedIntact
<1>6. mem' = saved /\ cpu' = saved[n]
  BY <1>2 DEF Resume
<1>7. bypass' \in [Slots -> Nat]
  BY <1>0, <1>2 DEF CountBypass
<1>8. \A i \in 0 .. active - 1 : bypass'[i] + Dist(n, i) <= active
  <2> SUFFICES ASSUME NEW i \in 0 .. active - 1
               PROVE  bypass'[i] + Dist(n, i) <= active
    OBVIOUS
  <2>1. CASE i # n /\ i \in Eligible(active, prio, d)
    <3>1. bypass'[i] = bypass[i] + 1
      BY <1>0, <1>2, <2>1 DEF CountBypass
    <3>2. bypass[i] + Dist(current, i) <= active
      BY DEF IInv, WalkClosesIn
    <3>3. Dist(n, i) < Dist(current, i)
      BY <1>0, <2>1, WalkCloser
    <3>4. bypass[i] \in Nat /\ Dist(n, i) \in Int /\ Dist(current, i) \in Int
      BY <1>0, <1>3 DEF Dist
    <3> QED BY <1>0, <3>1, <3>2, <3>3, <3>4
  <2>2. CASE ~(i # n /\ i \in Eligible(active, prio, d))
    <3>1. bypass'[i] = 0
      BY <1>0, <1>2, <2>2 DEF CountBypass
    <3> QED BY <1>0, <1>3, <3>1 DEF Dist
  <2> QED BY <2>1, <2>2
<1> QED
  BY <1>2, <1>3, <1>4, <1>5, <1>6, <1>7, <1>8

-----------------------------------------------------------------------------
LEMMA InitIInv == Init => IInv
<1> SUFFICES ASSUME Init PROVE IInv
  OBVIOUS
<1>1. TypeOK
  <2>0. MaxTasks \in Nat \ {0} /\ WorkBound \in Nat
    BY MaxTasksAssumption, WorkBoundAssumption
  <2>1. /\ enabled \in BOOLEAN /\ fullEnabled \in BOOLEAN /\ fullHit \in BOOLEAN
        /\ switched \in BOOLEAN /\ done \in [Slots -> BOOLEAN]
    BY DEF Init
  <2>2. active \in 0 .. MaxTasks /\ current \in Slots
    BY <2>0 DEF Init
  <2>3. mem \in [Addr -> Ctx] /\ cpu \in Ctx
    BY GarbageType DEF Init
  <2>4. /\ mode \in {"ring0", "ring3", "hung"} /\ phase \in {"idle", "armed", "running"}
        /\ ending \in [Slots -> Endings]
    BY DEF Init, Endings
  <2>5. prio \in [Slots -> Priorities \cup {0}]
    BY DEF Init
  <2>6. work \in [Slots -> 0 .. WorkBound]
    BY <2>0 DEF Init
  <2>7. bypass \in [Slots -> Nat]
    BY DEF Init
  <2> QED BY <2>1, <2>2, <2>3, <2>4, <2>5, <2>6, <2>7 DEF TypeOK
<1>2. SessionShape /\ ArmedFresh
  BY MaxTasksAssumption DEF Init, SessionShape, ArmedFresh
<1>3. /\ RunsWhereItStopped /\ InterceptTransparent /\ ParkedIntact
      /\ RetiredNeverRuns /\ TopTierRuns /\ WalkClosesIn
  BY DEF Init, RunsWhereItStopped, InterceptTransparent, ParkedIntact,
         RetiredNeverRuns, TopTierRuns, WalkClosesIn
<1> QED BY <1>1, <1>2, <1>3 DEF IInv

(* Arming: nothing runs yet, so only the shape of the session matters. *)
LEMMA RunMultitaskingIInv ==
  ASSUME IInv, NEW n \in 1 .. MaxTasks, NEW p \in [Slots -> Priorities],
         NEW e \in [Slots -> Endings], RunMultitasking(n, p, e)
  PROVE  IInv'
<1>0. MaxTasks \in Nat \ {0} /\ n \in Nat /\ WorkBound \in Nat
  BY MaxTasksAssumption, WorkBoundAssumption
<1>1. TypeOK'
  <2>1. mem' \in [Addr -> Ctx]
    BY <1>0, GarbageType, FreshType DEF IInv, TypeOK, RunMultitasking, ArmTaskSlots
  <2>2. prio' \in [Slots -> Priorities \cup {0}] /\ done' \in [Slots -> BOOLEAN]
    BY DEF IInv, TypeOK, RunMultitasking, ArmTaskSlots
  <2>3. /\ enabled' \in BOOLEAN /\ fullEnabled' \in BOOLEAN
        /\ fullHit' \in BOOLEAN /\ switched' \in BOOLEAN /\ cpu' \in Ctx
    BY DEF IInv, TypeOK, RunMultitasking, fullVars
  <2>4. /\ active' \in 0 .. MaxTasks /\ current' \in Slots
        /\ mode' \in {"ring0", "ring3", "hung"} /\ phase' \in {"idle", "armed", "running"}
    BY <1>0 DEF IInv, TypeOK, RunMultitasking
  <2>5. ending' \in [Slots -> Endings]
    BY DEF RunMultitasking, Endings
  <2>6. work' \in [Slots -> 0 .. WorkBound]
    BY <1>0 DEF RunMultitasking
  <2>7. bypass' \in [Slots -> Nat]
    BY DEF RunMultitasking
  <2> QED BY <2>1, <2>2, <2>3, <2>4, <2>5, <2>6, <2>7 DEF TypeOK
<1>2. SessionShape'
  <2>1. mode' # "hung" /\ mode' # "ring3" /\ phase' = "armed"
    BY DEF IInv, SessionShape, RunMultitasking
  <2>2. ending'[0] = "exit"
    BY <1>0 DEF RunMultitasking, SafeSession
  <2>3. active' \in 1 .. MaxTasks /\ current' \in 0 .. active' - 1 /\ ~done'[0]
    BY <1>0 DEF RunMultitasking, ArmTaskSlots
  <2> QED BY <2>1, <2>2, <2>3 DEF SessionShape
<1>3. ArmedFresh'
  BY <1>0 DEF ArmedFresh, RunMultitasking, ArmTaskSlots, Fresh
<1>4. mode' # "ring3"
  BY DEF IInv, SessionShape, RunMultitasking
<1>5. /\ RunsWhereItStopped' /\ InterceptTransparent' /\ ParkedIntact'
      /\ RetiredNeverRuns' /\ TopTierRuns' /\ WalkClosesIn'
  BY <1>4 DEF RunsWhereItStopped, InterceptTransparent, ParkedIntact,
              RetiredNeverRuns, TopTierRuns, WalkClosesIn
<1> QED BY <1>1, <1>2, <1>3, <1>5 DEF IInv

LEMMA RunInterceptingIInv ==
  ASSUME IInv, RunIntercepting
  PROVE  IInv'
<1>0. MaxTasks \in Nat \ {0} /\ WorkBound \in Nat
  BY MaxTasksAssumption, WorkBoundAssumption
<1>1. TypeOK'
  <2>1. mem' \in [Addr -> Ctx]
    BY GarbageType DEF IInv, TypeOK, RunIntercepting
  <2>2. work' \in [Slots -> 0 .. WorkBound]
    BY <1>0 DEF RunIntercepting
  <2>3. ending' \in [Slots -> Endings]
    BY DEF RunIntercepting, RunRing3FullPreemptTest, Endings
  <2>4. /\ fullHit' \in BOOLEAN /\ fullEnabled' \in BOOLEAN
        /\ phase' \in {"idle", "armed", "running"}
    BY DEF RunIntercepting
  <2>5. UNCHANGED <<enabled, active, current, prio, done, mode, cpu, switched, bypass>>
    BY DEF RunIntercepting, schedVars
  <2> QED BY <2>1, <2>2, <2>3, <2>4, <2>5 DEF IInv, TypeOK
<1>2. SessionShape'
  BY <1>0 DEF IInv, SessionShape, RunIntercepting, RunRing3FullPreemptTest, schedVars
<1>3. ArmedFresh'
  BY <1>0 DEF IInv, ArmedFresh, SessionShape, RunIntercepting, schedVars
<1>4. mode' # "ring3"
  BY DEF IInv, SessionShape, RunIntercepting
<1>5. /\ RunsWhereItStopped' /\ InterceptTransparent' /\ ParkedIntact'
      /\ RetiredNeverRuns' /\ TopTierRuns' /\ WalkClosesIn'
  BY <1>4 DEF RunsWhereItStopped, InterceptTransparent, ParkedIntact,
              RetiredNeverRuns, TopTierRuns, WalkClosesIn
<1> QED BY <1>1, <1>2, <1>3, <1>5 DEF IInv

LEMMA EnterRing3IInv ==
  ASSUME IInv, EnterRing3
  PROVE  IInv'
<1>0. MaxTasks \in Nat \ {0} /\ WorkBound \in Nat /\ 0 \in Slots
  BY MaxTasksAssumption, WorkBoundAssumption
<1> USE DEF EnterRing3, schedVars, fullVars, histVars
<1>1. TypeOK'
  BY <1>0, FreshType DEF IInv, TypeOK
<1>2. SessionShape' /\ ArmedFresh'
  BY DEF IInv, SessionShape, ArmedFresh
<1>3. RunsWhereItStopped' /\ InterceptTransparent'
  <2>1. enabled => current = 0 /\ work[current] = 0
    BY DEF IInv, ArmedFresh
  <2>2. work[0] = 0
    BY DEF IInv, ArmedFresh
  <2> QED BY <2>1, <2>2 DEF RunsWhereItStopped, InterceptTransparent, Fresh
<1>4. ParkedIntact'
  <2> SUFFICES ASSUME enabled, NEW i \in 0 .. active - 1, i # current
               PROVE  mem[i] = [task |-> i, work |-> work[i]]
    BY DEF ParkedIntact
  <2>1. i \in 1 .. active - 1 /\ work[i] = 0 /\ mem[i] = Fresh(i)
    BY <1>0 DEF IInv, ArmedFresh, TypeOK
  <2> QED BY <2>1 DEF Fresh
<1>5. RetiredNeverRuns' /\ TopTierRuns'
  BY <1>0 DEF IInv, ArmedFresh, RetiredNeverRuns, TopTierRuns, SessionShape
<1>6. WalkClosesIn'
  <2> SUFFICES ASSUME enabled, NEW i \in 0 .. active - 1
               PROVE  bypass[i] + Dist(current, i) <= active
    BY DEF WalkClosesIn, Dist
  <2>1. current = 0 /\ bypass[i] = 0 /\ active \in Nat
    BY <1>0 DEF IInv, ArmedFresh, TypeOK
  <2> QED BY <2>1 DEF Dist
<1> QED BY <1>1, <1>2, <1>3, <1>4, <1>5, <1>6 DEF IInv

LEMMA UserStepIInv ==
  ASSUME IInv, NEW t \in Slots, UserStep(t)
  PROVE  IInv'
<1> USE DEF UserStep, schedVars, fullVars
<1>0. WorkBound \in Nat /\ cpu \in Ctx /\ work \in [Slots -> 0 .. WorkBound]
  BY WorkBoundAssumption DEF IInv, TypeOK
<1>1. cpu' = [task |-> t, work |-> cpu.work + 1] /\ cpu.work + 1 \in 0 .. WorkBound
  BY <1>0 DEF Ctx, Finished
<1>2. cpu.task = t /\ cpu.work = work[t]
  BY DEF IInv, RunsWhereItStopped, InterceptTransparent
<1>3. work'[t] = cpu.work + 1 /\ work' \in [Slots -> 0 .. WorkBound]
  BY <1>0, <1>1, <1>2
<1>4. TypeOK'
  <2>1. cpu' \in Ctx
    BY <1>1 DEF Ctx
  <2> QED BY <1>3, <2>1 DEF IInv, TypeOK
<1>5. SessionShape' /\ ArmedFresh'
  BY DEF IInv, SessionShape, ArmedFresh
<1>6. RunsWhereItStopped' /\ InterceptTransparent'
  <2>1. IF enabled THEN t = current ELSE t = 0
    BY <1>2 DEF IInv, RunsWhereItStopped, InterceptTransparent
  <2> QED BY <2>1, <1>1, <1>3 DEF RunsWhereItStopped, InterceptTransparent
<1>7. ParkedIntact'
  <2> SUFFICES ASSUME enabled, NEW i \in 0 .. active - 1, i # current
               PROVE  mem[i] = [task |-> i, work |-> work'[i]]
    BY DEF ParkedIntact
  <2>1. t = current
    BY <1>2 DEF IInv, RunsWhereItStopped
  <2>2. work'[i] = work[i]
    <3>1. i \in Slots
      BY MaxTasksAssumption DEF IInv, TypeOK
    <3> QED BY <1>0, <2>1, <3>1
  <2> QED BY <2>2 DEF IInv, ParkedIntact
<1>8. RetiredNeverRuns' /\ TopTierRuns' /\ WalkClosesIn'
  BY DEF IInv, RetiredNeverRuns, TopTierRuns, WalkClosesIn, Dist
<1> QED BY <1>4, <1>5, <1>6, <1>7, <1>8 DEF IInv

(* A switch, whatever caused it, re-establishes the invariant. *)
LEMMA SwitchIInv ==
  ASSUME IInv, mode = "ring3", enabled,
         NEW STATE m, m \in [Addr -> Ctx], NEW CONSTANT ptr \in {Frame, FullBuf},
         m[ptr] = cpu, \A i \in Slots : m[i] = mem[i],
         done' \in [Slots -> BOOLEAN], ~done'[0],
         SaveAndSwitch(m, ptr, done'), switched' = TRUE,
         fullEnabled' \in BOOLEAN, fullHit' \in BOOLEAN,
         UNCHANGED <<enabled, active, prio, phase, ending, work>>
  PROVE  IInv'
<1>1. /\ mode' = "ring3"
      /\ current' \in Eligible(active, prio, done')
      /\ mem' \in [Addr -> Ctx]
      /\ cpu' = [task |-> current', work |-> work[current']]
      /\ \A i \in 0 .. active - 1 : mem'[i] = [task |-> i, work |-> work[i]]
      /\ bypass' \in [Slots -> Nat]
      /\ \A i \in 0 .. active - 1 : bypass'[i] + Dist(current', i) <= active
  BY SwitchStep
<1>2. /\ current' \in 0 .. active - 1 /\ ~done'[current']
      /\ \A j \in 0 .. active - 1 : ~done'[j] => prio[current'] <= prio[j]
  BY <1>1 DEF Eligible
<1>3. current' \in Slots /\ active \in 1 .. MaxTasks
  BY <1>2, MaxTasksAssumption DEF IInv, SessionShape
<1>4. TypeOK'
  <2>1. cpu' \in Ctx
    BY <1>1, <1>3 DEF IInv, TypeOK, Ctx
  <2> QED BY <1>1, <1>3, <2>1 DEF IInv, TypeOK
<1>5. SessionShape' /\ ArmedFresh'
  BY <1>1, <1>2 DEF IInv, SessionShape, ArmedFresh
<1>6. RunsWhereItStopped' /\ InterceptTransparent' /\ ParkedIntact'
  BY <1>1 DEF RunsWhereItStopped, InterceptTransparent, ParkedIntact
<1>7. RetiredNeverRuns' /\ TopTierRuns'
  BY <1>2 DEF RetiredNeverRuns, TopTierRuns
<1>8. WalkClosesIn'
  BY <1>1 DEF WalkClosesIn, Dist
<1> QED BY <1>4, <1>5, <1>6, <1>7, <1>8 DEF IInv

LEMMA MtTickIInv ==
  ASSUME IInv, mode = "ring3",
         NEW STATE m, m \in [Addr -> Ctx], NEW CONSTANT ptr \in {Frame, FullBuf},
         m[ptr] = cpu, \A i \in Slots : m[i] = mem[i],
         MtTick(m, ptr),
         fullEnabled' \in BOOLEAN, fullHit' \in BOOLEAN,
         UNCHANGED <<enabled, active, prio, done, phase, ending, work>>
  PROVE  IInv'
<1>1. CASE enabled
  <2>1. SaveAndSwitch(m, ptr, done) /\ switched' = TRUE
    BY <1>1 DEF MtTick
  <2>2. done' \in [Slots -> BOOLEAN] /\ ~done'[0]
    BY <1>1 DEF IInv, TypeOK, SessionShape
  <2> QED BY <1>1, <2>1, <2>2, SwitchIInv
<1>2. CASE ~enabled
  <2>1. mem' = m /\ cpu' = cpu /\ UNCHANGED <<current, mode, bypass, switched>>
    BY <1>2 DEF MtTick, Resume
  <2>2. TypeOK'
    BY <2>1 DEF IInv, TypeOK
  <2>3. SessionShape' /\ ArmedFresh'
    BY <1>2, <2>1 DEF IInv, SessionShape, ArmedFresh
  <2>4. InterceptTransparent'
    BY <2>1 DEF IInv, InterceptTransparent
  <2>5. /\ RunsWhereItStopped' /\ ParkedIntact' /\ RetiredNeverRuns'
        /\ TopTierRuns' /\ WalkClosesIn'
    BY <1>2 DEF RunsWhereItStopped, ParkedIntact, RetiredNeverRuns, TopTierRuns, WalkClosesIn
  <2> QED BY <2>2, <2>3, <2>4, <2>5 DEF IInv
<1> QED BY <1>1, <1>2 DEF IInv, TypeOK

LEMMA PushedFrame ==
  ASSUME IInv
  PROVE  /\ Pushed \in [Addr -> Ctx]
         /\ Pushed[Frame] = cpu
         /\ \A i \in Slots : Pushed[i] = mem[i]
BY DEF IInv, TypeOK, Pushed

LEMMA TimerTickIInv ==
  ASSUME IInv, TimerTick
  PROVE  IInv'
<1>1. /\ fullEnabled' \in BOOLEAN /\ fullHit' \in BOOLEAN
      /\ UNCHANGED <<enabled, active, prio, done, phase, ending, work>>
  BY DEF TimerTick, IInv, TypeOK
<1>2. CASE FullPreemptFires
  <2>1. /\ Intercepted \in [Addr -> Ctx]
        /\ Intercepted[FullBuf] = cpu
        /\ \A i \in Slots : Intercepted[i] = mem[i]
    BY PushedFrame, GarbageType DEF IInv, TypeOK, Intercepted
  <2>2. mode = "ring3" /\ MtTick(Intercepted, FullBuf)
    BY <1>2 DEF TimerTick
  <2> QED BY <1>1, <2>1, <2>2, MtTickIInv
<1>3. CASE ~FullPreemptFires
  <2>1. mode = "ring3" /\ MtTick(Pushed, Frame)
    BY <1>3 DEF TimerTick
  <2> QED BY <1>1, <2>1, PushedFrame, MtTickIInv
<1> QED BY <1>2, <1>3

LEMMA YieldIntIInv ==
  ASSUME IInv, YieldInt
  PROVE  IInv'
<1>1. /\ fullEnabled' \in BOOLEAN /\ fullHit' \in BOOLEAN
      /\ UNCHANGED <<enabled, active, prio, done, phase, ending, work>>
  BY DEF YieldInt, IInv, TypeOK, fullVars
<1>2. mode = "ring3" /\ MtTick(Pushed, Frame)
  BY DEF YieldInt
<1> QED BY <1>1, <1>2, PushedFrame, MtTickIInv

(* Task 0 never retires, so a task to switch to always remains. *)
LEMMA TaskDoneIInv ==
  ASSUME IInv, TaskDone
  PROVE  IInv'
<1>1. mode = "ring3" /\ ending[0] = "exit" /\ ending[cpu.task] = "retire"
  BY DEF TaskDone, IInv, SessionShape
<1>2. enabled
  <2> SUFFICES ASSUME ~enabled PROVE FALSE
    OBVIOUS
  <2>1. cpu.task = 0
    BY <1>1 DEF IInv, InterceptTransparent
  <2> QED BY <1>1, <2>1
<1>3. cpu.task = current
  BY <1>1, <1>2 DEF IInv, RunsWhereItStopped
<1>4. current # 0
  BY <1>1, <1>3
<1>5. done' \in [Slots -> BOOLEAN] /\ ~done'[0]
  BY <1>2, <1>4 DEF TaskDone, MarkDone, IInv, TypeOK, SessionShape
<1>6. /\ fullEnabled' \in BOOLEAN /\ fullHit' \in BOOLEAN
      /\ UNCHANGED <<enabled, active, prio, phase, ending, work>>
      /\ SaveAndSwitch(Pushed, Frame, done') /\ switched' = TRUE
  BY DEF TaskDone, IInv, TypeOK, fullVars
<1> QED BY <1>1, <1>2, <1>5, <1>6, PushedFrame, SwitchIInv

LEMMA ExitRing3IInv ==
  ASSUME IInv, ExitRing3
  PROVE  IInv'
<1> USE DEF ExitRing3, histVars
<1>1. TypeOK'
  BY DEF IInv, TypeOK
<1>2. SessionShape' /\ ArmedFresh'
  BY DEF IInv, SessionShape, ArmedFresh
<1>3. /\ RunsWhereItStopped' /\ InterceptTransparent' /\ ParkedIntact'
      /\ RetiredNeverRuns' /\ TopTierRuns' /\ WalkClosesIn'
  BY DEF RunsWhereItStopped, InterceptTransparent, ParkedIntact,
         RetiredNeverRuns, TopTierRuns, WalkClosesIn
<1> QED BY <1>1, <1>2, <1>3 DEF IInv

LEMMA NextIInv == IInv /\ [Next]_vars => IInv'
<1> SUFFICES ASSUME IInv, [Next]_vars PROVE IInv'
  OBVIOUS
<1>1. ASSUME NEW n \in 1 .. MaxTasks, NEW p \in [Slots -> Priorities],
             NEW e \in [Slots -> Endings], RunMultitasking(n, p, e)
      PROVE  IInv'
  BY <1>1, RunMultitaskingIInv
<1>2. CASE RunIntercepting
  BY <1>2, RunInterceptingIInv
<1>3. CASE EnterRing3
  BY <1>3, EnterRing3IInv
<1>4. ASSUME NEW t \in Slots, UserStep(t)
      PROVE  IInv'
  BY <1>4, UserStepIInv
<1>5. CASE TimerTick
  BY <1>5, TimerTickIInv
<1>6. CASE YieldInt
  BY <1>6, YieldIntIInv
<1>7. CASE TaskDone
  BY <1>7, TaskDoneIInv
<1>8. CASE ExitRing3
  BY <1>8, ExitRing3IInv
<1>9. CASE UNCHANGED vars
  BY <1>9 DEF vars, schedVars, fullVars, histVars, IInv, TypeOK, SessionShape, ArmedFresh,
              RunsWhereItStopped, InterceptTransparent, ParkedIntact, RetiredNeverRuns,
              TopTierRuns, WalkClosesIn, Dist
<1> QED BY <1>1, <1>2, <1>3, <1>4, <1>5, <1>6, <1>7, <1>8, <1>9 DEF Next

-----------------------------------------------------------------------------
THEOREM Invariance == Spec => []IInv
BY InitIInv, NextIInv, PTL DEF Spec

(* Type correctness of every variable of the scheduler. *)
THEOREM TypeCorrect == Spec => []TypeOK
<1>1. IInv => TypeOK
  BY DEF IInv
<1> QED BY <1>1, Invariance, PTL

(***************************************************************************)
(* Ticks, yields, retirements and interceptions never lose, mix up or      *)
(* replay a context: what runs continues where it stopped, and every task  *)
(* that is not running waits intact in its own slot.                       *)
(***************************************************************************)
THEOREM ContextIntegrity == Spec => []ContextsIntact
<1>1. IInv => ContextsIntact
  BY DEF IInv, ContextsIntact
<1> QED BY <1>1, Invariance, PTL

(* select_next's unbounded search always finds a task. *)
THEOREM NoHang == Spec => []SelectionNeverHangs
<1>1. IInv => SelectionNeverHangs
  BY DEF IInv, SessionShape, SelectionNeverHangs
<1> QED BY <1>1, Invariance, PTL

(* Round robin: an eligible task waits for at most active - 1 others. *)
LEMMA BypassBounded == IInv => BoundedBypass
<1> SUFFICES ASSUME IInv, mode = "ring3", enabled, NEW i \in 0 .. active - 1
             PROVE  bypass[i] < active
  BY DEF BoundedBypass
<1>1. bypass[i] + Dist(current, i) <= active
  BY DEF IInv, WalkClosesIn
<1>2. active \in 1 .. MaxTasks /\ current \in 0 .. active - 1 /\ i \in Slots
  BY MaxTasksAssumption DEF IInv, SessionShape
<1>3. bypass[i] \in Nat
  BY <1>2 DEF IInv, TypeOK
<1>4. Dist(current, i) >= 1 /\ Dist(current, i) \in Int
  BY <1>2, MaxTasksAssumption DEF Dist
<1> QED BY <1>1, <1>2, <1>3, <1>4

(***************************************************************************)
(* What select_next chooses: never a retired task, always one of the top   *)
(* tier of unfinished tasks, and every one of that tier in its turn.       *)
(***************************************************************************)
THEOREM FairChoices == Spec => []ChoicesAreFair
<1>1. IInv => ChoicesAreFair
  BY BypassBounded DEF IInv, ChoicesAreFair
<1> QED BY <1>1, Invariance, PTL

(* Retirement lasts until the next session is armed. *)
THEOREM RetirementLasts == Spec => RetirementIsFinal
<1> DEFINE Final == \A i \in Slots : done[i] /\ phase # "idle" => done'[i] /\ work'[i] = work[i]
<1>1. IInv /\ [Next]_vars => [Final]_vars
  <2> SUFFICES ASSUME IInv, Next, NEW i \in Slots, done[i], phase # "idle"
               PROVE  done'[i] /\ work'[i] = work[i]
    OBVIOUS
  <2>1. CASE RunIntercepting \/ \E n \in 1 .. MaxTasks, p \in [Slots -> Priorities],
                e \in [Slots -> Endings] : RunMultitasking(n, p, e)
    BY <2>1 DEF RunIntercepting, RunMultitasking
  <2>2. CASE EnterRing3 \/ TimerTick \/ YieldInt \/ ExitRing3
    BY <2>2 DEF EnterRing3, TimerTick, YieldInt, ExitRing3, schedVars, histVars
  <2>3. CASE TaskDone
    BY <2>3 DEF TaskDone, MarkDone, IInv, TypeOK
  <2>4. ASSUME NEW t \in Slots, UserStep(t)
        PROVE  done'[i] /\ work'[i] = work[i]
    <3>1. done'[i]
      BY <2>4 DEF UserStep, schedVars
    <3>2. t # i
      BY <2>4 DEF UserStep, IInv, SessionShape, RunsWhereItStopped,
                  InterceptTransparent, RetiredNeverRuns
    <3>3. work'[i] = work[i]
      BY <2>4, <3>2 DEF UserStep, IInv, TypeOK
    <3> QED BY <3>1, <3>3
  <2> QED BY <2>1, <2>2, <2>3, <2>4 DEF Next
<1> QED BY <1>1, Invariance, PTL DEF Spec, RetirementIsFinal

=============================================================================
