----------------------------- MODULE PcbKvProofs -----------------------------
(***************************************************************************)
(* Proofs about PcbKv for any table sizes, pids and block ids.             *)
(***************************************************************************)
EXTENDS PcbKv, FiniteSetTheorems, TLAPS

USE DEF NoPid, NoBlock, Free

Busy == { b \in Blocks : owner[b] # Free }

LEMMA BusyFinite == IsFiniteSet(Busy)
<1>1. IsFiniteSet(Blocks)
  BY MaxBlocksAssumption, FS_Interval DEF Blocks
<1> QED BY <1>1, FS_Subset DEF Busy

LEMMA InitIInv == Init => IInv
<1> SUFFICES ASSUME Init PROVE IInv
  OBVIOUS
<1>1. TypeOK
  <2>1. EmptyProc \in Pcb
    BY MaxBlocksAssumption DEF EmptyProc, Pcb, States
  <2> QED BY <2>1 DEF Init, TypeOK
<1>2. PidsUnique /\ ClaimsAreOwned
  BY DEF Init, PidsUnique, ClaimsAreOwned, Used, EmptyProc
<1>3. CountExact
  <2>1. Busy = {}
    BY DEF Init, Busy
  <2> QED BY <2>1, FS_EmptySet DEF Init, CountExact, Busy
<1> QED BY <1>1, <1>2, <1>3 DEF IInv

(* Allocating one free block adds one to the count. *)
LEMMA AllocateCounts ==
  ASSUME IInv, NEW b \in Blocks, NEW pid \in Nat, AllocateBlock(b, pid)
  PROVE  /\ owner[b] = Free
         /\ owner' \in [Blocks -> Nat \cup {Free}]
         /\ allocated' \in Nat
         /\ CountExact'
<1>1. owner[b] = Free
  BY DEF AllocateBlock, FirstFree, IsFirst
<1>2. owner \in [Blocks -> Nat \cup {Free}] /\ allocated \in Nat
  BY DEF IInv, TypeOK
<1>3. Busy' = Busy \cup {b}
  BY <1>1, <1>2 DEF AllocateBlock, Busy
<1>4. b \notin Busy
  BY <1>1 DEF Busy
<1>5. Cardinality(Busy') = Cardinality(Busy) + 1
  BY <1>3, <1>4, BusyFinite, FS_AddElement
<1>6. CountExact'
  BY <1>5 DEF IInv, CountExact, AllocateBlock, Busy
<1> QED BY <1>1, <1>2, <1>6 DEF AllocateBlock

(* Operations on the process table alone keep the block table's invariants. *)
LEMMA ProcessOnly ==
  ASSUME IInv, UNCHANGED <<owner, allocated>>,
         processes' \in [Slots -> Pcb], currentPid' \in Nat, nextPid' \in Nat \ {0}
  PROVE  TypeOK' /\ CountExact'
BY DEF IInv, TypeOK, CountExact

LEMMA SpawnIInv ==
  ASSUME IInv, NEW p \in Prios, Spawn(p)
  PROVE  IInv'
<1> DEFINE new == [pid |-> nextPid, state |-> "Ready", prio |-> p, kv |-> NoBlock]
<1>1. PICK s \in Slots :
        /\ ~Used(s)
        /\ processes' = [processes EXCEPT ![s] = new]
        /\ nextPid' = nextPid + 1
        /\ UNCHANGED <<currentPid, owner, allocated>>
  BY DEF Spawn, IsFirst
<1>2. processes \in [Slots -> Pcb] /\ nextPid \in Nat \ {0} /\ currentPid \in Nat
  BY DEF IInv, TypeOK
<1>3. new \in Pcb
  BY <1>2, MaxBlocksAssumption DEF Pcb, States
<1>4. TypeOK' /\ CountExact'
  BY <1>1, <1>2, <1>3, ProcessOnly
<1>5. /\ processes'[s] = new
      /\ \A t \in Slots : t # s => processes'[t] = processes[t]
  BY <1>1, <1>2
<1>6. PidsUnique'
  <2> SUFFICES ASSUME NEW t \in Slots, processes'[t].pid # NoPid
               PROVE  /\ processes'[t].pid < nextPid'
                      /\ \A u \in Slots : u # t => processes'[u].pid # processes'[t].pid
    BY DEF PidsUnique, Used
  <2>1. \A u \in Slots : processes[u].pid \in Nat /\ processes[u].pid < nextPid
    BY <1>2 DEF IInv, PidsUnique, Used, Pcb
  <2>2. CASE t = s
    BY <1>1, <1>2, <1>5, <2>1, <2>2
  <2>3. CASE t # s
    BY <1>1, <1>2, <1>5, <2>1, <2>3 DEF IInv, PidsUnique, Used
  <2> QED BY <2>2, <2>3
<1>7. ClaimsAreOwned'
  BY <1>1, <1>5 DEF IInv, ClaimsAreOwned, Used
<1> QED BY <1>4, <1>6, <1>7 DEF IInv

(* Changing only states of processes keeps every pid and every claim. *)
LEMMA StateOnly ==
  ASSUME IInv, NEW s \in Slots, NEW st \in States,
         processes' = [processes EXCEPT ![s].state = st],
         currentPid' \in Nat, UNCHANGED <<nextPid, owner, allocated>>
  PROVE  IInv'
<1>1. processes \in [Slots -> Pcb] /\ nextPid \in Nat \ {0}
  BY DEF IInv, TypeOK
<1>2. processes' \in [Slots -> Pcb]
  BY <1>1 DEF Pcb
<1>3. \A t \in Slots : /\ processes'[t].pid = processes[t].pid
                       /\ processes'[t].kv = processes[t].kv
  BY <1>1 DEF Pcb
<1>4. TypeOK' /\ CountExact'
  BY <1>1, <1>2, ProcessOnly
<1>5. PidsUnique' /\ ClaimsAreOwned'
  BY <1>3 DEF IInv, PidsUnique, ClaimsAreOwned, Used
<1> QED BY <1>4, <1>5 DEF IInv

LEMMA ScheduleNextIInv ==
  ASSUME IInv, ScheduleNext
  PROVE  IInv'
<1>1. PICK s \in Slots :
        /\ processes' = [processes EXCEPT ![s].state = "Running"]
        /\ currentPid' = processes[s].pid
        /\ UNCHANGED <<nextPid, owner, allocated>>
  BY DEF ScheduleNext
<1>2. currentPid' \in Nat
  BY <1>1 DEF IInv, TypeOK, Pcb
<1>3. "Running" \in States
  BY DEF States
<1> QED BY <1>1, <1>2, <1>3, StateOnly

LEMMA UpdateProcessIInv ==
  ASSUME IInv, NEW pid \in PidArgs, NEW st \in States, UpdateProcess(pid, st)
  PROVE  IInv'
<1>1. PICK s \in Slots :
        /\ processes' = [processes EXCEPT ![s].state = st]
        /\ UNCHANGED <<currentPid, nextPid, owner, allocated>>
  BY DEF UpdateProcess
<1>2. currentPid' \in Nat
  BY <1>1 DEF IInv, TypeOK
<1> QED BY <1>1, <1>2, StateOnly

LEMMA AllocateKvBlockIInv ==
  ASSUME IInv, NEW pid \in PidArgs, AllocateKvBlock(pid)
  PROVE  IInv'
<1>1. PICK b \in Blocks : AllocateBlock(b, pid) /\ UNCHANGED <<processes, currentPid, nextPid>>
  BY DEF AllocateKvBlock
<1>2. pid \in Nat
  BY ArgsAssumption
<1>3. /\ owner[b] = Free /\ owner' \in [Blocks -> Nat \cup {Free}]
      /\ allocated' \in Nat /\ CountExact'
  BY <1>1, <1>2, AllocateCounts
<1>4. TypeOK' /\ PidsUnique'
  BY <1>1, <1>3 DEF IInv, TypeOK, PidsUnique, Used
<1>5. ClaimsAreOwned'
  <2> SUFFICES ASSUME NEW s \in Slots, processes[s].kv # NoBlock
               PROVE  Used(s) /\ owner'[processes[s].kv - 1] = processes[s].pid
    BY <1>1 DEF ClaimsAreOwned, Used
  <2>1. /\ Used(s) /\ owner[processes[s].kv - 1] = processes[s].pid
        /\ processes[s].pid \in Nat
    BY DEF IInv, ClaimsAreOwned, TypeOK, Pcb
  <2>2. processes[s].kv - 1 # b
    BY <1>3, <2>1
  <2>3. processes[s].kv - 1 \in Blocks
    BY MaxBlocksAssumption DEF IInv, TypeOK, Pcb, Blocks
  <2> QED BY <1>1, <2>1, <2>2, <2>3 DEF AllocateBlock, IInv, TypeOK
<1> QED BY <1>3, <1>4, <1>5 DEF IInv

LEMMA KvAllocIInv ==
  ASSUME IInv, NEW pid \in PidArgs, KvAlloc(pid)
  PROVE  IInv'
<1>1. PICK b \in Blocks : /\ AllocateBlock(b, pid)
                          /\ processes' = SetKvBlockId(pid, b + 1)
                          /\ UNCHANGED <<currentPid, nextPid>>
  BY DEF KvAlloc
<1>2. pid \in Nat
  BY ArgsAssumption
<1>3. /\ owner[b] = Free /\ owner' \in [Blocks -> Nat \cup {Free}]
      /\ allocated' \in Nat /\ CountExact'
  BY <1>1, <1>2, AllocateCounts
<1>4. /\ processes \in [Slots -> Pcb] /\ owner \in [Blocks -> Nat \cup {Free}]
      /\ owner' = [owner EXCEPT ![b] = pid]
  BY <1>1 DEF IInv, TypeOK, AllocateBlock
<1>5. \A s \in Slots :
        processes'[s] = IF IsFirst(s, HasPid(pid))
                        THEN [processes[s] EXCEPT !.kv = b + 1] ELSE processes[s]
  BY <1>1 DEF SetKvBlockId
<1>6. b + 1 \in 0 .. MaxBlocks /\ b + 1 # NoBlock
  BY MaxBlocksAssumption DEF Blocks
<1>7. \A s \in Slots : processes'[s] \in Pcb /\ processes'[s].pid = processes[s].pid
  BY <1>4, <1>5, <1>6 DEF Pcb
<1>8. TypeOK'
  <2>1. processes' \in [Slots -> Pcb]
    BY <1>1, <1>7 DEF SetKvBlockId
  <2> QED BY <1>1, <1>3, <2>1 DEF IInv, TypeOK
<1>9. PidsUnique'
  BY <1>1, <1>7 DEF IInv, PidsUnique, Used
<1>10. ClaimsAreOwned'
  <2> SUFFICES ASSUME NEW s \in Slots, processes'[s].kv # NoBlock
               PROVE  processes'[s].pid # NoPid /\ owner'[processes'[s].kv - 1] = processes'[s].pid
    BY DEF ClaimsAreOwned, Used
  <2>1. CASE IsFirst(s, HasPid(pid))
    <3>1. processes[s].pid = pid /\ pid # NoPid
      BY <2>1 DEF IsFirst, HasPid, Used
    <3>2. processes'[s].kv = b + 1
      BY <1>4, <1>5, <2>1 DEF Pcb
    <3>3. processes'[s].kv - 1 = b
      BY <3>2 DEF Blocks
    <3> QED BY <1>4, <1>7, <3>1, <3>3
  <2>2. CASE ~IsFirst(s, HasPid(pid))
    <3>1. processes'[s] = processes[s]
      BY <1>5, <2>2
    <3>2. /\ Used(s) /\ owner[processes[s].kv - 1] = processes[s].pid
          /\ processes[s].pid \in Nat /\ processes[s].kv - 1 \in Blocks
      BY <3>1, <1>4, MaxBlocksAssumption DEF IInv, ClaimsAreOwned, Pcb, Blocks
    <3>3. processes[s].kv - 1 # b
      BY <1>3, <3>2
    <3> QED BY <1>4, <3>1, <3>2, <3>3 DEF Used
  <2> QED BY <2>1, <2>2
<1> QED BY <1>3, <1>8, <1>9, <1>10 DEF IInv

(***************************************************************************)
(* Freeing a block clears the only claim there can be on it.               *)
(***************************************************************************)
LEMMA KvFreeIInv ==
  ASSUME IInv, NEW id \in IdArgs, KvFree(id)
  PROVE  IInv'
<1> DEFINE b == id - 1
           p == owner[b]
<1>1. /\ b \in Blocks /\ p # Free
      /\ owner' = [owner EXCEPT ![b] = Free]
      /\ allocated' = allocated - 1
      /\ processes' = ClearKvBlockIdIfMatches(p, id)
      /\ UNCHANGED <<currentPid, nextPid>>
  BY DEF KvFree
<1>2. /\ processes \in [Slots -> Pcb] /\ owner \in [Blocks -> Nat \cup {Free}]
      /\ allocated \in Nat /\ id \in Nat
  BY ArgsAssumption DEF IInv, TypeOK
<1>3. CountExact' /\ allocated' \in Nat
  <2>1. Busy' = Busy \ {b}
    BY <1>1, <1>2 DEF Busy
  <2>2. b \in Busy
    BY <1>1 DEF Busy
  <2>3. Cardinality(Busy') = Cardinality(Busy) - 1 /\ IsFiniteSet(Busy')
    BY <2>1, <2>2, BusyFinite, FS_RemoveElement
  <2>4. allocated = Cardinality(Busy)
    BY DEF IInv, CountExact, Busy
  <2>5. Cardinality(Busy') \in Nat
    BY <2>3, FS_CardinalityType
  <2> QED BY <1>1, <2>3, <2>4, <2>5 DEF CountExact, Busy
<1> DEFINE Match == Claims(p, id)
<1>4. \A s \in Slots :
        processes'[s] = IF IsFirst(s, Match)
                        THEN [processes[s] EXCEPT !.kv = NoBlock] ELSE processes[s]
  <2>1. processes' = ClearKvBlockIdIfMatches(p, id)
    BY <1>1
  <2> HIDE DEF p
  <2> QED BY <2>1 DEF ClearKvBlockIdIfMatches
<1>5. \A s \in Slots : processes'[s] \in Pcb /\ processes'[s].pid = processes[s].pid
  <2> SUFFICES ASSUME NEW s \in Slots
               PROVE  processes'[s] \in Pcb /\ processes'[s].pid = processes[s].pid
    OBVIOUS
  <2>1. processes[s] \in Pcb /\ NoBlock \in 0 .. MaxBlocks
    BY <1>2, MaxBlocksAssumption
  <2>2. CASE IsFirst(s, Match)
    <3>1. processes'[s] = [processes[s] EXCEPT !.kv = NoBlock]
      BY <1>4, <2>2
    <3> QED BY <2>1, <3>1 DEF Pcb
  <2>3. CASE ~IsFirst(s, Match)
    BY <1>4, <2>1, <2>3
  <2> QED BY <2>2, <2>3
<1>6. TypeOK'
  <2>1. processes' \in [Slots -> Pcb]
    BY <1>1, <1>5 DEF ClearKvBlockIdIfMatches
  <2>2. owner' \in [Blocks -> Nat \cup {Free}]
    BY <1>1, <1>2
  <2> QED BY <1>1, <1>3, <2>1, <2>2 DEF IInv, TypeOK
<1>7. PidsUnique'
  BY <1>1, <1>5 DEF IInv, PidsUnique, Used
<1>8. \A s \in Slots : processes[s].kv = id => IsFirst(s, Match)
  <2> SUFFICES ASSUME NEW s \in Slots, processes[s].kv = id
               PROVE  IsFirst(s, Match)
    OBVIOUS
  <2>1. id # NoBlock
    BY <1>1, <1>2 DEF Blocks
  <2>2. Used(s) /\ p = processes[s].pid
    BY <2>1 DEF IInv, ClaimsAreOwned
  <2>3. s \in Match
    BY <2>2 DEF HasPid, Claims
  <2>4. \A t \in Match : t = s
    BY <2>2 DEF HasPid, Claims, IInv, PidsUnique, Used
  <2> QED BY <2>3, <2>4 DEF IsFirst, Slots
<1>9. ClaimsAreOwned'
  <2> SUFFICES ASSUME NEW s \in Slots, processes'[s].kv # NoBlock
               PROVE  processes'[s].pid # NoPid /\ owner'[processes'[s].kv - 1] = processes'[s].pid
    BY DEF ClaimsAreOwned, Used
  <2>1. ~IsFirst(s, Match)
    BY <1>2, <1>4 DEF Pcb
  <2>2. processes'[s] = processes[s] /\ processes[s].kv # id
    BY <1>4, <1>8, <2>1
  <2>3. /\ Used(s) /\ owner[processes[s].kv - 1] = processes[s].pid
        /\ processes[s].kv - 1 \in Blocks /\ processes[s].kv \in Nat
    BY <2>2, <1>2, MaxBlocksAssumption DEF IInv, ClaimsAreOwned, Pcb, Blocks
  <2>4. processes[s].kv - 1 # b
    BY <1>2, <2>2, <2>3
  <2> QED BY <1>1, <1>2, <2>2, <2>3, <2>4 DEF Used
<1> QED BY <1>3, <1>6, <1>7, <1>9 DEF IInv

LEMMA NextIInv == IInv /\ [Next]_vars => IInv'
<1> SUFFICES ASSUME IInv, [Next]_vars PROVE IInv'
  OBVIOUS
<1>1. ASSUME NEW p \in Prios, Spawn(p) PROVE IInv'
  BY <1>1, SpawnIInv
<1>2. CASE ScheduleNext
  BY <1>2, ScheduleNextIInv
<1>3. ASSUME NEW pid \in PidArgs, NEW st \in States, UpdateProcess(pid, st) PROVE IInv'
  BY <1>3, UpdateProcessIInv
<1>4. ASSUME NEW pid \in PidArgs, AllocateKvBlock(pid) PROVE IInv'
  BY <1>4, AllocateKvBlockIInv
<1>5. ASSUME NEW pid \in PidArgs, KvAlloc(pid) PROVE IInv'
  BY <1>5, KvAllocIInv
<1>6. ASSUME NEW id \in IdArgs, KvFree(id) PROVE IInv'
  BY <1>6, KvFreeIInv
<1>7. CASE UNCHANGED vars
  BY <1>7 DEF vars, IInv, TypeOK, PidsUnique, ClaimsAreOwned, CountExact, Used
<1> QED BY <1>1, <1>2, <1>3, <1>4, <1>5, <1>6, <1>7 DEF Next

THEOREM Invariance == Spec => []IInv
BY InitIInv, NextIInv, PTL DEF Spec

(* Both tables keep their types, whatever ids callers pass. *)
THEOREM TypeCorrect == Spec => []TypeOK
<1>1. IInv => TypeOK
  BY DEF IInv
<1> QED BY <1>1, Invariance, PTL

(* No two processes ever have the same pid. *)
THEOREM UniquePids == Spec => []PidsUnique
<1>1. IInv => PidsUnique
  BY DEF IInv
<1> QED BY <1>1, Invariance, PTL

(* A process's kv_block_id is a block the block table says it owns. *)
THEOREM ClaimsOwned == Spec => []ClaimsAreOwned
<1>1. IInv => ClaimsAreOwned
  BY DEF IInv
<1> QED BY <1>1, Invariance, PTL

(* Two processes never claim one block. *)
THEOREM BlocksNotShared == Spec => []NoSharedBlock
<1>1. IInv => NoSharedBlock
  <2> SUFFICES ASSUME IInv, NEW s \in Slots, NEW t \in Slots, s # t,
                      processes[s].kv # NoBlock, processes[s].kv = processes[t].kv
               PROVE  FALSE
    BY DEF NoSharedBlock
  <2> QED BY DEF IInv, ClaimsAreOwned, PidsUnique, Used
<1> QED BY <1>1, Invariance, PTL

(* allocated_count never drifts from the number of allocated blocks. *)
THEOREM CountNeverDrifts == Spec => []CountExact
<1>1. IInv => CountExact
  BY DEF IInv
<1> QED BY <1>1, Invariance, PTL

-----------------------------------------------------------------------------
(* What ClaimsEndProperly asks of a step, for one process. *)
EndsProperly(s) ==
  LET old == processes[s].kv
      new == processes'[s].kv
  IN  old # NoBlock /\ new # old =>
        \/ new # NoBlock /\ owner[new - 1] = Free /\ owner'[new - 1] = processes[s].pid
        \/ new = NoBlock /\ owner'[old - 1] = Free

(* A new claim is on the block just taken, which nobody had. *)
LEMMA KvAllocEnds ==
  ASSUME IInv, NEW pid \in PidArgs, KvAlloc(pid), NEW s \in Slots
  PROVE  EndsProperly(s)
<1>1. PICK b \in Blocks : AllocateBlock(b, pid) /\ processes' = SetKvBlockId(pid, b + 1)
  BY DEF KvAlloc
<1>2. /\ owner[b] = Free /\ owner \in [Blocks -> Nat \cup {Free}]
      /\ owner' = [owner EXCEPT ![b] = pid] /\ processes \in [Slots -> Pcb]
  BY <1>1 DEF AllocateBlock, FirstFree, IsFirst, IInv, TypeOK
<1>3. processes'[s] = IF IsFirst(s, HasPid(pid))
                      THEN [processes[s] EXCEPT !.kv = b + 1] ELSE processes[s]
  BY <1>1 DEF SetKvBlockId
<1>4. CASE IsFirst(s, HasPid(pid))
  <2>1. processes[s].pid = pid
    BY <1>4 DEF IsFirst, HasPid
  <2>2. processes'[s].kv = b + 1
    BY <1>2, <1>3, <1>4 DEF Pcb
  <2>3. b + 1 # NoBlock /\ (b + 1) - 1 = b
    BY MaxBlocksAssumption DEF Blocks
  <2> QED BY <1>2, <2>1, <2>2, <2>3 DEF EndsProperly
<1>5. CASE ~IsFirst(s, HasPid(pid))
  BY <1>3, <1>5 DEF EndsProperly
<1> QED BY <1>4, <1>5

(* SYS_KV_FREE clears a claim on the freed block and no other. *)
LEMMA KvFreeEnds ==
  ASSUME IInv, NEW id \in IdArgs, KvFree(id), NEW s \in Slots
  PROVE  EndsProperly(s)
<1> DEFINE Match == Claims(owner[id - 1], id)
<1>1. /\ id - 1 \in Blocks /\ owner' = [owner EXCEPT ![id - 1] = Free]
      /\ owner \in [Blocks -> Nat \cup {Free}] /\ processes \in [Slots -> Pcb]
  BY DEF KvFree, IInv, TypeOK
<1>2. processes'[s] = IF IsFirst(s, Match)
                      THEN [processes[s] EXCEPT !.kv = NoBlock] ELSE processes[s]
  <2>1. processes' = ClearKvBlockIdIfMatches(owner[id - 1], id)
    BY DEF KvFree
  <2> QED BY <2>1 DEF ClearKvBlockIdIfMatches
<1>3. CASE IsFirst(s, Match)
  <2>1. processes[s].kv = id
    BY <1>3 DEF IsFirst, Claims
  <2>2. processes'[s].kv = NoBlock
    BY <1>1, <1>2, <1>3 DEF Pcb
  <2> QED BY <1>1, <2>1, <2>2 DEF EndsProperly
<1>4. CASE ~IsFirst(s, Match)
  BY <1>2, <1>4 DEF EndsProperly
<1> QED BY <1>3, <1>4

(* The other operations leave every claim of a process alone. *)
LEMMA OthersKeepClaims ==
  ASSUME IInv, NEW s \in Slots,
         \/ \E p \in Prios : Spawn(p)
         \/ ScheduleNext
         \/ \E pid \in PidArgs, st \in States : UpdateProcess(pid, st)
         \/ \E pid \in PidArgs : AllocateKvBlock(pid)
         \/ UNCHANGED vars
  PROVE  EndsProperly(s)
<1>1. processes \in [Slots -> Pcb]
  BY DEF IInv, TypeOK
<1>2. ASSUME NEW p \in Prios, Spawn(p) PROVE EndsProperly(s)
  <2>1. PICK t \in Slots :
          /\ ~Used(t)
          /\ processes' = [processes EXCEPT ![t] =
               [pid |-> nextPid, state |-> "Ready", prio |-> p, kv |-> NoBlock]]
    BY <1>2 DEF Spawn, IsFirst
  <2>2. processes[t].kv = NoBlock
    BY <2>1 DEF IInv, ClaimsAreOwned
  <2> QED BY <1>1, <2>1, <2>2 DEF EndsProperly
<1>3. ASSUME NEW t \in Slots, NEW st \in States, processes' = [processes EXCEPT ![t].state = st]
      PROVE  EndsProperly(s)
  BY <1>1, <1>3 DEF EndsProperly, Pcb
<1>4. CASE ScheduleNext
  BY <1>3, <1>4 DEF ScheduleNext, States
<1>5. ASSUME NEW pid \in PidArgs, NEW st \in States, UpdateProcess(pid, st) PROVE EndsProperly(s)
  BY <1>3, <1>5 DEF UpdateProcess
<1>6. CASE (\E pid \in PidArgs : AllocateKvBlock(pid)) \/ UNCHANGED vars
  BY <1>6 DEF AllocateKvBlock, vars, EndsProperly
<1> QED BY <1>2, <1>4, <1>5, <1>6

(***************************************************************************)
(* A process loses its claim only to a newer block of its own or to the    *)
(* freeing of that very block, whatever ids SYS_KV_FREE is called with.    *)
(***************************************************************************)
THEOREM ClaimsEnd == Spec => ClaimsEndProperly
<1>1. IInv /\ [Next]_vars => \A s \in Slots : EndsProperly(s)
  BY KvAllocEnds, KvFreeEnds, OthersKeepClaims DEF Next
<1>2. IInv /\ [Next]_vars =>
        [\A s \in Slots :
           LET old == processes[s].kv
               new == processes'[s].kv
           IN  old # NoBlock /\ new # old =>
                 \/ new # NoBlock /\ owner[new - 1] = Free /\ owner'[new - 1] = processes[s].pid
                 \/ new = NoBlock /\ owner'[old - 1] = Free]_vars
  BY <1>1 DEF EndsProperly
<1> QED BY <1>2, Invariance, PTL DEF Spec, ClaimsEndProperly

=============================================================================
