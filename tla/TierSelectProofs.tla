-------------------------- MODULE TierSelectProofs --------------------------
(***************************************************************************)
(* What the selection of scheduler/tier_select.rs guarantees, for every    *)
(* number of tasks: select_next's search always ends on a task when one is *)
(* not done, and never on two.                                             *)
(***************************************************************************)
EXTENDS TierSelect, WellFoundedInduction, TLAPS

(* A nonempty set of naturals has a least element. *)
LEMMA LeastNat ==
  ASSUME NEW T, T \subseteq Nat, T # {}
  PROVE  \E x \in T : \A y \in T : x <= y
<1> DEFINE R == {ss \in Nat \X Nat : ss[1] < ss[2]}
<1>1. IsWellFoundedOn(R, Nat)
  BY NatLessThanWellFounded, Zenon DEF OpToRel
<1>2. PICK x \in T : \A y \in T : ~(<<y, x>> \in R)
  <2> HIDE DEF R
  <2> QED BY <1>1, WFMin, Zenon
<1>3. \A y \in T : ~(y < x)
  BY <1>2
<1> QED
  BY <1>3

(* When a task is not done, some task is eligible: the first loop of       *)
(* select_next finds a top priority and a slot that has it.                *)
LEMMA EligibleExists ==
  ASSUME NEW active \in Nat, NEW prios, NEW done,
         \A i \in 0 .. active - 1 : prios[i] \in Nat,
         NEW a \in 0 .. active - 1, ~done[a]
  PROVE  Eligible(active, prios, done) # {}
<1> DEFINE Live == {i \in 0 .. active - 1 : ~done[i]}
           T    == {prios[i] : i \in Live}
<1>1. T \subseteq Nat /\ T # {}
  OBVIOUS
<1>2. PICK x \in T : \A y \in T : x <= y
  <2> HIDE DEF T
  <2> QED BY <1>1, LeastNat
<1>3. PICK i \in Live : x = prios[i]
  BY <1>2
<1>4. i \in Eligible(active, prios, done)
  BY <1>2, <1>3 DEF Eligible
<1> QED
  BY <1>4

(* The walk of the second loop meets every slot within `active` steps.     *)
LEMMA WalkReaches ==
  ASSUME NEW active \in Nat, NEW current \in 0 .. active - 1,
         NEW e \in 0 .. active - 1
  PROVE  \E k \in 1 .. active : After(active, current, k) = e
<1>1. CASE e > current
  <2>1. e - current \in 1 .. active /\ After(active, current, e - current) = e
    BY <1>1 DEF After
  <2> QED BY <2>1
<1>2. CASE e <= current
  <2> DEFINE k == e - current + active
  <2>1. k \in 1 .. active /\ After(active, current, k) = e
    BY <1>2 DEF After
  <2> QED BY <2>1
<1> QED BY <1>1, <1>2

(***************************************************************************)
(* select_next terminates whenever a task is not done: its second loop     *)
(* stops at a first eligible slot.                                         *)
(***************************************************************************)
THEOREM SelectNextExists ==
  ASSUME NEW active \in Nat, NEW current \in 0 .. active - 1,
         NEW prios, NEW done,
         \A i \in 0 .. active - 1 : prios[i] \in Nat,
         NEW a \in 0 .. active - 1, ~done[a]
  PROVE  SelectNext(active, current, prios, done) # {}
<1> DEFINE E == Eligible(active, prios, done)
           K == {k \in 1 .. active : After(active, current, k) \in E}
<1>1. PICK e \in E : TRUE
  BY EligibleExists
<1>2. e \in 0 .. active - 1
  BY <1>1 DEF Eligible
<1>3. K # {}
  <2>1. PICK k \in 1 .. active : After(active, current, k) = e
    BY <1>2, WalkReaches
  <2> QED BY <1>1, <2>1
<1>4. K \subseteq Nat
  OBVIOUS
<1>5. PICK k \in K : \A j \in K : k <= j
  <2> HIDE DEF K
  <2> QED BY <1>3, <1>4, LeastNat
<1>6. \A j \in 1 .. k - 1 : After(active, current, j) \notin E
  <2> SUFFICES ASSUME NEW j \in 1 .. k - 1, After(active, current, j) \in E
               PROVE  FALSE
    OBVIOUS
  <2>1. j \in K
    BY <1>5
  <2> QED BY <2>1, <1>5
<1>7. After(active, current, k) \in SelectNext(active, current, prios, done)
  BY <1>5, <1>6 DEF SelectNext
<1> QED BY <1>7

(* select_next is a function: the walk's first eligible slot is unique. *)
THEOREM SelectNextUnique ==
  ASSUME NEW active \in Nat, NEW current \in 0 .. active - 1,
         NEW prios, NEW done,
         NEW m \in SelectNext(active, current, prios, done),
         NEW n \in SelectNext(active, current, prios, done)
  PROVE  m = n
<1> DEFINE E == Eligible(active, prios, done)
<1>1. PICK k \in 1 .. active : /\ m = After(active, current, k)
                               /\ \A j \in 1 .. k - 1 : After(active, current, j) \notin E
  BY DEF SelectNext
<1>2. PICK l \in 1 .. active : /\ n = After(active, current, l)
                               /\ \A j \in 1 .. l - 1 : After(active, current, j) \notin E
  BY DEF SelectNext
<1>3. m \in E /\ n \in E
  BY DEF SelectNext
<1>4. ~(k < l) /\ ~(l < k)
  BY <1>1, <1>2, <1>3
<1> QED BY <1>1, <1>2, <1>4

=============================================================================
