---------------------------- MODULE TensorProofs ----------------------------
(***************************************************************************)
(* Proofs about Memory and Tensor: for every page size, address space and  *)
(* memory map, any list of pages mapped at boot and any arguments, no      *)
(* frame is handed out twice, and SYS_TENSOR_EVAL touches only what its    *)
(* caller may.                                                             *)
(***************************************************************************)
EXTENDS Tensor, FiniteSetTheorems, TLAPS

-----------------------------------------------------------------------------
(* Arithmetic of pages. *)

LEMMA PageOf ==
  ASSUME NEW a \in Nat
  PROVE  /\ a \div PageSize \in Nat
         /\ (a \div PageSize) * PageSize <= a
         /\ a < (a \div PageSize) * PageSize + PageSize
BY PageSizeAssumption

LEMMA SamePage ==
  ASSUME NEW a \in Nat, NEW b \in Nat, a \div PageSize = b \div PageSize
  PROVE  b - a < PageSize
<1> DEFINE m == (a \div PageSize) * PageSize
<1>1. m \in Int
  BY PageOf, PageSizeAssumption
<1>2. m <= a /\ b < m + PageSize
  BY PageOf
<1> HIDE DEF m
<1> QED BY <1>1, <1>2, PageSizeAssumption

LEMMA TimesMonotone ==
  ASSUME NEW m \in Nat, NEW n \in Nat, NEW k \in Nat, m <= n
  PROVE  m * k \in Nat /\ n * k \in Nat /\ m * k <= n * k
OBVIOUS

LEMMA PageMonotone ==
  ASSUME NEW a \in Nat, NEW b \in Nat, a <= b
  PROVE  a \div PageSize <= b \div PageSize
<1> DEFINE p == a \div PageSize
           q == b \div PageSize
<1>1. p \in Nat /\ q \in Nat /\ p * PageSize <= a /\ b < q * PageSize + PageSize
  BY PageOf
<1> HIDE DEF p, q
<1>2. q < p => (q + 1) * PageSize <= p * PageSize
  BY <1>1, TimesMonotone, PageSizeAssumption
<1>3. (q + 1) * PageSize = q * PageSize + PageSize
  BY <1>1, PageSizeAssumption
<1>4. q * PageSize \in Int /\ p * PageSize \in Int
  BY <1>1, PageSizeAssumption
<1>5. p <= q
  BY <1>1, <1>2, <1>3, <1>4, PageSizeAssumption
<1> QED BY <1>5 DEF p, q

-----------------------------------------------------------------------------
(* The allocator. *)

Below(b) == {c \in Usable : c < b}

LEMMA BelowFinite ==
  ASSUME NEW b
  PROVE  IsFiniteSet(Below(b)) /\ Cardinality(Below(b)) \in Nat
<1>1. Below(b) \subseteq Usable
  BY DEF Below
<1> QED BY <1>1, UsableAssumption, FS_Subset, FS_CardinalityType

(* Between two bytes of usable memory lie no more usable bytes than their  *)
(* distance.                                                               *)
LEMMA RankDistance ==
  ASSUME NEW a \in Usable, NEW b \in Usable, Cardinality(Below(a)) < Cardinality(Below(b))
  PROVE  Cardinality(Below(b)) <= Cardinality(Below(a)) + (b - a)
<1>1. a \in Nat /\ b \in Nat
  BY UsableAssumption
<1>2. a < b
  <2> SUFFICES ASSUME b <= a PROVE FALSE
    BY <1>1
  <2>1. Below(b) \subseteq Below(a)
    <3>1. \A c \in Usable : c < b => c < a
      BY <1>1, UsableAssumption
    <3> QED BY <3>1 DEF Below
  <2>2. Cardinality(Below(b)) <= Cardinality(Below(a))
    BY <2>1, BelowFinite, FS_Subset
  <2> QED BY <2>2, BelowFinite
<1> DEFINE I == a .. b - 1
<1>3. IsFiniteSet(I) /\ Cardinality(I) = b - a
  <2>1. /\ IsFiniteSet(a .. b - 1)
        /\ Cardinality(a .. b - 1) = IF a > b - 1 THEN 0 ELSE (b - 1) - a + 1
    <3>1. a \in Int /\ b - 1 \in Int
      BY <1>1
    <3> QED BY <3>1, FS_Interval, Zenon
  <2> QED BY <1>1, <1>2, <2>1
<1>4. Below(b) \subseteq Below(a) \cup I
  <2>1. \A c \in Usable : c < b => c < a \/ c \in I
    BY <1>1, UsableAssumption
  <2> QED BY <2>1 DEF Below
<1> HIDE DEF I
<1>5. /\ IsFiniteSet(Below(a) \cup I)
      /\ Cardinality(Below(a) \cup I) = Cardinality(Below(a)) + Cardinality(I) - Cardinality(Below(a) \cap I)
  BY <1>3, BelowFinite, FS_Union
<1>6. Cardinality(Below(a) \cap I) \in Nat
  <2>1. IsFiniteSet(Below(a) \cap I)
    BY <1>3, FS_Subset
  <2> QED BY <2>1, FS_CardinalityType
<1>7. Cardinality(Below(b)) <= Cardinality(Below(a) \cup I)
  BY <1>4, <1>5, FS_Subset
<1> QED BY <1>1, <1>2, <1>3, <1>5, <1>6, <1>7, BelowFinite

(* The n-th and the m-th frame are different frames. *)
LEMMA FramesDiffer ==
  ASSUME NEW n \in Nat, NEW m \in Nat, n < m
  PROVE  UsableFrames(n) \cap UsableFrames(m) = {}
<1> SUFFICES ASSUME NEW f \in UsableFrames(n), f \in UsableFrames(m) PROVE FALSE
  OBVIOUS
<1>1. PICK a \in Usable : f = a \div PageSize /\ Cardinality(Below(a)) = n * PageSize
  BY DEF UsableFrames, Below
<1>2. PICK b \in Usable : f = b \div PageSize /\ Cardinality(Below(b)) = m * PageSize
  BY DEF UsableFrames, Below
<1>3. a \in Nat /\ b \in Nat
  BY UsableAssumption
<1>4. b - a < PageSize
  BY <1>1, <1>2, <1>3, SamePage
<1>5. (n + 1) * PageSize <= m * PageSize /\ (n + 1) * PageSize = n * PageSize + PageSize
  BY TimesMonotone, PageSizeAssumption
<1>6. n * PageSize \in Nat /\ m * PageSize \in Nat /\ PageSize \in Nat /\ PageSize > 0
  BY TimesMonotone, PageSizeAssumption
<1>7. n * PageSize < m * PageSize
  BY <1>5, <1>6
<1>8. m * PageSize <= n * PageSize + (b - a)
  BY <1>1, <1>2, <1>7, RankDistance
<1> QED BY <1>3, <1>4, <1>5, <1>6, <1>8

(* A frame is a whole page of usable memory. *)
LEMMA FrameUsable ==
  ASSUME NEW n, NEW f \in UsableFrames(n), NEW i \in 0 .. PageSize - 1
  PROVE  f * PageSize + i \in Usable
<1>1. PICK a \in Usable : f = a \div PageSize
  BY DEF UsableFrames
<1> QED BY <1>1, WholePagesAssumption

-----------------------------------------------------------------------------
(* The i-th frame handed out is the i-th of the memory map, before and     *)
(* after the allocator becomes the global one.                             *)
FramesInOrder ==
  /\ next \in Nat /\ booted \in Nat
  /\ frames \in Seq(SUBSET Nat) /\ Len(frames) = next
  /\ \A i \in 1 .. next : frames[i] = UsableFrames(i - 1)
  /\ panicked \in BOOLEAN
  /\ panicked <=> \E i \in 1 .. next : frames[i] = {}

LEMMA FramesAreNaturals == ASSUME NEW n PROVE UsableFrames(n) \subseteq Nat
<1> SUFFICES ASSUME NEW f \in UsableFrames(n) PROVE f \in Nat
  OBVIOUS
<1>1. PICK a \in Usable : f = a \div PageSize
  BY DEF UsableFrames
<1> QED BY <1>1, UsableAssumption, PageOf

LEMMA InOrderNotShared == FramesInOrder => FramesNotShared
<1> SUFFICES ASSUME FramesInOrder PROVE FramesNotShared
  OBVIOUS
<1>1. DOMAIN frames = 1 .. next
  BY DEF FramesInOrder
<1>2. ASSUME NEW i \in 1 .. next, NEW j \in 1 .. next, i # j
      PROVE  frames[i] \cap frames[j] = {}
  <2>1. frames[i] = UsableFrames(i - 1) /\ frames[j] = UsableFrames(j - 1)
    BY DEF FramesInOrder
  <2>2. i - 1 \in Nat /\ j - 1 \in Nat /\ (i - 1 < j - 1 \/ j - 1 < i - 1)
    BY <1>2 DEF FramesInOrder
  <2>3. UsableFrames(i - 1) \cap UsableFrames(j - 1) = {}
    <3>1. i - 1 < j - 1 => UsableFrames(i - 1) \cap UsableFrames(j - 1) = {}
      BY <2>2, FramesDiffer, Zenon
    <3>2. j - 1 < i - 1 => UsableFrames(j - 1) \cap UsableFrames(i - 1) = {}
      BY <2>2, FramesDiffer, Zenon
    <3> QED BY <2>2, <3>1, <3>2
  <2> QED BY <2>1, <2>3
<1>3. ASSUME NEW i \in 1 .. next, NEW f \in frames[i], NEW a \in 0 .. PageSize - 1
      PROVE  f * PageSize + a \in Usable
  <2>1. f \in UsableFrames(i - 1)
    BY <1>3 DEF FramesInOrder
  <2> QED BY <2>1, FrameUsable
<1> QED BY <1>1, <1>2, <1>3 DEF FramesNotShared, FramesInOrder

(* What concatenation holds and where. *)
LEMMA ConcatFacts ==
  ASSUME NEW S, NEW a \in Seq(S), NEW b \in Seq(S)
  PROVE  /\ a \o b \in Seq(S) /\ Len(a \o b) = Len(a) + Len(b)
         /\ \A i \in 1 .. Len(a) : (a \o b)[i] = a[i]
         /\ \A i \in Len(a) + 1 .. Len(a) + Len(b) : (a \o b)[i] = b[i - Len(a)]
OBVIOUS

LEMMA AllocateInOrder ==
  ASSUME FramesInOrder, ~panicked, NEW n \in Nat, Allocate(n), booted' \in Nat
  PROVE  FramesInOrder'
<1> DEFINE more == Allocated(n)
<1>1. more \in Seq(SUBSET Nat) /\ Len(more) = n /\ \A i \in 1 .. n : more[i] = UsableFrames(next + i - 1)
  BY FramesAreNaturals DEF Allocated
<1>2. frames' = frames \o more /\ next' = next + n /\ next \in Nat
  BY DEF Allocate, FramesInOrder
<1> HIDE DEF more
<1>3. /\ frames' \in Seq(SUBSET Nat) /\ Len(frames') = next' /\ next' \in Nat
      /\ \A i \in 1 .. next : frames'[i] = frames[i]
      /\ \A i \in next + 1 .. next' : frames'[i] = more[i - next]
  <2>1. frames \in Seq(SUBSET Nat) /\ Len(frames) = next
    BY DEF FramesInOrder
  <2>2. /\ frames \o more \in Seq(SUBSET Nat) /\ Len(frames \o more) = Len(frames) + Len(more)
        /\ \A i \in 1 .. Len(frames) : (frames \o more)[i] = frames[i]
        /\ \A i \in Len(frames) + 1 .. Len(frames) + Len(more) : (frames \o more)[i] = more[i - Len(frames)]
    <3> DEFINE S == SUBSET Nat
    <3>1. frames \in Seq(S) /\ more \in Seq(S)
      BY <1>1, <2>1
    <3> HIDE DEF S
    <3>2. /\ frames \o more \in Seq(S) /\ Len(frames \o more) = Len(frames) + Len(more)
          /\ \A i \in 1 .. Len(frames) : (frames \o more)[i] = frames[i]
          /\ \A i \in Len(frames) + 1 .. Len(frames) + Len(more) : (frames \o more)[i] = more[i - Len(frames)]
      BY <3>1, ConcatFacts, Zenon
    <3> QED BY <3>2 DEF S
  <2>3. Len(frames) = next /\ Len(more) = n /\ Len(frames) + Len(more) = next' /\ next' \in Nat
    BY <1>1, <1>2, <2>1
  <2> QED BY <1>2, <2>2, <2>3, Zenon
<1>4. \A i \in next + 1 .. next' : i - next \in 1 .. n /\ next + (i - next) - 1 = i - 1
  BY <1>2
<1>5. \A i \in next + 1 .. next' : frames'[i] = UsableFrames(i - 1)
  BY <1>1, <1>3, <1>4
<1>6. \A i \in 1 .. next' : frames'[i] = UsableFrames(i - 1)
  <2>1. \A i \in 1 .. next' : i \in 1 .. next \/ i \in next + 1 .. next'
    BY <1>2
  <2> QED BY <1>3, <1>5, <2>1 DEF FramesInOrder
<1>7. panicked' <=> \E i \in 1 .. next' : frames'[i] = {}
  <2>1. panicked' <=> \E i \in 1 .. n : more[i] = {}
    BY <1>1 DEF Allocate, OutOfMemory
  <2>2. ASSUME NEW i \in 1 .. n, more[i] = {} PROVE \E j \in 1 .. next' : frames'[j] = {}
    <3>1. next + i \in next + 1 .. next' /\ next + i \in 1 .. next' /\ (next + i) - next = i
      BY <1>2
    <3> QED BY <1>3, <2>2, <3>1
  <2>3. ASSUME NEW j \in 1 .. next', frames'[j] = {} PROVE \E i \in 1 .. n : more[i] = {}
    <3>1. j \in next + 1 .. next'
      <4>1. j \notin 1 .. next
        BY <1>3, <2>3 DEF FramesInOrder
      <4> QED BY <1>2, <4>1
    <3> QED BY <1>3, <1>4, <2>3, <3>1
  <2> QED BY <2>1, <2>2, <2>3
<1>8. panicked' \in BOOLEAN
  BY DEF Allocate, OutOfMemory
<1> QED BY <1>3, <1>6, <1>7, <1>8 DEF FramesInOrder

LEMMA MInitInOrder == ASSUME MInit PROVE FramesInOrder
<1>1. frames = <<>> /\ next = 0 /\ booted = 0 /\ panicked = FALSE
  BY DEF MInit
<1>2. frames \in Seq(SUBSET Nat) /\ Len(frames) = next
  BY <1>1
<1>3. \A i \in 1 .. next : FALSE
  BY <1>1
<1>4. next \in Nat /\ booted \in Nat
  BY <1>1
<1>5. panicked \in BOOLEAN /\ ~panicked
  BY <1>1
<1> QED BY <1>2, <1>3, <1>4, <1>5, Zenon DEF FramesInOrder

LEMMA MapPageInOrder == ASSUME FramesInOrder, MapPage PROVE FramesInOrder'
<1> DEFINE p == Pages[booted + 1]
<1>1. booted + 1 \in 1 .. Len(Pages)
  <2>1. Len(Pages) \in Nat
    BY PagesAssumption DEF Pages
  <2> QED BY <2>1 DEF MapPage, FramesInOrder
<1>2. 1 + TableFrames[p] \in Nat
  BY <1>1, PagesAssumption DEF Pages
<1>3. Allocate(1 + TableFrames[p]) /\ ~panicked /\ booted' \in Nat
  BY DEF MapPage, FramesInOrder
<1> QED BY <1>2, <1>3, AllocateInOrder

LEMMA MemoryInOrder ==
  ASSUME FramesInOrder, MapPage \/ InstallGlobal \/ DriverTakes \/ UNCHANGED mvars
  PROVE  FramesInOrder'
<1>1. CASE InstallGlobal
  BY <1>1 DEF InstallGlobal, InstallAt, FramesInOrder
<1>2. CASE DriverTakes
  BY <1>2, AllocateInOrder DEF DriverTakes, FramesInOrder
<1>3. CASE UNCHANGED mvars
  BY <1>3 DEF mvars, FramesInOrder
<1> QED BY <1>1, <1>2, <1>3, MapPageInOrder

-----------------------------------------------------------------------------
(* The pointer checks. *)

(* What a caller of ring 3 (r) or of ring 0 may have the kernel touch. *)
Allowed(a, r) ==
  /\ a >= PageSize /\ a \notin Hole
  /\ a \div PageSize \in DOMAIN table
  /\ r => table[a \div PageSize]

LEMMA PageOfBase == ASSUME NEW q \in Nat PROVE (q * PageSize) \div PageSize = q
<1> DEFINE m == (q * PageSize) \div PageSize
<1>1. q * PageSize \in Nat
  BY TimesMonotone, PageSizeAssumption
<1>2. m \in Nat /\ m * PageSize <= q * PageSize /\ q * PageSize < m * PageSize + PageSize
  BY <1>1, PageOf
<1> HIDE DEF m
<1>3. m < q => (m + 1) * PageSize <= q * PageSize
  BY <1>2, TimesMonotone, PageSizeAssumption
<1>4. q < m => (q + 1) * PageSize <= m * PageSize
  BY <1>2, TimesMonotone, PageSizeAssumption
<1>5. /\ (m + 1) * PageSize = m * PageSize + PageSize /\ (q + 1) * PageSize = q * PageSize + PageSize
      /\ m * PageSize \in Nat /\ PageSize \in Nat /\ PageSize > 0
  BY <1>2, TimesMonotone, PageSizeAssumption
<1>6. m = q
  BY <1>1, <1>2, <1>3, <1>4, <1>5
<1> QED BY <1>6 DEF m

(* range_has_flags looks at the base of each page; that is enough for      *)
(* every byte of the range.                                                *)
LEMMA RangeChecked ==
  ASSUME NEW p \in 0 .. Top - 1, NEW n \in Nat, NEW r, RangeHasFlags(p, n, r), NEW o \in 0 .. n - 1
  PROVE  p + o < Top /\ Allowed(p + o, r)
<1> DEFINE a == p + o
           q == a \div PageSize
<1>1. p \in Nat /\ a \in Nat /\ p + n - 1 \in Nat /\ p <= a /\ a <= p + n - 1 /\ n # 0
  BY TopAssumption
<1>2. p + n - 1 < Top
  BY <1>1 DEF RangeHasFlags
<1>3. q \in Nat /\ q * PageSize <= a
  BY <1>1, PageOf
<1>4. q \in p \div PageSize .. (p + n - 1) \div PageSize
  BY <1>1, PageMonotone, PageOf
<1>5. PointerHasFlags(q * PageSize, r)
  BY <1>1, <1>4 DEF RangeHasFlags
<1>6. (q * PageSize) \div PageSize = q
  BY <1>3, PageOfBase
<1>7. q # 0
  BY <1>5, PageSizeAssumption DEF PointerHasFlags
<1>8. a >= PageSize
  <2> HIDE DEF q, a
  <2>1. 1 * PageSize <= q * PageSize /\ 1 * PageSize = PageSize /\ q * PageSize \in Nat
    BY <1>3, <1>7, TimesMonotone, PageSizeAssumption
  <2> QED BY <1>1, <1>3, <2>1, PageSizeAssumption
<1>9. a \notin Hole
  BY <1>5, HoleAssumption DEF PointerHasFlags
<1>10. a < Top
  <2> HIDE DEF a
  <2> QED BY <1>1, <1>2, TopAssumption
<1> HIDE DEF q
<1>11. q \in DOMAIN table /\ (r => table[q])
  BY <1>5, <1>6 DEF PointerHasFlags
<1> QED BY <1>8, <1>9, <1>10, <1>11 DEF Allowed, q

(* A length that saturates is never accepted: it would leave less than a   *)
(* page below the range.                                                   *)
LEMMA SaturatedRejected ==
  ASSUME NEW p \in 0 .. Top - 1, NEW r
  PROVE  ~RangeHasFlags(p, Top - 1, r)
<1> SUFFICES ASSUME RangeHasFlags(p, Top - 1, r) PROVE FALSE
  OBVIOUS
<1>1. Top - 1 \in Nat /\ 0 \in 0 .. (Top - 1) - 1 /\ (Top - 1) - 1 \in 0 .. (Top - 1) - 1
  BY TopAssumption, PageSizeAssumption
<1>2. p + 0 >= PageSize
  BY <1>1, RangeChecked DEF Allowed
<1>3. p + ((Top - 1) - 1) < Top
  BY <1>1, RangeChecked
<1> QED BY <1>2, <1>3, TopAssumption, PageSizeAssumption

-----------------------------------------------------------------------------
(* The call. *)

SliceOK(k) == \A o \in 0 .. len[k] * F32Size - 1 : ptr[k] + o < Top /\ Allowed(ptr[k] + o, ring3)

SlicesChecked ==
  /\ ptr \in Seq(0 .. Top - 1) /\ len \in Seq(Nat) /\ Len(ptr) = Len(len)
  /\ \A k \in 1 .. Len(ptr) : SliceOK(k)

(* Between calls nothing is touched, so memory may change. *)
Idle == pc = "idle" => touched = {} /\ ptr = <<>> /\ len = <<>>

(* The rows fit in the weights and the outputs. *)
RowsFit ==
  /\ pc \in {"idle", "slices"} => row = 0
  /\ pc = "rows" =>
       /\ Len(ptr) = 4
       /\ dims.in \in Nat /\ dims.out \in Nat /\ row \in 0 .. dims.out
       /\ dims.out * dims.in <= len[1] /\ dims.out <= len[4]

TInv == SlicesChecked /\ Idle /\ RowsFit /\ TouchesOnlyCallers

IInv == FramesInOrder /\ TInv

LEMMA SliceTypes ==
  ASSUME SlicesChecked, NEW k \in 1 .. Len(ptr)
  PROVE  ptr[k] \in 0 .. Top - 1 /\ len[k] \in Nat /\ SliceOK(k)
<1>1. ptr \in Seq(0 .. Top - 1) /\ len \in Seq(Nat) /\ Len(ptr) = Len(len)
  BY DEF SlicesChecked
<1> DEFINE A == 0 .. Top - 1
<1>2. ptr \in Seq(A) /\ k \in 1 .. Len(ptr) /\ k \in 1 .. Len(len)
  BY <1>1
<1> HIDE DEF A
<1>3. ptr[k] \in A /\ len[k] \in Nat
  BY <1>1, <1>2
<1>4. SliceOK(k)
  BY DEF SlicesChecked
<1> QED BY <1>3, <1>4 DEF A

(* An element within its slice. *)
LEMMA ElementAllowed ==
  ASSUME SlicesChecked, NEW k \in 1 .. Len(ptr), NEW i \in Nat, i < len[k], NEW a \in Element(k, i)
  PROVE  Allowed(a, ring3)
<1>1. PICK j \in 0 .. F32Size - 1 : a = (ptr[k] + i * F32Size + j) % Top
  BY DEF Element, Extent
<1>2. ptr[k] \in 0 .. Top - 1 /\ len[k] \in Nat /\ SliceOK(k)
  BY SliceTypes
<1>3. (i + 1) * F32Size <= len[k] * F32Size /\ (i + 1) * F32Size = i * F32Size + F32Size
  BY <1>2, TimesMonotone, SizesAssumption
<1>4. i * F32Size \in Nat /\ len[k] * F32Size \in Nat
  BY <1>2, TimesMonotone, SizesAssumption
<1> DEFINE o == i * F32Size + j
<1>5. o \in 0 .. len[k] * F32Size - 1
  BY <1>3, <1>4, SizesAssumption
<1>6. ptr[k] + i * F32Size + j = ptr[k] + o
  BY <1>2, <1>4
<1> HIDE DEF o
<1>7. ptr[k] + o < Top /\ Allowed(ptr[k] + o, ring3)
  BY <1>2, <1>5 DEF SliceOK
<1>8. (ptr[k] + o) % Top = ptr[k] + o
  <2>1. ptr[k] + o \in Nat
    BY <1>2, <1>4, <1>5
  <2> QED BY <1>7, <2>1, TopAssumption
<1> QED BY <1>1, <1>6, <1>7, <1>8

(* No slice is as long as a product that saturates. *)
LEMMA LengthBounded ==
  ASSUME SlicesChecked, NEW k \in 1 .. Len(ptr)
  PROVE  len[k] < Top - 1
<1>1. ptr[k] \in 0 .. Top - 1 /\ len[k] \in Nat /\ SliceOK(k)
  BY SliceTypes
<1>2. CASE len[k] = 0
  BY <1>2, TopAssumption, PageSizeAssumption
<1>3. CASE len[k] # 0
  <2> DEFINE n == len[k] * F32Size
  <2>1. n \in Nat /\ len[k] <= n
    BY <1>1, SizesAssumption
  <2>2. 0 \in 0 .. n - 1 /\ n - 1 \in 0 .. n - 1
    BY <1>1, <1>3, <2>1
  <2>3. ptr[k] + 0 >= PageSize /\ ptr[k] + (n - 1) < Top
    BY <1>1, <2>2 DEF SliceOK, Allowed
  <2> HIDE DEF n
  <2> QED BY <1>1, <2>1, <2>3, TopAssumption, PageSizeAssumption
<1> QED BY <1>2, <1>3

-----------------------------------------------------------------------------
(* The invariant, action by action. *)

LEMMA NoSlices ==
  ASSUME ptr = <<>>, len = <<>>
  PROVE  SlicesChecked
<1>1. ptr \in Seq(0 .. Top - 1) /\ len \in Seq(Nat) /\ Len(ptr) = Len(len) /\ Len(ptr) = 0
  OBVIOUS
<1>2. \A k \in 1 .. Len(ptr) : FALSE
  BY <1>1
<1> QED BY <1>1, <1>2 DEF SlicesChecked

LEMMA NoSlicesNext ==
  ASSUME ptr' = <<>>, len' = <<>>
  PROVE  SlicesChecked'
<1>1. ptr' \in Seq(0 .. Top - 1) /\ len' \in Seq(Nat) /\ Len(ptr') = Len(len') /\ Len(ptr') = 0
  OBVIOUS
<1>2. \A k \in 1 .. Len(ptr') : FALSE
  BY <1>1
<1> QED BY <1>1, <1>2 DEF SlicesChecked

LEMMA InitIInv == ASSUME TInit PROVE IInv
<1>1. FramesInOrder
  BY MInitInOrder DEF TInit
<1>2. SlicesChecked
  BY NoSlices DEF TInit
<1>3. Idle /\ RowsFit /\ TouchesOnlyCallers
  BY DEF TInit, Idle, RowsFit, TouchesOnlyCallers
<1> QED BY <1>1, <1>2, <1>3 DEF IInv, TInv

(* Memory changes only between calls. *)
LEMMA BootTInv == ASSUME TInv, pc = "idle", UNCHANGED tvars PROVE TInv'
<1>1. /\ pc' = "idle" /\ touched' = {} /\ ptr' = <<>> /\ len' = <<>> /\ row' = row
  BY DEF tvars, TInv, Idle
<1>2. SlicesChecked'
  BY <1>1, NoSlicesNext
<1>3. Idle' /\ RowsFit' /\ TouchesOnlyCallers'
  BY <1>1 DEF TInv, Idle, RowsFit, TouchesOnlyCallers
<1> QED BY <1>2, <1>3 DEF TInv

LEMMA ForgetTInv == ASSUME Forget PROVE TInv'
<1>1. SlicesChecked'
  BY NoSlicesNext DEF Forget
<1>2. Idle' /\ RowsFit' /\ TouchesOnlyCallers'
  BY DEF Forget, Idle, RowsFit, TouchesOnlyCallers
<1> QED BY <1>1, <1>2 DEF TInv

LEMMA EnterTInv == ASSUME TInv, Enter, UNCHANGED mvars PROVE TInv'
<1> PICK r \in BOOLEAN, p \in Pointers :
       RangeHasFlags(p, ArgsSize, r) /\ (ring3' <=> r) /\ touched' = Extent(p, ArgsSize)
  BY DEF Enter
<1>1. SlicesChecked' /\ Idle' /\ RowsFit'
  BY NoSlicesNext DEF Enter, TInv, Idle, RowsFit
<1>2. ASSUME NEW a \in touched' PROVE Allowed(a, r)
  <2>1. PICK o \in 0 .. ArgsSize - 1 : a = (p + o) % Top
    BY <1>2 DEF Extent
  <2>2. p \in 0 .. Top - 1 /\ ArgsSize \in Nat
    BY ArgumentsAssumption, SizesAssumption
  <2>3. p + o < Top /\ Allowed(p + o, r)
    BY <2>2, RangeChecked
  <2>4. (p + o) % Top = p + o
    <3>1. p + o \in Nat
      BY <2>2
    <3> QED BY <2>3, <3>1, TopAssumption
  <2> QED BY <2>1, <2>3, <2>4
<1>3. TouchesOnlyCallers'
  <2>1. pc' # "panic" /\ UNCHANGED table
    BY DEF Enter, mvars
  <2> QED BY <1>2, <2>1 DEF TouchesOnlyCallers, Allowed
<1> QED BY <1>1, <1>3 DEF TInv

(* A slice that passes its check is allowed to its last byte. *)
LEMMA CheckedSlice ==
  ASSUME NEW p \in Pointers, NEW n \in Lengths, NEW r, RangeHasFlags(p, SaturatingMul(n, F32Size), r),
         NEW o \in 0 .. n * F32Size - 1
  PROVE  p + o < Top /\ Allowed(p + o, r)
<1>1. p \in 0 .. Top - 1 /\ n \in Nat /\ n * F32Size \in Nat
  BY ArgumentsAssumption, SizesAssumption, TimesMonotone
<1>2. ~(n * F32Size >= Top)
  BY <1>1, SaturatedRejected DEF SaturatingMul
<1>3. RangeHasFlags(p, n * F32Size, r)
  BY <1>2 DEF SaturatingMul
<1> QED BY <1>1, <1>3, RangeChecked

LEMMA CheckSliceTInv == ASSUME TInv, CheckSlice, UNCHANGED mvars PROVE TInv'
<1> PICK p \in Pointers, n \in Lengths :
       IF RangeHasFlags(p, SaturatingMul(n, F32Size), ring3)
       THEN /\ ptr' = Append(ptr, p) /\ len' = Append(len, n)
            /\ touched' = {}
            /\ UNCHANGED <<pc, ring3, dims, row>>
       ELSE Forget
  BY DEF CheckSlice
<1>1. CASE ~RangeHasFlags(p, SaturatingMul(n, F32Size), ring3)
  BY <1>1, ForgetTInv
<1>2. CASE RangeHasFlags(p, SaturatingMul(n, F32Size), ring3)
  <2>1. /\ ptr' = Append(ptr, p) /\ len' = Append(len, n) /\ touched' = {}
        /\ pc' = "slices" /\ row' = row /\ (ring3' <=> ring3) /\ pc = "slices" /\ table' = table
    BY <1>2 DEF CheckSlice, mvars
  <2>2. p \in 0 .. Top - 1 /\ n \in Nat
    BY ArgumentsAssumption
  <2> DEFINE A == 0 .. Top - 1
  <2> PICK m \in Nat : m = Len(ptr)
    BY DEF TInv, SlicesChecked
  <2>3. ptr \in Seq(A) /\ len \in Seq(Nat) /\ Len(len) = m /\ p \in A /\ m \in Nat
    BY <2>2 DEF TInv, SlicesChecked
  <2> HIDE DEF A
  <2>4. /\ ptr' \in Seq(A) /\ len' \in Seq(Nat) /\ Len(ptr') = m + 1 /\ Len(len') = m + 1
        /\ ptr'[m + 1] = p /\ len'[m + 1] = n
        /\ \A k \in 1 .. m : ptr'[k] = ptr[k] /\ len'[k] = len[k]
    BY <2>1, <2>2, <2>3
  <2>5. SliceOK(m + 1)'
    <3>1. \A o \in 0 .. n * F32Size - 1 : p + o < Top /\ Allowed(p + o, ring3)
      BY <1>2, CheckedSlice
    <3>2. \A o \in 0 .. n * F32Size - 1 : p + o < Top /\ Allowed(p + o, ring3)'
      BY <2>1, <3>1 DEF Allowed
    <3> QED BY <2>4, <3>2 DEF SliceOK
  <2>6. \A k \in 1 .. m : SliceOK(k)'
    BY <2>1, <2>4 DEF SliceOK, Allowed, TInv, SlicesChecked
  <2>7. \A k \in 1 .. m + 1 : k \in 1 .. m \/ k = m + 1
    BY <2>3
  <2>8. SlicesChecked'
    <3>1. \A k \in 1 .. m + 1 : SliceOK(k)'
      BY <2>5, <2>6, <2>7
    <3> QED BY <2>4, <3>1 DEF SlicesChecked, A
  <2>9. Idle' /\ RowsFit' /\ TouchesOnlyCallers'
    BY <2>1 DEF TInv, Idle, RowsFit, TouchesOnlyCallers
  <2> QED BY <2>8, <2>9 DEF TInv
<1> QED BY <1>1, <1>2

LEMMA CheckDimsTInv == ASSUME TInv, CheckDims, UNCHANGED mvars PROVE TInv'
<1> PICK i \in Lengths, o \in Lengths :
       IF SaturatingMul(o, i) > len[1] \/ o > len[4]
       THEN Forget
       ELSE /\ dims' = [in |-> i, out |-> o]
            /\ pc' = "rows" /\ touched' = {}
            /\ UNCHANGED <<ring3, ptr, len, row>>
  BY DEF CheckDims
<1>1. CASE SaturatingMul(o, i) > len[1] \/ o > len[4]
  BY <1>1, ForgetTInv
<1>2. CASE ~(SaturatingMul(o, i) > len[1] \/ o > len[4])
  <2>1. /\ dims'.in = i /\ dims'.out = o /\ pc' = "rows" /\ touched' = {}
        /\ ptr' = ptr /\ len' = len /\ row' = 0 /\ (ring3' <=> ring3) /\ table' = table /\ Len(ptr) = 4
    BY <1>2, ArgumentsAssumption DEF CheckDims, mvars, TInv, RowsFit
  <2>2. i \in Nat /\ o \in Nat /\ o * i \in Nat
    BY ArgumentsAssumption, TimesMonotone
  <2>3. len[1] \in Nat /\ len[4] \in Nat /\ len[1] < Top - 1
    BY <2>1, SliceTypes, LengthBounded DEF TInv
  <2>4. o * i <= len[1]
    <3>1. SaturatingMul(o, i) <= len[1]
      BY <1>2, <2>2, <2>3, TopAssumption DEF SaturatingMul
    <3> QED BY <2>2, <2>3, <3>1, TopAssumption DEF SaturatingMul
  <2>5. o <= len[4]
    BY <1>2, <2>2, <2>3
  <2>6. RowsFit'
    BY <2>1, <2>2, <2>4, <2>5 DEF RowsFit
  <2>7. SlicesChecked'
    BY <2>1 DEF TInv, SlicesChecked, SliceOK, Allowed
  <2>8. Idle' /\ TouchesOnlyCallers'
    BY <2>1 DEF Idle, TouchesOnlyCallers
  <2> QED BY <2>6, <2>7, <2>8 DEF TInv
<1> QED BY <1>1, <1>2

LEMMA RowTInv == ASSUME TInv, Row, UNCHANGED mvars PROVE TInv'
<1> DEFINE start == row * dims.in
           n     == IF dims.in < len[2] THEN dims.in ELSE len[2]
           dot   == UNION {Element(1, start + i) \cup Element(2, i) : i \in 0 .. n - 1}
           bias  == IF row < len[3] THEN Element(3, row) ELSE {}
<1>1. /\ Len(ptr) = 4 /\ dims.in \in Nat /\ dims.out \in Nat /\ row \in Nat /\ row < dims.out
      /\ dims.out * dims.in <= len[1] /\ dims.out <= len[4]
  BY DEF Row, TInv, RowsFit
<1>2. \A k \in 1 .. 4 : len[k] \in Nat
  BY <1>1, SliceTypes DEF TInv
<1>3. start \in Nat /\ start + dims.in <= len[1] /\ row < len[4]
  <2>1. (row + 1) * dims.in <= dims.out * dims.in /\ (row + 1) * dims.in = row * dims.in + dims.in
    <3>1. row + 1 \in Nat /\ row + 1 <= dims.out
      BY <1>1
    <3>2. (row + 1) * dims.in <= dims.out * dims.in
      BY <1>1, <3>1, TimesMonotone
    <3> QED BY <1>1, <3>2
  <2>2. row * dims.in \in Nat /\ dims.out * dims.in \in Nat
    BY <1>1, TimesMonotone
  <2> QED BY <1>1, <1>2, <2>1, <2>2
<1>4. n \in Nat /\ n <= dims.in /\ n <= len[2]
  BY <1>1, <1>2
<1>5. touched' = dot \cup bias \cup Element(4, row) /\ row' = row + 1 /\ pc' = pc
  <2>1. ~(start + dims.in > len[1] \/ row >= len[4])
    BY <1>1, <1>2, <1>3
  <2> QED BY <2>1 DEF Row
<1>6. pc' = "rows" /\ ptr' = ptr /\ len' = len /\ dims' = dims /\ (ring3' <=> ring3) /\ table' = table
  BY <1>5 DEF Row, mvars
<1> HIDE DEF start, n
<1>7. ASSUME NEW a \in touched' PROVE Allowed(a, ring3)
  <2>1. CASE \E i \in 0 .. n - 1 : a \in Element(1, start + i)
    <3> PICK i \in 0 .. n - 1 : a \in Element(1, start + i)
      BY <2>1
    <3>1. start + i \in Nat /\ start + i < len[1] /\ 1 \in 1 .. Len(ptr)
      BY <1>1, <1>2, <1>3, <1>4
    <3> QED BY <3>1, ElementAllowed DEF TInv
  <2>2. CASE \E i \in 0 .. n - 1 : a \in Element(2, i)
    <3> PICK i \in 0 .. n - 1 : a \in Element(2, i)
      BY <2>2
    <3>1. i \in Nat /\ i < len[2] /\ 2 \in 1 .. Len(ptr)
      BY <1>1, <1>2, <1>4
    <3> QED BY <3>1, ElementAllowed DEF TInv
  <2>3. CASE row < len[3] /\ a \in Element(3, row)
    BY <1>1, <2>3, ElementAllowed DEF TInv
  <2>4. CASE a \in Element(4, row)
    BY <1>1, <1>3, <2>4, ElementAllowed DEF TInv
  <2>5. a \in dot => \E i \in 0 .. n - 1 : a \in Element(1, start + i) \/ a \in Element(2, i)
    BY Zenon
  <2>6. a \in bias => row < len[3] /\ a \in Element(3, row)
    OBVIOUS
  <2> HIDE DEF dot, bias
  <2> QED BY <1>5, <1>7, <2>1, <2>2, <2>3, <2>4, <2>5, <2>6
<1>8. TouchesOnlyCallers'
  BY <1>6, <1>7 DEF TouchesOnlyCallers, Allowed
<1>9. SlicesChecked'
  BY <1>6 DEF TInv, SlicesChecked, SliceOK, Allowed
<1>10. Idle' /\ RowsFit'
  BY <1>1, <1>5, <1>6 DEF Idle, RowsFit
<1> QED BY <1>8, <1>9, <1>10 DEF TInv

LEMMA NextIInv == ASSUME IInv, [TNext]_tensorVars PROVE IInv'
<1>1. FramesInOrder'
  BY MemoryInOrder DEF IInv, TNext, tensorVars
<1>2. TInv'
  <2>1. CASE pc = "idle" /\ UNCHANGED tvars
    BY <2>1, BootTInv DEF IInv
  <2>2. CASE Eval /\ UNCHANGED mvars
    BY <2>2, EnterTInv, CheckSliceTInv, CheckDimsTInv, RowTInv, ForgetTInv DEF Eval, Return, IInv
  <2>3. CASE UNCHANGED tensorVars
    BY <2>3 DEF tensorVars, tvars, mvars, IInv, TInv, SlicesChecked, SliceOK, Allowed, Idle, RowsFit,
                TouchesOnlyCallers
  <2> QED BY <2>1, <2>2, <2>3 DEF TNext
<1> QED BY <1>1, <1>2 DEF IInv

(***************************************************************************)
(* The inductive invariant holds in every state of the frame allocator,    *)
(* the boot's mappings and SYS_TENSOR_EVAL.                                *)
(***************************************************************************)
THEOREM Invariance == TSpec => []IInv
<1>1. TInit => IInv
  BY InitIInv
<1>2. IInv /\ [TNext]_tensorVars => IInv'
  BY NextIInv
<1> QED BY <1>1, <1>2, PTL DEF TSpec

(***************************************************************************)
(* allocate_frame never hands a frame out twice, over both lives of        *)
(* BootInfoFrameAllocator, and only frames of usable memory; the kernel    *)
(* stops exactly when the memory map has no further frame.                 *)
(***************************************************************************)
THEOREM FramesExclusive == TSpec => []FramesNotShared
<1>1. IInv => FramesNotShared
  BY InOrderNotShared DEF IInv
<1> QED BY <1>1, Invariance, PTL

(***************************************************************************)
(* Whatever arguments SYS_TENSOR_EVAL gets, it touches only memory its     *)
(* caller may use, and matmul_layer never indexes past a slice.            *)
(***************************************************************************)
THEOREM TouchesAllowed == TSpec => []TouchesOnlyCallers
<1>1. IInv => TouchesOnlyCallers
  BY DEF IInv, TInv
<1> QED BY <1>1, Invariance, PTL

=============================================================================
