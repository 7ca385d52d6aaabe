----------------------------- MODULE Fat12Proofs -----------------------------
(***************************************************************************)
(* What Fat12's runs check on small volumes, proved for volumes of any     *)
(* size, any names and contents, and any number of failures.               *)
(***************************************************************************)
EXTENDS Fat12, FiniteSetTheorems, TLAPS

(* A set of numbers has a least one: the principle of induction used here. *)
LEMMA LeastOf ==
  ASSUME NEW T, T \subseteq Nat, T # {}
  PROVE  \E x \in T : \A y \in T : x <= y
<1> DEFINE R == {ss \in Nat \X Nat : ss[1] < ss[2]}
<1>1. IsWellFoundedOn(R, Nat)
  BY NatLessThanWellFounded, Zenon DEF OpToRel
<1>2. PICK x \in T : \A y \in T : ~(<<y, x>> \in R)
  <2> HIDE DEF R
  <2> QED BY <1>1, WFMin, Zenon
<1>3. \A y \in T : ~(y < x)
  BY <1>2
<1> QED BY <1>3

LEMMA MinIs ==
  ASSUME NEW T, T \subseteq Nat, T # {}
  PROVE  Min(T) \in T /\ \A y \in T : Min(T) <= y
<1>1. PICK x \in T : \A y \in T : x <= y
  BY LeastOf
<1>2. Min(T) = CHOOSE z \in T : \A y \in T : z <= y
  BY Zenon DEF Min
<1> QED BY <1>1, <1>2, Zenon

-----------------------------------------------------------------------------
(* Chains.                                                                 *)

FatT == [Clusters -> Clusters \cup {Free, Eoc}]

\* q is the chain of clusters from c to its end mark.
IsChain(f, c, q) ==
  /\ q \in Seq(Clusters) /\ Len(q) > 0
  /\ q[1] = c
  /\ \A i \in 1 .. Len(q) - 1 : f[q[i]] = q[i + 1]
  /\ f[q[Len(q)]] = Eoc

\* The walk of n steps that Chain takes.
Longer(f, q) == IF f[Last(q)] \in Clusters THEN Append(q, f[Last(q)]) ELSE q
Walk(f, c, n, w) == w = [k \in 0 .. n |-> IF k = 0 THEN <<c>> ELSE Longer(f, w[k - 1])]

LEMMA WalkExists == ASSUME NEW f, NEW c, NEW n \in Nat PROVE \E w : Walk(f, c, n, w)
<1>1. PICK T : T = {k \in Nat : ~\E w : Walk(f, c, k, w)}
  OBVIOUS
<1>2. SUFFICES ASSUME T # {} PROVE FALSE
  BY <1>1
<1>3. PICK k \in T : \A j \in T : k <= j
  BY <1>1, <1>2, LeastOf
<1>4. k \in Nat /\ ~\E w : Walk(f, c, k, w)
  BY <1>1
<1>5. CASE k = 0
  <2>1. PICK w : w = [i \in 0 .. 0 |-> <<c>>]
    OBVIOUS
  <2>2. Walk(f, c, 0, w)
    BY <2>1 DEF Walk
  <2> QED BY <1>4, <1>5, <2>2
<1>6. CASE k # 0
  <2>1. PICK j \in Nat : k = j + 1
    BY <1>4, <1>6
  <2>2. j \notin T
    BY <1>3, <2>1
  <2>3. PICK w : Walk(f, c, j, w)
    BY <1>1, <2>2
  <2>4. \A i \in 0 .. j : w[i] = IF i = 0 THEN <<c>> ELSE Longer(f, w[i - 1])
    BY <2>3 DEF Walk
  <2>5. PICK v : v = Longer(f, w[j])
    OBVIOUS
  <2>6. PICK g : g = [i \in 0 .. k |-> IF i = k THEN v ELSE w[i]]
    OBVIOUS
  <2>7. \A i \in 0 .. j : g[i] = w[i]
    BY <2>1, <2>6
  <2>8. ASSUME NEW i \in 0 .. k PROVE g[i] = IF i = 0 THEN <<c>> ELSE Longer(f, g[i - 1])
    <3>1. CASE i = k
      <4>1. g[i] = v /\ i - 1 = j /\ g[j] = w[j] /\ i # 0
        BY <1>6, <2>1, <2>6, <2>7, <3>1
      <4> QED BY <2>5, <3>1, <4>1
    <3>2. CASE i = 0
      BY <2>4, <2>7, <3>2
    <3>3. CASE i \in 1 .. j
      <4>1. i - 1 \in 0 .. j /\ i \in 0 .. j /\ i # 0
        BY <3>3
      <4> QED BY <2>4, <2>7, <4>1
    <3> QED BY <2>1, <3>1, <3>2, <3>3
  <2>9. Walk(f, c, k, g)
    BY <2>6, <2>8 DEF Walk
  <2> QED BY <1>4, <2>9
<1> QED BY <1>5, <1>6

LEMMA ChainIs ==
  ASSUME NEW f, NEW c
  PROVE  \E w : /\ Chain(f, c) = w[LastCluster]
                /\ w[0] = <<c>>
                /\ \A n \in 1 .. LastCluster : w[n] = Longer(f, w[n - 1])
<1> DEFINE W == CHOOSE w : w = [n \in 0 .. LastCluster |-> IF n = 0 THEN <<c>>
                  ELSE IF f[Last(w[n - 1])] \in Clusters
                       THEN Append(w[n - 1], f[Last(w[n - 1])]) ELSE w[n - 1]]
<1>1. Chain(f, c) = W[LastCluster]
  BY Zenon DEF Chain
<1>2. \E w : w = [n \in 0 .. LastCluster |-> IF n = 0 THEN <<c>>
                  ELSE IF f[Last(w[n - 1])] \in Clusters
                       THEN Append(w[n - 1], f[Last(w[n - 1])]) ELSE w[n - 1]]
  <2>0. LastCluster \in Nat
    BY SlotsFit
  <2>1. PICK w : Walk(f, c, LastCluster, w)
    BY <2>0, WalkExists, Zenon
  <2> QED BY <2>1, Zenon DEF Walk, Longer
<1>3. W = [n \in 0 .. LastCluster |-> IF n = 0 THEN <<c>>
                  ELSE IF f[Last(W[n - 1])] \in Clusters
                       THEN Append(W[n - 1], f[Last(W[n - 1])]) ELSE W[n - 1]]
  BY <1>2, Zenon
<1>4. W = [n \in 0 .. LastCluster |-> IF n = 0 THEN <<c>> ELSE Longer(f, W[n - 1])]
  BY <1>3, Zenon DEF Longer
<1> HIDE DEF W
<1>5. W[0] = <<c>> /\ \A n \in 1 .. LastCluster : W[n] = Longer(f, W[n - 1])
  BY <1>4, SlotsFit
<1> QED BY <1>1, <1>5

\* What every stage of the walk is: a path along f from c.
IsPath(f, c, q) ==
  /\ q \in Seq(Clusters) /\ Len(q) > 0
  /\ q[1] = c
  /\ \A i \in 1 .. Len(q) - 1 : f[q[i]] = q[i + 1]

LEMMA LongerPath ==
  ASSUME NEW f \in FatT, NEW c \in Clusters, NEW q, IsPath(f, c, q)
  PROVE  IsPath(f, c, Longer(f, q))
<1> q \in Seq(Clusters) /\ Len(q) \in Nat /\ Len(q) > 0
  BY DEF IsPath
<1>1. Last(q) = q[Len(q)]
  BY DEF Last
<1>2. CASE f[q[Len(q)]] \in Clusters
  <2>1. PICK y \in Clusters : y = f[q[Len(q)]]
    BY <1>2
  <2>2. PICK p : p = Append(q, y)
    OBVIOUS
  <2>3. /\ p \in Seq(Clusters) /\ Len(p) = Len(q) + 1
        /\ p[Len(q) + 1] = y /\ \A i \in 1 .. Len(q) : p[i] = q[i]
    BY <2>2
  <2>4. ASSUME NEW i \in 1 .. Len(p) - 1 PROVE f[p[i]] = p[i + 1]
    <3>1. CASE i = Len(q)
      BY <2>1, <2>3, <3>1
    <3>2. CASE i \in 1 .. Len(q) - 1
      BY <2>3, <3>2 DEF IsPath
    <3> QED BY <2>3, <3>1, <3>2
  <2>5. p[1] = c
    BY <2>3 DEF IsPath
  <2>6. IsPath(f, c, p)
    BY <2>3, <2>4, <2>5 DEF IsPath
  <2> QED BY <1>1, <1>2, <2>1, <2>2, <2>6 DEF Longer
<1>3. CASE f[q[Len(q)]] \notin Clusters
  BY <1>1, <1>3 DEF Longer
<1> QED BY <1>2, <1>3

LEMMA ChainPath ==
  ASSUME NEW f \in FatT, NEW c \in Clusters
  PROVE  IsPath(f, c, Chain(f, c))
<1>1. PICK w : /\ Chain(f, c) = w[LastCluster]
               /\ w[0] = <<c>>
               /\ \A n \in 1 .. LastCluster : w[n] = Longer(f, w[n - 1])
  BY ZenonT(60), ChainIs
<1>2. LastCluster \in Nat
  BY SlotsFit
<1>3. PICK T : T = {k \in Nat : k <= LastCluster /\ ~IsPath(f, c, w[k])}
  OBVIOUS
<1>4. SUFFICES ASSUME T # {} PROVE FALSE
  BY <1>1, <1>2, <1>3
<1>5. PICK k \in T : \A j \in T : k <= j
  BY <1>3, <1>4, LeastOf
<1>6. k \in 0 .. LastCluster /\ ~IsPath(f, c, w[k])
  BY <1>2, <1>3
<1>7. k # 0
  <2>1. IsPath(f, c, <<c>>)
    BY DEF IsPath
  <2> QED BY <1>1, <1>6, <2>1
<1>8. k - 1 \notin T /\ k - 1 \in 0 .. LastCluster /\ k \in 1 .. LastCluster
  BY <1>2, <1>5, <1>6, <1>7
<1>9. IsPath(f, c, w[k - 1])
  BY <1>2, <1>3, <1>8
<1>10. w[k] = Longer(f, w[k - 1])
  BY <1>1, <1>8
<1> QED BY <1>6, <1>9, <1>10, LongerPath

LEMMA EndsIsChain ==
  ASSUME NEW f \in FatT, NEW c \in Clusters, Ends(f, c)
  PROVE  IsChain(f, c, Chain(f, c))
<1>1. PICK q : q = Chain(f, c)
  OBVIOUS
<1>2. IsPath(f, c, q)
  BY <1>1, ChainPath
<1>3. f[q[Len(q)]] = Eoc
  BY <1>1 DEF Ends, Last
<1> QED BY <1>1, <1>2, <1>3 DEF IsPath, IsChain

LEMMA ChainInjective ==
  ASSUME NEW f \in FatT, NEW c, NEW q, IsChain(f, c, q),
         NEW i \in 1 .. Len(q), NEW j \in 1 .. Len(q), q[i] = q[j]
  PROVE  i = j
<1> q \in Seq(Clusters) /\ Len(q) \in Nat
  BY DEF IsChain
<1>1. ASSUME NEW a \in 1 .. Len(q), NEW b \in 1 .. Len(q), q[a] = q[b], a < b PROVE FALSE
  <2>1. PICK T : T = {k \in Nat : b + k <= Len(q) /\ q[a + k] # q[b + k]}
    OBVIOUS
  <2>2. T = {}
    <3>1. SUFFICES ASSUME T # {} PROVE FALSE
      OBVIOUS
    <3>2. PICK k \in T : \A m \in T : k <= m
      BY <2>1, <3>1, LeastOf
    <3>3. k \in Nat /\ b + k <= Len(q) /\ q[a + k] # q[b + k]
      BY <2>1
    <3>4. k # 0
      BY <1>1, <3>3
    <3>5. k - 1 \in Nat /\ k - 1 \notin T
      BY <3>2, <3>3, <3>4
    <3>6. q[a + (k - 1)] = q[b + (k - 1)]
      BY <2>1, <3>3, <3>5
    <3>7. /\ a + (k - 1) \in 1 .. Len(q) - 1 /\ (a + (k - 1)) + 1 = a + k
          /\ b + (k - 1) \in 1 .. Len(q) - 1 /\ (b + (k - 1)) + 1 = b + k
      BY <1>1, <3>3, <3>5
    <3>8. f[q[a + (k - 1)]] = q[a + k] /\ f[q[b + (k - 1)]] = q[b + k]
      BY <3>7 DEF IsChain
    <3> QED BY <3>3, <3>6, <3>8
  <2>3. PICK k \in Nat : k = Len(q) - b
    BY <1>1
  <2>4. q[a + k] = q[Len(q)]
    <3>1. k \notin T /\ b + k = Len(q)
      BY <2>2, <2>3
    <3> QED BY <2>1, <3>1
  <2>5. a + k \in 1 .. Len(q) - 1 /\ (a + k) + 1 \in 1 .. Len(q)
    BY <1>1, <2>3
  <2>6. f[q[a + k]] = q[(a + k) + 1] /\ q[(a + k) + 1] \in Clusters
    BY SMTT(30), <2>5 DEF IsChain
  <2>7. f[q[Len(q)]] = Eoc
    BY DEF IsChain
  <2> QED BY <2>4, <2>6, <2>7 DEF Clusters, Eoc
<1> QED BY <1>1

LEMMA ChainShort ==
  ASSUME NEW f \in FatT, NEW c \in Clusters, NEW q, IsChain(f, c, q)
  PROVE  Len(q) <= LastCluster
<1>0. LastCluster \in Nat
  BY SlotsFit
<1> q \in Seq(Clusters) /\ Len(q) \in Nat
  BY DEF IsChain
<1>1. IsFiniteSet(Clusters) /\ Cardinality(Clusters) <= LastCluster
  <2>1. IsFiniteSet(2 .. LastCluster)
        /\ Cardinality(2 .. LastCluster) = IF 2 > LastCluster THEN 0 ELSE LastCluster - 2 + 1
    BY <1>0, FS_Interval, 2 \in Int, LastCluster \in Int
  <2> QED BY <1>0, <2>1 DEF Clusters
<1>2. IsFiniteSet(1 .. Len(q)) /\ Cardinality(1 .. Len(q)) = Len(q)
  <2>1. IsFiniteSet(1 .. Len(q))
        /\ Cardinality(1 .. Len(q)) = IF 1 > Len(q) THEN 0 ELSE Len(q) - 1 + 1
    BY FS_Interval, 1 \in Int, Len(q) \in Int
  <2> QED BY <2>1
<1>3. q \in Injection(1 .. Len(q), Clusters)
  <2>1. q \in [1 .. Len(q) -> Clusters]
    OBVIOUS
  <2> QED BY <2>1, ChainInjective DEF Injection, IsInjective
<1>4. Cardinality(1 .. Len(q)) <= Cardinality(Clusters)
  BY <1>1, <1>3, FS_Injection DEF ExistsInjection
<1>5. Cardinality(Clusters) \in Nat
  BY <1>1, FS_CardinalityType
<1> QED BY <1>0, <1>1, <1>2, <1>4, <1>5


LEMMA ChainUnique ==
  ASSUME NEW f \in FatT, NEW c \in Clusters, NEW q, IsChain(f, c, q)
  PROVE  Chain(f, c) = q /\ Ends(f, c)
<1>0. LastCluster \in Nat \ {0} /\ Len(q) <= LastCluster
  BY SlotsFit, ChainShort
<1> q \in Seq(Clusters) /\ Len(q) \in Nat \ {0}
  BY DEF IsChain
<1>1. PICK w : /\ Chain(f, c) = w[LastCluster]
               /\ w[0] = <<c>>
               /\ \A n \in 1 .. LastCluster : w[n] = Longer(f, w[n - 1])
  BY ZenonT(60), ChainIs
<1> DEFINE Reach(k) == IF k + 1 <= Len(q) THEN k + 1 ELSE Len(q)
<1>3. PICK T : T = {k \in Nat : k <= LastCluster /\ w[k] # SubSeq(q, 1, Reach(k))}
  OBVIOUS
<1>4. T = {}
  <2>1. SUFFICES ASSUME T # {} PROVE FALSE
    OBVIOUS
  <2>2. PICK k \in T : \A j \in T : k <= j
    BY <1>3, <2>1, LeastOf
  <2>3. k \in 0 .. LastCluster /\ w[k] # SubSeq(q, 1, Reach(k))
    BY <1>0, <1>3
  <2>4. k # 0
    <3>1. SubSeq(q, 1, 1) = <<c>>
      <4>1. PICK p : p = SubSeq(q, 1, 1)
        OBVIOUS
      <4>2. p \in Seq(Clusters) /\ Len(p) = 1 /\ p[1] = c
        BY <4>1 DEF IsChain
      <4>3. p \in [1 .. 1 -> Clusters] /\ <<c>> \in [1 .. 1 -> Clusters] /\ <<c>>[1] = c
        BY <4>2
      <4>4. \A i \in 1 .. 1 : p[i] = <<c>>[i]
        BY <4>2, <4>3
      <4>5. p = <<c>>
        BY <4>3, <4>4
      <4> QED BY <4>1, <4>5
    <3>2. Reach(0) = 1
      OBVIOUS
    <3> QED BY <1>1, <2>3, <3>1, <3>2
  <2>5. k - 1 \notin T /\ k - 1 \in 0 .. LastCluster /\ k \in 1 .. LastCluster /\ k - 1 \in Nat
    BY <1>0, <2>2, <2>3, <2>4
  <2>6. PICK m \in 1 .. Len(q) : m = Reach(k - 1)
    BY <2>5
  <2>7. PICK p : p = SubSeq(q, 1, m)
    OBVIOUS
  <2>8. w[k - 1] = p
    BY <1>0, <1>3, <2>5, <2>6, <2>7
  <2>9. w[k] = Longer(f, p)
    BY <1>1, <2>5, <2>8
  <2>10. p \in Seq(Clusters) /\ Len(p) = m /\ Last(p) = q[m]
    BY <2>6, <2>7 DEF Last
  <2>11. CASE m < Len(q)
    <3>1. f[q[m]] = q[m + 1] /\ q[m + 1] \in Clusters
      BY <2>11 DEF IsChain
    <3>2. Longer(f, p) = Append(p, q[m + 1])
      BY <2>10, <3>1 DEF Longer
    <3>3. Append(p, q[m + 1]) = SubSeq(q, 1, m + 1)
      BY <2>6, <2>7, <2>10, <2>11
    <3>4. Reach(k) = m + 1
      BY <2>5, <2>6, <2>11
    <3> QED BY <2>3, <2>9, <3>2, <3>3, <3>4
  <2>12. CASE m = Len(q)
    <3>1. f[q[m]] \notin Clusters
      BY <2>12 DEF IsChain, Clusters, Eoc
    <3>2. Longer(f, p) = p
      BY <2>10, <3>1 DEF Longer
    <3>3. Reach(k) = m
      BY <2>5, <2>6, <2>12
    <3> QED BY <2>3, <2>7, <2>9, <3>2, <3>3
  <2> QED BY <2>6, <2>11, <2>12
<1>5. w[LastCluster] = SubSeq(q, 1, Reach(LastCluster))
  BY <1>0, <1>3, <1>4
<1>6. Reach(LastCluster) = Len(q) /\ SubSeq(q, 1, Len(q)) = q
  BY <1>0
<1>7. Chain(f, c) = q
  BY <1>1, <1>5, <1>6
<1> QED BY <1>7 DEF Ends, Last, IsChain

\* What a chain is when it ends, in one statement.
LEMMA ChainFacts ==
  ASSUME NEW f \in FatT, NEW c \in Clusters, Ends(f, c)
  PROVE  /\ Chain(f, c) \in Seq(Clusters)
         /\ Len(Chain(f, c)) \in 1 .. LastCluster
         /\ Chain(f, c)[1] = c
         /\ Last(Chain(f, c)) = Chain(f, c)[Len(Chain(f, c))]
         /\ \A i, j \in 1 .. Len(Chain(f, c)) : Chain(f, c)[i] = Chain(f, c)[j] => i = j
         /\ \A x \in Range(Chain(f, c)) : x \in Clusters /\ f[x] # Free
         /\ IsChain(f, c, Chain(f, c))
<1>1. PICK q : q = Chain(f, c)
  OBVIOUS
<1>2. IsChain(f, c, q)
  BY <1>1, EndsIsChain
<1>3. q \in Seq(Clusters) /\ Len(q) \in 1 .. LastCluster /\ q[1] = c
  BY <1>2, ChainShort, SlotsFit DEF IsChain
<1>4. \A i, j \in 1 .. Len(q) : q[i] = q[j] => i = j
  BY <1>2, ChainInjective
<1>5. ASSUME NEW x \in Range(q) PROVE x \in Clusters /\ f[x] # Free
  <2>1. PICK i \in 1 .. Len(q) : x = q[i]
    BY <1>3 DEF Range
  <2>2. CASE i = Len(q)
    BY <1>2, <1>3, <2>1, <2>2 DEF IsChain, Eoc, Free
  <2>3. CASE i \in 1 .. Len(q) - 1
    <3>1. f[q[i]] = q[i + 1] /\ q[i + 1] \in Clusters /\ q[i] \in Clusters
      BY <1>2, <1>3, <2>3 DEF IsChain
    <3> QED BY <2>1, <3>1 DEF Clusters, Free
  <2> QED BY <1>3, <2>1, <2>2, <2>3
<1> QED BY <1>1, <1>2, <1>3, <1>4, <1>5 DEF Last

\* Another FAT that has the same entries along a chain has that chain.
LEMMA ChainFrame ==
  ASSUME NEW f \in FatT, NEW g \in FatT, NEW c \in Clusters, Ends(f, c),
         \A x \in Range(Chain(f, c)) : g[x] = f[x]
  PROVE  Chain(g, c) = Chain(f, c) /\ Ends(g, c)
<1>1. PICK q : q = Chain(f, c)
  OBVIOUS
<1>2. IsChain(f, c, q) /\ q \in Seq(Clusters) /\ Len(q) \in Nat
  BY <1>1, EndsIsChain DEF IsChain
<1>3. \A i \in 1 .. Len(q) : g[q[i]] = f[q[i]]
  BY <1>1, <1>2 DEF Range
<1>4. IsChain(g, c, q)
  BY <1>2, <1>3 DEF IsChain
<1> QED BY <1>1, <1>4, ChainUnique


-----------------------------------------------------------------------------
(* The clusters find_free_clusters finds are free and distinct.            *)

More(f, c, q) == IF f[c] = Free THEN Append(q, c) ELSE q
Scan(f, n, u) == u = [c \in 1 .. n |-> IF c = 1 THEN <<>> ELSE More(f, c, u[c - 1])]

LEMMA ScanExists == ASSUME NEW f, NEW n \in Nat PROVE \E u : Scan(f, n, u)
<1>1. PICK T : T = {k \in Nat : ~\E u : Scan(f, k, u)}
  OBVIOUS
<1>2. SUFFICES ASSUME T # {} PROVE FALSE
  BY <1>1
<1>3. PICK k \in T : \A j \in T : k <= j
  BY <1>1, <1>2, LeastOf
<1>4. k \in Nat /\ ~\E u : Scan(f, k, u)
  BY <1>1
<1>5. CASE k = 0
  <2>1. PICK u : u = [i \in 1 .. 0 |-> <<>>]
    OBVIOUS
  <2>2. Scan(f, 0, u)
    BY <2>1 DEF Scan
  <2> QED BY <1>4, <1>5, <2>2
<1>6. CASE k # 0
  <2>1. PICK j \in Nat : k = j + 1
    BY <1>4, <1>6
  <2>2. j \notin T
    BY <1>3, <2>1
  <2>3. PICK u : Scan(f, j, u)
    BY <1>1, <2>2
  <2>4. \A i \in 1 .. j : u[i] = IF i = 1 THEN <<>> ELSE More(f, i, u[i - 1])
    BY <2>3 DEF Scan
  <2>5. PICK v : v = IF k = 1 THEN <<>> ELSE More(f, k, u[j])
    OBVIOUS
  <2>6. PICK g : g = [i \in 1 .. k |-> IF i = k THEN v ELSE u[i]]
    OBVIOUS
  <2>7. \A i \in 1 .. j : g[i] = u[i]
    BY <2>1, <2>6
  <2>8. ASSUME NEW i \in 1 .. k PROVE g[i] = IF i = 1 THEN <<>> ELSE More(f, i, g[i - 1])
    <3>1. CASE i = k /\ k # 1
      <4>1. g[i] = v /\ i - 1 = j /\ g[j] = u[j] /\ i # 1
        BY <1>6, <2>1, <2>6, <2>7, <3>1
      <4> QED BY <2>5, <3>1, <4>1
    <3>2. CASE i = k /\ k = 1
      BY <2>5, <2>6, <3>2
    <3>3. CASE i \in 1 .. j /\ i = 1
      BY <2>4, <2>7, <3>3
    <3>4. CASE i \in 2 .. j
      <4>1. i - 1 \in 1 .. j /\ i \in 1 .. j /\ i # 1
        BY <3>4
      <4> QED BY <2>4, <2>7, <4>1
    <3> QED BY <2>1, <3>1, <3>2, <3>3, <3>4
  <2>9. Scan(f, k, g)
    BY <2>6, <2>8 DEF Scan
  <2> QED BY <1>4, <2>9
<1> QED BY <1>5, <1>6

LEMMA FreeIs ==
  ASSUME NEW f
  PROVE  \E u : /\ FreeClusters(f) = u[LastCluster]
                /\ u[1] = <<>>
                /\ \A c \in 2 .. LastCluster : u[c] = More(f, c, u[c - 1])
<1> DEFINE W == CHOOSE u : u = [c \in 1 .. LastCluster |-> IF c = 1 THEN <<>>
                  ELSE IF f[c] = Free THEN Append(u[c - 1], c) ELSE u[c - 1]]
<1>1. FreeClusters(f) = W[LastCluster]
  BY Zenon DEF FreeClusters
<1>2. \E u : u = [c \in 1 .. LastCluster |-> IF c = 1 THEN <<>>
                  ELSE IF f[c] = Free THEN Append(u[c - 1], c) ELSE u[c - 1]]
  <2>0. LastCluster \in Nat
    BY SlotsFit
  <2>1. PICK u : Scan(f, LastCluster, u)
    BY <2>0, ScanExists, Zenon
  <2> QED BY <2>1, Zenon DEF Scan, More
<1>3. W = [c \in 1 .. LastCluster |-> IF c = 1 THEN <<>>
                  ELSE IF f[c] = Free THEN Append(W[c - 1], c) ELSE W[c - 1]]
  BY <1>2, Zenon
<1>4. W = [c \in 1 .. LastCluster |-> IF c = 1 THEN <<>> ELSE More(f, c, W[c - 1])]
  BY <1>3, Zenon DEF More
<1> HIDE DEF W
<1>5. W[1] = <<>> /\ \A c \in 2 .. LastCluster : W[c] = More(f, c, W[c - 1])
  BY <1>4, SlotsFit
<1> QED BY <1>1, <1>5

\* What the scan has found when it has looked at the clusters up to n.
FoundUpTo(f, n, q) ==
  /\ q \in Seq(Clusters)
  /\ \A i \in 1 .. Len(q) : f[q[i]] = Free /\ q[i] <= n
  /\ \A i, j \in 1 .. Len(q) : i < j => q[i] < q[j]

LEMMA MoreFound ==
  ASSUME NEW f, NEW n \in Clusters, NEW q, FoundUpTo(f, n - 1, q)
  PROVE  FoundUpTo(f, n, More(f, n, q))
<1> q \in Seq(Clusters) /\ Len(q) \in Nat /\ n \in Nat
  BY SlotsFit DEF FoundUpTo, Clusters
<1>0. \A i \in 1 .. Len(q) : q[i] \in Clusters /\ q[i] \in Nat /\ q[i] < n /\ f[q[i]] = Free
  <2>1. \A i \in 1 .. Len(q) : q[i] \in Clusters /\ q[i] <= n - 1 /\ f[q[i]] = Free
    BY DEF FoundUpTo
  <2>2. \A c \in Clusters : c \in Nat
    BY SlotsFit DEF Clusters
  <2>3. ASSUME NEW i \in 1 .. Len(q) PROVE q[i] \in Nat /\ q[i] < n
    <3>1. q[i] \in Nat /\ q[i] <= n - 1
      BY <2>1, <2>2
    <3> QED BY <3>1
  <2> QED BY <2>1, <2>3
<1>1. CASE f[n] = Free
  <2>2. PICK p : p = Append(q, n)
    OBVIOUS
  <2>3. /\ p \in Seq(Clusters) /\ Len(p) = Len(q) + 1
        /\ p[Len(q) + 1] = n /\ \A i \in 1 .. Len(q) : p[i] = q[i]
    BY <2>2
  <2>4. \A i \in 1 .. Len(p) : f[p[i]] = Free /\ p[i] <= n
    BY <1>0, <1>1, <2>3
  <2>5. \A i, j \in 1 .. Len(p) : i < j => p[i] < p[j]
    BY SMTT(30), <1>0, <2>3 DEF FoundUpTo
  <2>6. FoundUpTo(f, n, p)
    BY <2>3, <2>4, <2>5 DEF FoundUpTo
  <2> QED BY <1>1, <2>2, <2>6 DEF More
<1>2. CASE f[n] # Free
  <2>1. FoundUpTo(f, n, q)
    BY <1>0 DEF FoundUpTo
  <2> QED BY <1>2, <2>1 DEF More
<1> QED BY <1>1, <1>2

LEMMA FreeFacts ==
  ASSUME NEW f
  PROVE  /\ FreeClusters(f) \in Seq(Clusters)
         /\ \A i \in 1 .. Len(FreeClusters(f)) : f[FreeClusters(f)[i]] = Free
         /\ \A i, j \in 1 .. Len(FreeClusters(f)) :
                FreeClusters(f)[i] = FreeClusters(f)[j] => i = j
<1>0. LastCluster \in Nat \ {0}
  BY SlotsFit
<1>1. PICK u : /\ FreeClusters(f) = u[LastCluster]
               /\ u[1] = <<>>
               /\ \A c \in 2 .. LastCluster : u[c] = More(f, c, u[c - 1])
  BY FreeIs
<1>2. PICK T : T = {c \in Nat : c \in 1 .. LastCluster /\ ~FoundUpTo(f, c, u[c])}
  OBVIOUS
<1>3. T = {}
  <2>1. SUFFICES ASSUME T # {} PROVE FALSE
    OBVIOUS
  <2>2. PICK c \in T : \A j \in T : c <= j
    BY <1>2, <2>1, LeastOf
  <2>3. c \in 1 .. LastCluster /\ ~FoundUpTo(f, c, u[c])
    BY <1>2
  <2>4. CASE c = 1
    <3>1. FoundUpTo(f, 1, <<>>)
      BY DEF FoundUpTo
    <3> QED BY <1>1, <2>3, <2>4, <3>1
  <2>5. CASE c # 1
    <3>1. c \in 2 .. LastCluster /\ c - 1 \in 1 .. LastCluster /\ c - 1 \in Nat /\ c - 1 \notin T
      BY <1>0, <2>2, <2>3, <2>5
    <3>2. FoundUpTo(f, c - 1, u[c - 1])
      BY <1>2, <3>1
    <3>3. FoundUpTo(f, c, More(f, c, u[c - 1]))
      BY <3>1, <3>2, MoreFound DEF Clusters
    <3> QED BY <1>1, <2>3, <3>1, <3>3
  <2> QED BY <2>4, <2>5
<1>4. FoundUpTo(f, LastCluster, FreeClusters(f))
  BY <1>0, <1>1, <1>2, <1>3
<1>5. PICK q : q = FreeClusters(f)
  OBVIOUS
<1>6. q \in Seq(Clusters) /\ \A i, j \in 1 .. Len(q) : i < j => q[i] < q[j]
  BY <1>4, <1>5 DEF FoundUpTo
<1>7. \A i \in 1 .. Len(q) : q[i] \in Int
  <2>1. \A c \in Clusters : c \in Int
    BY SlotsFit DEF Clusters
  <2> QED BY <1>6, <2>1
<1>8. \A i, j \in 1 .. Len(q) : q[i] = q[j] => i = j
  BY <1>6, <1>7
<1> QED BY <1>4, <1>5, <1>8 DEF FoundUpTo


-----------------------------------------------------------------------------
(* The invariant.  It speaks of places (slots on the disk) rather than of  *)
(* listings: a place holds an entry, a cluster belongs to the entry whose  *)
(* chain it is in.  s, f and g are a disk, its FAT and a cached FAT, x the *)
(* places of the entries left out of account.                              *)

Kinds == {"unused", "deleted", "lfn", "dot", "short", "data"}
Words == {""} \cup Names \cup Range(Aliases) \cup Blocks
SlotT ==
  {v \in [kind : Kinds, name : Words, sum : Nat, dir : BOOLEAN, start : Int, size : Nat] :
     /\ v.kind = "short" => v.name \in ShortNames \cup Range(Aliases)
     /\ v.kind = "lfn" => v.name \in LongNames}

Width(c) == IF c = Root THEN RootSlots ELSE SlotsPerCluster
Places == {l \in (Clusters \cup {Root}) \X Nat : l[2] \in 1 .. Width(l[1])}
ClusterT == [1 .. SlotsPerCluster -> SlotT]
DiskT == {s \in [Clusters \cup {Root} -> ClusterT \cup [1 .. RootSlots -> SlotT]] :
            \A c \in Clusters \cup {Root} : s[c] \in [1 .. Width(c) -> SlotT]}

\* Directory k is the root (0) or the one named in slot k of the root.
DirAt(s, x, k) ==
  /\ k \in 0 .. RootSlots
  /\ <<Root, k>> \notin x
  /\ k # 0 => Kind(s, <<Root, k>>) = "short" /\ At(s, <<Root, k>>).dir

HeadOf(s, k) == IF k = 0 THEN Root ELSE At(s, <<Root, k>>).start
Ls(s, f, k) == Locs(f, HeadOf(s, k))
Span(s, f, k) == IF k = 0 THEN {Root} ELSE Range(Chain(f, HeadOf(s, k)))

EntAt(s, f, x, l) ==
  /\ l \in Places /\ l \notin x
  /\ Kind(s, l) = "short"
  /\ \E k \in 0 .. RootSlots : DirAt(s, x, k) /\ l[1] \in Span(s, f, k)

ClustersOf(s, f, l) == Range(Chain(f, At(s, l).start))
Owned(s, f, x, c) == \E l \in Places : EntAt(s, f, x, l) /\ c \in ClustersOf(s, f, l)

\* As many clusters as a size asks for.
Clus(n) == IF n = 0 THEN 1 ELSE n

\* The entry at l has a chain that ends and that the cache knows.
Held(s, f, g, l) ==
  /\ At(s, l).start \in Clusters
  /\ Ends(f, At(s, l).start)
  /\ \A c \in ClustersOf(s, f, l) : g[c] = f[c]
  /\ ~At(s, l).dir => Len(Chain(f, At(s, l).start)) = Clus(At(s, l).size)

NoGap(s, ls) ==
  \A i, j \in DOMAIN ls : i < j /\ Kind(s, ls[i]) = "unused" => Kind(s, ls[j]) = "unused"

Safe(s, f, g, x) ==
  /\ \A l \in Places : EntAt(s, f, x, l) => Held(s, f, g, l)
  /\ \A l, m \in Places : EntAt(s, f, x, l) /\ EntAt(s, f, x, m) /\ l # m =>
        ClustersOf(s, f, l) \cap ClustersOf(s, f, m) = {}
  /\ \A k \in 0 .. RootSlots : DirAt(s, x, k) => NoGap(s, Ls(s, f, k))

\* In its directory, nothing before l ends the listing, once P is written.
Before(s, f, x, l, P) ==
  \A k \in 0 .. RootSlots : DirAt(s, x, k) =>
    \A i, j \in DOMAIN Ls(s, f, k) : Ls(s, f, k)[i] = l /\ j < i =>
        Kind(s, Ls(s, f, k)[j]) # "unused" \/ Ls(s, f, k)[j] \in P

WriteT ==
  [to : {"fat"}, at : Clusters, val : Clusters \cup {Free, Eoc}]
    \cup [to : {"data"}, at : Clusters, val : ClusterT]
    \cup [to : {"slot"}, at : Places, val : SlotT]

\* A write that touches nothing an entry outside x owns.
Harmless(s, f, x, w) ==
  /\ w.to # "slot" => ~Owned(s, f, x, w.at)
  /\ w.to = "slot" => /\ w.val.kind \in {"lfn", "deleted"}
                      /\ ~EntAt(s, f, x, w.at)
                      /\ Before(s, f, x, w.at, {})

\* f has, or will have once ws is written, the chain q.
Link(q, i) == IF i < Len(q) THEN q[i + 1] ELSE Eoc
Coming(f, ws, q) ==
  \A i \in DOMAIN q :
    /\ \A j \in DOMAIN ws : ws[j].to = "fat" /\ ws[j].at = q[i] => ws[j].val = Link(q, i)
    /\ f[q[i]] = Link(q, i) \/ \E j \in DOMAIN ws : ws[j].to = "fat" /\ ws[j].at = q[i]

\* Nothing but dots, and behind them unused slots.
Bare(b) ==
  /\ \A j \in 1 .. SlotsPerCluster : b[j].kind \in {"dot", "unused"}
  /\ \A i, j \in 1 .. SlotsPerCluster : i < j /\ b[i].kind = "unused" => b[j].kind = "unused"
BareComing(s, ws, c) ==
  /\ \A j \in DOMAIN ws : ws[j].to = "data" /\ ws[j].at = c => Bare(ws[j].val)
  /\ \A j \in DOMAIN ws : ws[j].to = "slot" => ws[j].at[1] = Root
  /\ Bare(s[c]) \/ \E j \in DOMAIN ws : ws[j].to = "data" /\ ws[j].at = c

\* The places the writes ws before the last one go to.
Earlier(ws) == {ws[i].at : i \in {j \in 1 .. Len(ws) - 1 : ws[j].to = "slot"}}

\* The write w, last of ws, puts an entry on the disk whose clusters will be q.
PutsEntry(s, f, g, x, ws, w, q) ==
  /\ w.to = "slot" /\ w.val.kind = "short"
  /\ Len(q) > 0 /\ q[1] = w.val.start
  /\ Coming(f, ws, q) /\ Coming(g, ws, q)
  /\ \A i \in DOMAIN q : ~Owned(s, f, x, q[i])
  /\ ~w.val.dir => Len(q) = Clus(w.val.size)
  /\ ~EntAt(s, f, x, w.at)
  /\ Before(s, f, x, w.at, Earlier(ws))
  /\ w.val.dir => w.at[1] = Root /\ Len(q) = 1 /\ BareComing(s, ws, q[1])

\* It marks one deleted.
Deletes(s, f, x, w) == w.to = "slot" /\ w.val.kind = "deleted" /\ Harmless(s, f, x, w)

Finish(s, f, g, x, ws) ==
  \/ \E q \in Seq(Clusters) : PutsEntry(s, f, g, x, ws, ws[Len(ws)], q)
  \/ Deletes(s, f, x, ws[Len(ws)])

\* With ws still to be written: the volume is sound but for the places in y, and
\* will be but for those in x.
Ready(s, f, g, ws, x, y) ==
  /\ x \subseteq y /\ y \subseteq Places
  /\ Safe(s, f, g, y)
  /\ \A i \in 1 .. Len(ws) - 1 : Harmless(s, f, y, ws[i])
  /\ ws = <<>> => y = x
  /\ ws # <<>> => /\ y \subseteq x \cup {ws[Len(ws)].at}
                  /\ Finish(s, f, g, y, ws)

\* Every cluster in use belongs to an entry outside x.
Tight(s, f, x) == \A c \in Clusters : f[c] # Free => Owned(s, f, x, c)

\* Once ws is written every cluster in use will belong to an entry: it does, or is in
\* Q, or is going to be freed; and none but those in Q will come into use.
Covers(s, f, ws, y, Q) ==
  /\ \A c \in Clusters : f[c] # Free =>
        \/ Owned(s, f, y, c) \/ c \in Q
        \/ \E j \in DOMAIN ws : ws[j].to = "fat" /\ ws[j].at = c /\ ws[j].val = Free
  /\ \A j \in DOMAIN ws : ws[j].to = "fat" => ws[j].val = Free \/ ws[j].at \in Q

\* l is in a directory.
Homed(s, f, x, l) == \E k \in 0 .. RootSlots : DirAt(s, x, k) /\ l[1] \in Span(s, f, k)

\* The entry ws puts on the disk takes what Q is for.
Covered(s, f, g, ws, y) ==
  \/ ws = <<>> /\ Covers(s, f, ws, y, {})
  \/ ws # <<>> /\ Deletes(s, f, y, ws[Len(ws)]) /\ Covers(s, f, ws, y, {})
  \/ ws # <<>> /\ \E q \in Seq(Clusters) : /\ PutsEntry(s, f, g, y, ws, ws[Len(ws)], q)
                                           /\ Homed(s, f, y, ws[Len(ws)].at)
                                           /\ Covers(s, f, ws, y, Range(q))

\* The three writes of grow_directory, before the first, second and third.
GrowsA(last, new, ws, h) ==
  /\ Len(ws) = op.left + 2
  /\ ws[1] = DataW(new, Zeroed) /\ ws[2] = FatW(last, new) /\ ws[3] = FatW(new, Eoc)
  /\ Ready([disk EXCEPT ![new] = Zeroed], GrownFat(fat, last, new), GrownFat(cache, last, new),
           Tail(Tail(Tail(ws))), lost, lost)
  /\ ~Owned(disk, fat, lost, new) /\ ~Owned(disk, fat, lost \cup {h.loc}, last)
GrowsB(last, new, ws, h) ==
  /\ Len(ws) = op.left + 1
  /\ ws[1] = FatW(last, new) /\ ws[2] = FatW(new, Eoc)
  /\ Ready(disk, GrownFat(fat, last, new), GrownFat(cache, last, new), Tail(Tail(ws)), lost, lost)
  /\ ~Owned(disk, fat, lost, new) /\ ~Owned(disk, fat, lost \cup {h.loc}, last)
GrowsC(new, ws, h) ==
  /\ Len(ws) = op.left
  /\ ws[1] = FatW(new, Eoc)
  /\ Ready(disk, [fat EXCEPT ![new] = Eoc], [cache EXCEPT ![new] = Eoc], Tail(ws), lost, lost)
  /\ ~Owned(disk, fat, lost \cup {h.loc}, new)

Growing(h) ==
  /\ op.grown = {h} /\ op.victim = {} /\ h.loc \in Places /\ op.left > 0
  /\ \E last, new \in Clusters : \/ last # new /\ GrowsA(last, new, op.writes, h)
                                 \/ last # new /\ GrowsB(last, new, op.writes, h)
                                 \/ GrowsC(new, op.writes, h)

IsPlan(p) == p = [writes |-> p.writes, gone |-> p.gone, made |-> p.made,
                  victim |-> p.victim, grown |-> p.grown, left |-> p.left]

Going ==
  /\ IsPlan(op) /\ op.writes \in Seq(WriteT) /\ op.writes # <<>> /\ op.left \in Nat
  /\ \/ /\ op.grown = {} \/ (op.victim = {} /\ Len(op.writes) < op.left)
        /\ Ready(disk, fat, cache, op.writes, lost, lost \cup {h.loc : h \in op.victim})
     \/ \E h \in op.grown : Growing(h)

\* The inductive invariant.
SoundInv ==
  /\ disk \in DiskT /\ fat \in FatT /\ cache \in FatT /\ lost \subseteq Places
  /\ failures \in 0 .. MaxFailures
  /\ Safe(disk, fat, cache, Damaged)
  /\ op # Idle => Going


\* The clusters the volume will have in use when the operation under way is done; while
\* a directory grows, of the volume as it will be with its new cluster.
NeatGrowing ==
  \A last, new \in Clusters :
    /\ Len(op.writes) = op.left + 2 /\ op.writes[1] = DataW(new, Zeroed) /\ op.writes[2] = FatW(last, new) =>
         Covered([disk EXCEPT ![new] = Zeroed], GrownFat(fat, last, new), GrownFat(cache, last, new),
                 Tail(Tail(Tail(op.writes))), lost)
    /\ Len(op.writes) = op.left + 1 /\ op.writes[1] = FatW(last, new) =>
         Covered(disk, GrownFat(fat, last, new), GrownFat(cache, last, new), Tail(Tail(op.writes)), lost)
    /\ Len(op.writes) = op.left /\ op.writes[1] = FatW(new, Eoc) =>
         Covered(disk, [fat EXCEPT ![new] = Eoc], [cache EXCEPT ![new] = Eoc], Tail(op.writes), lost)

Neat ==
  /\ op.grown # {} /\ Len(op.writes) >= op.left => NeatGrowing
  /\ ~(op.grown # {} /\ Len(op.writes) >= op.left) =>
       Covered(disk, fat, cache, op.writes, lost \cup {h.loc : h \in op.victim})

\* Before the first failure nothing has leaked.
LeakInv ==
  failures = 0 => /\ lost = {}
                  /\ op = Idle => Tight(disk, fat, lost)
                  /\ op # Idle => Neat


-----------------------------------------------------------------------------
(* Places, and what a write does to them.                                  *)

LEMMA PlaceFacts ==
  /\ Root \notin Clusters
  /\ \A k \in 1 .. RootSlots : <<Root, k>> \in Places
  /\ <<Root, 0>> \notin Places
  /\ \A l \in Places : l = <<l[1], l[2]>> /\ l[1] \in Clusters \cup {Root} /\ l[2] \in 1 .. Width(l[1])
  /\ \A c \in Clusters, j \in 1 .. SlotsPerCluster : <<c, j>> \in Places
  /\ \A l \in Places : l[1] = Root => l[2] \in 1 .. RootSlots /\ l = <<Root, l[2]>>
<1>1. Root \notin Clusters
  BY DEF Root, Clusters
<1>2. RootSlots \in Nat /\ SlotsPerCluster \in Nat
  BY SlotsFit
<1>3. \A k \in 1 .. RootSlots : <<Root, k>> \in Places
  BY <1>2 DEF Places, Width
<1>4. <<Root, 0>> \notin Places
  BY <1>2 DEF Places, Width
<1>5. \A l \in Places : l = <<l[1], l[2]>> /\ l[1] \in Clusters \cup {Root} /\ l[2] \in 1 .. Width(l[1])
  BY DEF Places
<1>6. \A c \in Clusters, j \in 1 .. SlotsPerCluster : <<c, j>> \in Places
  BY <1>1, <1>2 DEF Places, Width
<1> QED BY <1>1, <1>3, <1>4, <1>5, <1>6 DEF Width

LEMMA SlotsOfDisk ==
  ASSUME NEW s \in DiskT
  PROVE  \A l \in Places : At(s, l) \in SlotT
BY PlaceFacts DEF DiskT, At

\* What is at l after w.
Now(s, w, l) ==
  IF w.to = "slot" /\ w.at = l THEN w.val
  ELSE IF w.to = "data" /\ w.at = l[1] THEN w.val[l[2]] ELSE At(s, l)

PutSlot(s, p, v) == [s EXCEPT ![p[1]][p[2]] = v]
PutData(s, c, v) == [s EXCEPT ![c] = v]

LEMMA WrittenSlot ==
  ASSUME NEW s \in DiskT, NEW p \in Places, NEW v \in SlotT,
         NEW t, t = PutSlot(s, p, v)
  PROVE  /\ t \in DiskT
         /\ \A l \in Places : At(t, l) = IF l = p THEN v ELSE At(s, l)
<1>1. p[1] \in Clusters \cup {Root} /\ p[2] \in 1 .. Width(p[1]) /\ p = <<p[1], p[2]>>
  BY PlaceFacts
<1>2. PICK b : b = [s[p[1]] EXCEPT ![p[2]] = v]
  OBVIOUS
<1>3. s[p[1]] \in [1 .. Width(p[1]) -> SlotT]
  BY <1>1 DEF DiskT
<1>4. b \in [1 .. Width(p[1]) -> SlotT] /\ b[p[2]] = v
      /\ \A j \in 1 .. Width(p[1]) : j # p[2] => b[j] = s[p[1]][j]
  BY <1>1, <1>2, <1>3
<1>5. t = [s EXCEPT ![p[1]] = b]
  BY <1>2 DEF PutSlot
<1>6. s \in [Clusters \cup {Root} -> ClusterT \cup [1 .. RootSlots -> SlotT]]
  BY DEF DiskT
<1>7. b \in ClusterT \cup [1 .. RootSlots -> SlotT]
  BY <1>1, <1>4 DEF ClusterT, Width
<1>8. /\ t \in [Clusters \cup {Root} -> ClusterT \cup [1 .. RootSlots -> SlotT]]
      /\ t[p[1]] = b /\ \A c \in Clusters \cup {Root} : c # p[1] => t[c] = s[c]
  BY <1>1, <1>5, <1>6, <1>7
<1>9. t \in DiskT
  <2>1. \A c \in Clusters \cup {Root} : t[c] \in [1 .. Width(c) -> SlotT]
    <3>1. TAKE c \in Clusters \cup {Root}
    <3>2. CASE c = p[1]
      BY <1>4, <1>8, <3>2
    <3>3. CASE c # p[1]
      BY <1>8, <3>3 DEF DiskT
    <3> QED BY <3>2, <3>3
  <2> QED BY <1>8, <2>1 DEF DiskT
<1>10. ASSUME NEW l \in Places PROVE At(t, l) = IF l = p THEN v ELSE At(s, l)
  <2>1. l[1] \in Clusters \cup {Root} /\ l[2] \in 1 .. Width(l[1]) /\ l = <<l[1], l[2]>>
    BY PlaceFacts
  <2>2. CASE l[1] # p[1]
    <3>1. l # p /\ t[l[1]] = s[l[1]]
      BY <1>8, <2>1, <2>2
    <3> QED BY <3>1 DEF At
  <2>3. CASE l[1] = p[1] /\ l[2] # p[2]
    <3>1. l # p /\ t[l[1]] = b /\ b[l[2]] = s[l[1]][l[2]]
      BY <1>4, <1>8, <2>1, <2>3
    <3> QED BY <3>1 DEF At
  <2>4. CASE l[1] = p[1] /\ l[2] = p[2]
    <3>1. l = p
      BY <1>1, <2>1, <2>4
    <3> QED BY <1>4, <1>8, <3>1 DEF At
  <2> QED BY <2>2, <2>3, <2>4
<1> QED BY <1>9, <1>10

LEMMA WrittenData ==
  ASSUME NEW s \in DiskT, NEW c \in Clusters, NEW v \in ClusterT,
         NEW t, t = PutData(s, c, v)
  PROVE  /\ t \in DiskT
         /\ \A l \in Places : At(t, l) = IF l[1] = c THEN v[l[2]] ELSE At(s, l)
<1>6. s \in [Clusters \cup {Root} -> ClusterT \cup [1 .. RootSlots -> SlotT]]
  BY DEF DiskT
<1>7. c # Root /\ v \in [1 .. Width(c) -> SlotT]
  BY PlaceFacts DEF ClusterT, Width
<1>8. /\ t \in [Clusters \cup {Root} -> ClusterT \cup [1 .. RootSlots -> SlotT]]
      /\ t[c] = v /\ \A d \in Clusters \cup {Root} : d # c => t[d] = s[d]
  BY <1>6 DEF PutData
<1>9. t \in DiskT
  BY <1>7, <1>8 DEF DiskT
<1>10. ASSUME NEW l \in Places PROVE At(t, l) = IF l[1] = c THEN v[l[2]] ELSE At(s, l)
  BY <1>8, PlaceFacts DEF At
<1> QED BY <1>9, <1>10

LEMMA WriteKinds ==
  ASSUME NEW w \in WriteT
  PROVE  /\ w.to \in {"fat", "data", "slot"}
         /\ w.to = "fat" => w.at \in Clusters /\ w.val \in Clusters \cup {Free, Eoc}
         /\ w.to = "data" => w.at \in Clusters /\ w.val \in ClusterT
         /\ w.to = "slot" => w.at \in Places /\ w.val \in SlotT
BY DEF WriteT

LEMMA WrittenDiskIs ==
  ASSUME NEW s \in DiskT, NEW w \in WriteT
  PROVE  /\ WrittenDisk(s, w) \in DiskT
         /\ \A l \in Places : At(WrittenDisk(s, w), l) = Now(s, w, l)
<1>1. CASE w.to = "slot"
  <2>1. WrittenDisk(s, w) = [s EXCEPT ![w.at[1]][w.at[2]] = w.val]
    BY <1>1 DEF WrittenDisk
  <2>2. w.at \in Places /\ w.val \in SlotT
    BY <1>1, WriteKinds
  <2>3. PICK t : t = WrittenDisk(s, w)
    OBVIOUS
  <2>4. t \in DiskT /\ \A l \in Places : At(t, l) = IF l = w.at THEN w.val ELSE At(s, l)
    <3>1. PICK p \in Places, v \in SlotT : p = w.at /\ v = w.val
      BY <2>2
    <3>2. t = PutSlot(s, p, v)
      BY <2>1, <2>3, <3>1 DEF PutSlot
    <3>3. t \in DiskT /\ \A l \in Places : At(t, l) = IF l = p THEN v ELSE At(s, l)
      BY <3>2, WrittenSlot
    <3> QED BY <3>1, <3>3
  <2> QED BY <1>1, <2>3, <2>4 DEF Now
<1>2. CASE w.to = "data"
  <2>1. WrittenDisk(s, w) = [s EXCEPT ![w.at] = w.val]
    BY <1>2 DEF WrittenDisk
  <2>2. w.at \in Clusters /\ w.val \in ClusterT
    BY <1>2, WriteKinds
  <2>3. PICK t : t = WrittenDisk(s, w)
    OBVIOUS
  <2>4. t \in DiskT /\ \A l \in Places : At(t, l) = IF l[1] = w.at THEN w.val[l[2]] ELSE At(s, l)
    <3>1. PICK c \in Clusters, v \in ClusterT : c = w.at /\ v = w.val
      BY <2>2
    <3>2. t = PutData(s, c, v)
      BY <2>1, <2>3, <3>1 DEF PutData
    <3>3. t \in DiskT /\ \A l \in Places : At(t, l) = IF l[1] = c THEN v[l[2]] ELSE At(s, l)
      BY <3>2, WrittenData
    <3> QED BY <3>1, <3>3
  <2> QED BY <1>2, <2>3, <2>4 DEF Now
<1>3. CASE w.to = "fat"
  <2>1. WrittenDisk(s, w) = s
    BY <1>3 DEF WrittenDisk
  <2> QED BY <1>3, <2>1 DEF Now
<1> QED BY <1>1, <1>2, <1>3, WriteKinds

LEMMA WrittenFatIs ==
  ASSUME NEW f \in FatT, NEW w \in WriteT
  PROVE  /\ WrittenFat(f, w) \in FatT
         /\ \A c \in Clusters : WrittenFat(f, w)[c] = IF w.to = "fat" /\ w.at = c THEN w.val ELSE f[c]
<1>1. CASE w.to = "fat"
  <2>1. w.at \in Clusters /\ w.val \in Clusters \cup {Free, Eoc}
    BY <1>1, WriteKinds
  <2> QED BY <1>1, <2>1 DEF WrittenFat, FatT
<1>2. CASE w.to # "fat"
  BY <1>2 DEF WrittenFat
<1> QED BY <1>1, <1>2


-----------------------------------------------------------------------------
(* The slots of a directory are the places in its clusters, each once.     *)

LEMMA DivParts ==
  ASSUME NEW n \in Nat \ {0}, NEW k \in Nat
  PROVE  /\ k \div n \in Nat /\ k % n \in 0 .. n - 1
         /\ k = n * (k \div n) + (k % n)
OBVIOUS

LEMMA MulLess ==
  ASSUME NEW n \in Nat \ {0}, NEW a \in Nat, NEW b \in Nat, a < b
  PROVE  n * a + n <= n * b
<1>1. PICK d \in Nat : b = a + 1 + d
  <2>1. b - a - 1 \in Nat /\ b = a + 1 + (b - a - 1)
    OBVIOUS
  <2> QED BY <2>1
<1>2. n * b = n * a + n + n * d
  BY <1>1
<1>3. n * d \in Nat /\ n * a \in Nat
  OBVIOUS
<1> QED BY <1>2, <1>3

LEMMA DivUnique ==
  ASSUME NEW n \in Nat \ {0}, NEW a \in Nat, NEW j \in 0 .. n - 1
  PROVE  (n * a + j) \div n = a /\ (n * a + j) % n = j
<1>1. PICK k \in Nat : k = n * a + j
  <2>1. n * a \in Nat
    OBVIOUS
  <2> QED BY <2>1
<1>2. PICK b \in Nat, i \in 0 .. n - 1 : b = k \div n /\ i = k % n /\ k = n * b + i
  BY DivParts
<1>3. n * a \in Nat /\ n * b \in Nat
  OBVIOUS
<1>4. ~(a < b)
  <2>1. SUFFICES ASSUME a < b PROVE FALSE
    OBVIOUS
  <2>2. n * a + n <= n * b
    BY <2>1, MulLess
  <2> QED BY <1>1, <1>2, <1>3, <2>2
<1>5. ~(b < a)
  <2>1. SUFFICES ASSUME b < a PROVE FALSE
    OBVIOUS
  <2>2. n * b + n <= n * a
    BY <2>1, MulLess
  <2> QED BY <1>1, <1>2, <1>3, <2>2
<1>6. a = b
  BY <1>4, <1>5
<1>7. i = j
  BY <1>1, <1>2, <1>3, <1>6
<1> QED BY <1>1, <1>2, <1>6, <1>7

LEMMA SlotsOfFacts ==
  ASSUME NEW q \in Seq(Clusters), \A i, j \in 1 .. Len(q) : q[i] = q[j] => i = j
  PROVE  /\ SlotsOf(q) \in Seq(Places)
         /\ Len(SlotsOf(q)) = Len(q) * SlotsPerCluster
         /\ Range(SlotsOf(q)) = {l \in Places : l[1] \in Range(q)}
         /\ \A i, j \in 1 .. Len(SlotsOf(q)) : SlotsOf(q)[i] = SlotsOf(q)[j] => i = j
         /\ \A a \in 1 .. Len(q), j \in 1 .. SlotsPerCluster :
              /\ SlotsPerCluster * (a - 1) + j \in 1 .. Len(SlotsOf(q))
              /\ SlotsOf(q)[SlotsPerCluster * (a - 1) + j] = <<q[a], j>>
<1>0. PICK n \in Nat \ {0} : n = SlotsPerCluster
  BY SlotsFit
<1>1. PICK m \in Nat : m = Len(q)
  OBVIOUS
<1>2. PICK z \in Nat : z = m * n
  OBVIOUS
<1>3. PICK t : t = SlotsOf(q)
  OBVIOUS
<1>4. t = [k \in 1 .. z |-> <<q[(k - 1) \div n + 1], ((k - 1) % n) + 1>>]
  BY <1>0, <1>1, <1>2, <1>3 DEF SlotsOf
<1>5. ASSUME NEW k \in 1 .. z
      PROVE  \E a \in 1 .. m, j \in 1 .. n : k = n * (a - 1) + j /\ t[k] = <<q[a], j>>
  <2>1. k - 1 \in Nat
    OBVIOUS
  <2>2. PICK b \in Nat, i \in 0 .. n - 1 :
           b = (k - 1) \div n /\ i = (k - 1) % n /\ k - 1 = n * b + i
    BY <2>1, DivParts
  <2>3. b < m
    <3>1. SUFFICES ASSUME ~(b < m) PROVE FALSE
      OBVIOUS
    <3>2. n * b >= n * m
      <4>1. CASE b = m
        BY <4>1
      <4>2. CASE m < b
        <5>1. n * m + n <= n * b
          BY <4>2, MulLess
        <5>2. n * m \in Nat /\ n * b \in Nat
          OBVIOUS
        <5> QED BY <5>1, <5>2
      <4> QED BY <3>1, <4>1, <4>2
    <3>3. n * b \in Nat /\ n * m = z
      BY <1>2
    <3> QED BY <2>2, <3>2, <3>3
  <2>4. t[k] = <<q[b + 1], i + 1>>
    BY <1>4, <2>2
  <2>5. b + 1 \in 1 .. m /\ i + 1 \in 1 .. n /\ (b + 1) - 1 = b
    BY <2>3
  <2>6. k = n * b + (i + 1)
    <3>1. n * b \in Nat
      OBVIOUS
    <3> QED BY <2>2, <3>1
  <2> QED BY <2>4, <2>5, <2>6
<1>6. ASSUME NEW a \in 1 .. m, NEW j \in 1 .. n
      PROVE  n * (a - 1) + j \in 1 .. z /\ t[n * (a - 1) + j] = <<q[a], j>>
  <2>1. PICK b \in Nat : b = a - 1
    OBVIOUS
  <2>2. PICK i \in 0 .. n - 1 : i = j - 1
    OBVIOUS
  <2>3. n * b \in Nat /\ n * b + n <= n * m
    BY <2>1, MulLess
  <2>4. PICK k \in 1 .. z : k = n * b + j
    BY <1>2, <2>3
  <2>5. k - 1 = n * b + i
    BY <2>2, <2>3, <2>4
  <2>6. (k - 1) \div n = b /\ (k - 1) % n = i
    BY <2>5, DivUnique
  <2>7. t[k] = <<q[b + 1], i + 1>>
    BY <1>4, <2>6
  <2> QED BY <2>1, <2>2, <2>4, <2>7
<1>7. \A i \in 1 .. m : q[i] \in Clusters
  BY <1>1
<1>8. ASSUME NEW k \in 1 .. z PROVE t[k] \in Places
  <2>1. PICK a \in 1 .. m, j \in 1 .. n : t[k] = <<q[a], j>>
    BY <1>5
  <2> QED BY <1>0, <1>7, <2>1, PlaceFacts
<1>9. t \in Seq(Places) /\ Len(t) = z
  <2>1. t \in [1 .. z -> Places]
    BY <1>4, <1>8
  <2> QED BY <2>1
<1>10. Range(t) \subseteq {l \in Places : l[1] \in Range(q)}
  <2>1. SUFFICES ASSUME NEW k \in 1 .. z PROVE t[k] \in Places /\ t[k][1] \in Range(q)
    BY <1>9 DEF Range
  <2>2. PICK a \in 1 .. m : t[k][1] = q[a]
    BY <1>5
  <2> QED BY <1>1, <1>8, <2>2 DEF Range
<1>11. {l \in Places : l[1] \in Range(q)} \subseteq Range(t)
  <2>1. SUFFICES ASSUME NEW l \in Places, l[1] \in Range(q) PROVE l \in Range(t)
    OBVIOUS
  <2>2. PICK a \in 1 .. m : l[1] = q[a]
    BY <1>1, <2>1 DEF Range
  <2>3. l[1] \in Clusters /\ l[2] \in 1 .. n /\ l = <<q[a], l[2]>>
    BY <1>0, <1>7, <2>2, PlaceFacts DEF Width
  <2>4. PICK k \in 1 .. z : t[k] = l
    BY <1>6, <2>3
  <2> QED BY <1>9, <2>4 DEF Range
<1>12. ASSUME NEW i \in 1 .. z, NEW j \in 1 .. z, t[i] = t[j] PROVE i = j
  <2>1. PICK a \in 1 .. m, b \in 1 .. n : i = n * (a - 1) + b /\ t[i] = <<q[a], b>>
    BY <1>5
  <2>2. PICK c \in 1 .. m, d \in 1 .. n : j = n * (c - 1) + d /\ t[j] = <<q[c], d>>
    BY <1>5
  <2>3. q[a] = q[c] /\ b = d
    BY <1>12, <2>1, <2>2
  <2>4. a = c
    BY <1>1, <2>3
  <2> QED BY <2>1, <2>2, <2>3, <2>4
<1>13. Len(t) = Len(q) * SlotsPerCluster
  BY <1>0, <1>1, <1>2, <1>9
<1>14. Range(t) = {l \in Places : l[1] \in Range(q)}
  BY <1>10, <1>11
<1> QED BY <1>0, <1>1, <1>3, <1>6, <1>9, <1>12, <1>13, <1>14


-----------------------------------------------------------------------------
(* The directories of a sound volume.                                      *)

Volume(s, f, g, x) == s \in DiskT /\ f \in FatT /\ g \in FatT /\ x \subseteq Places /\ Safe(s, f, g, x)

LEMMA RootIsDir == ASSUME NEW s, NEW x, x \subseteq Places PROVE DirAt(s, x, 0)
BY PlaceFacts, SlotsFit DEF DirAt

LEMMA RootLocsFacts ==
  /\ RootLocs \in Seq(Places) /\ Len(RootLocs) = RootSlots
  /\ \A i \in 1 .. RootSlots : RootLocs[i] = <<Root, i>>
  /\ Range(RootLocs) = {l \in Places : l[1] \in {Root}}
  /\ \A i, j \in 1 .. Len(RootLocs) : RootLocs[i] = RootLocs[j] => i = j
<1>1. RootSlots \in Nat
  BY SlotsFit
<1>2. RootLocs \in [1 .. RootSlots -> Places] /\ \A i \in 1 .. RootSlots : RootLocs[i] = <<Root, i>>
  BY <1>1, PlaceFacts DEF RootLocs
<1>3. RootLocs \in Seq(Places) /\ Len(RootLocs) = RootSlots
  BY <1>1, <1>2
<1>4. Range(RootLocs) = {l \in Places : l[1] \in {Root}}
  <2>1. ASSUME NEW l \in Range(RootLocs) PROVE l \in Places /\ l[1] = Root
    BY <1>2, <1>3 DEF Range
  <2>2. ASSUME NEW l \in Places, l[1] = Root PROVE l \in Range(RootLocs)
    <3>1. l[2] \in 1 .. RootSlots /\ l = <<Root, l[2]>>
      BY <2>2, PlaceFacts
    <3>2. RootLocs[l[2]] = l
      BY <1>2, <3>1
    <3> QED BY <1>2, <3>1, <3>2 DEF Range
  <2> QED BY <2>1, <2>2
<1> QED BY <1>2, <1>3, <1>4

LEMMA DirIsEnt ==
  ASSUME NEW s, NEW f, NEW x, x \subseteq Places, NEW k, DirAt(s, x, k), k # 0
  PROVE  EntAt(s, f, x, <<Root, k>>) /\ <<Root, k>> \in Places
<1>1. k \in 1 .. RootSlots
  BY SlotsFit DEF DirAt
<1>2. <<Root, k>> \in Places /\ <<Root, k>>[1] = Root
  BY <1>1, PlaceFacts
<1>3. DirAt(s, x, 0) /\ 0 \in 0 .. RootSlots /\ Root \in Span(s, f, 0)
  BY RootIsDir, SlotsFit DEF Span
<1> QED BY <1>2, <1>3 DEF EntAt, DirAt

LEMMA DirFacts ==
  ASSUME NEW s, NEW f, NEW g, NEW x, Volume(s, f, g, x), NEW k, DirAt(s, x, k)
  PROVE  /\ k \in 0 .. RootSlots
         /\ k # 0 => /\ HeadOf(s, k) \in Clusters /\ Ends(f, HeadOf(s, k))
                     /\ Ls(s, f, k) = SlotsOf(Chain(f, HeadOf(s, k)))
                     /\ Span(s, f, k) \subseteq Clusters
                     /\ \A c \in Span(s, f, k) : Owned(s, f, x, c) /\ g[c] = f[c]
         /\ k = 0 => Span(s, f, k) = {Root} /\ Ls(s, f, k) = RootLocs
         /\ Ls(s, f, k) \in Seq(Places)
         /\ Range(Ls(s, f, k)) = {l \in Places : l[1] \in Span(s, f, k)}
         /\ \A i, j \in DOMAIN Ls(s, f, k) : Ls(s, f, k)[i] = Ls(s, f, k)[j] => i = j
<1>0. k \in 0 .. RootSlots
  BY DEF DirAt
<1>1. CASE k = 0
  <2>1. Ls(s, f, k) = RootLocs /\ Span(s, f, k) = {Root}
    BY <1>1 DEF Ls, Span, HeadOf, Locs
  <2>2. DOMAIN RootLocs = 1 .. Len(RootLocs)
    BY RootLocsFacts
  <2> QED BY <1>0, <1>1, <2>1, <2>2, RootLocsFacts
<1>2. CASE k # 0
  <2>1. PICK l \in Places : l = <<Root, k>> /\ EntAt(s, f, x, l)
    BY <1>2, DirIsEnt DEF Volume
  <2>2. Held(s, f, g, l)
    BY <2>1 DEF Volume, Safe
  <2>3. PICK c : c = HeadOf(s, k)
    OBVIOUS
  <2>4. c = At(s, l).start
    BY <1>2, <2>1, <2>3 DEF HeadOf
  <2>5. c \in Clusters /\ Ends(f, c) /\ \A y \in Range(Chain(f, c)) : g[y] = f[y]
    BY <2>2, <2>4 DEF Held, ClustersOf
  <2>6. Ls(s, f, k) = SlotsOf(Chain(f, c)) /\ Span(s, f, k) = Range(Chain(f, c))
    BY <1>2, <2>3, <2>5, PlaceFacts DEF Ls, Locs, Span
  <2>7. PICK q : q = Chain(f, c)
    OBVIOUS
  <2>8. q \in Seq(Clusters) /\ \A i, j \in 1 .. Len(q) : q[i] = q[j] => i = j
    BY <2>5, <2>7, ChainFacts DEF Volume
  <2>9. PICK t : t = SlotsOf(q)
    OBVIOUS
  <2>10. /\ t \in Seq(Places) /\ Range(t) = {m \in Places : m[1] \in Range(q)}
         /\ \A i, j \in 1 .. Len(t) : t[i] = t[j] => i = j
    BY <2>8, <2>9, SlotsOfFacts
  <2>11. DOMAIN t = 1 .. Len(t)
    BY <2>10
  <2>12. ASSUME NEW y \in Range(q) PROVE Owned(s, f, x, y) /\ y \in Clusters
    <3>1. y \in ClustersOf(s, f, l)
      BY <2>4, <2>7, <2>12 DEF ClustersOf
    <3>2. y \in Clusters
      BY <2>5, <2>7, ChainFacts DEF Volume
    <3> QED BY <2>1, <3>1, <3>2 DEF Owned
  <2> QED BY <1>0, <1>2, <2>3, <2>5, <2>6, <2>7, <2>9, <2>10, <2>11, <2>12
<1> QED BY <1>1, <1>2

LEMMA SameDir ==
  ASSUME NEW s, NEW f, NEW g, NEW x, Volume(s, f, g, x),
         NEW k, NEW j, DirAt(s, x, k), DirAt(s, x, j),
         NEW c, c \in Span(s, f, k), c \in Span(s, f, j)
  PROVE  k = j
<1>1. CASE k = 0
  BY <1>1, DirFacts, PlaceFacts
<1>2. CASE j = 0
  BY <1>2, DirFacts, PlaceFacts
<1>3. CASE k # 0 /\ j # 0
  <2>1. SUFFICES ASSUME k # j PROVE FALSE
    OBVIOUS
  <2>2. PICK l \in Places : l = <<Root, k>> /\ EntAt(s, f, x, l)
    BY <1>3, DirIsEnt DEF Volume
  <2>3. PICK m \in Places : m = <<Root, j>> /\ EntAt(s, f, x, m)
    BY <1>3, DirIsEnt DEF Volume
  <2>4. l # m
    BY <2>1, <2>2, <2>3
  <2>5. ClustersOf(s, f, l) \cap ClustersOf(s, f, m) = {}
    BY <2>2, <2>3, <2>4 DEF Volume, Safe
  <2>6. c \in ClustersOf(s, f, l) /\ c \in ClustersOf(s, f, m)
    BY <1>3, <2>2, <2>3 DEF Span, HeadOf, ClustersOf
  <2> QED BY <2>5, <2>6
<1> QED BY <1>1, <1>2, <1>3

\* A place is a slot of the directory its cluster belongs to.
LEMMA PlaceIn ==
  ASSUME NEW s, NEW f, NEW g, NEW x, Volume(s, f, g, x), NEW k, DirAt(s, x, k)
  PROVE  /\ DOMAIN Ls(s, f, k) = 1 .. Len(Ls(s, f, k)) /\ Len(Ls(s, f, k)) \in Nat
         /\ \A i \in DOMAIN Ls(s, f, k) : Ls(s, f, k)[i] \in Places /\ Ls(s, f, k)[i][1] \in Span(s, f, k)
         /\ \A l \in Places : l[1] \in Span(s, f, k) => \E i \in DOMAIN Ls(s, f, k) : Ls(s, f, k)[i] = l
<1>1. PICK t : t = Ls(s, f, k)
  OBVIOUS
<1>2. t \in Seq(Places) /\ Range(t) = {l \in Places : l[1] \in Span(s, f, k)}
  BY <1>1, DirFacts
<1>3. DOMAIN t = 1 .. Len(t) /\ Len(t) \in Nat
  BY <1>2
<1>4. \A i \in DOMAIN t : t[i] \in Range(t)
  BY DEF Range
<1>5. \A l \in Range(t) : \E i \in DOMAIN t : t[i] = l
  BY DEF Range
<1> QED BY <1>1, <1>2, <1>3, <1>4, <1>5

\* Leaving out more.
LEMMA LessFacts ==
  ASSUME NEW s, NEW f, NEW x, NEW y, x \subseteq y
  PROVE  /\ \A k : DirAt(s, y, k) => DirAt(s, x, k)
         /\ \A l : EntAt(s, f, y, l) => EntAt(s, f, x, l)
         /\ \A c : Owned(s, f, y, c) => Owned(s, f, x, c)
         /\ \A g : Safe(s, f, g, x) => Safe(s, f, g, y)
<1>1. \A k : DirAt(s, y, k) => DirAt(s, x, k)
  BY DEF DirAt
<1>2. \A l : EntAt(s, f, y, l) => EntAt(s, f, x, l)
  BY <1>1 DEF EntAt
<1>3. \A c : Owned(s, f, y, c) => Owned(s, f, x, c)
  BY <1>2 DEF Owned
<1>4. \A g : Safe(s, f, g, x) => Safe(s, f, g, y)
  BY <1>1, <1>2 DEF Safe
<1> QED BY <1>1, <1>2, <1>3, <1>4


-----------------------------------------------------------------------------
(* A harmless write leaves the directories, the entries and their chains   *)
(* as they are.                                                            *)

Same(s, f, t, h, x) ==
  /\ \A k : DirAt(t, x, k) <=> DirAt(s, x, k)
  /\ \A k : DirAt(s, x, k) => /\ HeadOf(t, k) = HeadOf(s, k)
                              /\ Ls(t, h, k) = Ls(s, f, k)
                              /\ Span(t, h, k) = Span(s, f, k)
  /\ \A l : EntAt(t, h, x, l) <=> EntAt(s, f, x, l)
  /\ \A l : EntAt(s, f, x, l) => /\ At(t, l) = At(s, l)
                                 /\ Chain(h, At(s, l).start) = Chain(f, At(s, l).start)
                                 /\ Ends(h, At(s, l).start)

\* Of the slots of its directories only the one written to has changed.
SlotsKept(s, f, t, w, x) ==
  \A k : DirAt(s, x, k) =>
    \A l \in Places : l[1] \in Span(s, f, k) =>
       At(t, l) = At(s, l) \/ (w.to = "slot" /\ w.at = l /\ At(t, l) = w.val)

LEMMA HarmlessSlots ==
  ASSUME NEW s, NEW f, NEW g, NEW x, Volume(s, f, g, x),
         NEW w \in WriteT, w.to # "slot" => ~Owned(s, f, x, w.at)
  PROVE  SlotsKept(s, f, WrittenDisk(s, w), w, x)
<1>1. SUFFICES ASSUME NEW k, DirAt(s, x, k), NEW l \in Places, l[1] \in Span(s, f, k)
               PROVE  \/ At(WrittenDisk(s, w), l) = At(s, l)
                      \/ w.to = "slot" /\ w.at = l /\ At(WrittenDisk(s, w), l) = w.val
  BY DEF SlotsKept
<1>2. At(WrittenDisk(s, w), l) = Now(s, w, l)
  BY WrittenDiskIs DEF Volume
<1>3. CASE w.to = "data" /\ w.at = l[1]
  <2>1. w.at \in Clusters /\ ~Owned(s, f, x, w.at)
    BY <1>3, WriteKinds
  <2>2. k # 0
    BY <1>1, <1>3, <2>1, DirFacts, PlaceFacts
  <2>3. Owned(s, f, x, l[1])
    BY <1>1, <2>2, DirFacts
  <2> QED BY <1>3, <2>1, <2>3
<1>4. CASE w.to = "slot" /\ w.at = l
  BY <1>2, <1>4 DEF Now
<1>5. CASE ~(w.to = "data" /\ w.at = l[1]) /\ ~(w.to = "slot" /\ w.at = l)
  BY <1>2, <1>5 DEF Now
<1> QED BY <1>3, <1>4, <1>5

LEMMA HarmlessSame ==
  ASSUME NEW s, NEW f, NEW g, NEW x, Volume(s, f, g, x),
         NEW w \in WriteT, Harmless(s, f, x, w),
         NEW t, t = WrittenDisk(s, w), NEW h, h = WrittenFat(f, w)
  PROVE  Same(s, f, t, h, x) /\ SlotsKept(s, f, t, w, x)
<1>0. SlotsKept(s, f, t, w, x)
  BY HarmlessSlots DEF Harmless
<1>1. ASSUME NEW l, EntAt(s, f, x, l) PROVE At(t, l) = At(s, l)
  <2>1. l \in Places
    BY <1>1 DEF EntAt
  <2>2. PICK k : DirAt(s, x, k) /\ l[1] \in Span(s, f, k)
    BY <1>1 DEF EntAt
  <2>3. ~(w.to = "slot" /\ w.at = l)
    BY <1>1 DEF Harmless
  <2> QED BY <1>0, <2>1, <2>2, <2>3 DEF SlotsKept
<1>2. ASSUME NEW l, EntAt(s, f, x, l)
      PROVE  Chain(h, At(s, l).start) = Chain(f, At(s, l).start) /\ Ends(h, At(s, l).start)
  <2>1. l \in Places /\ Held(s, f, g, l)
    BY <1>2 DEF EntAt, Volume, Safe
  <2>2. PICK c \in Clusters : c = At(s, l).start /\ Ends(f, c)
    BY <2>1 DEF Held
  <2>3. ASSUME NEW y \in Range(Chain(f, c)) PROVE h[y] = f[y]
    <3>1. Owned(s, f, x, y)
      BY <1>2, <2>1, <2>2, <2>3 DEF Owned, ClustersOf
    <3>2. y \in Clusters
      BY <2>2, <2>3, ChainFacts DEF Volume
    <3>3. ~(w.to = "fat" /\ w.at = y)
      BY <3>1 DEF Harmless
    <3> QED BY <3>2, <3>3, WrittenFatIs DEF Volume
  <2>4. h \in FatT /\ f \in FatT
    BY WrittenFatIs DEF Volume
  <2> QED BY <2>2, <2>3, <2>4, ChainFrame
<1>3. ASSUME NEW k PROVE DirAt(t, x, k) <=> DirAt(s, x, k)
  <2>1. CASE k = 0
    BY <2>1 DEF DirAt
  <2>2. ASSUME k # 0, DirAt(s, x, k) PROVE DirAt(t, x, k)
    <3>1. At(t, <<Root, k>>) = At(s, <<Root, k>>)
      BY <1>1, <2>2, DirIsEnt DEF Volume
    <3> QED BY <2>2, <3>1 DEF DirAt, Kind
  <2>3. ASSUME k # 0, DirAt(t, x, k) PROVE DirAt(s, x, k)
    <3>1. PICK l \in Places : l = <<Root, k>> /\ l[1] = Root
      BY <2>3, PlaceFacts, SlotsFit DEF DirAt
    <3>2. DirAt(s, x, 0) /\ l[1] \in Span(s, f, 0)
      BY <3>1, RootIsDir DEF Span, Volume
    <3>3. Kind(t, l) = "short"
      BY <2>3, <3>1 DEF DirAt
    <3>4. ~(w.to = "slot" /\ w.at = l /\ At(t, l) = w.val)
      BY <3>3 DEF Harmless, Kind
    <3>5. At(t, l) = At(s, l)
      BY <1>0, <3>2, <3>4 DEF SlotsKept
    <3> QED BY <2>3, <3>1, <3>5 DEF DirAt, Kind
  <2> QED BY <2>1, <2>2, <2>3
<1>4. ASSUME NEW k, DirAt(s, x, k)
      PROVE  HeadOf(t, k) = HeadOf(s, k) /\ Ls(t, h, k) = Ls(s, f, k) /\ Span(t, h, k) = Span(s, f, k)
  <2>1. CASE k = 0
    BY <2>1 DEF HeadOf, Ls, Span, Locs
  <2>2. CASE k # 0
    <3>1. PICK l : l = <<Root, k>> /\ EntAt(s, f, x, l)
      BY <1>4, <2>2, DirIsEnt DEF Volume
    <3>2. At(t, l) = At(s, l) /\ Chain(h, At(s, l).start) = Chain(f, At(s, l).start)
      BY <1>1, <1>2, <3>1
    <3>3. HeadOf(t, k) = HeadOf(s, k) /\ HeadOf(s, k) = At(s, l).start
      BY <2>2, <3>1, <3>2 DEF HeadOf
    <3>4. HeadOf(s, k) # Root
      BY <1>4, <2>2, DirFacts, PlaceFacts
    <3> QED BY <2>2, <3>2, <3>3, <3>4 DEF Ls, Locs, Span
  <2> QED BY <2>1, <2>2
<1>5. ASSUME NEW l PROVE EntAt(t, h, x, l) <=> EntAt(s, f, x, l)
  <2>1. ASSUME EntAt(s, f, x, l) PROVE EntAt(t, h, x, l)
    <3>1. At(t, l) = At(s, l)
      BY <1>1, <2>1
    <3> QED BY <1>3, <1>4, <2>1, <3>1 DEF EntAt, Kind
  <2>2. ASSUME EntAt(t, h, x, l) PROVE EntAt(s, f, x, l)
    <3>1. PICK k \in 0 .. RootSlots : DirAt(t, x, k) /\ l[1] \in Span(t, h, k)
      BY <2>2 DEF EntAt
    <3>2. DirAt(s, x, k) /\ l[1] \in Span(s, f, k) /\ l \in Places
      BY <1>3, <1>4, <2>2, <3>1 DEF EntAt
    <3>3. Kind(t, l) = "short"
      BY <2>2 DEF EntAt
    <3>4. ~(w.to = "slot" /\ w.at = l /\ At(t, l) = w.val)
      BY <3>3 DEF Harmless, Kind
    <3>5. At(t, l) = At(s, l)
      BY <1>0, <3>2, <3>4 DEF SlotsKept
    <3> QED BY <2>2, <3>2, <3>5 DEF EntAt, Kind
  <2> QED BY <2>1, <2>2
<1> QED BY <1>0, <1>1, <1>2, <1>3, <1>4, <1>5 DEF Same


LEMMA OwnedSame ==
  ASSUME NEW s, NEW f, NEW t, NEW h, NEW x, Same(s, f, t, h, x)
  PROVE  \A c : Owned(t, h, x, c) <=> Owned(s, f, x, c)
<1>1. \A l : EntAt(s, f, x, l) => ClustersOf(t, h, l) = ClustersOf(s, f, l)
  BY DEF Same, ClustersOf
<1>2. \A l : EntAt(t, h, x, l) <=> EntAt(s, f, x, l)
  BY DEF Same
<1> QED BY <1>1, <1>2 DEF Owned

LEMMA HarmlessSafe ==
  ASSUME NEW s, NEW f, NEW g, NEW x, Volume(s, f, g, x),
         NEW w \in WriteT, Harmless(s, f, x, w),
         NEW t, t = WrittenDisk(s, w), NEW h, h = WrittenFat(f, w),
         NEW r \in {g, WrittenFat(g, w)}
  PROVE  Volume(t, h, r, x)
<1>0. Same(s, f, t, h, x) /\ SlotsKept(s, f, t, w, x)
  BY HarmlessSame
<1>1. t \in DiskT /\ h \in FatT /\ r \in FatT /\ x \subseteq Places
  BY WrittenDiskIs, WrittenFatIs DEF Volume
<1>2. ASSUME NEW l \in Places, EntAt(t, h, x, l) PROVE Held(t, h, r, l)
  <2>1. EntAt(s, f, x, l) /\ Held(s, f, g, l)
    BY <1>0, <1>2 DEF Same, Volume, Safe
  <2>2. At(t, l) = At(s, l) /\ Chain(h, At(s, l).start) = Chain(f, At(s, l).start)
        /\ Ends(h, At(s, l).start)
    BY <1>0, <2>1 DEF Same
  <2>3. ASSUME NEW c \in ClustersOf(s, f, l) PROVE r[c] = h[c]
    <3>1. Owned(s, f, x, c) /\ g[c] = f[c]
      BY <2>1, <2>3 DEF Owned, Held
    <3>2. c \in Clusters
      BY <2>1, <2>3, ChainFacts DEF ClustersOf, Held, Volume
    <3>3. ~(w.to = "fat" /\ w.at = c)
      BY <3>1 DEF Harmless
    <3>4. h[c] = f[c] /\ WrittenFat(g, w)[c] = g[c]
      BY <3>2, <3>3, WrittenFatIs DEF Volume
    <3> QED BY <3>1, <3>4
  <2> QED BY <2>1, <2>2, <2>3 DEF Held, ClustersOf
<1>3. ASSUME NEW l \in Places, NEW m \in Places, EntAt(t, h, x, l), EntAt(t, h, x, m), l # m
      PROVE  ClustersOf(t, h, l) \cap ClustersOf(t, h, m) = {}
  <2>1. EntAt(s, f, x, l) /\ EntAt(s, f, x, m)
    BY <1>0, <1>3 DEF Same
  <2>2. ClustersOf(t, h, l) = ClustersOf(s, f, l) /\ ClustersOf(t, h, m) = ClustersOf(s, f, m)
    BY <1>0, <2>1 DEF Same, ClustersOf
  <2> QED BY <1>3, <2>1, <2>2 DEF Volume, Safe
<1>4. ASSUME NEW k \in 0 .. RootSlots, DirAt(t, x, k) PROVE NoGap(t, Ls(t, h, k))
  <2>1. DirAt(s, x, k) /\ Ls(t, h, k) = Ls(s, f, k)
    BY <1>0, <1>4 DEF Same
  <2>2. PICK ls : ls = Ls(s, f, k)
    OBVIOUS
  <2>3. NoGap(s, ls)
    BY <2>1, <2>2 DEF Volume, Safe
  <2>4. SUFFICES ASSUME NEW i \in DOMAIN ls, NEW j \in DOMAIN ls, i < j, Kind(t, ls[i]) = "unused"
                 PROVE  Kind(t, ls[j]) = "unused"
    BY <2>1, <2>2 DEF NoGap
  <2>5. \A n \in DOMAIN ls : ls[n] \in Places /\ ls[n][1] \in Span(s, f, k)
    BY <2>1, <2>2, PlaceIn
  <2>6. Kind(s, ls[i]) = "unused"
    <3>1. ~(w.to = "slot" /\ w.at = ls[i] /\ At(t, ls[i]) = w.val)
      BY <2>4 DEF Harmless, Kind
    <3>2. At(t, ls[i]) = At(s, ls[i])
      BY <1>0, <2>1, <2>5, <3>1 DEF SlotsKept
    <3> QED BY <2>4, <3>2 DEF Kind
  <2>7. Kind(s, ls[j]) = "unused"
    BY <2>3, <2>4, <2>6 DEF NoGap
  <2>8. ~(w.to = "slot" /\ w.at = ls[j] /\ At(t, ls[j]) = w.val)
    <3>1. w.to = "slot" => Before(s, f, x, w.at, {})
      BY DEF Harmless
    <3> QED BY <2>1, <2>2, <2>4, <2>6, <3>1 DEF Before
  <2>9. At(t, ls[j]) = At(s, ls[j])
    BY <1>0, <2>1, <2>5, <2>8 DEF SlotsKept
  <2> QED BY <2>7, <2>9 DEF Kind
<1> QED BY <1>1, <1>2, <1>3, <1>4 DEF Volume, Safe

\* What is to come before a place still is, or is there.
LEMMA BeforeKept ==
  ASSUME NEW s, NEW f, NEW g, NEW x, Volume(s, f, g, x),
         NEW t, NEW h, NEW w, Same(s, f, t, h, x), SlotsKept(s, f, t, w, x),
         w.to = "slot" => w.val.kind # "unused",
         NEW l, NEW P, NEW Q, Before(s, f, x, l, P),
         \A m \in P : m \in Q \/ (w.to = "slot" /\ At(t, m) = w.val)
  PROVE  Before(t, h, x, l, Q)
<1>1. SUFFICES ASSUME NEW k \in 0 .. RootSlots, DirAt(t, x, k),
                      NEW i \in DOMAIN Ls(t, h, k), NEW j \in DOMAIN Ls(t, h, k),
                      Ls(t, h, k)[i] = l, j < i
               PROVE  Kind(t, Ls(t, h, k)[j]) # "unused" \/ Ls(t, h, k)[j] \in Q
  BY DEF Before
<1>2. DirAt(s, x, k) /\ Ls(t, h, k) = Ls(s, f, k)
  BY <1>1 DEF Same
<1>3. PICK m : m = Ls(s, f, k)[j]
  OBVIOUS
<1>4. m \in Places /\ m[1] \in Span(s, f, k)
  BY <1>2, <1>3, PlaceIn
<1>5. Kind(s, m) # "unused" \/ m \in P
  BY <1>1, <1>2, <1>3 DEF Before
<1>6. At(t, m) = At(s, m) \/ (w.to = "slot" /\ At(t, m) = w.val)
  BY <1>2, <1>4 DEF SlotsKept
<1>7. Kind(t, m) # "unused" \/ m \in Q
  BY <1>5, <1>6 DEF Kind
<1> QED BY <1>2, <1>3, <1>7

LEMMA HarmlessKept ==
  ASSUME NEW s, NEW f, NEW g, NEW x, Volume(s, f, g, x),
         NEW w \in WriteT, Harmless(s, f, x, w),
         NEW t, t = WrittenDisk(s, w), NEW h, h = WrittenFat(f, w),
         NEW v, Harmless(s, f, x, v)
  PROVE  Harmless(t, h, x, v)
<1>0. Same(s, f, t, h, x) /\ SlotsKept(s, f, t, w, x)
  BY HarmlessSame
<1>1. v.to # "slot" => ~Owned(t, h, x, v.at)
  BY <1>0, OwnedSame DEF Harmless
<1>2. ASSUME v.to = "slot" PROVE Before(t, h, x, v.at, {})
  <2>1. Before(s, f, x, v.at, {})
    BY <1>2 DEF Harmless
  <2>2. w.to = "slot" => w.val.kind # "unused"
    BY DEF Harmless
  <2> QED BY <1>0, <2>1, <2>2, BeforeKept
<1>3. v.to = "slot" => ~EntAt(t, h, x, v.at)
  BY <1>0 DEF Same, Harmless
<1> QED BY <1>1, <1>2, <1>3 DEF Harmless

LEMMA TailFacts ==
  ASSUME NEW S, NEW ws \in Seq(S), ws # <<>>
  PROVE  /\ Len(ws) \in Nat \ {0}
         /\ Head(ws) = ws[1] /\ ws[1] \in S
         /\ Tail(ws) \in Seq(S)
         /\ Len(Tail(ws)) = Len(ws) - 1
         /\ \A i \in 1 .. Len(ws) - 1 : Tail(ws)[i] = ws[i + 1]
<1>1. Len(ws) \in Nat \ {0} /\ Head(ws) = ws[1] /\ ws[1] \in S
  OBVIOUS
<1>2. PICK vs : vs = Tail(ws)
  OBVIOUS
<1>3. vs \in Seq(S)
  BY <1>2
<1>4. Len(vs) = Len(ws) - 1 /\ \A i \in 1 .. Len(ws) - 1 : vs[i] = ws[i + 1]
  BY <1>2
<1> QED BY <1>1, <1>2, <1>3, <1>4

LEMMA LongerThanOne ==
  ASSUME NEW S, NEW ws \in Seq(S), ws # <<>>, Len(ws) # 1
  PROVE  Len(ws) > 1 /\ Tail(ws) # <<>>
<1>1. PICK n \in Nat \ {0} : n = Len(ws)
  BY TailFacts
<1>2. n > 1
  BY <1>1
<1>3. PICK vs, m : vs = Tail(ws) /\ m = Len(vs) /\ m = n - 1
  BY <1>1, TailFacts
<1>4. m # 0
  BY <1>2, <1>3
<1>5. vs # <<>>
  <2>1. Len(<<>>) = 0
    OBVIOUS
  <2>2. SUFFICES ASSUME vs = <<>> PROVE FALSE
    OBVIOUS
  <2>3. Len(vs) = 0
    BY <2>1, <2>2, Zenon
  <2> QED BY <1>3, <1>4, <2>3
<1> QED BY <1>1, <1>2, <1>3, <1>5

LEMMA ComingKept ==
  ASSUME NEW f \in FatT, NEW ws \in Seq(WriteT), Len(ws) > 0, NEW q \in Seq(Clusters),
         Coming(f, ws, q)
  PROVE  Coming(WrittenFat(f, Head(ws)), Tail(ws), q)
<1>1. PICK w \in WriteT : w = ws[1] /\ Head(ws) = w
  OBVIOUS
<1>0. ws # <<>>
  OBVIOUS
<1>2. PICK vs \in Seq(WriteT) : vs = Tail(ws)
  BY <1>0, TailFacts
<1>3. Len(vs) = Len(ws) - 1 /\ \A j \in 1 .. Len(vs) : vs[j] = ws[j + 1]
  BY <1>2
<1>4. DOMAIN ws = 1 .. Len(ws) /\ DOMAIN vs = 1 .. Len(vs) /\ Len(ws) \in Nat
  OBVIOUS
<1>5. SUFFICES ASSUME NEW i \in DOMAIN q
               PROVE  /\ \A j \in DOMAIN vs : vs[j].to = "fat" /\ vs[j].at = q[i] => vs[j].val = Link(q, i)
                      /\ \/ WrittenFat(f, w)[q[i]] = Link(q, i)
                         \/ \E j \in DOMAIN vs : vs[j].to = "fat" /\ vs[j].at = q[i]
  BY <1>1, <1>2 DEF Coming
<1>6. \A j \in DOMAIN ws : ws[j].to = "fat" /\ ws[j].at = q[i] => ws[j].val = Link(q, i)
  BY DEF Coming
<1>7. \A j \in DOMAIN vs : j + 1 \in DOMAIN ws /\ vs[j] = ws[j + 1]
  BY <1>3, <1>4
<1>8. q[i] \in Clusters
  OBVIOUS
<1>9. CASE w.to = "fat" /\ w.at = q[i]
  <2>1. w.val = Link(q, i)
    BY <1>1, <1>4, <1>6, <1>9
  <2>2. WrittenFat(f, w)[q[i]] = w.val
    BY <1>8, <1>9, WrittenFatIs
  <2> QED BY <1>6, <1>7, <2>1, <2>2
<1>10. CASE ~(w.to = "fat" /\ w.at = q[i])
  <2>1. WrittenFat(f, w)[q[i]] = f[q[i]]
    BY <1>8, <1>10, WrittenFatIs
  <2>2. ASSUME NEW j \in DOMAIN ws, ws[j].to = "fat", ws[j].at = q[i]
        PROVE  \E n \in DOMAIN vs : vs[n].to = "fat" /\ vs[n].at = q[i]
    <3>1. j # 1
      BY <1>1, <1>10, <2>2
    <3>2. j - 1 \in DOMAIN vs /\ vs[j - 1] = ws[j]
      <4>1. j - 1 \in 1 .. Len(vs) /\ (j - 1) + 1 = j
        BY <1>3, <1>4, <3>1
      <4> QED BY <1>3, <1>4, <4>1
    <3> QED BY <2>2, <3>2
  <2>3. f[q[i]] = Link(q, i) \/ \E j \in DOMAIN ws : ws[j].to = "fat" /\ ws[j].at = q[i]
    BY DEF Coming
  <2> QED BY <1>6, <1>7, <2>1, <2>2, <2>3
<1> QED BY <1>9, <1>10


LEMMA BareKept ==
  ASSUME NEW s \in DiskT, NEW ws \in Seq(WriteT), ws # <<>>, NEW c \in Clusters,
         BareComing(s, ws, c)
  PROVE  BareComing(WrittenDisk(s, Head(ws)), Tail(ws), c)
<1>1. PICK w \in WriteT : w = ws[1] /\ Head(ws) = w
  BY TailFacts
<1>2. PICK vs \in Seq(WriteT) : vs = Tail(ws)
  BY TailFacts
<1>3. \A j \in DOMAIN vs : j + 1 \in DOMAIN ws /\ vs[j] = ws[j + 1]
  BY <1>2, TailFacts
<1>4. 1 \in DOMAIN ws /\ \A j \in DOMAIN ws : j = 1 \/ (j - 1 \in DOMAIN vs /\ vs[j - 1] = ws[j])
  <2>1. DOMAIN ws = 1 .. Len(ws) /\ Len(ws) \in Nat \ {0} /\ DOMAIN vs = 1 .. Len(ws) - 1
    BY <1>2, TailFacts
  <2>2. ASSUME NEW j \in DOMAIN ws, j # 1 PROVE j - 1 \in DOMAIN vs /\ vs[j - 1] = ws[j]
    <3>1. j - 1 \in 1 .. Len(ws) - 1 /\ (j - 1) + 1 = j
      BY <2>1, <2>2
    <3> QED BY <1>3, <2>1, <3>1
  <2> QED BY <2>1, <2>2
<1>5. PICK t \in DiskT : t = WrittenDisk(s, w)
  BY WrittenDiskIs
<1>6. \A j \in 1 .. SlotsPerCluster : t[c][j] = Now(s, w, <<c, j>>)
  <2>1. TAKE j \in 1 .. SlotsPerCluster
  <2>2. <<c, j>> \in Places
    BY PlaceFacts
  <2> QED BY <1>5, <2>2, WrittenDiskIs DEF At
<1>7. CASE w.to = "data" /\ w.at = c
  <2>1. Bare(w.val)
    BY <1>1, <1>4, <1>7 DEF BareComing
  <2>2. \A j \in 1 .. SlotsPerCluster : t[c][j] = w.val[j]
    BY <1>6, <1>7 DEF Now
  <2>3. Bare(t[c])
    BY <2>1, <2>2 DEF Bare
  <2> QED BY <1>1, <1>2, <1>3, <1>5, <2>3 DEF BareComing
<1>8. CASE ~(w.to = "data" /\ w.at = c)
  <2>1. \A j \in 1 .. SlotsPerCluster : ~(w.to = "slot" /\ w.at = <<c, j>>)
    BY <1>1, <1>4, PlaceFacts DEF BareComing
  <2>2. \A j \in 1 .. SlotsPerCluster : t[c][j] = s[c][j]
    BY <1>6, <1>8, <2>1 DEF Now, At
  <2>3. Bare(s[c]) => Bare(t[c])
    BY <2>2 DEF Bare
  <2>4. ASSUME NEW j \in DOMAIN ws, ws[j].to = "data", ws[j].at = c
        PROVE  \E n \in DOMAIN vs : vs[n].to = "data" /\ vs[n].at = c
    BY <1>1, <1>4, <1>8, <2>4
  <2>5. Bare(s[c]) \/ \E j \in DOMAIN ws : ws[j].to = "data" /\ ws[j].at = c
    BY DEF BareComing
  <2>6. Bare(t[c]) \/ \E n \in DOMAIN vs : vs[n].to = "data" /\ vs[n].at = c
    BY <2>3, <2>4, <2>5
  <2>7. /\ \A j \in DOMAIN vs : vs[j].to = "data" /\ vs[j].at = c => Bare(vs[j].val)
        /\ \A j \in DOMAIN vs : vs[j].to = "slot" => vs[j].at[1] = Root
    BY <1>3 DEF BareComing
  <2> QED BY <1>1, <1>2, <1>5, <2>6, <2>7 DEF BareComing
<1> QED BY <1>7, <1>8

LEMMA PutsEntryKept ==
  ASSUME NEW s, NEW f, NEW g, NEW x, Volume(s, f, g, x),
         NEW ws \in Seq(WriteT), Len(ws) > 1, Harmless(s, f, x, ws[1]),
         NEW q \in Seq(Clusters), NEW w, PutsEntry(s, f, g, x, ws, w, q)
  PROVE  PutsEntry(WrittenDisk(s, Head(ws)), WrittenFat(f, Head(ws)), WrittenFat(g, Head(ws)),
                   x, Tail(ws), w, q)
<1>0. ws # <<>>
  OBVIOUS
<1>1. PICK v \in WriteT : v = ws[1] /\ Head(ws) = v
  BY <1>0, TailFacts
<1>2. PICK vs \in Seq(WriteT) : vs = Tail(ws)
  BY <1>0, TailFacts
<1>3. PICK t, h : t = WrittenDisk(s, v) /\ h = WrittenFat(f, v)
  OBVIOUS
<1>4. Same(s, f, t, h, x) /\ SlotsKept(s, f, t, v, x)
  BY <1>1, <1>3, HarmlessSame
<1>5. Coming(h, vs, q) /\ Coming(WrittenFat(g, v), vs, q)
  BY <1>1, <1>2, <1>3, ComingKept DEF PutsEntry, Volume
<1>6. \A i \in DOMAIN q : ~Owned(t, h, x, q[i])
  BY <1>4, OwnedSame DEF PutsEntry
<1>7. ~EntAt(t, h, x, w.at)
  BY <1>4 DEF Same, PutsEntry
<1>8. Before(t, h, x, w.at, Earlier(vs))
  <2>1. Before(s, f, x, w.at, Earlier(ws))
    BY DEF PutsEntry
  <2>2. v.to = "slot" => v.val.kind # "unused"
    BY <1>1 DEF Harmless
  <2>3. ASSUME NEW m \in Earlier(ws) PROVE m \in Earlier(vs) \/ (v.to = "slot" /\ At(t, m) = v.val)
    <3>1. PICK i \in 1 .. Len(ws) - 1 : ws[i].to = "slot" /\ m = ws[i].at
      BY <2>3 DEF Earlier
    <3>2. CASE i = 1
      <4>1. v.to = "slot" /\ v.at = m /\ m \in Places
        BY <1>1, <3>1, <3>2, WriteKinds
      <4> QED BY <1>3, <4>1, WrittenDiskIs DEF Now, Volume
    <3>3. CASE i # 1
      <4>1. Len(vs) = Len(ws) - 1 /\ Len(ws) \in Nat /\ \A j \in 1 .. Len(ws) - 1 : vs[j] = ws[j + 1]
        BY <1>0, <1>2, TailFacts
      <4>2. i - 1 \in 1 .. Len(vs) - 1 /\ i - 1 \in 1 .. Len(ws) - 1 /\ (i - 1) + 1 = i
        BY <3>1, <3>3, <4>1
      <4>3. vs[i - 1] = ws[i]
        BY <4>1, <4>2
      <4> QED BY <3>1, <4>2, <4>3 DEF Earlier
    <3> QED BY <3>2, <3>3
  <2> QED BY <1>4, <2>1, <2>2, <2>3, BeforeKept
<1>9. w.val.dir => BareComing(t, vs, q[1])
  <2>1. SUFFICES ASSUME w.val.dir PROVE BareComing(t, vs, q[1])
    OBVIOUS
  <2>2. q[1] \in Clusters /\ BareComing(s, ws, q[1])
    BY <2>1 DEF PutsEntry
  <2> QED BY <1>0, <1>1, <1>2, <1>3, <2>2, BareKept DEF Volume
<1>10. PutsEntry(t, h, WrittenFat(g, v), x, vs, w, q)
  BY <1>5, <1>6, <1>7, <1>8, <1>9 DEF PutsEntry
<1> QED BY <1>1, <1>2, <1>3, <1>10

LEMMA ReadyStep ==
  ASSUME NEW s \in DiskT, NEW f \in FatT, NEW g \in FatT, NEW ws \in Seq(WriteT), NEW x, NEW y,
         Ready(s, f, g, ws, x, y), Len(ws) > 1
  PROVE  /\ Ready(WrittenDisk(s, Head(ws)), WrittenFat(f, Head(ws)), WrittenFat(g, Head(ws)),
                  Tail(ws), x, y)
         /\ Volume(WrittenDisk(s, Head(ws)), WrittenFat(f, Head(ws)), g, y)
<1>0. ws # <<>>
  OBVIOUS
<1>1. PICK v \in WriteT : v = ws[1] /\ Head(ws) = v
  BY <1>0, TailFacts
<1>2. PICK vs \in Seq(WriteT) : vs = Tail(ws)
  BY <1>0, TailFacts
<1>3. PICK t, h, r : t = WrittenDisk(s, v) /\ h = WrittenFat(f, v) /\ r = WrittenFat(g, v)
  OBVIOUS
<1>4. Volume(s, f, g, y) /\ Harmless(s, f, y, v)
  BY <1>1 DEF Ready, Volume
<1>5. Volume(t, h, r, y) /\ Volume(t, h, g, y)
  BY <1>3, <1>4, HarmlessSafe
<1>6. Len(vs) = Len(ws) - 1 /\ Len(ws) \in Nat /\ \A j \in 1 .. Len(ws) - 1 : vs[j] = ws[j + 1]
  BY <1>0, <1>2, TailFacts
<1>7. vs[Len(vs)] = ws[Len(ws)] /\ vs # <<>>
  <2>1. Len(vs) \in 1 .. Len(ws) - 1 /\ Len(vs) + 1 = Len(ws)
    BY <1>6
  <2> QED BY <1>6, <2>1
<1>8. ASSUME NEW i \in 1 .. Len(vs) - 1 PROVE Harmless(t, h, y, vs[i])
  <2>1. i + 1 \in 1 .. Len(ws) - 1 /\ vs[i] = ws[i + 1]
    BY <1>6
  <2>2. Harmless(s, f, y, ws[i + 1])
    BY <2>1 DEF Ready
  <2> QED BY <1>3, <1>4, <2>1, <2>2, HarmlessKept
<1>9. Finish(t, h, r, y, vs)
  <2>1. Finish(s, f, g, y, ws)
    BY <1>0 DEF Ready
  <2>2. CASE \E q \in Seq(Clusters) : PutsEntry(s, f, g, y, ws, ws[Len(ws)], q)
    <3>1. PICK q \in Seq(Clusters) : PutsEntry(s, f, g, y, ws, ws[Len(ws)], q)
      BY <2>2
    <3>2. PutsEntry(t, h, r, y, vs, ws[Len(ws)], q)
      BY <1>1, <1>2, <1>3, <1>4, <3>1, PutsEntryKept
    <3> QED BY <1>7, <3>2 DEF Finish
  <2>3. CASE Deletes(s, f, y, ws[Len(ws)])
    <3>1. Harmless(t, h, y, ws[Len(ws)])
      BY <1>3, <1>4, <2>3, HarmlessKept DEF Deletes
    <3> QED BY <1>7, <2>3, <3>1 DEF Finish, Deletes
  <2> QED BY <2>1, <2>2, <2>3 DEF Finish
<1>10. x \subseteq y /\ y \subseteq Places /\ y \subseteq x \cup {vs[Len(vs)].at}
  BY <1>0, <1>7 DEF Ready
<1>11. Ready(t, h, r, vs, x, y)
  BY <1>5, <1>7, <1>8, <1>9, <1>10 DEF Ready, Volume
<1> QED BY <1>1, <1>2, <1>3, <1>5, <1>11


-----------------------------------------------------------------------------
(* The last write.                                                         *)

\* An entry that is gone need not be left out of account any more.
LEMMA GoneEntry ==
  ASSUME NEW t, NEW f, NEW g, NEW x, NEW y, NEW p, Volume(t, f, g, y),
         x \subseteq y, y \subseteq x \cup {p}, Kind(t, p) # "short"
  PROVE  Volume(t, f, g, x)
<1>1. x \subseteq Places /\ y \subseteq Places
  BY DEF Volume
<1>2. ASSUME NEW k, DirAt(t, x, k) PROVE DirAt(t, y, k)
  <2>1. <<Root, k>> \notin y
    <3>1. CASE k = 0
      BY <1>1, <3>1, PlaceFacts
    <3>2. CASE k # 0
      BY <1>2, <3>2 DEF DirAt
    <3> QED BY <3>1, <3>2
  <2> QED BY <1>2, <2>1 DEF DirAt
<1>3. ASSUME NEW l, EntAt(t, f, x, l) PROVE EntAt(t, f, y, l)
  <2>1. l \notin y
    BY <1>3 DEF EntAt
  <2> QED BY <1>2, <1>3, <2>1 DEF EntAt
<1>4. Safe(t, f, g, x)
  BY <1>2, <1>3 DEF Volume, Safe
<1> QED BY <1>1, <1>4 DEF Volume

\* When only the last write is left, the chain that was coming is there.
LEMMA CameIs ==
  ASSUME NEW f \in FatT, NEW ws \in Seq(WriteT), Len(ws) = 1, ws[1].to = "slot",
         NEW q \in Seq(Clusters), Len(q) > 0, Coming(f, ws, q)
  PROVE  Chain(f, q[1]) = q /\ Ends(f, q[1]) /\ q[1] \in Clusters
<1>1. DOMAIN ws = {1}
  OBVIOUS
<1>2. \A i \in 1 .. Len(q) : f[q[i]] = Link(q, i)
  BY <1>1 DEF Coming
<1>3. q[1] \in Clusters /\ Len(q) \in Nat
  OBVIOUS
<1>4. \A i \in 1 .. Len(q) - 1 : f[q[i]] = q[i + 1]
  BY <1>2, <1>3 DEF Link
<1>5. f[q[Len(q)]] = Eoc
  BY <1>2, <1>3 DEF Link
<1>6. IsChain(f, q[1], q)
  BY <1>4, <1>5 DEF IsChain
<1> QED BY <1>3, <1>6, ChainUnique

\* The entry written last is sound, in a directory that has no gap before it.
LEMMA NewEntrySafe ==
  ASSUME NEW s, NEW f, NEW g, NEW x, NEW y, Volume(s, f, g, y),
         NEW p \in Places, NEW v \in SlotT, v.kind = "short",
         x \subseteq y, y \subseteq x \cup {p},
         NEW q \in Seq(Clusters), Len(q) > 0, q[1] = v.start,
         Chain(f, v.start) = q, Ends(f, v.start), \A c \in Range(q) : g[c] = f[c],
         \A c \in Range(q) : ~Owned(s, f, y, c),
         ~v.dir => Len(q) = Clus(v.size),
         ~EntAt(s, f, y, p), Before(s, f, y, p, {}),
         v.dir => p[1] = Root /\ Len(q) = 1 /\ Bare(s[q[1]]),
         NEW t \in DiskT, \A l \in Places : At(t, l) = IF l = p THEN v ELSE At(s, l)
  PROVE  Volume(t, f, g, x)
<1>0. x \subseteq Places /\ s \in DiskT /\ f \in FatT /\ g \in FatT /\ y \subseteq Places
  BY DEF Volume
<1>1. v.start \in Clusters
  BY DEF Ends
<1>2. \A l \in Places : l # p => At(t, l) = At(s, l) /\ Kind(t, l) = Kind(s, l)
  BY DEF Kind
<1>3. At(t, p) = v /\ Kind(t, p) = "short"
  BY DEF Kind
\* A directory is an old one, or the new entry is its own.
<1>4. ASSUME NEW k, DirAt(t, x, k), <<Root, k>> # p
      PROVE  DirAt(s, y, k) /\ HeadOf(t, k) = HeadOf(s, k) /\ Ls(t, f, k) = Ls(s, f, k)
             /\ Span(t, f, k) = Span(s, f, k)
  <2>1. CASE k = 0
    BY <1>0, <2>1, RootIsDir DEF HeadOf, Ls, Span
  <2>2. CASE k # 0
    <3>1. PICK l \in Places : l = <<Root, k>>
      BY <1>4, <2>2, PlaceFacts, SlotsFit DEF DirAt
    <3>2. At(t, l) = At(s, l) /\ Kind(t, l) = Kind(s, l)
      BY <1>2, <1>4, <3>1
    <3>3. DirAt(s, y, k)
      BY <1>4, <2>2, <3>1, <3>2 DEF DirAt
    <3>4. HeadOf(t, k) = HeadOf(s, k)
      BY <2>2, <3>1, <3>2 DEF HeadOf
    <3> QED BY <3>3, <3>4 DEF Ls, Span
  <2> QED BY <2>1, <2>2
<1>5. ASSUME NEW k, DirAt(t, x, k), <<Root, k>> = p
      PROVE  /\ v.dir /\ Len(q) = 1 /\ Bare(s[q[1]])
             /\ Ls(t, f, k) = SlotsOf(q) /\ Span(t, f, k) = Range(q)
  <2>1. k # 0
    BY <1>5, PlaceFacts
  <2>2. v.dir
    BY <1>3, <1>5, <2>1 DEF DirAt
  <2>3. HeadOf(t, k) = v.start
    BY <1>3, <1>5, <2>1 DEF HeadOf
  <2>4. v.start # Root
    BY <1>1, PlaceFacts
  <2> QED BY <2>1, <2>2, <2>3, <2>4 DEF Ls, Locs, Span
<1>6. Range(q) = {q[1]} \/ Len(q) # 1
  BY DEF Range
\* So an entry is an old one, or the new one.
<1>7. ASSUME NEW l, EntAt(t, f, x, l), l # p
      PROVE  EntAt(s, f, y, l) /\ At(t, l) = At(s, l) /\ ClustersOf(t, f, l) = ClustersOf(s, f, l)
  <2>1. l \in Places /\ l \notin y /\ Kind(t, l) = "short"
    BY <1>7 DEF EntAt
  <2>2. At(t, l) = At(s, l) /\ Kind(s, l) = "short"
    BY <1>2, <1>7, <2>1
  <2>3. PICK k \in 0 .. RootSlots : DirAt(t, x, k) /\ l[1] \in Span(t, f, k)
    BY <1>7 DEF EntAt
  <2>4. <<Root, k>> # p
    <3>1. SUFFICES ASSUME <<Root, k>> = p PROVE FALSE
      OBVIOUS
    <3>2. Len(q) = 1 /\ Bare(s[q[1]]) /\ l[1] \in Range(q)
      BY <1>5, <2>3, <3>1
    <3>3. l[1] = q[1] /\ q[1] \in Clusters
      BY <1>1, <1>6, <3>2
    <3>4. l[2] \in 1 .. SlotsPerCluster
      BY <2>1, <3>3, PlaceFacts DEF Width
    <3>5. At(s, l).kind \in {"dot", "unused"}
      BY <3>2, <3>3, <3>4 DEF Bare, At
    <3> QED BY <2>2, <3>5 DEF Kind
  <2>5. DirAt(s, y, k) /\ l[1] \in Span(s, f, k)
    BY <1>4, <2>3, <2>4
  <2>6. EntAt(s, f, y, l)
    BY <2>1, <2>2, <2>5 DEF EntAt
  <2> QED BY <2>2, <2>6 DEF ClustersOf
<1>8. ClustersOf(t, f, p) = Range(q)
  BY <1>3 DEF ClustersOf
<1>9. ASSUME NEW l \in Places, EntAt(t, f, x, l) PROVE Held(t, f, g, l)
  <2>1. CASE l = p
    BY <1>1, <1>3, <1>8, <2>1 DEF Held
  <2>2. CASE l # p
    <3>1. EntAt(s, f, y, l) /\ At(t, l) = At(s, l) /\ ClustersOf(t, f, l) = ClustersOf(s, f, l)
      BY <1>7, <1>9, <2>2
    <3>2. Held(s, f, g, l)
      BY <3>1 DEF Volume, Safe
    <3> QED BY <3>1, <3>2 DEF Held
  <2> QED BY <2>1, <2>2
<1>10. ASSUME NEW l \in Places, NEW m \in Places, EntAt(t, f, x, l), EntAt(t, f, x, m), l # m
       PROVE  ClustersOf(t, f, l) \cap ClustersOf(t, f, m) = {}
  <2>1. ASSUME NEW n \in Places, EntAt(t, f, x, n), n # p
        PROVE  ClustersOf(t, f, n) \cap Range(q) = {}
    <3>1. EntAt(s, f, y, n) /\ ClustersOf(t, f, n) = ClustersOf(s, f, n)
      BY <1>7, <2>1
    <3> QED BY <3>1 DEF Owned
  <2>2. CASE l # p /\ m # p
    <3>1. EntAt(s, f, y, l) /\ ClustersOf(t, f, l) = ClustersOf(s, f, l)
          /\ EntAt(s, f, y, m) /\ ClustersOf(t, f, m) = ClustersOf(s, f, m)
      BY <1>7, <1>10, <2>2
    <3> QED BY <1>10, <3>1 DEF Volume, Safe
  <2>3. CASE l = p
    BY <1>8, <1>10, <2>1, <2>3
  <2>4. CASE m = p
    BY <1>8, <1>10, <2>1, <2>4
  <2> QED BY <2>2, <2>3, <2>4
<1>11. ASSUME NEW k \in 0 .. RootSlots, DirAt(t, x, k) PROVE NoGap(t, Ls(t, f, k))
  <2>1. CASE <<Root, k>> # p
    <3>1. DirAt(s, y, k) /\ Ls(t, f, k) = Ls(s, f, k)
      BY <1>4, <1>11, <2>1
    <3>2. PICK ls : ls = Ls(s, f, k)
      OBVIOUS
    <3>3. NoGap(s, ls) /\ \A i \in DOMAIN ls : ls[i] \in Places
      BY <3>1, <3>2, PlaceIn DEF Volume, Safe
    <3>4. SUFFICES ASSUME NEW i \in DOMAIN ls, NEW j \in DOMAIN ls, i < j, Kind(t, ls[i]) = "unused"
                   PROVE  Kind(t, ls[j]) = "unused"
      BY <3>1, <3>2 DEF NoGap
    <3>5. ls[i] # p /\ Kind(s, ls[i]) = "unused"
      BY <1>2, <1>3, <3>3, <3>4
    <3>6. Kind(s, ls[j]) = "unused"
      BY <3>3, <3>4, <3>5 DEF NoGap
    <3>7. ls[j] # p
      BY <3>1, <3>2, <3>4, <3>5 DEF Before
    <3> QED BY <1>2, <3>3, <3>6, <3>7
  <2>2. CASE <<Root, k>> = p
    <3>1. v.dir /\ Len(q) = 1 /\ Bare(s[q[1]]) /\ Ls(t, f, k) = SlotsOf(q)
      BY <1>5, <1>11, <2>2
    <3>2. PICK n \in Nat \ {0} : n = SlotsPerCluster
      BY SlotsFit
    <3>3. PICK ls : ls = SlotsOf(q)
      OBVIOUS
    <3>4. \A i, j \in 1 .. Len(q) : q[i] = q[j] => i = j
      BY <3>1
    <3>5. ls \in Seq(Places) /\ Len(ls) = n
      <4>1. ls \in Seq(Places) /\ Len(ls) = Len(q) * SlotsPerCluster
        BY <3>3, <3>4, SlotsOfFacts
      <4>2. Len(q) * SlotsPerCluster = n
        BY <3>1, <3>2
      <4> QED BY <4>1, <4>2
    <3>6. ASSUME NEW j \in 1 .. n PROVE ls[j] = <<q[1], j>>
      <4>1. n * (1 - 1) + j = j
        BY <3>2
      <4>2. SlotsOf(q)[n * (1 - 1) + j] = <<q[1], j>>
        BY SMTT(30), <3>1, <3>2, <3>4, SlotsOfFacts
      <4> QED BY <3>3, <4>1, <4>2
    <3>7. ASSUME NEW j \in 1 .. n PROVE Kind(t, ls[j]) = s[q[1]][j].kind
      <4>1. ls[j] \in Places /\ q[1] # Root /\ ls[j][1] = q[1] /\ ls[j][2] = j
        BY <3>5, <3>6, PlaceFacts
      <4>2. ls[j] # p
        BY <3>1, <4>1
      <4> QED BY <1>2, <4>1, <4>2 DEF Kind, At
    <3>8. DOMAIN ls = 1 .. n
      BY <3>5
    <3>9. NoGap(t, ls)
      BY <3>1, <3>2, <3>7, <3>8 DEF NoGap, Bare
    <3> QED BY <3>1, <3>3, <3>9
  <2> QED BY <2>1, <2>2
<1>12. Safe(t, f, g, x)
  BY <1>9, <1>10, <1>11 DEF Safe
<1> QED BY <1>0, <1>12 DEF Volume


LEMMA ReadyLast ==
  ASSUME NEW s \in DiskT, NEW f \in FatT, NEW g \in FatT, NEW ws \in Seq(WriteT), NEW x, NEW y,
         Ready(s, f, g, ws, x, y), Len(ws) = 1
  PROVE  /\ WrittenFat(f, Head(ws)) = f /\ WrittenFat(g, Head(ws)) = g
         /\ Volume(WrittenDisk(s, Head(ws)), f, g, x)
<1>0. ws # <<>>
  BY SMTT(30)
<1>1. PICK w \in WriteT : w = ws[1] /\ Head(ws) = w
  BY <1>0, TailFacts
<1>2. PICK t : t = WrittenDisk(s, w)
  OBVIOUS
<1>3. Volume(s, f, g, y) /\ x \subseteq y /\ y \subseteq x \cup {w.at} /\ Finish(s, f, g, y, ws)
  BY <1>0, <1>1 DEF Ready, Volume
<1>4. w.to = "slot"
  BY <1>1, <1>3 DEF Finish, PutsEntry, Deletes
<1>5. w.at \in Places /\ w.val \in SlotT
  BY <1>4, WriteKinds
<1>6. WrittenFat(f, w) = f /\ WrittenFat(g, w) = g
  BY <1>4 DEF WrittenFat
<1>7. t \in DiskT /\ \A l \in Places : At(t, l) = Now(s, w, l)
  BY <1>2, WrittenDiskIs
<1>8. \A l \in Places : At(t, l) = IF l = w.at THEN w.val ELSE At(s, l)
  BY <1>4, <1>7 DEF Now
<1>9. CASE Deletes(s, f, y, w)
  <2>1. Volume(t, f, g, y)
    BY <1>2, <1>3, <1>6, <1>9, HarmlessSafe DEF Deletes
  <2>2. Kind(t, w.at) # "short"
    BY <1>5, <1>8, <1>9 DEF Kind, Deletes
  <2>3. Volume(t, f, g, x)
    BY <1>3, <2>1, <2>2, GoneEntry
  <2> QED BY <1>1, <1>2, <1>6, <2>3
<1>10. CASE \E q \in Seq(Clusters) : PutsEntry(s, f, g, y, ws, w, q)
  <2>1. PICK q \in Seq(Clusters) : PutsEntry(s, f, g, y, ws, w, q)
    BY <1>10
  <2>2. Len(q) > 0 /\ q[1] = w.val.start /\ w.val.kind = "short"
    BY <2>1 DEF PutsEntry
  <2>3. Coming(f, ws, q) /\ Coming(g, ws, q)
    BY <2>1 DEF PutsEntry
  <2>4. Chain(f, q[1]) = q /\ Ends(f, q[1]) /\ Chain(g, q[1]) = q /\ Ends(g, q[1]) /\ q[1] \in Clusters
    BY <1>1, <1>4, <2>2, <2>3, CameIs
  <2>5. \A i \in DOMAIN q : f[q[i]] = Link(q, i) /\ g[q[i]] = Link(q, i)
    <3>1. DOMAIN ws = {1}
      OBVIOUS
    <3> QED BY <1>1, <1>4, <2>3, <3>1 DEF Coming
  <2>6. \A c \in Range(q) : g[c] = f[c] /\ ~Owned(s, f, y, c)
    BY <2>1, <2>5 DEF Range, PutsEntry
  <2>7. Earlier(ws) = {}
    BY DEF Earlier
  <2>8. /\ ~w.val.dir => Len(q) = Clus(w.val.size)
        /\ ~EntAt(s, f, y, w.at)
        /\ Before(s, f, y, w.at, {})
    BY <2>1, <2>7 DEF PutsEntry
  <2>9. w.val.dir => w.at[1] = Root /\ Len(q) = 1 /\ Bare(s[q[1]])
    <3>1. SUFFICES ASSUME w.val.dir PROVE w.at[1] = Root /\ Len(q) = 1 /\ Bare(s[q[1]])
      OBVIOUS
    <3>2. w.at[1] = Root /\ Len(q) = 1 /\ BareComing(s, ws, q[1])
      BY <2>1, <3>1 DEF PutsEntry
    <3>3. DOMAIN ws = {1}
      OBVIOUS
    <3> QED BY <1>1, <1>4, <3>2, <3>3 DEF BareComing
  <2>10. PICK p \in Places, v \in SlotT : p = w.at /\ v = w.val
    BY <1>5
  <2>11. Volume(t, f, g, x)
    BY <1>3, <1>7, <1>8, <2>2, <2>4, <2>6, <2>8, <2>9, <2>10, NewEntrySafe
  <2> QED BY <1>1, <1>2, <1>6, <2>11
<1> QED BY <1>1, <1>3, <1>9, <1>10 DEF Finish


-----------------------------------------------------------------------------
(* The steps.                                                              *)

VolumeNow == Volume(disk, fat, cache, Damaged)

LEMMA CacheFresh ==
  ASSUME NEW s, NEW f, NEW g, NEW x, Volume(s, f, g, x)
  PROVE  Volume(s, f, f, x)
BY DEF Volume, Safe, Held

LEMMA InvVolume ==
  ASSUME SoundInv
  PROVE  VolumeNow
<1>1. Damaged \subseteq Places
  <2>1. CASE op = Idle
    BY <2>1 DEF SoundInv, Damaged, Hurt, Idle
  <2>2. CASE op # Idle
    <3>1. Going
      BY <2>2 DEF SoundInv
    <3>2. CASE /\ op.grown = {} \/ (op.victim = {} /\ Len(op.writes) < op.left)
               /\ Ready(disk, fat, cache, op.writes, lost, lost \cup {h.loc : h \in op.victim})
      <4>1. {h.loc : h \in op.victim} \subseteq Places
        BY <3>2 DEF Ready
      <4>2. {h \in op.grown : Len(op.writes) = op.left} = {}
        BY <3>1, <3>2 DEF Going
      <4> QED BY <4>1, <4>2 DEF SoundInv, Damaged, Hurt
    <3>3. CASE \E h \in op.grown : Growing(h)
      BY <3>3 DEF SoundInv, Damaged, Hurt, Growing
    <3> QED BY <3>1, <3>2, <3>3 DEF Going
  <2> QED BY <2>1, <2>2
<1> QED BY <1>1 DEF SoundInv, VolumeNow, Volume

\* The two ways of going on.
Straight ==
  /\ IsPlan(op) /\ op.writes \in Seq(WriteT) /\ op.writes # <<>> /\ op.left \in Nat
  /\ op.grown = {} \/ (op.victim = {} /\ Len(op.writes) < op.left)
  /\ Ready(disk, fat, cache, op.writes, lost, lost \cup {h.loc : h \in op.victim})

LEMMA StraightHurt ==
  ASSUME Straight
  PROVE  /\ Hurt(op.writes) = op.victim /\ Hurt(Tail(op.writes)) = op.victim
         /\ Hurt(op.writes) \cap op.grown = {}
         /\ Damaged = lost \cup {h.loc : h \in op.victim}
<1>1. Len(op.writes) \in Nat /\ Len(Tail(op.writes)) = Len(op.writes) - 1 /\ op.left \in Nat
  BY TailFacts DEF Straight
<1>2. {h \in op.grown : Len(op.writes) = op.left} = {}
  BY <1>1 DEF Straight
<1>3. {h \in op.grown : Len(Tail(op.writes)) = op.left} = {}
  BY <1>1 DEF Straight
<1>4. Hurt(op.writes) = op.victim /\ Hurt(Tail(op.writes)) = op.victim
  BY <1>2, <1>3 DEF Hurt
<1> QED BY <1>4 DEF Damaged, Straight

\* The state variables after a write, and the cache after it or as it was.
Lands(w) ==
  /\ disk' = WrittenDisk(disk, w) /\ fat' = WrittenFat(fat, w)
  /\ cache' \in {cache, WrittenFat(cache, w)}

LEMMA InvFrom ==
  ASSUME Volume(disk', fat', cache', Damaged'), lost' \subseteq Places, failures' \in 0 .. MaxFailures,
         op' # Idle => Going'
  PROVE  SoundInv'
BY DEF SoundInv, Volume

LEMMA StraightStep ==
  ASSUME SoundInv, Straight, Step
  PROVE  SoundInv'
<1>1. PICK ws \in Seq(WriteT) : ws = op.writes
  BY DEF Straight
<1>2. PICK y : y = lost \cup {h.loc : h \in op.victim}
  OBVIOUS
<1>3. Ready(disk, fat, cache, ws, lost, y) /\ ws # <<>>
  BY <1>1, <1>2 DEF Straight
<1>4. disk \in DiskT /\ fat \in FatT /\ cache \in FatT /\ lost \subseteq Places
      /\ failures \in 0 .. MaxFailures
  BY DEF SoundInv
<1>5. /\ disk' = WrittenDisk(disk, Head(ws)) /\ fat' = WrittenFat(fat, Head(ws))
      /\ cache' = WrittenFat(cache, Head(ws)) /\ lost' = lost /\ failures' = failures
  BY <1>1 DEF Step
<1>6. CASE Len(ws) = 1
  <2>1. Volume(disk', fat', cache', lost)
    BY <1>3, <1>4, <1>5, <1>6, ReadyLast
  <2>2. op' = Idle
    BY <1>1, <1>6 DEF Step
  <2>3. Damaged' = lost
    BY <1>5, <2>2 DEF Damaged, Hurt, Idle
  <2> QED BY <1>4, <1>5, <2>1, <2>2, <2>3, InvFrom
<1>7. CASE Len(ws) # 1
  <2>0. Len(ws) > 1
    BY <1>3, <1>7, LongerThanOne
  <2>1. Ready(disk', fat', cache', Tail(ws), lost, y)
    BY <1>3, <1>4, <1>5, <2>0, ReadyStep
  <2>2. disk' \in DiskT /\ fat' \in FatT /\ cache' \in FatT
    <3>1. Head(ws) \in WriteT
      BY <1>3, TailFacts
    <3> QED BY <1>4, <1>5, <3>1, WrittenDiskIs, WrittenFatIs
  <2>3. op' = [op EXCEPT !.writes = Tail(@)] /\ IsPlan(op)
    BY <1>1, <1>7 DEF Step, Straight
  <2>4. /\ op' = [writes |-> Tail(ws), gone |-> op.gone, made |-> op.made,
                  victim |-> op.victim, grown |-> op.grown, left |-> op.left]
    BY <1>1, <2>3 DEF IsPlan
  <2>5. /\ op'.writes = Tail(ws) /\ op'.victim = op.victim /\ op'.grown = op.grown
        /\ op'.left = op.left /\ IsPlan(op')
    BY <2>4 DEF IsPlan
  <2>6. Tail(ws) \in Seq(WriteT) /\ Len(Tail(ws)) = Len(ws) - 1 /\ Tail(ws) # <<>> /\ Len(ws) \in Nat
    <3>1. Tail(ws) \in Seq(WriteT) /\ Len(Tail(ws)) = Len(ws) - 1 /\ Len(ws) \in Nat
      BY <1>3, TailFacts
    <3>2. Tail(ws) # <<>>
      BY <1>3, <1>7, LongerThanOne
    <3> QED BY <3>1, <3>2
  <2>7. Straight'
    <3>1. op.grown = {} \/ (op.victim = {} /\ Len(Tail(ws)) < op.left)
      BY <1>1, <2>6 DEF Straight
    <3>2. op.left \in Nat
      BY DEF Straight
    <3> QED BY <1>2, <1>5, <2>1, <2>5, <2>6, <3>1, <3>2 DEF Straight
  <2>8. Damaged' = y
    <3>1. {h \in op.grown : Len(Tail(ws)) = op.left} = {}
      BY <1>1, <2>6 DEF Straight
    <3> QED BY <1>2, <1>5, <2>5, <3>1 DEF Damaged, Hurt
  <2>9. Volume(disk', fat', cache', y)
    BY <2>1, <2>2 DEF Ready, Volume
  <2>10. Going'
    BY <2>7 DEF Straight, Going
  <2> QED BY <1>4, <1>5, <2>8, <2>9, <2>10, InvFrom
<1> QED BY <1>6, <1>7


LEMMA StepOp ==
  ASSUME IsPlan(op), Step, Len(op.writes) # 1
  PROVE  /\ op'.writes = Tail(op.writes) /\ op'.victim = op.victim /\ op'.grown = op.grown
         /\ op'.left = op.left /\ IsPlan(op')
<1>1. op' = [op EXCEPT !.writes = Tail(@)]
  BY DEF Step
<1>2. op' = [writes |-> Tail(op.writes), gone |-> op.gone, made |-> op.made,
             victim |-> op.victim, grown |-> op.grown, left |-> op.left]
  BY <1>1 DEF IsPlan
<1> QED BY <1>2 DEF IsPlan

LEMMA FewerVolume ==
  ASSUME NEW s, NEW f, NEW g, NEW x, NEW y, Volume(s, f, g, x), x \subseteq y, y \subseteq Places
  PROVE  Volume(s, f, g, y)
BY LessFacts DEF Volume

\* A write of a cluster or of a FAT entry that no entry outside x owns.
LEMMA UnownedWrite ==
  ASSUME NEW s, NEW f, NEW g, NEW x, Volume(s, f, g, x),
         NEW w \in WriteT, w.to # "slot", ~Owned(s, f, x, w.at)
  PROVE  /\ Volume(WrittenDisk(s, w), WrittenFat(f, w), g, x)
         /\ Volume(WrittenDisk(s, w), WrittenFat(f, w), WrittenFat(g, w), x)
         /\ \A c : Owned(WrittenDisk(s, w), WrittenFat(f, w), x, c) <=> Owned(s, f, x, c)
<1>1. Harmless(s, f, x, w)
  BY DEF Harmless
<1>2. PICK t, h : t = WrittenDisk(s, w) /\ h = WrittenFat(f, w)
  OBVIOUS
<1>3. Volume(t, h, g, x) /\ Volume(t, h, WrittenFat(g, w), x)
  BY <1>1, <1>2, HarmlessSafe
<1>4. Same(s, f, t, h, x)
  BY <1>1, <1>2, HarmlessSame
<1> QED BY <1>2, <1>3, <1>4, OwnedSame

LEMMA SlotIs ==
  ASSUME NEW k \in Kinds, NEW n \in Words, NEW o \in Nat, NEW d \in BOOLEAN, NEW c \in Int, NEW z \in Nat,
         k = "short" => n \in ShortNames \cup Range(Aliases),
         k = "lfn" => n \in LongNames
  PROVE  /\ Slot(k, n, o, d, c, z) \in SlotT
         /\ Slot(k, n, o, d, c, z).kind = k /\ Slot(k, n, o, d, c, z).name = n
         /\ Slot(k, n, o, d, c, z).sum = o /\ Slot(k, n, o, d, c, z).dir = d
         /\ Slot(k, n, o, d, c, z).start = c /\ Slot(k, n, o, d, c, z).size = z
<1>1. /\ Slot(k, n, o, d, c, z).kind = k /\ Slot(k, n, o, d, c, z).name = n
      /\ Slot(k, n, o, d, c, z).sum = o /\ Slot(k, n, o, d, c, z).dir = d
      /\ Slot(k, n, o, d, c, z).start = c /\ Slot(k, n, o, d, c, z).size = z
  BY Zenon DEF Slot
<1>2. Slot(k, n, o, d, c, z) \in
        [kind : Kinds, name : Words, sum : Nat, dir : BOOLEAN, start : Int, size : Nat]
  BY Zenon DEF Slot
<1> QED BY <1>1, <1>2, Zenon DEF SlotT

LEMMA KindsDiffer ==
  /\ "unused" \in Kinds /\ "deleted" \in Kinds /\ "lfn" \in Kinds /\ "dot" \in Kinds
  /\ "short" \in Kinds /\ "data" \in Kinds /\ "" \in Words
BY DEF Kinds, Words

LEMMA ZeroedIs ==
  /\ Zeroed \in ClusterT /\ Unused \in SlotT /\ Deleted \in SlotT
  /\ Unused.kind = "unused" /\ Deleted.kind = "deleted"
<1>0. ASSUME NEW k \in Kinds, k # "short", k # "lfn"
      PROVE  Slot(k, "", 0, FALSE, 0, 0) \in SlotT /\ Slot(k, "", 0, FALSE, 0, 0).kind = k
  <2>1. PICK n \in Words : n = ""
    BY KindsDiffer, Zenon
  <2>2. PICK d \in BOOLEAN : d = FALSE
    BY Zenon
  <2>3. 0 \in Int /\ 0 \in Nat
    BY SMT
  <2>4. Slot(k, n, 0, d, 0, 0) \in SlotT /\ Slot(k, n, 0, d, 0, 0).kind = k
    BY <1>0, <2>3, SlotIs
  <2> QED BY <2>1, <2>2, <2>4, Zenon
<1>1. Unused \in SlotT /\ Unused.kind = "unused"
  BY <1>0, KindsDiffer, Zenon DEF Unused
<1>2. Deleted \in SlotT /\ Deleted.kind = "deleted"
  BY <1>0, KindsDiffer, Zenon DEF Deleted
<1> QED BY <1>1, <1>2 DEF Zeroed, ClusterT

\* What the writes of grow_directory do.
LEMMA GrowWriteFacts ==
  ASSUME NEW c \in Clusters, NEW n \in Clusters
  PROVE  /\ DataW(n, Zeroed) \in WriteT /\ DataW(n, Zeroed).to = "data" /\ DataW(n, Zeroed).at = n
         /\ FatW(c, n) \in WriteT /\ FatW(c, n).to = "fat" /\ FatW(c, n).at = c
         /\ FatW(n, Eoc) \in WriteT /\ FatW(n, Eoc).to = "fat" /\ FatW(n, Eoc).at = n
         /\ \A s : WrittenDisk(s, DataW(n, Zeroed)) = [s EXCEPT ![n] = Zeroed]
         /\ \A s : WrittenDisk(s, FatW(c, n)) = s /\ WrittenDisk(s, FatW(n, Eoc)) = s
         /\ \A f : WrittenFat(f, DataW(n, Zeroed)) = f
         /\ \A f : WrittenFat(f, FatW(c, n)) = [f EXCEPT ![c] = n]
         /\ \A f : WrittenFat(f, FatW(n, Eoc)) = [f EXCEPT ![n] = Eoc]
         /\ \A f : [[f EXCEPT ![c] = n] EXCEPT ![n] = Eoc] = GrownFat(f, c, n)
<1>1. DataW(n, Zeroed) \in WriteT /\ FatW(c, n) \in WriteT /\ FatW(n, Eoc) \in WriteT
  BY ZeroedIs DEF DataW, FatW, WriteT
<1>2. /\ DataW(n, Zeroed).to = "data" /\ DataW(n, Zeroed).at = n /\ DataW(n, Zeroed).val = Zeroed
      /\ FatW(c, n).to = "fat" /\ FatW(c, n).at = c /\ FatW(c, n).val = n
      /\ FatW(n, Eoc).to = "fat" /\ FatW(n, Eoc).at = n /\ FatW(n, Eoc).val = Eoc
  BY DEF DataW, FatW
<1>3. \A s : WrittenDisk(s, DataW(n, Zeroed)) = [s EXCEPT ![n] = Zeroed]
  BY <1>2 DEF WrittenDisk
<1>4. \A s : WrittenDisk(s, FatW(c, n)) = s /\ WrittenDisk(s, FatW(n, Eoc)) = s
  BY <1>2 DEF WrittenDisk
<1>5. \A f : WrittenFat(f, DataW(n, Zeroed)) = f
  BY <1>2 DEF WrittenFat
<1>6. \A f : WrittenFat(f, FatW(c, n)) = [f EXCEPT ![c] = n] /\ WrittenFat(f, FatW(n, Eoc)) = [f EXCEPT ![n] = Eoc]
  BY <1>2 DEF WrittenFat
<1>7. \A f : [[f EXCEPT ![c] = n] EXCEPT ![n] = Eoc] = GrownFat(f, c, n)
  BY Zenon DEF GrownFat
<1> QED BY <1>1, <1>2, <1>3, <1>4, <1>5, <1>6, <1>7

LEMMA FatWrites ==
  ASSUME NEW c, NEW v
  PROVE  /\ \A s : WrittenDisk(s, FatW(c, v)) = s
         /\ \A f : WrittenFat(f, FatW(c, v)) = [f EXCEPT ![c] = v]
<1>1. FatW(c, v).to = "fat" /\ FatW(c, v).at = c /\ FatW(c, v).val = v
  BY DEF FatW
<1>2. \A s : WrittenDisk(s, FatW(c, v)) = s
  BY <1>1 DEF WrittenDisk
<1>3. \A f : WrittenFat(f, FatW(c, v)) = [f EXCEPT ![c] = v]
  BY <1>1 DEF WrittenFat
<1> QED BY <1>2, <1>3

\* Where a growing directory stands, and what a write does to it.
LEMMA GrowLands ==
  ASSUME SoundInv, NEW h, Going, Growing(h), NEW w, w = Head(op.writes), Lands(w)
  PROVE  /\ w \in WriteT
         /\ Len(op.writes) \in Nat /\ Len(op.writes) >= op.left
         /\ Len(op.writes) = op.left => Volume(disk', fat', cache', lost \cup {h.loc})
         /\ Len(op.writes) = op.left + 1 => Volume(disk', fat', cache', lost \cup {h.loc})
         /\ Len(op.writes) > op.left + 1 => Volume(disk', fat', cache', lost)
<1>1. PICK ws \in Seq(WriteT) : ws = op.writes /\ ws # <<>> /\ Len(ws) \in Nat \ {0} /\ op.left \in Nat
  BY TailFacts DEF Going
<1>2. w = ws[1] /\ w \in WriteT
  BY <1>1, TailFacts
<1>3. PICK last \in Clusters, new \in Clusters :
         \/ last # new /\ GrowsA(last, new, ws, h)
         \/ last # new /\ GrowsB(last, new, ws, h)
         \/ GrowsC(new, ws, h)
  BY <1>1 DEF Growing
<1>4. lost \cup {h.loc} \subseteq Places /\ op.grown = {h} /\ op.victim = {}
  BY DEF Growing, SoundInv
<1>5. ASSUME Len(ws) # op.left PROVE Volume(disk, fat, cache, lost)
  <2>1. Damaged = lost
    BY <1>1, <1>4, <1>5 DEF Damaged, Hurt
  <2> QED BY <2>1, InvVolume DEF VolumeNow
<1>6. ASSUME Len(ws) = op.left PROVE Volume(disk, fat, cache, lost \cup {h.loc})
  <2>1. Damaged = lost \cup {h.loc}
    BY <1>1, <1>4, <1>6 DEF Damaged, Hurt
  <2> QED BY <2>1, InvVolume DEF VolumeNow
<1>7. CASE GrowsA(last, new, ws, h)
  <2>1. Len(ws) = op.left + 2 /\ w = DataW(new, Zeroed) /\ ~Owned(disk, fat, lost, new)
    BY <1>2, <1>7 DEF GrowsA
  <2>2. Volume(disk, fat, cache, lost)
    BY <1>1, <1>5, <2>1
  <2>3. w.to = "data" /\ w.at = new
    BY <2>1, GrowWriteFacts
  <2>4. Volume(disk', fat', cache', lost)
    BY <1>2, <2>1, <2>2, <2>3, UnownedWrite DEF Lands
  <2> QED BY <1>1, <1>2, <2>1, <2>4
<1>8. CASE GrowsB(last, new, ws, h)
  <2>1. Len(ws) = op.left + 1 /\ w = FatW(last, new) /\ ~Owned(disk, fat, lost \cup {h.loc}, last)
    BY <1>2, <1>8 DEF GrowsB
  <2>2. Volume(disk, fat, cache, lost \cup {h.loc})
    BY <1>1, <1>4, <1>5, <2>1, FewerVolume
  <2>3. w.to = "fat" /\ w.at = last
    BY <2>1, GrowWriteFacts
  <2>4. Volume(disk', fat', cache', lost \cup {h.loc})
    BY <1>2, <2>1, <2>2, <2>3, UnownedWrite DEF Lands
  <2> QED BY <1>1, <1>2, <2>1, <2>4
<1>9. CASE GrowsC(new, ws, h)
  <2>1. Len(ws) = op.left /\ w = FatW(new, Eoc) /\ ~Owned(disk, fat, lost \cup {h.loc}, new)
    BY <1>2, <1>9 DEF GrowsC
  <2>2. Volume(disk, fat, cache, lost \cup {h.loc})
    BY <1>6, <2>1
  <2>3. w.to = "fat" /\ w.at = new
    BY <2>1, GrowWriteFacts
  <2>4. Volume(disk', fat', cache', lost \cup {h.loc})
    BY <1>2, <2>1, <2>2, <2>3, UnownedWrite DEF Lands
  <2> QED BY <1>1, <1>2, <2>1, <2>4
<1> QED BY <1>3, <1>7, <1>8, <1>9


\* What is the same in the three cases of a growing directory's next write.
LEMMA GrowNext ==
  ASSUME SoundInv, NEW h, Going, Growing(h), Step, Len(op.writes) # 1
  PROVE  /\ op'.writes = Tail(op.writes) /\ op'.writes \in Seq(WriteT) /\ op'.writes # <<>>
         /\ Len(op'.writes) = Len(op.writes) - 1 /\ Len(op.writes) \in Nat
         /\ op'.victim = {} /\ op'.grown = {h} /\ op'.left = op.left /\ op.left \in Nat /\ IsPlan(op')
         /\ h.loc \in Places /\ op.left > 0
         /\ Len(op.writes) = op.left + 1 => Damaged' = lost \cup {h.loc}
         /\ Len(op.writes) # op.left + 1 => Damaged' = lost
<1>1. PICK ws \in Seq(WriteT) : ws = op.writes /\ ws # <<>> /\ Len(ws) # 1
  BY DEF Going
<1>2. /\ Len(ws) \in Nat /\ Tail(ws) \in Seq(WriteT) /\ Len(Tail(ws)) = Len(ws) - 1
      /\ Tail(ws) # <<>>
  BY <1>1, TailFacts, LongerThanOne
<1>3. IsPlan(op) /\ op.left \in Nat
  BY DEF Going
<1>4. /\ op'.writes = Tail(op.writes) /\ op'.victim = op.victim /\ op'.grown = op.grown
      /\ op'.left = op.left /\ IsPlan(op')
  BY <1>1, <1>3, StepOp
<1>5. op.grown = {h} /\ op.victim = {} /\ h.loc \in Places /\ op.left > 0
  BY DEF Growing
<1>6. lost' = lost
  BY DEF Step
<1>7. Hurt(op.writes)' = {g \in {h} : Len(Tail(ws)) = op.left}
  BY <1>1, <1>4, <1>5 DEF Hurt
<1>8. Len(ws) = op.left + 1 => Damaged' = lost \cup {h.loc}
  <2>1. ASSUME Len(ws) = op.left + 1 PROVE Damaged' = lost \cup {h.loc}
    <3>1. Hurt(op.writes)' = {h}
      BY <1>2, <1>3, <1>7, <2>1
    <3> QED BY <1>6, <3>1 DEF Damaged
  <2> QED BY <2>1
<1>9. Len(ws) # op.left + 1 => Damaged' = lost
  <2>1. ASSUME Len(ws) # op.left + 1 PROVE Damaged' = lost
    <3>1. Hurt(op.writes)' = {}
      BY <1>2, <1>3, <1>7, <2>1
    <3> QED BY <1>6, <3>1 DEF Damaged
  <2> QED BY <2>1
<1> QED BY <1>1, <1>2, <1>3, <1>4, <1>5, <1>8, <1>9

LEMMA GrowStep ==
  ASSUME SoundInv, NEW h, h \in op.grown, Going, Growing(h), Step
  PROVE  SoundInv'
<1>1. PICK ws \in Seq(WriteT) : ws = op.writes /\ ws # <<>> /\ Len(ws) \in Nat \ {0} /\ op.left \in Nat
  BY TailFacts DEF Going
<1>2. PICK w : w = ws[1] /\ w = Head(op.writes)
  BY <1>1, TailFacts
<1>3. /\ disk' = WrittenDisk(disk, w) /\ fat' = WrittenFat(fat, w) /\ cache' = WrittenFat(cache, w)
      /\ lost' = lost /\ failures' = failures
  BY <1>2 DEF Step
<1>4. PICK last \in Clusters, new \in Clusters :
         \/ last # new /\ GrowsA(last, new, ws, h)
         \/ last # new /\ GrowsB(last, new, ws, h)
         \/ GrowsC(new, ws, h)
  BY <1>1 DEF Growing
<1>5. /\ lost \subseteq Places /\ lost \cup {h.loc} \subseteq Places /\ failures \in 0 .. MaxFailures
      /\ op.grown = {h} /\ op.victim = {} /\ h.loc \in Places /\ op.left > 0
  BY DEF Growing, SoundInv
<1>6. /\ w \in WriteT
      /\ Len(ws) >= op.left
      /\ Len(ws) = op.left => Volume(disk', fat', cache', lost \cup {h.loc})
      /\ Len(ws) = op.left + 1 => Volume(disk', fat', cache', lost \cup {h.loc})
      /\ Len(ws) > op.left + 1 => Volume(disk', fat', cache', lost)
  <2>1. Lands(w)
    BY <1>3 DEF Lands
  <2> QED BY <1>1, <1>2, <2>1, GrowLands
<1>7. ASSUME Len(ws) # op.left PROVE Volume(disk, fat, cache, lost) /\ Volume(disk, fat, cache, lost \cup {h.loc})
  <2>1. Damaged = lost
    BY <1>1, <1>5, <1>7 DEF Damaged, Hurt
  <2>2. Volume(disk, fat, cache, lost)
    BY <2>1, InvVolume DEF VolumeNow
  <2> QED BY <1>5, <2>2, FewerVolume
<1>8. \A c : Owned(disk, fat, lost \cup {h.loc}, c) => Owned(disk, fat, lost, c)
  BY LessFacts
<1>9. CASE last # new /\ GrowsA(last, new, ws, h)
  <2>1. /\ Len(ws) = op.left + 2 /\ w = DataW(new, Zeroed) /\ ~Owned(disk, fat, lost, new)
        /\ ws[2] = FatW(last, new) /\ ws[3] = FatW(new, Eoc)
        /\ ~Owned(disk, fat, lost \cup {h.loc}, last)
    BY <1>2, <1>9 DEF GrowsA
  <2>2. disk' = [disk EXCEPT ![new] = Zeroed] /\ fat' = fat /\ cache' = cache
    BY <1>3, <2>1, GrowWriteFacts
  <2>3. w.to = "data" /\ w.at = new
    BY <2>1, GrowWriteFacts
  <2>4. Volume(disk, fat, cache, lost) /\ Volume(disk, fat, cache, lost \cup {h.loc})
    BY <1>1, <1>7, <2>1
  <2>5. ~Owned(disk', fat', lost, new) /\ ~Owned(disk', fat', lost \cup {h.loc}, last)
    <3>1. \A c : Owned(disk', fat', lost, c) <=> Owned(disk, fat, lost, c)
      BY <1>3, <1>6, <2>1, <2>3, <2>4, UnownedWrite
    <3>2. ~Owned(disk, fat, lost \cup {h.loc}, new)
      BY <1>8, <2>1
    <3>3. w.to # "slot"
      BY <2>3
    <3>4. \A c : Owned(disk', fat', lost \cup {h.loc}, c) <=> Owned(disk, fat, lost \cup {h.loc}, c)
      BY <1>3, <1>6, <3>2, <3>3, <2>3, <2>4, UnownedWrite
    <3> QED BY <2>1, <3>1, <3>4
  <2>6. /\ op'.writes = Tail(ws) /\ op'.writes \in Seq(WriteT) /\ op'.writes # <<>>
        /\ Len(op'.writes) = Len(ws) - 1
        /\ op'.victim = {} /\ op'.grown = {h} /\ op'.left = op.left /\ IsPlan(op')
        /\ Damaged' = lost
    BY <1>1, <2>1, GrowNext
  <2>7. Tail(ws)[1] = ws[2] /\ Tail(ws)[2] = ws[3]
    BY <1>1, <1>5, <2>1, TailFacts
  <2>8. Ready(disk', GrownFat(fat', last, new), GrownFat(cache', last, new), Tail(Tail(Tail(ws))), lost, lost)
    BY <1>9, <2>2 DEF GrowsA
  <2>9. GrowsB(last, new, op.writes, h)'
    <3>1. Len(op'.writes) = op'.left + 1
      BY <1>1, <2>1, <2>6
    <3>2. op'.writes[1] = FatW(last, new) /\ op'.writes[2] = FatW(new, Eoc)
      BY <2>1, <2>6, <2>7
    <3>3. Ready(disk', GrownFat(fat', last, new), GrownFat(cache', last, new), Tail(Tail(op'.writes)), lost', lost')
      BY <1>3, <2>6, <2>8
    <3> QED BY <1>3, <2>5, <3>1, <3>2, <3>3 DEF GrowsB
  <2>10. Growing(h)'
    BY <1>5, <1>9, <2>6, <2>9 DEF Growing
  <2>11. Going'
    BY <1>1, <2>6, <2>10 DEF Going
  <2>12. Volume(disk', fat', cache', lost)
    BY <1>1, <1>6, <2>1
  <2> QED BY <1>3, <1>5, <2>6, <2>11, <2>12, InvFrom
<1>10. CASE last # new /\ GrowsB(last, new, ws, h)
  <2>1. /\ Len(ws) = op.left + 1 /\ w = FatW(last, new) /\ ~Owned(disk, fat, lost, new)
        /\ ws[2] = FatW(new, Eoc)
        /\ ~Owned(disk, fat, lost \cup {h.loc}, last)
    BY <1>2, <1>10 DEF GrowsB
  <2>2. /\ disk' = disk /\ [fat' EXCEPT ![new] = Eoc] = GrownFat(fat, last, new)
        /\ [cache' EXCEPT ![new] = Eoc] = GrownFat(cache, last, new)
    <3>0. /\ \A s : WrittenDisk(s, FatW(last, new)) = s
          /\ \A f : WrittenFat(f, FatW(last, new)) = [f EXCEPT ![last] = new]
      BY FatWrites
    <3>1. disk' = disk /\ fat' = [fat EXCEPT ![last] = new] /\ cache' = [cache EXCEPT ![last] = new]
      BY <1>3, <2>1, <3>0, Zenon
    <3> QED BY <3>1, Zenon DEF GrownFat
  <2>3. w.to # "slot" /\ w.at = last
    BY <2>1, GrowWriteFacts
  <2>4. Volume(disk, fat, cache, lost \cup {h.loc})
    BY <1>1, <1>7, <2>1
  <2>5. ~Owned(disk', fat', lost \cup {h.loc}, new)
    <3>1. ~Owned(disk, fat, lost \cup {h.loc}, new)
      BY <1>8, <2>1
    <3>2. \A c : Owned(disk', fat', lost \cup {h.loc}, c) <=> Owned(disk, fat, lost \cup {h.loc}, c)
      BY <1>3, <1>6, <2>1, <2>3, <2>4, UnownedWrite
    <3> QED BY <3>1, <3>2
  <2>6. /\ op'.writes = Tail(ws) /\ op'.writes \in Seq(WriteT) /\ op'.writes # <<>>
        /\ Len(op'.writes) = Len(ws) - 1
        /\ op'.victim = {} /\ op'.grown = {h} /\ op'.left = op.left /\ IsPlan(op')
        /\ Damaged' = lost \cup {h.loc}
    BY <1>1, <1>5, <2>1, GrowNext
  <2>7. Tail(ws)[1] = ws[2]
    BY <1>1, <1>5, <2>1, TailFacts
  <2>8. Ready(disk', [fat' EXCEPT ![new] = Eoc], [cache' EXCEPT ![new] = Eoc], Tail(Tail(ws)), lost, lost)
    BY <1>10, <2>2 DEF GrowsB
  <2>9. GrowsC(new, op.writes, h)'
    <3>1. Len(op'.writes) = op'.left
      BY <1>1, <2>1, <2>6
    <3>2. op'.writes[1] = FatW(new, Eoc)
      BY <2>1, <2>6, <2>7
    <3>3. Ready(disk', [fat' EXCEPT ![new] = Eoc], [cache' EXCEPT ![new] = Eoc], Tail(op'.writes), lost', lost')
      BY <1>3, <2>6, <2>8
    <3> QED BY <1>3, <2>5, <3>1, <3>2, <3>3 DEF GrowsC
  <2>10. Growing(h)'
    BY <1>5, <2>6, <2>9 DEF Growing
  <2>11. Going'
    BY <1>1, <2>6, <2>10 DEF Going
  <2>12. Volume(disk', fat', cache', lost \cup {h.loc})
    BY <1>1, <1>6, <2>1
  <2> QED BY <1>3, <1>5, <2>6, <2>11, <2>12, InvFrom
<1>11. CASE GrowsC(new, ws, h)
  <2>1. Len(ws) = op.left /\ w = FatW(new, Eoc)
    BY <1>2, <1>11 DEF GrowsC
  <2>2. disk' = disk /\ fat' = [fat EXCEPT ![new] = Eoc] /\ cache' = [cache EXCEPT ![new] = Eoc]
    <3>1. /\ \A s : WrittenDisk(s, FatW(new, Eoc)) = s
          /\ \A f : WrittenFat(f, FatW(new, Eoc)) = [f EXCEPT ![new] = Eoc]
      BY FatWrites
    <3> QED BY <1>3, <2>1, <3>1, Zenon
  <2>3. Ready(disk', fat', cache', Tail(ws), lost, lost)
    BY <1>11, <2>2 DEF GrowsC
  <2>4. Volume(disk', fat', cache', lost)
    <3>1. disk' \in DiskT /\ fat' \in FatT /\ cache' \in FatT
      BY <1>1, <1>6, <2>1 DEF Volume
    <3> QED BY <1>5, <2>3, <3>1 DEF Ready, Volume
  <2>5. CASE Len(ws) = 1
    <3>1. op' = Idle
      BY <1>1, <2>5 DEF Step
    <3>2. Damaged' = lost
      BY <1>3, <3>1 DEF Damaged, Hurt, Idle
    <3> QED BY <1>3, <1>5, <2>4, <3>1, <3>2, InvFrom
  <2>6. CASE Len(ws) # 1
    <3>1. /\ op'.writes = Tail(ws) /\ op'.writes \in Seq(WriteT) /\ op'.writes # <<>>
          /\ Len(op'.writes) = Len(ws) - 1
          /\ op'.victim = {} /\ op'.grown = {h} /\ op'.left = op.left /\ IsPlan(op')
          /\ Damaged' = lost
      BY <1>1, <2>1, <2>6, GrowNext
    <3>2. lost' \cup {g.loc : g \in op'.victim} = lost
      BY <1>3, <3>1
    <3>3. Len(op'.writes) < op'.left
      BY <1>1, <2>1, <3>1
    <3>4. Ready(disk', fat', cache', op'.writes, lost', lost' \cup {g.loc : g \in op'.victim})
      BY <1>3, <2>3, <3>1, <3>2
    <3>5. Going'
      BY <1>1, <3>1, <3>3, <3>4 DEF Going
    <3> QED BY <1>3, <1>5, <2>4, <3>1, <3>5, InvFrom
  <2> QED BY <2>5, <2>6
<1> QED BY <1>4, <1>9, <1>10, <1>11


LEMMA IdleDamaged ==
  ASSUME op' = Idle
  PROVE  Damaged' = lost'
BY DEF Damaged, Hurt, Idle

LEMMA PowerLossStep ==
  ASSUME SoundInv, PowerLoss
  PROVE  SoundInv'
<1>1. Volume(disk, fat, fat, Damaged)
  BY InvVolume, CacheFresh DEF VolumeNow
<1>2. /\ disk' = disk /\ fat' = fat /\ cache' = fat /\ op' = Idle
      /\ lost' = Damaged
  BY DEF PowerLoss, Damaged
<1>3. failures' \in 0 .. MaxFailures
  BY NamesAssumption DEF PowerLoss, SoundInv
<1>4. Volume(disk', fat', cache', lost') /\ lost' \subseteq Places
  BY <1>1, <1>2 DEF Volume
<1> QED BY <1>2, <1>3, <1>4, InvFrom, IdleDamaged

LEMMA MountStep ==
  ASSUME SoundInv, Mount
  PROVE  SoundInv'
<1>1. Volume(disk, fat, fat, Damaged)
  BY InvVolume, CacheFresh DEF VolumeNow
<1>2. disk' = disk /\ fat' = fat /\ cache' = fat /\ op' = Idle /\ op = Idle /\ lost' = lost /\ failures' = failures
  BY DEF Mount
<1>3. Damaged = lost
  BY <1>2 DEF Damaged, Hurt, Idle
<1>4. Volume(disk', fat', cache', lost') /\ lost' \subseteq Places
  BY <1>1, <1>2, <1>3 DEF Volume
<1>5. failures' \in 0 .. MaxFailures
  BY <1>2 DEF SoundInv
<1> QED BY <1>2, <1>4, <1>5, InvFrom, IdleDamaged

\* The two ways an operation goes on.
LEMMA GoingCases ==
  ASSUME SoundInv, op # Idle
  PROVE  Going /\ (Straight \/ \E h \in op.grown : Growing(h))
<1>1. Going
  BY DEF SoundInv
<1> QED BY <1>1 DEF Going, Straight

LEMMA IoErrorStep ==
  ASSUME SoundInv, IoError
  PROVE  SoundInv'
<1>1. op # Idle /\ op' = Idle /\ cache' = cache
  BY DEF IoError
<1>2. failures' \in 0 .. MaxFailures
  BY NamesAssumption DEF IoError, SoundInv
<1>3. Volume(disk, fat, cache, Damaged)
  BY InvVolume DEF VolumeNow
<1>4. disk \in DiskT /\ fat \in FatT /\ cache \in FatT /\ lost \subseteq Places
  BY DEF SoundInv
<1>5. SUFFICES Volume(disk', fat', cache', lost')
  BY <1>1, <1>2, InvFrom, IdleDamaged DEF Volume
<1>6. CASE disk' = disk /\ fat' = fat /\ lost' = Damaged
  BY <1>1, <1>3, <1>6
<1>7. CASE /\ disk' = WrittenDisk(disk, Head(op.writes)) /\ fat' = WrittenFat(fat, Head(op.writes))
           /\ IF Len(op.writes) = 1 /\ Hurt(op.writes) \cap op.grown = {} THEN lost' = lost
              ELSE lost' = lost \cup {h.loc : h \in Hurt(op.writes) \cup Hurt(Tail(op.writes))}
  <2>1. CASE Straight
    <3>1. /\ Hurt(op.writes) = op.victim /\ Hurt(Tail(op.writes)) = op.victim
          /\ Hurt(op.writes) \cap op.grown = {}
      BY <2>1, StraightHurt
    <3>2. PICK ws, y : /\ ws \in Seq(WriteT) /\ ws = op.writes /\ ws # <<>>
                       /\ y = lost \cup {h.loc : h \in op.victim}
                       /\ Ready(disk, fat, cache, ws, lost, y)
      BY <2>1 DEF Straight
    <3>3. CASE Len(ws) = 1
      <4>1. lost' = lost
        BY <1>7, <3>1, <3>2, <3>3
      <4>2. fat' = fat /\ Volume(disk', fat, cache, lost)
        BY <1>4, <1>7, <3>2, <3>3, ReadyLast
      <4> QED BY <1>1, <4>1, <4>2
    <3>4. CASE Len(ws) # 1
      <4>1. lost' = y
        BY <1>7, <3>1, <3>2, <3>4
      <4>2. Len(ws) > 1
        BY <3>2, <3>4, LongerThanOne
      <4>3. Volume(disk', fat', cache, y)
        BY <1>4, <1>7, <3>2, <4>2, ReadyStep
      <4> QED BY <1>1, <4>1, <4>3
    <3> QED BY <3>3, <3>4
  <2>2. CASE \E h \in op.grown : Growing(h)
    <3>1. PICK h \in op.grown : Growing(h)
      BY <2>2
    <3>2. Going
      BY <1>1 DEF SoundInv
    <3>3. op.grown = {h} /\ op.victim = {} /\ op.left > 0 /\ op.left \in Nat
      BY <3>1, <3>2 DEF Growing, Going
    <3>4. Lands(Head(op.writes))
      BY <1>1, <1>7 DEF Lands
    <3>5. /\ Len(op.writes) \in Nat /\ Len(op.writes) >= op.left
          /\ Len(op.writes) = op.left => Volume(disk', fat', cache', lost \cup {h.loc})
          /\ Len(op.writes) = op.left + 1 => Volume(disk', fat', cache', lost \cup {h.loc})
          /\ Len(op.writes) > op.left + 1 => Volume(disk', fat', cache', lost)
      BY <3>1, <3>2, <3>4, GrowLands
    <3>6. Len(Tail(op.writes)) = Len(op.writes) - 1
      BY <3>2, TailFacts DEF Going
    <3>7. /\ Hurt(op.writes) = {g \in {h} : Len(op.writes) = op.left}
          /\ Hurt(Tail(op.writes)) = {g \in {h} : Len(Tail(op.writes)) = op.left}
      BY <3>3 DEF Hurt
    <3>8. CASE Len(op.writes) = op.left
      <4>1. Hurt(op.writes) = {h} /\ Hurt(Tail(op.writes)) = {}
        BY <3>3, <3>5, <3>6, <3>7, <3>8
      <4>2. lost' = lost \cup {h.loc}
        BY <1>7, <3>3, <4>1
      <4> QED BY <3>5, <3>8, <4>2
    <3>9. CASE Len(op.writes) = op.left + 1
      <4>1. Hurt(op.writes) = {} /\ Hurt(Tail(op.writes)) = {h} /\ Len(op.writes) # 1
        BY <3>3, <3>5, <3>6, <3>7, <3>9
      <4>2. lost' = lost \cup {h.loc}
        BY <1>7, <3>3, <4>1
      <4> QED BY <3>5, <3>9, <4>2
    <3>10. CASE Len(op.writes) > op.left + 1
      <4>0. Len(op.writes) # op.left /\ Len(Tail(op.writes)) # op.left /\ Len(op.writes) # 1
        <5>1. PICK n \in Nat, m \in Nat : n = Len(op.writes) /\ m = op.left
          BY <3>3, <3>5
        <5>2. n > m + 1 /\ m > 0
          BY <3>3, <3>10, <5>1
        <5>3. n # m /\ n - 1 # m /\ n # 1
          BY <5>2
        <5> QED BY <3>6, <5>1, <5>3
      <4>1. Hurt(op.writes) = {} /\ Hurt(Tail(op.writes)) = {} /\ Len(op.writes) # 1
        BY <3>7, <4>0
      <4>2. lost' = lost
        BY <1>7, <3>3, <4>1
      <4> QED BY <3>5, <3>10, <4>2
    <3> QED BY <3>3, <3>5, <3>8, <3>9, <3>10
  <2> QED BY <1>1, <2>1, <2>2, GoingCases
<1>8. PICK landed \in BOOLEAN :
         LET hurt == Hurt(op.writes) \cup IF landed THEN Hurt(Tail(op.writes)) ELSE {}
             done == landed /\ Len(op.writes) = 1 /\ Hurt(op.writes) \cap op.grown = {}
         IN  /\ disk' = IF landed THEN WrittenDisk(disk, Head(op.writes)) ELSE disk
             /\ fat' = IF landed THEN WrittenFat(fat, Head(op.writes)) ELSE fat
             /\ lost' = lost \cup {h.loc : h \in IF done THEN {} ELSE hurt}
  BY Zenon DEF IoError
<1>9. CASE landed
  <2>1. CASE Len(op.writes) = 1 /\ Hurt(op.writes) \cap op.grown = {}
    BY <1>7, <1>8, <1>9, <2>1
  <2>2. CASE ~(Len(op.writes) = 1 /\ Hurt(op.writes) \cap op.grown = {})
    <3>1. lost' = lost \cup {h.loc : h \in Hurt(op.writes) \cup Hurt(Tail(op.writes))}
      BY <1>8, <1>9, <2>2
    <3> QED BY <1>7, <1>8, <1>9, <2>2, <3>1
  <2> QED BY <2>1, <2>2
<1>10. CASE ~landed
  <2>1. lost' = lost \cup {h.loc : h \in Hurt(op.writes)}
    BY <1>8, <1>10
  <2> QED BY <1>6, <1>8, <1>10, <2>1 DEF Damaged
<1> QED BY <1>9, <1>10


-----------------------------------------------------------------------------
(* What the plans are made from: the directories and entries a call finds, *)
(* the clusters it may use.                                                *)

\* ws is a followed by b.
IsCat(ws, a, b) ==
  /\ Len(a) \in Nat /\ Len(b) \in Nat /\ Len(ws) = Len(a) + Len(b)
  /\ \A i \in 1 .. Len(a) : ws[i] = a[i]
  /\ \A i \in 1 .. Len(b) : ws[Len(a) + i] = b[i]
  /\ \A i \in 1 .. Len(ws) : i \in 1 .. Len(a) \/ (i - Len(a) \in 1 .. Len(b) /\ ws[i] = b[i - Len(a)])

LEMMA CatFacts ==
  ASSUME NEW S, NEW a \in Seq(S), NEW b \in Seq(S), NEW ws, ws = a \o b
  PROVE  ws \in Seq(S) /\ IsCat(ws, a, b)
BY DEF IsCat

LEMMA OneSeq ==
  ASSUME NEW S, NEW w \in S
  PROVE  <<w>> \in Seq(S) /\ Len(<<w>>) = 1 /\ <<w>>[1] = w
OBVIOUS

\* b is the part of a from m to n.
IsPart(b, a, m, n) ==
  /\ Len(b) = n + 1 - m
  /\ \A i \in 1 .. Len(b) : b[i] = a[m + i - 1] /\ m + i - 1 \in 1 .. Len(a)

LEMMA SubSeqFacts ==
  ASSUME NEW S, NEW a \in Seq(S), NEW m \in Nat \ {0}, NEW n \in Nat, n <= Len(a), m <= n + 1,
         NEW b, b = SubSeq(a, m, n)
  PROVE  b \in Seq(S) /\ IsPart(b, a, m, n)
BY DEF IsPart

LEMMA RangeIs ==
  ASSUME NEW S, NEW a \in Seq(S)
  PROVE  /\ Len(a) \in Nat /\ DOMAIN a = 1 .. Len(a)
         /\ \A i \in 1 .. Len(a) : a[i] \in Range(a) /\ a[i] \in S
         /\ \A c \in Range(a) : \E i \in 1 .. Len(a) : a[i] = c
BY DEF Range

LEMMA FreeUnowned ==
  ASSUME NEW s, NEW f, NEW g, NEW x, Volume(s, f, g, x)
  PROVE  \A i \in 1 .. Len(FreeClusters(g)) :
           FreeClusters(g)[i] \in Clusters /\ ~Owned(s, f, x, FreeClusters(g)[i])
<1> SUFFICES ASSUME NEW i \in 1 .. Len(FreeClusters(g))
             PROVE  FreeClusters(g)[i] \in Clusters /\ ~Owned(s, f, x, FreeClusters(g)[i])
  OBVIOUS
<1>1. PICK c \in Clusters : c = FreeClusters(g)[i] /\ g[c] = Free
  BY FreeFacts
<1>2. ASSUME NEW l \in Places, EntAt(s, f, x, l), c \in ClustersOf(s, f, l) PROVE FALSE
  <2>1. Held(s, f, g, l) /\ f \in FatT
    BY <1>2 DEF Volume, Safe
  <2>2. g[c] = f[c]
    BY <1>2, <2>1 DEF Held
  <2>3. f[c] # Free
    BY <1>2, <2>1, ChainFacts DEF Held, ClustersOf
  <2> QED BY <1>1, <2>2, <2>3
<1> QED BY <1>1, <1>2 DEF Owned

LEMMA VictimUnowned ==
  ASSUME NEW s, NEW f, NEW g, NEW x, Volume(s, f, g, x), NEW p, EntAt(s, f, x, p)
  PROVE  \A c \in ClustersOf(s, f, p) : ~Owned(s, f, x \cup {p}, c)
<1> SUFFICES ASSUME NEW c \in ClustersOf(s, f, p), NEW l \in Places,
                    EntAt(s, f, x \cup {p}, l), c \in ClustersOf(s, f, l)
             PROVE  FALSE
  BY DEF Owned
<1>1. l # p /\ p \in Places
  BY DEF EntAt
<1>2. EntAt(s, f, x, l)
  BY LessFacts
<1>3. ClustersOf(s, f, l) \cap ClustersOf(s, f, p) = {}
  BY <1>1, <1>2 DEF Volume, Safe
<1> QED BY <1>3

LEMMA BeforeUsed ==
  ASSUME NEW s, NEW f, NEW g, NEW x, Safe(s, f, g, x), NEW l, Kind(s, l) # "unused", NEW P
  PROVE  Before(s, f, x, l, P)
<1> SUFFICES ASSUME NEW k \in 0 .. RootSlots, DirAt(s, x, k),
                    NEW i \in DOMAIN Ls(s, f, k), NEW j \in DOMAIN Ls(s, f, k),
                    Ls(s, f, k)[i] = l, j < i
             PROVE  Kind(s, Ls(s, f, k)[j]) # "unused"
  BY DEF Before
<1>1. NoGap(s, Ls(s, f, k))
  BY DEF Safe
<1> QED BY <1>1 DEF NoGap

\* The directories a mount finds.
LEMMA DirsIs ==
  ASSUME NEW s, NEW x, NEW d \in Dirs(s), d.loc \notin x
  PROVE  \E k \in 0 .. RootSlots :
           /\ DirAt(s, x, k) /\ d.at = HeadOf(s, k) /\ d.loc = <<Root, k>>
           /\ d = IF k = 0 THEN TheRoot ELSE AsDir(EntryAt(s, RootLocs, k))
<1>1. d \in Dirs(s) /\ d.loc \notin x
  OBVIOUS
<1>2. CASE d = TheRoot
  <2>1. d.at = Root /\ d.loc = <<Root, 0>>
    BY <1>2 DEF TheRoot
  <2>2. 0 \in 0 .. RootSlots
    BY SlotsFit
  <2>3. DirAt(s, x, 0)
    BY <1>1, <2>1, <2>2 DEF DirAt
  <2> QED BY <1>2, <2>1, <2>2, <2>3 DEF HeadOf
<1>3. CASE d # TheRoot
  <2>1. PICK e \in Listing(s, RootLocs) : d = AsDir(e) /\ e.dir
    BY <1>1, <1>3 DEF Dirs
  <2>2. PICK i \in Scanned(s, RootLocs) : e = EntryAt(s, RootLocs, i) /\ Kind(s, RootLocs[i]) = "short"
    BY <2>1 DEF Listing
  <2>3. i \in 1 .. RootSlots /\ RootLocs[i] = <<Root, i>>
    <3>1. DOMAIN RootLocs = 1 .. RootSlots
      BY DEF RootLocs
    <3>2. i \in DOMAIN RootLocs
      BY <2>2 DEF Scanned
    <3> QED BY <3>1, <3>2, RootLocsFacts
  <2>4. e.loc = RootLocs[i] /\ e.start = At(s, RootLocs[i]).start /\ (e.dir <=> At(s, RootLocs[i]).dir)
    BY <2>2 DEF EntryAt
  <2>5. d.at = e.start /\ d.loc = e.loc
    BY <2>1 DEF AsDir
  <2>6. i \in 0 .. RootSlots /\ i # 0
    BY <2>3, SlotsFit
  <2>7. DirAt(s, x, i)
    BY <1>1, <2>1, <2>2, <2>3, <2>4, <2>5, <2>6 DEF DirAt
  <2>8. d = AsDir(EntryAt(s, RootLocs, i))
    BY <2>1, <2>2
  <2>9. d.at = HeadOf(s, i) /\ d.loc = <<Root, i>>
    BY <2>3, <2>4, <2>5, <2>6 DEF HeadOf
  <2> QED BY <2>6, <2>7, <2>8, <2>9, Zenon
<1> QED BY <1>2, <1>3

\* The directories the operations are called on.
LEMMA SoundDirIs ==
  ASSUME NEW d \in SoundDirs(disk)
  PROVE  \E k \in 0 .. RootSlots :
           /\ DirAt(disk, lost, k) /\ d.at = HeadOf(disk, k) /\ d.loc = <<Root, k>>
<1>1. d \in Dirs(disk) /\ d.loc \notin lost
  BY DEF SoundDirs
<1> QED BY <1>1, DirsIs

\* The cache leads to the same slots as the FAT.
LEMMA CacheDir ==
  ASSUME NEW s, NEW f, NEW g, NEW x, Volume(s, f, g, x), NEW k, DirAt(s, x, k)
  PROVE  /\ Locs(g, HeadOf(s, k)) = Ls(s, f, k)
         /\ k = 0 <=> HeadOf(s, k) = Root
         /\ k # 0 => /\ Chain(g, HeadOf(s, k)) = Chain(f, HeadOf(s, k))
                     /\ HeadOf(s, k) \in Clusters /\ Ends(f, HeadOf(s, k)) /\ Ends(g, HeadOf(s, k))
<1>1. CASE k = 0
  <2>1. HeadOf(s, k) = Root
    BY <1>1 DEF HeadOf
  <2> QED BY <1>1, <2>1 DEF Locs, Ls
<1>2. CASE k # 0
  <2>1. /\ HeadOf(s, k) \in Clusters /\ Ends(f, HeadOf(s, k))
        /\ \A c \in Span(s, f, k) : g[c] = f[c]
    BY <1>2, DirFacts
  <2>2. HeadOf(s, k) # Root
    BY <2>1, PlaceFacts
  <2>3. \A c \in Range(Chain(f, HeadOf(s, k))) : g[c] = f[c]
    BY <1>2, <2>1 DEF Span
  <2>4. Chain(g, HeadOf(s, k)) = Chain(f, HeadOf(s, k)) /\ Ends(g, HeadOf(s, k))
    BY <2>1, <2>3, ChainFrame DEF Volume
  <2> QED BY <1>2, <2>1, <2>2, <2>4 DEF Locs, Ls
<1> QED BY <1>1, <1>2

LEMMA EntryIs ==
  ASSUME NEW s, NEW f, NEW g, NEW x, Volume(s, f, g, x), NEW k, DirAt(s, x, k),
         NEW e \in Listing(s, Ls(s, f, k))
  PROVE  /\ e.pos \in DOMAIN Ls(s, f, k) /\ e.pos \in Scanned(s, Ls(s, f, k))
         /\ e.loc = Ls(s, f, k)[e.pos] /\ e.loc \in Places
         /\ Kind(s, e.loc) = "short"
         /\ e.short = At(s, e.loc).name /\ (e.dir <=> At(s, e.loc).dir)
         /\ e.start = At(s, e.loc).start /\ e.size = At(s, e.loc).size
         /\ e.name = NameAt(s, Ls(s, f, k), e.pos)
         /\ e.loc \notin x => EntAt(s, f, x, e.loc)
<1>1. PICK i \in Scanned(s, Ls(s, f, k)) :
        e = EntryAt(s, Ls(s, f, k), i) /\ Kind(s, Ls(s, f, k)[i]) = "short"
  BY DEF Listing
<1>2. /\ e.pos = i /\ e.loc = Ls(s, f, k)[i] /\ e.short = At(s, Ls(s, f, k)[i]).name
      /\ (e.dir <=> At(s, Ls(s, f, k)[i]).dir) /\ e.start = At(s, Ls(s, f, k)[i]).start
      /\ e.size = At(s, Ls(s, f, k)[i]).size /\ e.name = NameAt(s, Ls(s, f, k), i)
  BY <1>1 DEF EntryAt
<1>3. i \in DOMAIN Ls(s, f, k)
  BY <1>1 DEF Scanned
<1>4. e.loc \in Places /\ e.loc[1] \in Span(s, f, k)
  BY <1>2, <1>3, PlaceIn
<1>5. k \in 0 .. RootSlots
  BY DirFacts
<1>6. e.loc \notin x => EntAt(s, f, x, e.loc)
  BY <1>1, <1>2, <1>4, <1>5 DEF EntAt
<1> QED BY <1>1, <1>2, <1>3, <1>4, <1>6

\* Every entry of a directory is listed.
LEMMA ListedIs ==
  ASSUME NEW s, NEW f, NEW g, NEW x, Volume(s, f, g, x), NEW k, DirAt(s, x, k),
         NEW l \in Places, l[1] \in Span(s, f, k), Kind(s, l) = "short"
  PROVE  \E e \in Listing(s, Ls(s, f, k)) : e.loc = l
<1>1. PICK ls : ls = Ls(s, f, k)
  OBVIOUS
<1>2. DOMAIN ls = 1 .. Len(ls) /\ Len(ls) \in Nat
  BY <1>1, PlaceIn
<1>3. PICK i \in DOMAIN ls : ls[i] = l
  BY <1>1, PlaceIn
<1>4. NoGap(s, ls) /\ k \in 0 .. RootSlots
  BY <1>1 DEF Volume, Safe, DirAt
<1>5. ASSUME NEW j \in 1 .. i PROVE Kind(s, ls[j]) # "unused"
  <2>1. j \in DOMAIN ls /\ (j < i \/ j = i)
    BY <1>2, <1>3
  <2>2. Kind(s, ls[i]) # "unused"
    BY <1>3
  <2> QED BY <1>4, <2>1, <2>2 DEF NoGap
<1>6. i \in {m \in Scanned(s, ls) : Kind(s, ls[m]) = "short"}
  BY <1>3, <1>5 DEF Scanned
<1>7. EntryAt(s, ls, i).loc = l
  BY <1>3 DEF EntryAt
<1>8. EntryAt(s, ls, i) \in Listing(s, ls)
  BY <1>6 DEF Listing
<1> QED BY <1>1, <1>7, <1>8

\* p is no directory with an entry in it.
Vacant(s, f, x, p) ==
  \A k \in 0 .. RootSlots : DirAt(s, x, k) /\ <<Root, k>> = p =>
    \A l : EntAt(s, f, x, l) => l[1] \notin Span(s, f, k)

LEMMA FileVacant ==
  ASSUME NEW s, NEW f, NEW x, NEW p \in Places, ~At(s, p).dir
  PROVE  Vacant(s, f, x, p)
BY PlaceFacts DEF Vacant, DirAt

LEMMA DirVacant ==
  ASSUME NEW s, NEW f, NEW g, NEW x, Volume(s, f, g, x), NEW p \in Places,
         Listing(s, Locs(g, At(s, p).start)) = {}
  PROVE  Vacant(s, f, x, p)
<1> SUFFICES ASSUME NEW k \in 0 .. RootSlots, DirAt(s, x, k), <<Root, k>> = p,
                    NEW l, EntAt(s, f, x, l), l[1] \in Span(s, f, k)
             PROVE  FALSE
  BY DEF Vacant
<1>1. k # 0
  BY PlaceFacts
<1>2. HeadOf(s, k) = At(s, p).start
  BY <1>1 DEF HeadOf
<1>3. Locs(g, At(s, p).start) = Ls(s, f, k)
  BY <1>2, CacheDir
<1>4. l \in Places /\ Kind(s, l) = "short"
  BY DEF EntAt
<1>5. \E e \in Listing(s, Ls(s, f, k)) : e.loc = l
  BY <1>4, ListedIs
<1> QED BY <1>3, <1>5

\* Leaving out p, only its clusters are no longer owned.
LEMMA VictimKept ==
  ASSUME NEW s, NEW f, NEW x, NEW p, Vacant(s, f, x, p), NEW c, Owned(s, f, x, c)
  PROVE  Owned(s, f, x \cup {p}, c) \/ c \in ClustersOf(s, f, p)
<1>1. PICK l \in Places : EntAt(s, f, x, l) /\ c \in ClustersOf(s, f, l)
  BY DEF Owned
<1>2. CASE l = p
  BY <1>1, <1>2
<1>3. CASE l # p
  <2>1. PICK k \in 0 .. RootSlots : DirAt(s, x, k) /\ l[1] \in Span(s, f, k)
    BY <1>1 DEF EntAt
  <2>2. <<Root, k>> # p
    BY <1>1, <2>1 DEF Vacant
  <2>3. DirAt(s, x \cup {p}, k)
    BY <2>1, <2>2 DEF DirAt
  <2>4. EntAt(s, f, x \cup {p}, l)
    BY <1>1, <1>3, <2>1, <2>3 DEF EntAt
  <2> QED BY <1>1, <2>4 DEF Owned
<1> QED BY <1>2, <1>3


\* An operation begins.
LEMMA BeginStraight ==
  ASSUME SoundInv, op = Idle, NEW p, op' = p, UNCHANGED <<disk, fat, cache, lost, failures>>,
         IsPlan(p), p.writes \in Seq(WriteT), p.writes # <<>>, p.left \in Nat, p.grown = {},
         Ready(disk, fat, cache, p.writes, lost, lost \cup {h.loc : h \in p.victim})
  PROVE  SoundInv'
<1>1. Ready(disk', fat', cache', op'.writes, lost', lost' \cup {h.loc : h \in op'.victim})
  OBVIOUS
<1>2. Going'
  BY <1>1 DEF Going
<1>3. Damaged' = lost' \cup {h.loc : h \in op'.victim}
  BY DEF Damaged, Hurt
<1>4. Volume(disk', fat', cache', Damaged')
  BY <1>1, <1>3 DEF SoundInv, Ready, Volume
<1>5. lost' \subseteq Places /\ failures' \in 0 .. MaxFailures
  BY DEF SoundInv
<1> QED BY <1>2, <1>4, <1>5, InvFrom

LEMMA LeakFrom ==
  ASSUME lost' = {}, op' = Idle => Tight(disk', fat', lost'), op' # Idle => Neat'
  PROVE  LeakInv'
BY DEF LeakInv

LEMMA BeginLeak ==
  ASSUME LeakInv, op = Idle, UNCHANGED <<disk, fat, cache, lost, failures>>, op'.writes # <<>>, op'.grown = {},
         Tight(disk, fat, lost) => Covered(disk, fat, cache, op'.writes, lost \cup {h.loc : h \in op'.victim})
  PROVE  LeakInv'
<1>1. CASE failures = 0
  <2>1. lost = {} /\ Tight(disk, fat, lost)
    BY <1>1 DEF LeakInv
  <2>2. op' # Idle
    BY DEF Idle
  <2>3. Covered(disk', fat', cache', op'.writes, lost' \cup {h.loc : h \in op'.victim})
    BY <2>1
  <2>4. Neat'
    BY <2>3 DEF Neat
  <2> QED BY <2>1, <2>2, <2>4, LeakFrom
<1>2. CASE failures # 0
  BY <1>2 DEF LeakInv
<1> QED BY <1>1, <1>2

LEMMA IdleVolume ==
  ASSUME SoundInv, op = Idle
  PROVE  Volume(disk, fat, cache, lost)
<1>1. Damaged = lost
  BY DEF Damaged, Hurt, Idle
<1> QED BY <1>1, InvVolume DEF VolumeNow

\* The entry a write or a delete is called on.
LEMMA FoundIs ==
  ASSUME NEW d \in SoundDirs(disk), NEW n, NEW e \in FindSound(disk, cache, d.at, n),
         Volume(disk, fat, cache, lost)
  PROVE  \E k \in 0 .. RootSlots :
           /\ DirAt(disk, lost, k) /\ d.at = HeadOf(disk, k)
           /\ Locs(cache, d.at) = Ls(disk, fat, k)
           /\ e \in Listing(disk, Ls(disk, fat, k))
           /\ EntAt(disk, fat, lost, e.loc)
           /\ e.start \in Clusters /\ Ends(fat, e.start)
           /\ Chain(cache, e.start) = Chain(fat, e.start)
           /\ Range(Chain(fat, e.start)) = ClustersOf(disk, fat, e.loc)
           /\ \A c \in ClustersOf(disk, fat, e.loc) : cache[c] = fat[c]
<1>1. PICK k \in 0 .. RootSlots : DirAt(disk, lost, k) /\ d.at = HeadOf(disk, k)
  BY SoundDirIs
<1>2. Locs(cache, d.at) = Ls(disk, fat, k)
  BY <1>1, CacheDir
<1>3. e \in Entries(disk, cache, d.at) /\ e.loc \notin lost
  BY DEF FindSound, Find
<1>4. e \in Listing(disk, Ls(disk, fat, k))
  BY <1>2, <1>3 DEF Entries
<1>5. EntAt(disk, fat, lost, e.loc) /\ e.start = At(disk, e.loc).start /\ e.loc \in Places
  BY <1>1, <1>3, <1>4, EntryIs
<1>6. Held(disk, fat, cache, e.loc) /\ fat \in FatT /\ cache \in FatT
  BY <1>5 DEF Volume, Safe
<1>7. Range(Chain(fat, e.start)) = ClustersOf(disk, fat, e.loc)
  BY <1>5 DEF ClustersOf
<1>8. e.start \in Clusters /\ Ends(fat, e.start) /\ \A c \in ClustersOf(disk, fat, e.loc) : cache[c] = fat[c]
  BY <1>5, <1>6 DEF Held
<1>9. Chain(cache, e.start) = Chain(fat, e.start)
  BY <1>6, <1>7, <1>8, ChainFrame
<1> QED BY <1>1, <1>2, <1>4, <1>5, <1>7, <1>8, <1>9

\* Marks and freed clusters.
LEMMA FatWIs ==
  ASSUME NEW c \in Clusters, NEW v \in Clusters \cup {Free, Eoc}
  PROVE  FatW(c, v) \in WriteT /\ FatW(c, v).to = "fat" /\ FatW(c, v).at = c /\ FatW(c, v).val = v
BY DEF FatW, WriteT

LEMMA DataWIs ==
  ASSUME NEW c \in Clusters, NEW v \in ClusterT
  PROVE  DataW(c, v) \in WriteT /\ DataW(c, v).to = "data" /\ DataW(c, v).at = c /\ DataW(c, v).val = v
BY DEF DataW, WriteT

LEMMA SlotWIs ==
  ASSUME NEW l \in Places, NEW v \in SlotT
  PROVE  SlotW(l, v) \in WriteT /\ SlotW(l, v).to = "slot" /\ SlotW(l, v).at = l /\ SlotW(l, v).val = v
BY DEF SlotW, WriteT

LEMMA FreeWritesIs ==
  ASSUME NEW r \in Seq(Clusters)
  PROVE  /\ FreeWrites(r) \in Seq(WriteT) /\ Len(FreeWrites(r)) = Len(r)
         /\ \A i \in 1 .. Len(r) : /\ FreeWrites(r)[i].to = "fat" /\ FreeWrites(r)[i].at = r[i]
                                   /\ FreeWrites(r)[i].val = Free
<1>1. \A i \in 1 .. Len(r) : FatW(r[i], Free) \in WriteT /\ FatW(r[i], Free).to = "fat"
                             /\ FatW(r[i], Free).at = r[i] /\ FatW(r[i], Free).val = Free
  BY FatWIs
<1>2. FreeWrites(r) = [i \in 1 .. Len(r) |-> FatW(r[i], Free)]
  BY DEF FreeWrites
<1>3. FreeWrites(r) \in Seq(WriteT) /\ Len(FreeWrites(r)) = Len(r)
  BY <1>1, <1>2
<1> QED BY <1>1, <1>2, <1>3

LEMMA MarkWritesIs ==
  ASSUME NEW m \in Seq(Places)
  PROVE  /\ MarkWrites(m) \in Seq(WriteT) /\ Len(MarkWrites(m)) = Len(m)
         /\ \A i \in 1 .. Len(m) : /\ MarkWrites(m)[i].to = "slot" /\ MarkWrites(m)[i].at = m[i]
                                   /\ MarkWrites(m)[i].val = Deleted
<1>1. \A i \in 1 .. Len(m) : SlotW(m[i], Deleted) \in WriteT /\ SlotW(m[i], Deleted).to = "slot"
                             /\ SlotW(m[i], Deleted).at = m[i] /\ SlotW(m[i], Deleted).val = Deleted
  BY SlotWIs, ZeroedIs
<1>2. MarkWrites(m) = [i \in 1 .. Len(m) |-> SlotW(m[i], Deleted)]
  BY DEF MarkWrites
<1>3. MarkWrites(m) \in Seq(WriteT) /\ Len(MarkWrites(m)) = Len(m)
  BY <1>1, <1>2
<1> QED BY <1>1, <1>2, <1>3

\* The VFAT entries before an entry, all of them used slots of the directory.
LEMMA PrecedingIs ==
  ASSUME NEW s, NEW ls \in Seq(Places), NEW i \in 1 .. Len(ls)
  PROVE  /\ PrecedingLfn(s, ls, i) \in Seq(Places)
         /\ \A j \in 1 .. Len(PrecedingLfn(s, ls, i)) : Kind(s, PrecedingLfn(s, ls, i)[j]) = "lfn"
<1> DEFINE mine == {k \in 1 .. i - 1 : \A j \in k .. i - 1 : Kind(s, ls[j]) = "lfn"}
<1>1. mine \cup {i} \subseteq Nat /\ mine \cup {i} # {}
  OBVIOUS
<1>2. PICK b : b = Min(mine \cup {i}) /\ b \in mine \cup {i}
  BY <1>1, MinIs
<1>3. PrecedingLfn(s, ls, i) = SubSeq(ls, b, i - 1)
  BY <1>2 DEF PrecedingLfn
<1>4. b \in 1 .. i /\ \A j \in b .. i - 1 : Kind(s, ls[j]) = "lfn"
  <2>1. CASE b = i
    BY <2>1
  <2>2. CASE b \in mine
    BY <2>2
  <2> QED BY <1>2, <2>1, <2>2
<1> HIDE DEF mine
<1>5. /\ SubSeq(ls, b, i - 1) \in Seq(Places) /\ Len(SubSeq(ls, b, i - 1)) = i - b
      /\ \A j \in 1 .. i - b : SubSeq(ls, b, i - 1)[j] = ls[b + j - 1]
  BY <1>4
<1>6. \A j \in 1 .. i - b : b + j - 1 \in b .. i - 1
  BY <1>4
<1> QED BY <1>3, <1>4, <1>5, <1>6


LEMMA AppendFacts ==
  ASSUME NEW S, NEW a \in Seq(S), NEW v \in S
  PROVE  /\ Append(a, v) \in Seq(S) /\ Len(a) \in Nat /\ Len(Append(a, v)) = Len(a) + 1
         /\ \A i \in 1 .. Len(a) : Append(a, v)[i] = a[i]
         /\ Append(a, v)[Len(a) + 1] = v
OBVIOUS

\* The plan of a delete.
LEMMA RemovalReady ==
  ASSUME NEW s, NEW f, NEW g, NEW x, Volume(s, f, g, x), NEW p, EntAt(s, f, x, p),
         NEW ch \in Seq(Clusters), Range(ch) = ClustersOf(s, f, p),
         NEW ps \in Seq(Places), \A j \in 1 .. Len(ps) : Kind(s, ps[j]) = "lfn",
         NEW ws, ws = FreeWrites(ch) \o MarkWrites(Append(ps, p))
  PROVE  /\ ws \in Seq(WriteT) /\ ws # <<>>
         /\ Ready(s, f, g, ws, x, x \cup {p})
         /\ Tight(s, f, x) /\ Vacant(s, f, x, p) => Covered(s, f, g, ws, x \cup {p})
<1>1. p \in Places /\ Kind(s, p) = "short" /\ x \subseteq Places
  BY DEF EntAt, Volume
<1>2. PICK m \in Seq(Places) : /\ m = Append(ps, p) /\ Len(ps) \in Nat /\ Len(m) = Len(ps) + 1
                               /\ \A i \in 1 .. Len(ps) : m[i] = ps[i]
                               /\ m[Len(ps) + 1] = p
  BY <1>1, AppendFacts
<1>3. PICK a \in Seq(WriteT) : a = FreeWrites(ch) /\ Len(a) = Len(ch)
                               /\ \A i \in 1 .. Len(ch) : a[i].to = "fat" /\ a[i].at = ch[i] /\ a[i].val = Free
  BY FreeWritesIs
<1>4. PICK b \in Seq(WriteT) : b = MarkWrites(m) /\ Len(b) = Len(m)
            /\ \A i \in 1 .. Len(m) : b[i].to = "slot" /\ b[i].at = m[i] /\ b[i].val = Deleted
  BY MarkWritesIs
<1>5. ws \in Seq(WriteT) /\ IsCat(ws, a, b)
  <2>1. ws = a \o b
    BY <1>2, <1>3, <1>4
  <2> QED BY <2>1, CatFacts
<1>6. Len(b) = Len(ps) + 1 /\ Len(ws) > 0
  BY <1>2, <1>4, <1>5 DEF IsCat
<1>7. Safe(s, f, g, x \cup {p})
  BY LessFacts DEF Volume
<1>8. Deleted.kind = "deleted"
  BY ZeroedIs
<1>9. ASSUME NEW i \in 1 .. Len(a) PROVE Harmless(s, f, x \cup {p}, ws[i])
  <2>1. ws[i].to = "fat" /\ ws[i].at = ch[i] /\ i \in 1 .. Len(ch)
    BY <1>3, <1>5, <1>9 DEF IsCat
  <2>2. ch[i] \in ClustersOf(s, f, p)
    BY <2>1 DEF Range
  <2>3. ~Owned(s, f, x \cup {p}, ch[i])
    BY <2>2, VictimUnowned
  <2> QED BY <2>1, <2>3 DEF Harmless
<1>10. ASSUME NEW l, NEW w, w.to = "slot", w.at = l, w.val = Deleted, l = p \/ Kind(s, l) = "lfn"
       PROVE  Harmless(s, f, x \cup {p}, w)
  <2>1. Before(s, f, x \cup {p}, l, {})
    BY <1>1, <1>7, <1>10, BeforeUsed
  <2>2. ~EntAt(s, f, x \cup {p}, l)
    BY <1>10 DEF EntAt
  <2>3. w.val.kind = "deleted"
    BY <1>8, <1>10
  <2> QED BY <1>10, <2>1, <2>2, <2>3 DEF Harmless
<1>11. ASSUME NEW i \in 1 .. Len(ws) - 1 PROVE Harmless(s, f, x \cup {p}, ws[i])
  <2>1. CASE i \in 1 .. Len(a)
    BY <2>1, <1>9
  <2>2. CASE i \notin 1 .. Len(a)
    <3>1. PICK j \in 1 .. Len(ps) : ws[i] = b[j]
      <4>1. i \in 1 .. Len(ws) /\ i - Len(a) \in 1 .. Len(b) /\ ws[i] = b[i - Len(a)]
        BY <1>5, <1>11, <2>2 DEF IsCat
      <4>2. i - Len(a) \in 1 .. Len(ps)
        BY <1>5, <1>6, <1>2, <1>11, <4>1 DEF IsCat
      <4> QED BY <4>1, <4>2
    <3>2. j \in 1 .. Len(m)
      BY <1>2, <3>1
    <3>3. b[j].to = "slot" /\ b[j].at = ps[j] /\ b[j].val = Deleted /\ Kind(s, ps[j]) = "lfn"
      BY <1>2, <1>4, <3>1, <3>2
    <3> QED BY <1>10, <3>1, <3>3
  <2> QED BY <2>1, <2>2
<1>12. ws[Len(ws)].to = "slot" /\ ws[Len(ws)].at = p /\ ws[Len(ws)].val = Deleted
  <2>1. Len(b) \in 1 .. Len(b) /\ Len(b) \in 1 .. Len(m) /\ m[Len(b)] = p
    BY <1>2, <1>4, <1>6
  <2>2. ws[Len(ws)] = b[Len(b)]
    BY <1>5, <2>1 DEF IsCat
  <2> QED BY <1>4, <2>1, <2>2
<1>13. Deletes(s, f, x \cup {p}, ws[Len(ws)])
  BY <1>8, <1>10, <1>12 DEF Deletes
<1>14. ws # <<>>
  BY <1>6
<1>15. ASSUME Tight(s, f, x), Vacant(s, f, x, p), NEW c \in Clusters, f[c] # Free
       PROVE  \/ Owned(s, f, x \cup {p}, c)
              \/ \E j \in DOMAIN ws : ws[j].to = "fat" /\ ws[j].at = c /\ ws[j].val = Free
  <2>1. Owned(s, f, x \cup {p}, c) \/ c \in Range(ch)
    BY <1>15, VictimKept DEF Tight
  <2>2. ASSUME c \in Range(ch) PROVE \E j \in DOMAIN ws : ws[j].to = "fat" /\ ws[j].at = c /\ ws[j].val = Free
    <3>1. PICK i \in 1 .. Len(ch) : ch[i] = c
      BY <2>2, RangeIs
    <3>2. i \in 1 .. Len(ws) /\ ws[i] = a[i]
      BY <1>3, <1>5, <3>1 DEF IsCat
    <3>3. i \in DOMAIN ws
      BY <1>5, <3>2
    <3> QED BY <1>3, <3>1, <3>2, <3>3
  <2> QED BY <2>1, <2>2
<1>16. ASSUME NEW j \in DOMAIN ws, ws[j].to = "fat" PROVE ws[j].val = Free
  <2>1. j \in 1 .. Len(ws)
    BY <1>5
  <2>2. CASE j \in 1 .. Len(a)
    BY <1>3, <1>5, <2>2 DEF IsCat
  <2>3. CASE j \notin 1 .. Len(a)
    <3>1. j - Len(a) \in 1 .. Len(b) /\ ws[j] = b[j - Len(a)]
      BY <1>5, <2>1, <2>3 DEF IsCat
    <3> QED BY <1>4, <1>16, <3>1
  <2> QED BY <2>2, <2>3
<1>17. Tight(s, f, x) /\ Vacant(s, f, x, p) => Covered(s, f, g, ws, x \cup {p})
  <2>1. SUFFICES ASSUME Tight(s, f, x), Vacant(s, f, x, p) PROVE Covers(s, f, ws, x \cup {p}, {})
    BY <1>13, <1>14 DEF Covered
  <2> QED BY <1>15, <1>16, <2>1 DEF Covers
<1> QED BY <1>1, <1>5, <1>7, <1>11, <1>12, <1>13, <1>14, <1>17 DEF Ready, Finish


LEMMA RemoveStep ==
  ASSUME SoundInv, op = Idle, NEW d \in SoundDirs(disk), NEW n, NEW e \in FindSound(disk, cache, d.at, n),
         op' = Removed(disk, cache, d, e), UNCHANGED <<disk, fat, cache, lost, failures>>
  PROVE  SoundInv' /\ (LeakInv /\ Vacant(disk, fat, lost, e.loc) => LeakInv')
<1>1. Volume(disk, fat, cache, lost)
  BY IdleVolume
<1>2. PICK k \in 0 .. RootSlots :
           /\ DirAt(disk, lost, k) /\ Locs(cache, d.at) = Ls(disk, fat, k)
           /\ e \in Listing(disk, Ls(disk, fat, k))
           /\ EntAt(disk, fat, lost, e.loc)
           /\ e.start \in Clusters /\ Ends(fat, e.start)
           /\ Chain(cache, e.start) = Chain(fat, e.start)
           /\ Range(Chain(fat, e.start)) = ClustersOf(disk, fat, e.loc)
  BY <1>1, FoundIs
<1>3. PICK ch \in Seq(Clusters) : ch = Chain(cache, e.start) /\ Range(ch) = ClustersOf(disk, fat, e.loc)
  BY <1>1, <1>2, ChainFacts DEF Volume
<1>4. PICK ls \in Seq(Places), i \in Nat : ls = Ls(disk, fat, k) /\ i = e.pos /\ i \in 1 .. Len(ls)
  <2>1. Ls(disk, fat, k) \in Seq(Places) /\ DOMAIN Ls(disk, fat, k) = 1 .. Len(Ls(disk, fat, k))
    BY <1>1, <1>2, DirFacts, PlaceIn
  <2>2. e.pos \in DOMAIN Ls(disk, fat, k)
    BY <1>1, <1>2, EntryIs
  <2> QED BY <2>1, <2>2
<1>5. PICK ps \in Seq(Places) : /\ ps = PrecedingLfn(disk, ls, i)
                                /\ \A j \in 1 .. Len(ps) : Kind(disk, ps[j]) = "lfn"
  BY <1>4, PrecedingIs
<1>6. op' = [writes |-> Removal(disk, cache, d.at, e), gone |-> {Append(d.path, e.name)}, made |-> {},
             victim |-> Victim(d, e), grown |-> {}, left |-> 0]
  BY DEF Removed
<1>7. /\ op'.writes = Removal(disk, cache, d.at, e) /\ op'.victim = Victim(d, e)
      /\ op'.grown = {} /\ op'.left = 0 /\ IsPlan(op')
  BY <1>6 DEF IsPlan
<1>8. op'.writes = FreeWrites(ch) \o MarkWrites(Append(ps, e.loc))
  BY <1>2, <1>3, <1>4, <1>5, <1>7 DEF Removal
<1>9. {h.loc : h \in op'.victim} = {e.loc}
  BY <1>7 DEF Victim
<1>10. PICK p, ws, y : p = e.loc /\ ws = op'.writes /\ y = lost \cup {p}
  OBVIOUS
<1>11. /\ ws \in Seq(WriteT) /\ ws # <<>> /\ Ready(disk, fat, cache, ws, lost, y)
       /\ Tight(disk, fat, lost) /\ Vacant(disk, fat, lost, p) => Covered(disk, fat, cache, ws, y)
  BY <1>1, <1>2, <1>3, <1>5, <1>8, <1>10, RemovalReady
<1>12. Ready(disk, fat, cache, op'.writes, lost, lost \cup {h.loc : h \in op'.victim})
  BY <1>9, <1>10, <1>11
<1>13. 0 \in Nat
  OBVIOUS
<1>14. SoundInv'
  BY <1>7, <1>10, <1>11, <1>12, <1>13, BeginStraight
<1>15. ASSUME LeakInv, Vacant(disk, fat, lost, e.loc) PROVE LeakInv'
  <2>1. Tight(disk, fat, lost) => Covered(disk, fat, cache, op'.writes, lost \cup {h.loc : h \in op'.victim})
    BY <1>9, <1>10, <1>11, <1>15
  <2> QED BY <1>7, <1>10, <1>11, <1>15, <2>1, BeginLeak
<1> QED BY <1>14, <1>15

LEMMA PlainSlot ==
  ASSUME NEW k \in Kinds, k # "short", k # "lfn", NEW n \in Words, NEW d \in BOOLEAN, NEW c \in Int
  PROVE  Slot(k, n, 0, d, c, 0) \in SlotT /\ Slot(k, n, 0, d, c, 0).kind = k
<1>1. PICK o \in Nat : o = 0
  BY SMT
<1>2. 0 \in Nat
  BY SMT
<1>3. Slot(k, n, o, d, c, 0) \in SlotT /\ Slot(k, n, o, d, c, 0).kind = k
  BY <1>2, SlotIs
<1> QED BY <1>1, <1>3, Zenon

LEMMA BlockIs ==
  ASSUME NEW b \in Blocks
  PROVE  Block(b) \in ClusterT
<1>1. b \in Words
  BY DEF Words
<1>2. PICK d \in BOOLEAN : d = FALSE
  BY Zenon
<1>3. 0 \in Int
  BY SMT
<1>4. Slot("data", b, 0, d, 0, 0) \in SlotT
  BY <1>1, <1>3, PlainSlot, KindsDiffer, Zenon
<1>5. Slot("data", b, 0, FALSE, 0, 0) \in SlotT
  BY <1>2, <1>4, Zenon
<1> QED BY <1>5, Zenon DEF Block, ClusterT

LEMMA LinkIs ==
  ASSUME NEW q \in Seq(Clusters), NEW i \in 1 .. Len(q)
  PROVE  Link(q, i) \in Clusters \cup {Free, Eoc}
BY DEF Link

\* The writes b give the clusters q their contents and make them a chain.
Linking(b, q) ==
  /\ \A k \in 1 .. Len(b) : \E i \in 1 .. Len(q) :
        b[k].to \in {"fat", "data"} /\ b[k].at = q[i] /\ (b[k].to = "fat" => b[k].val = Link(q, i))
  /\ \A i \in 1 .. Len(q) : \E k \in 1 .. Len(b) : b[k].to = "fat" /\ b[k].at = q[i]

LEMMA ChainWritesIs ==
  ASSUME NEW q \in Seq(Clusters), NEW data \in Seq(Blocks)
  PROVE  /\ ChainWrites(q, data) \in Seq(WriteT) /\ Len(ChainWrites(q, data)) = 2 * Len(q)
         /\ Linking(ChainWrites(q, data), q)
<1> DEFINE D(i) == DataW(q[i], IF i <= Len(data) THEN Block(data[i]) ELSE Zeroed)
           F(i) == FatW(q[i], Link(q, i))
           cw == [k \in 1 .. 2 * Len(q) |-> IF k % 2 = 1 THEN D((k + 1) \div 2) ELSE F((k + 1) \div 2)]
<1>1. ChainWrites(q, data) = cw
  BY DEF ChainWrites, Link
<1>2. ASSUME NEW i \in 1 .. Len(q)
      PROVE  D(i) \in WriteT /\ D(i).to = "data" /\ D(i).at = q[i]
  <2>1. i <= Len(data) => Block(data[i]) \in ClusterT
    BY BlockIs
  <2>2. PICK v \in ClusterT : v = IF i <= Len(data) THEN Block(data[i]) ELSE Zeroed
    BY <2>1, ZeroedIs
  <2> QED BY <2>2, DataWIs
<1>3. ASSUME NEW i \in 1 .. Len(q)
      PROVE  F(i) \in WriteT /\ F(i).to = "fat" /\ F(i).at = q[i] /\ F(i).val = Link(q, i)
  BY LinkIs, FatWIs
<1>4. \A k \in 1 .. 2 * Len(q) : (k + 1) \div 2 \in 1 .. Len(q)
  OBVIOUS
<1>5. \A i \in 1 .. Len(q) : 2 * i \in 1 .. 2 * Len(q) /\ (2 * i) % 2 # 1 /\ (2 * i + 1) \div 2 = i
  OBVIOUS
<1> HIDE DEF D, F
<1>6. \A k \in 1 .. 2 * Len(q) : cw[k] = IF k % 2 = 1 THEN D((k + 1) \div 2) ELSE F((k + 1) \div 2)
  OBVIOUS
<1>7. \A k \in 1 .. 2 * Len(q) : cw[k] \in WriteT
  BY <1>2, <1>3, <1>4
<1>8. cw \in Seq(WriteT) /\ Len(cw) = 2 * Len(q)
  BY <1>7
<1> HIDE DEF cw
<1>9. ASSUME NEW k \in 1 .. 2 * Len(q)
      PROVE  \E i \in 1 .. Len(q) : /\ cw[k].to \in {"fat", "data"} /\ cw[k].at = q[i]
                                    /\ cw[k].to = "fat" => cw[k].val = Link(q, i)
  <2>1. PICK i \in 1 .. Len(q) : i = (k + 1) \div 2
    BY <1>4
  <2>2. CASE k % 2 = 1
    BY <1>2, <1>6, <2>1, <2>2
  <2>3. CASE k % 2 # 1
    BY <1>3, <1>6, <2>1, <2>3
  <2> QED BY <2>2, <2>3
<1>10. ASSUME NEW i \in 1 .. Len(q)
       PROVE  \E k \in 1 .. 2 * Len(q) : cw[k].to = "fat" /\ cw[k].at = q[i]
  <2>1. PICK k \in 1 .. 2 * Len(q) : k % 2 # 1 /\ (k + 1) \div 2 = i
    BY <1>5
  <2>2. cw[k] = F(i)
    BY <1>6, <2>1
  <2> QED BY <1>3, <2>1, <2>2
<1>11. Linking(cw, q)
  BY <1>8, <1>9, <1>10, Zenon DEF Linking
<1> QED BY <1>1, <1>8, <1>11, Zenon


Distinct(q) == \A i, j \in 1 .. Len(q) : q[i] = q[j] => i = j

LEMMA ComingFrom ==
  ASSUME NEW q \in Seq(Clusters), \A i, j \in 1 .. Len(q) : q[i] = q[j] => i = j, NEW ws \in Seq(WriteT),
         \A j \in 1 .. Len(ws) : ws[j].to = "fat" =>
            (\E i \in 1 .. Len(q) : ws[j].at = q[i] /\ ws[j].val = Link(q, i)) \/ ws[j].at \notin Range(q),
         \A i \in 1 .. Len(q) : \E j \in 1 .. Len(ws) : ws[j].to = "fat" /\ ws[j].at = q[i]
  PROVE  \A f : Coming(f, ws, q)
<1> SUFFICES ASSUME NEW f, NEW i \in DOMAIN q
             PROVE  /\ \A j \in DOMAIN ws : ws[j].to = "fat" /\ ws[j].at = q[i] => ws[j].val = Link(q, i)
                    /\ f[q[i]] = Link(q, i) \/ \E j \in DOMAIN ws : ws[j].to = "fat" /\ ws[j].at = q[i]
  BY DEF Coming
<1>1. DOMAIN ws = 1 .. Len(ws) /\ DOMAIN q = 1 .. Len(q) /\ i \in 1 .. Len(q) /\ q[i] \in Range(q)
  BY DEF Range
<1>2. ASSUME NEW j \in DOMAIN ws, ws[j].to = "fat", ws[j].at = q[i] PROVE ws[j].val = Link(q, i)
  <2>1. PICK m \in 1 .. Len(q) : ws[j].at = q[m] /\ ws[j].val = Link(q, m)
    BY <1>1, <1>2
  <2>2. m = i
    BY <1>1, <1>2, <2>1
  <2> QED BY <2>1, <2>2
<1>3. \E j \in DOMAIN ws : ws[j].to = "fat" /\ ws[j].at = q[i]
  BY <1>1
<1> QED BY <1>2, <1>3

\* The plan of a write.
WriteSeq(r, q, data, p, v) == FreeWrites(r) \o ChainWrites(q, data) \o <<SlotW(p, v)>>

LEMMA WriteReady ==
  ASSUME NEW s, NEW f, NEW g, NEW x, Volume(s, f, g, x), NEW p, EntAt(s, f, x, p), NEW y, y = x \cup {p},
         NEW r \in Seq(Clusters), NEW q \in Seq(Clusters), Len(q) > 0,
         Distinct(q), Range(r) \cap Range(q) = {},
         \A c \in Range(r) \cup Range(q) : ~Owned(s, f, y, c),
         NEW data \in Seq(Blocks),
         NEW v \in SlotT, v.kind = "short", v.start = q[1], ~v.dir, Len(q) = Clus(v.size),
         NEW ws, ws = WriteSeq(r, q, data, p, v)
  PROVE  /\ ws \in Seq(WriteT) /\ ws # <<>>
         /\ Ready(s, f, g, ws, x, y)
         /\ Tight(s, f, x) /\ Vacant(s, f, x, p) /\ ClustersOf(s, f, p) \subseteq Range(r) \cup Range(q) =>
              Covered(s, f, g, ws, y)
<1>1. p \in Places /\ Kind(s, p) = "short" /\ x \subseteq Places /\ y \subseteq Places
  BY DEF EntAt, Volume
<1>2. PICK a \in Seq(WriteT) : a = FreeWrites(r) /\ Len(a) = Len(r)
                               /\ \A i \in 1 .. Len(r) : a[i].to = "fat" /\ a[i].at = r[i] /\ a[i].val = Free
  BY FreeWritesIs
<1>3. PICK b \in Seq(WriteT) : b = ChainWrites(q, data) /\ Linking(b, q)
  BY ChainWritesIs
<1>4. PICK w \in WriteT : w = SlotW(p, v) /\ w.to = "slot" /\ w.at = p /\ w.val = v
  BY <1>1, SlotWIs
<1>5. PICK c : c = a \o b /\ c \in Seq(WriteT) /\ IsCat(c, a, b)
  BY CatFacts
<1>6. PICK u \in Seq(WriteT) : u = <<w>> /\ Len(u) = 1 /\ u[1] = w
  BY OneSeq
<1>7. ws = c \o u
  BY <1>2, <1>3, <1>4, <1>5, <1>6 DEF WriteSeq
<1>8. ws \in Seq(WriteT) /\ IsCat(ws, c, u)
  BY <1>5, <1>6, <1>7, CatFacts
<1>9. Len(c) \in Nat /\ Len(ws) = Len(c) + 1 /\ ws[Len(ws)] = w /\ \A i \in 1 .. Len(c) : ws[i] = c[i]
  BY <1>6, <1>8 DEF IsCat
<1>10. ASSUME NEW i \in 1 .. Len(c)
       PROVE  \/ c[i].to = "fat" /\ c[i].at \in Range(r) /\ c[i].val = Free
              \/ \E j \in 1 .. Len(q) : /\ c[i].to \in {"fat", "data"} /\ c[i].at = q[j]
                                        /\ (c[i].to = "fat" => c[i].val = Link(q, j))
  <2>1. CASE i \in 1 .. Len(a)
    <3>1. c[i] = a[i] /\ i \in 1 .. Len(r)
      BY <1>2, <1>5, <2>1 DEF IsCat
    <3>2. r[i] \in Range(r)
      BY <3>1 DEF Range
    <3> QED BY <1>2, <3>1, <3>2
  <2>2. CASE i \notin 1 .. Len(a)
    <3>1. i - Len(a) \in 1 .. Len(b) /\ c[i] = b[i - Len(a)]
      BY <1>5, <2>2 DEF IsCat
    <3>2. PICK k \in 1 .. Len(b) : c[i] = b[k]
      BY <3>1
    <3> QED BY <1>3, <3>2 DEF Linking
  <2> QED BY <2>1, <2>2
<1>11. ASSUME NEW i \in 1 .. Len(ws) - 1 PROVE Harmless(s, f, y, ws[i])
  <2>1. i \in 1 .. Len(c) /\ ws[i] = c[i]
    BY <1>9, <1>11
  <2>2. c[i].to # "slot" /\ c[i].at \in Range(r) \cup Range(q)
    <3>1. \A j \in 1 .. Len(q) : q[j] \in Range(q)
      BY RangeIs
    <3> QED BY <1>10, <2>1, <3>1
  <2>3. ~Owned(s, f, y, c[i].at)
    BY <2>2
  <2> QED BY <2>1, <2>2, <2>3 DEF Harmless
<1>12. \A h : Coming(h, ws, q)
  <2>1. ASSUME NEW j \in 1 .. Len(ws), ws[j].to = "fat"
        PROVE  (\E i \in 1 .. Len(q) : ws[j].at = q[i] /\ ws[j].val = Link(q, i)) \/ ws[j].at \notin Range(q)
    <3>1. j # Len(ws)
      BY <1>4, <1>9, <2>1
    <3>2. j \in 1 .. Len(c) /\ ws[j] = c[j]
      BY <1>9, <2>1, <3>1
    <3> QED BY <1>10, <2>1, <3>2
  <2>2. ASSUME NEW i \in 1 .. Len(q)
        PROVE  \E j \in 1 .. Len(ws) : ws[j].to = "fat" /\ ws[j].at = q[i]
    <3>1. PICK k \in 1 .. Len(b) : b[k].to = "fat" /\ b[k].at = q[i]
      BY <1>3 DEF Linking
    <3>2. Len(a) + k \in 1 .. Len(c) /\ c[Len(a) + k] = b[k]
      BY <1>5, <3>1 DEF IsCat
    <3>3. Len(a) + k \in 1 .. Len(ws) /\ ws[Len(a) + k] = b[k]
      BY <1>9, <3>2
    <3> QED BY <3>1, <3>3
  <2>3. \A i, j \in 1 .. Len(q) : q[i] = q[j] => i = j
    BY DEF Distinct
  <2> QED BY <1>8, <2>1, <2>2, <2>3, ComingFrom
<1>13. Safe(s, f, g, y)
  BY LessFacts DEF Volume
<1>14. PutsEntry(s, f, g, y, ws, w, q)
  <2>1. Before(s, f, y, p, Earlier(ws))
    BY <1>1, <1>13, BeforeUsed
  <2>2. ~EntAt(s, f, y, p)
    BY DEF EntAt
  <2>3. \A i \in DOMAIN q : ~Owned(s, f, y, q[i])
    BY DEF Range
  <2>4. Coming(f, ws, q) /\ Coming(g, ws, q)
    BY <1>12
  <2> QED BY <1>4, <2>1, <2>2, <2>3, <2>4 DEF PutsEntry
<1>15. Finish(s, f, g, y, ws)
  BY <1>9, <1>14 DEF Finish
<1>16. ws # <<>> /\ ws[Len(ws)].at = p
  BY <1>4, <1>9
<1>17. ASSUME Tight(s, f, x), Vacant(s, f, x, p), ClustersOf(s, f, p) \subseteq Range(r) \cup Range(q),
              NEW z \in Clusters, f[z] # Free
       PROVE  \/ Owned(s, f, y, z) \/ z \in Range(q)
              \/ \E j \in DOMAIN ws : ws[j].to = "fat" /\ ws[j].at = z /\ ws[j].val = Free
  <2>1. Owned(s, f, y, z) \/ z \in Range(r) \cup Range(q)
    BY <1>17, VictimKept DEF Tight
  <2>2. ASSUME z \in Range(r) PROVE \E j \in DOMAIN ws : ws[j].to = "fat" /\ ws[j].at = z /\ ws[j].val = Free
    <3>1. PICK i \in 1 .. Len(r) : r[i] = z
      BY <2>2, RangeIs
    <3>2. i \in 1 .. Len(c) /\ c[i] = a[i]
      BY <1>2, <1>5, <3>1 DEF IsCat
    <3>3. i \in DOMAIN ws /\ ws[i] = a[i]
      BY <1>8, <1>9, <3>2
    <3> QED BY <1>2, <3>1, <3>3
  <2> QED BY <2>1, <2>2
<1>18. ASSUME NEW j \in DOMAIN ws, ws[j].to = "fat" PROVE ws[j].val = Free \/ ws[j].at \in Range(q)
  <2>1. j \in 1 .. Len(ws)
    BY <1>8
  <2>2. j # Len(ws)
    BY <1>4, <1>9, <1>18
  <2>3. j \in 1 .. Len(c) /\ ws[j] = c[j]
    BY <1>9, <2>1, <2>2
  <2>4. \A i \in 1 .. Len(q) : q[i] \in Range(q)
    BY RangeIs
  <2> QED BY <1>10, <2>3, <2>4
<1>19. ASSUME Vacant(s, f, x, p) PROVE Homed(s, f, y, p)
  <2>1. PICK k \in 0 .. RootSlots : DirAt(s, x, k) /\ p[1] \in Span(s, f, k)
    BY DEF EntAt
  <2>2. <<Root, k>> # p
    BY <1>19, <2>1 DEF Vacant
  <2>3. DirAt(s, y, k)
    BY <2>1, <2>2 DEF DirAt
  <2> QED BY <2>1, <2>3 DEF Homed
<1>20. ASSUME Tight(s, f, x), Vacant(s, f, x, p), ClustersOf(s, f, p) \subseteq Range(r) \cup Range(q)
       PROVE  Covered(s, f, g, ws, y)
  <2>1. Covers(s, f, ws, y, Range(q))
    BY <1>17, <1>18, <1>20 DEF Covers
  <2> QED BY <1>9, <1>14, <1>16, <1>19, <1>20, <2>1 DEF Covered
<1> QED BY <1>1, <1>8, <1>11, <1>13, <1>15, <1>16, <1>20 DEF Ready

\* The clusters of the file afterwards: the first of those it had, or these and some
\* free ones.
LEMMA ShrunkIs ==
  ASSUME NEW S, NEW ch \in Seq(S), Distinct(ch),
         NEW n \in Nat \ {0}, n <= Len(ch), NEW q \in Seq(S), IsPart(q, ch, 1, n)
  PROVE  /\ Len(q) = n /\ q[1] = ch[1] /\ Distinct(q) /\ Range(q) \subseteq Range(ch)
         /\ \A r \in Seq(S) : IsPart(r, ch, n + 1, Len(ch)) =>
                /\ Range(r) \cap Range(q) = {} /\ Range(r) \subseteq Range(ch)
                /\ Range(ch) \subseteq Range(r) \cup Range(q)
<1>1. Len(ch) \in Nat /\ \A a \in 1 .. Len(ch) : ch[a] \in Range(ch)
  BY RangeIs
<1>3. Len(q) = n /\ \A i \in 1 .. n : q[i] = ch[i] /\ i \in 1 .. Len(ch)
  BY DEF IsPart
<1>5. \A c \in Range(q) : \E i \in 1 .. Len(q) : q[i] = c
  BY RangeIs
<1>6. ASSUME NEW r \in Seq(S), IsPart(r, ch, n + 1, Len(ch)), NEW c \in Range(r)
      PROVE  c \in Range(ch) /\ c \notin Range(q)
  <2>1. PICK i \in 1 .. Len(r) : r[i] = c
    BY <1>6, RangeIs
  <2>2. PICK a \in 1 .. Len(ch) : a > n /\ ch[a] = c
    BY <1>1, <1>6, <2>1 DEF IsPart
  <2>3. ASSUME NEW j \in 1 .. Len(q), q[j] = c PROVE FALSE
    <3>1. j \in 1 .. n /\ ch[j] = ch[a] /\ j \in 1 .. Len(ch)
      BY <1>3, <2>2, <2>3
    <3>2. j = a
      BY <3>1 DEF Distinct
    <3> QED BY <2>2, <3>1, <3>2
  <2> QED BY <1>1, <1>5, <2>2, <2>3
<1>7. ASSUME NEW c \in Range(q) PROVE c \in Range(ch)
  BY <1>1, <1>3, <1>5, <1>7
<1>8. ASSUME NEW i \in 1 .. Len(q), NEW j \in 1 .. Len(q), q[i] = q[j] PROVE i = j
  BY <1>3, <1>8 DEF Distinct
<1>9. q[1] = ch[1]
  BY <1>3
<1>10. Distinct(q)
  BY <1>8 DEF Distinct
<1>11. ASSUME NEW r \in Seq(S), IsPart(r, ch, n + 1, Len(ch)), NEW c \in Range(ch)
       PROVE  c \in Range(r) \cup Range(q)
  <2>1. PICK a \in 1 .. Len(ch) : ch[a] = c
    BY RangeIs
  <2>2. CASE a <= n
    <3>1. a \in 1 .. Len(q) /\ q[a] = c
      BY <1>1, <1>3, <2>1, <2>2
    <3> QED BY <3>1, RangeIs
  <2>3. CASE ~(a <= n)
    <3>1. PICK m \in Nat : m = a - n /\ m \in 1 .. Len(r) /\ (n + 1) + m - 1 = a
      BY <1>1, <1>11, <2>1, <2>3 DEF IsPart
    <3>2. r[m] = c
      BY <1>11, <2>1, <3>1 DEF IsPart
    <3> QED BY <3>1, <3>2, RangeIs
  <2> QED BY <2>2, <2>3
<1> QED BY <1>3, <1>6, <1>7, <1>9, <1>10, <1>11

LEMMA LengthenedIs ==
  ASSUME NEW S, NEW ch \in Seq(S), Len(ch) > 0, NEW u \in Seq(S), Distinct(ch), Distinct(u),
         Range(ch) \cap Range(u) = {}, NEW q \in Seq(S), IsCat(q, ch, u)
  PROVE  /\ Len(q) = Len(ch) + Len(u) /\ q[1] = ch[1] /\ Distinct(q)
         /\ Range(q) \subseteq Range(ch) \cup Range(u) /\ Range(ch) \subseteq Range(q)
<1>1. /\ Len(ch) \in Nat /\ Len(u) \in Nat
      /\ \A a \in 1 .. Len(ch) : ch[a] \in Range(ch)
      /\ \A a \in 1 .. Len(u) : u[a] \in Range(u)
  BY RangeIs
<1>3. Len(q) = Len(ch) + Len(u) /\ q[1] = ch[1]
  BY <1>1 DEF IsCat
<1>4. ASSUME NEW i \in 1 .. Len(q)
      PROVE  \/ \E a \in 1 .. Len(ch) : a = i /\ q[i] = ch[a]
             \/ \E a \in 1 .. Len(u) : a = i - Len(ch) /\ q[i] = u[a]
  BY <1>4 DEF IsCat
<1>5. ASSUME NEW c \in Range(q) PROVE c \in Range(ch) \cup Range(u)
  <2>1. PICK i \in 1 .. Len(q) : q[i] = c
    BY <1>5, RangeIs
  <2> QED BY <1>1, <1>4, <2>1
<1>6. ASSUME NEW i \in 1 .. Len(q), NEW j \in 1 .. Len(q), q[i] = q[j] PROVE i = j
  <2>1. \A a \in 1 .. Len(ch), c \in 1 .. Len(u) : ch[a] # u[c]
    BY <1>1
  <2>2. CASE \E a \in 1 .. Len(ch) : a = i /\ q[i] = ch[a]
    <3>1. i \in 1 .. Len(ch) /\ q[i] = ch[i]
      BY <2>2
    <3>2. j \in 1 .. Len(ch) /\ q[j] = ch[j]
      BY <1>4, <1>6, <2>1, <3>1
    <3> QED BY <1>6, <3>1, <3>2 DEF Distinct
  <2>3. CASE \E a \in 1 .. Len(u) : a = i - Len(ch) /\ q[i] = u[a]
    <3>1. PICK a \in 1 .. Len(u) : a = i - Len(ch) /\ q[i] = u[a]
      BY <2>3
    <3>2. PICK b \in 1 .. Len(u) : b = j - Len(ch) /\ q[j] = u[b]
      BY <1>4, <1>6, <2>1, <3>1
    <3>3. a = b
      BY <1>6, <3>1, <3>2 DEF Distinct
    <3> QED BY <1>1, <3>1, <3>2, <3>3
  <2> QED BY <1>4, <2>2, <2>3
<1>7. Distinct(q)
  BY <1>6 DEF Distinct
<1>8. ASSUME NEW c \in Range(ch) PROVE c \in Range(q)
  <2>1. PICK a \in 1 .. Len(ch) : ch[a] = c
    BY RangeIs
  <2>2. a \in 1 .. Len(q) /\ q[a] = c
    BY <1>1, <1>3, <2>1 DEF IsCat
  <2> QED BY <2>2, RangeIs
<1> QED BY <1>3, <1>5, <1>7, <1>8

\* A file with the clusters ch keeps or gets q and gives back r.
ResizedTo(q, r, ch, free, n) ==
  /\ q \in Seq(Clusters) /\ r \in Seq(Clusters)
  /\ q = Resized(ch, free, n) /\ r = SubSeq(ch, n + 1, Len(ch))
  /\ Len(q) = n /\ q[1] = ch[1] /\ Distinct(q)
  /\ Range(r) \cap Range(q) = {}
  /\ Range(r) \subseteq Range(ch) /\ Range(q) \subseteq Range(ch) \cup Range(free)
  /\ Range(ch) \subseteq Range(r) \cup Range(q)

LEMMA ResizedIs ==
  ASSUME NEW ch \in Seq(Clusters), Len(ch) > 0, NEW free \in Seq(Clusters),
         Distinct(ch), Distinct(free), Range(ch) \cap Range(free) = {},
         NEW n \in Nat \ {0}, n <= Len(ch) + Len(free)
  PROVE  \E q, r : ResizedTo(q, r, ch, free, n)
<1>1. PICK a \in Nat, b \in Nat : a = Len(ch) /\ b = Len(free) /\ n <= a + b /\ a > 0
  BY RangeIs
<1>2. CASE n <= a
  <2>1. PICK q, r : q = SubSeq(ch, 1, n) /\ r = SubSeq(ch, n + 1, Len(ch))
    OBVIOUS
  <2>2. /\ n + 1 \in Nat \ {0} /\ n + 1 <= Len(ch) + 1 /\ Len(ch) \in Nat /\ Len(ch) <= Len(ch)
        /\ n \in Nat /\ n <= Len(ch) /\ 1 <= n + 1 /\ 1 \in Nat \ {0}
    BY <1>1, <1>2
  <2>3. q \in Seq(Clusters) /\ IsPart(q, ch, 1, n)
    BY <2>1, <2>2, SubSeqFacts
  <2>4. r \in Seq(Clusters) /\ IsPart(r, ch, n + 1, Len(ch))
    BY <2>1, <2>2, SubSeqFacts
  <2>5. /\ Len(q) = n /\ q[1] = ch[1] /\ Distinct(q) /\ Range(q) \subseteq Range(ch)
        /\ Range(r) \cap Range(q) = {} /\ Range(r) \subseteq Range(ch)
        /\ Range(ch) \subseteq Range(r) \cup Range(q)
    BY <2>2, <2>3, <2>4, ShrunkIs
  <2>6. q = Resized(ch, free, n)
    BY <1>1, <1>2, <2>1 DEF Resized
  <2>7. Range(q) \subseteq Range(ch) \cup Range(free)
    BY <2>5
  <2> QED BY <2>1, <2>3, <2>4, <2>5, <2>6, <2>7, Zenon DEF ResizedTo
<1>3. CASE ~(n <= a)
  <2>1. PICK m \in Nat \ {0} : m = n - a /\ m <= Len(free)
    BY <1>1, <1>3
  <2>2. PICK u : u = SubSeq(free, 1, m)
    OBVIOUS
  <2>0. u \in Seq(Clusters) /\ IsPart(u, free, 1, m)
    <3>1. m \in Nat /\ 1 <= m + 1 /\ 1 \in Nat \ {0}
      BY <2>1
    <3> QED BY <2>1, <2>2, <3>1, SubSeqFacts
  <2>3. Len(u) = m /\ Distinct(u) /\ Range(u) \subseteq Range(free)
    BY <2>0, <2>1, ShrunkIs
  <2>4. PICK q \in Seq(Clusters) : q = ch \o u /\ IsCat(q, ch, u)
    BY <2>0, CatFacts
  <2>5. Range(ch) \cap Range(u) = {}
    BY <2>3
  <2>6. /\ Len(q) = Len(ch) + Len(u) /\ q[1] = ch[1] /\ Distinct(q)
        /\ Range(q) \subseteq Range(ch) \cup Range(u) /\ Range(ch) \subseteq Range(q)
    BY <1>1, <2>0, <2>3, <2>4, <2>5, LengthenedIs
  <2>7. Len(q) = n
    BY <1>1, <2>1, <2>3, <2>6
  <2>8. q = Resized(ch, free, n)
    BY <1>1, <1>3, <2>1, <2>2, <2>4 DEF Resized
  <2>9. SubSeq(ch, n + 1, Len(ch)) = <<>>
    BY <1>1, <1>3
  <2>10. Range(<<>>) = {} /\ <<>> \in Seq(Clusters)
    BY DEF Range
  <2>11. PICK r \in Seq(Clusters) : r = SubSeq(ch, n + 1, Len(ch)) /\ Range(r) = {}
    BY <2>9, <2>10
  <2>12. Range(q) \subseteq Range(ch) \cup Range(free)
    BY <2>3, <2>6
  <2>13. Range(r) \cap Range(q) = {} /\ Range(r) \subseteq Range(ch) /\ Range(ch) \subseteq Range(r) \cup Range(q)
    BY <2>6, <2>11
  <2>14. q \in Seq(Clusters) /\ r \in Seq(Clusters) /\ r = SubSeq(ch, n + 1, Len(ch)) /\ q[1] = ch[1] /\ Distinct(q)
    BY <2>4, <2>6, <2>11
  <2> QED BY <2>7, <2>8, <2>12, <2>13, <2>14, Zenon DEF ResizedTo
<1> QED BY <1>2, <1>3

LEMMA EntrySlot ==
  ASSUME NEW n \in ShortNames \cup Range(Aliases), NEW d \in BOOLEAN, NEW c \in Int, NEW z \in Nat
  PROVE  /\ Entry(n, d, c, z) \in SlotT /\ Entry(n, d, c, z).kind = "short" /\ Entry(n, d, c, z).start = c
         /\ Entry(n, d, c, z).dir = d /\ Entry(n, d, c, z).size = z /\ Entry(n, d, c, z).name = n
<1>1. PICK o \in Nat : o = 0
  BY SMT
<1>2. PICK k \in Kinds : k = "short" /\ k # "lfn"
  BY KindsDiffer
<1>3. n \in Words
  BY DEF Words, Names
<1>4. PICK v : v = Slot(k, n, o, d, c, z)
  OBVIOUS
<1>5. v \in SlotT /\ v.kind = k /\ v.start = c /\ v.dir = d /\ v.size = z /\ v.name = n
  BY <1>2, <1>3, <1>4, SlotIs
<1>6. Entry(n, d, c, z) = v
  BY <1>1, <1>2, <1>4, Zenon DEF Entry
<1> QED BY <1>2, <1>5, <1>6, Zenon

LEMMA NeedIs ==
  ASSUME NEW data \in Seq(Blocks)
  PROVE  Len(data) \in Nat /\ Need(data) = Clus(Len(data)) /\ Need(data) \in Nat \ {0}
<1>1. PICK z \in Nat : z = Len(data)
  OBVIOUS
<1>2. z = 0 <=> data = <<>>
  BY <1>1
<1> QED BY <1>1, <1>2 DEF Need, Clus

LEMMA FreeDistinct ==
  ASSUME NEW f
  PROVE  /\ FreeClusters(f) \in Seq(Clusters) /\ Distinct(FreeClusters(f))
         /\ \A c \in Range(FreeClusters(f)) : f[c] = Free
<1>1. /\ FreeClusters(f) \in Seq(Clusters)
      /\ \A i \in 1 .. Len(FreeClusters(f)) : f[FreeClusters(f)[i]] = Free
      /\ \A i, j \in 1 .. Len(FreeClusters(f)) : FreeClusters(f)[i] = FreeClusters(f)[j] => i = j
  BY FreeFacts
<1>2. \A c \in Range(FreeClusters(f)) : \E i \in 1 .. Len(FreeClusters(f)) : FreeClusters(f)[i] = c
  BY <1>1, RangeIs
<1> QED BY <1>1, <1>2 DEF Distinct

LEMMA WriteStep ==
  ASSUME SoundInv, op = Idle, NEW d \in SoundDirs(disk), NEW n, NEW e \in FindSound(disk, cache, d.at, n),
         NEW data \in Contents, Len(data) <= Len(Chain(cache, e.start)) + Len(FreeClusters(cache)),
         op' = WritePlan(cache, d, e, data), UNCHANGED <<disk, fat, cache, lost, failures>>
  PROVE  SoundInv' /\ (LeakInv /\ ~e.dir => LeakInv')
<1>1. Volume(disk, fat, cache, lost)
  BY IdleVolume
<1>2. PICK k \in 0 .. RootSlots :
           /\ DirAt(disk, lost, k)
           /\ e \in Listing(disk, Ls(disk, fat, k))
           /\ EntAt(disk, fat, lost, e.loc)
           /\ e.start \in Clusters /\ Ends(fat, e.start)
           /\ Chain(cache, e.start) = Chain(fat, e.start)
           /\ Range(Chain(fat, e.start)) = ClustersOf(disk, fat, e.loc)
           /\ \A c \in ClustersOf(disk, fat, e.loc) : cache[c] = fat[c]
  BY <1>1, FoundIs
<1>3. PICK p, y : p \in Places /\ p = e.loc /\ y = lost \cup {p} /\ EntAt(disk, fat, lost, p)
  BY <1>2 DEF EntAt
<1>4. PICK ch \in Seq(Clusters) :
        /\ ch = Chain(cache, e.start) /\ Range(ch) = ClustersOf(disk, fat, p)
        /\ Len(ch) > 0 /\ ch[1] = e.start /\ Distinct(ch)
        /\ \A c \in Range(ch) : fat[c] # Free
  <2>1. /\ Chain(fat, e.start) \in Seq(Clusters)
        /\ Len(Chain(fat, e.start)) \in 1 .. LastCluster
        /\ Chain(fat, e.start)[1] = e.start
        /\ \A i, j \in 1 .. Len(Chain(fat, e.start)) : Chain(fat, e.start)[i] = Chain(fat, e.start)[j] => i = j
        /\ \A c \in Range(Chain(fat, e.start)) : fat[c] # Free
    BY <1>1, <1>2, ChainFacts DEF Volume
  <2>2. Len(Chain(fat, e.start)) > 0
    BY <2>1
  <2> QED BY <1>2, <1>3, <2>1, <2>2 DEF Distinct
<1>5. PICK free \in Seq(Clusters) : /\ free = FreeClusters(cache) /\ Distinct(free)
                                    /\ \A c \in Range(free) : cache[c] = Free
  BY FreeDistinct
<1>6. Range(ch) \cap Range(free) = {}
  <2>1. \A c \in Range(ch) : cache[c] # Free
    BY <1>2, <1>3, <1>4
  <2> QED BY <1>5, <2>1
<1>7. data \in Seq(Blocks)
  BY NamesAssumption
<1>8. PICK m \in Nat \ {0} : m = Need(data) /\ m = Clus(Len(data)) /\ Len(data) \in Nat
  BY <1>7, NeedIs
<1>9. m <= Len(ch) + Len(free)
  <2>1. PICK a \in Nat, b \in Nat, z \in Nat : a = Len(ch) /\ b = Len(free) /\ z = Len(data) /\ z <= a + b /\ a > 0
    BY <1>4, <1>5, <1>8, RangeIs
  <2>2. m = 1 \/ m = z
    BY <1>8, <2>1 DEF Clus
  <2>3. m <= a + b
    BY <2>1, <2>2
  <2> QED BY <2>1, <2>3
<1>10. PICK q \in Seq(Clusters), r \in Seq(Clusters) :
         /\ q = Resized(ch, free, m) /\ r = SubSeq(ch, m + 1, Len(ch))
         /\ Len(q) = m /\ q[1] = ch[1] /\ Distinct(q)
         /\ Range(r) \cap Range(q) = {}
         /\ Range(r) \subseteq Range(ch) /\ Range(q) \subseteq Range(ch) \cup Range(free)
         /\ Range(ch) \subseteq Range(r) \cup Range(q)
  <2>1. \E q, r : ResizedTo(q, r, ch, free, m)
    BY <1>4, <1>5, <1>6, <1>9, ResizedIs
  <2> QED BY <2>1, Zenon DEF ResizedTo
<1>11. \A c \in Range(r) \cup Range(q) : ~Owned(disk, fat, y, c)
  <2>1. \A c \in Range(ch) : ~Owned(disk, fat, y, c)
    BY <1>1, <1>3, <1>4, VictimUnowned
  <2>2. \A c \in Range(free) : ~Owned(disk, fat, lost, c)
    <3>1. \A i \in 1 .. Len(free) : ~Owned(disk, fat, lost, free[i])
      BY <1>1, <1>5, FreeUnowned
    <3> QED BY <1>5, <3>1, RangeIs
  <2>3. \A c : Owned(disk, fat, y, c) => Owned(disk, fat, lost, c)
    BY <1>3, LessFacts
  <2> QED BY <1>10, <2>1, <2>2, <2>3
<1>12. PICK v \in SlotT : /\ v = Entry(e.short, FALSE, e.start, Len(data))
                          /\ v.kind = "short" /\ v.start = e.start /\ ~v.dir /\ v.size = Len(data)
  <2>1. e.short = At(disk, p).name /\ Kind(disk, p) = "short" /\ At(disk, p) \in SlotT
    BY <1>1, <1>2, <1>3, EntryIs, SlotsOfDisk DEF Volume
  <2>2. PICK b \in BOOLEAN : b = FALSE
    BY Zenon
  <2>3. e.short \in ShortNames \cup Range(Aliases)
    BY <2>1 DEF SlotT, Kind
  <2>4. e.start \in Int
    BY <1>2 DEF Clusters
  <2>5. /\ Entry(e.short, b, e.start, Len(data)) \in SlotT
        /\ Entry(e.short, b, e.start, Len(data)).kind = "short"
        /\ Entry(e.short, b, e.start, Len(data)).start = e.start
        /\ Entry(e.short, b, e.start, Len(data)).dir = b
        /\ Entry(e.short, b, e.start, Len(data)).size = Len(data)
    BY <1>8, <2>2, <2>3, <2>4, EntrySlot
  <2> QED BY <2>2, <2>5, Zenon
<1>13. op' = [writes |-> WriteSeq(r, q, data, p, v),
              gone |-> {Append(d.path, e.name)}, made |-> {Made(Append(d.path, e.name), FALSE, data)},
              victim |-> Victim(d, e), grown |-> {}, left |-> 0]
  BY <1>3, <1>4, <1>5, <1>8, <1>10, <1>12 DEF WritePlan, WriteSeq
<1>14. /\ op'.writes = WriteSeq(r, q, data, p, v)
       /\ op'.victim = Victim(d, e) /\ op'.grown = {} /\ op'.left = 0 /\ IsPlan(op')
  BY <1>13 DEF IsPlan
<1>15. {h.loc : h \in op'.victim} = {p}
  BY <1>3, <1>14 DEF Victim
<1>16. PICK ws : ws = op'.writes
  OBVIOUS
<1>17. /\ ws \in Seq(WriteT) /\ ws # <<>> /\ Ready(disk, fat, cache, ws, lost, y)
       /\ Tight(disk, fat, lost) /\ Vacant(disk, fat, lost, p) /\ ClustersOf(disk, fat, p) \subseteq Range(r) \cup Range(q)
            => Covered(disk, fat, cache, ws, y)
  <2>1. Len(q) = m /\ q[1] = ch[1] /\ Distinct(q) /\ Range(r) \cap Range(q) = {}
    BY <1>10
  <2>2. Len(q) > 0 /\ v.start = q[1] /\ Len(q) = Clus(v.size)
    <3>1. Len(q) > 0
      BY <2>1
    <3>2. v.start = q[1]
      BY <1>4, <1>12, <2>1
    <3>3. Len(q) = Clus(v.size)
      BY <1>8, <1>12, <2>1
    <3> QED BY <3>1, <3>2, <3>3
  <2>3. ws = WriteSeq(r, q, data, p, v)
    BY <1>14, <1>16
  <2>4. v.kind = "short" /\ ~v.dir /\ y = lost \cup {p} /\ EntAt(disk, fat, lost, p)
    BY <1>3, <1>12
  <2> QED BY <1>1, <1>7, <1>11, <2>1, <2>2, <2>3, <2>4, WriteReady
<1>18. Ready(disk, fat, cache, op'.writes, lost, lost \cup {h.loc : h \in op'.victim})
  BY <1>3, <1>15, <1>16, <1>17
<1>19. 0 \in Nat
  OBVIOUS
<1>20. SoundInv'
  BY <1>14, <1>16, <1>17, <1>18, <1>19, BeginStraight
<1>21. ASSUME LeakInv, ~e.dir PROVE LeakInv'
  <2>1. ~At(disk, p).dir
    BY <1>1, <1>2, <1>3, <1>21, EntryIs
  <2>2. Vacant(disk, fat, lost, p)
    BY <1>3, <2>1, FileVacant
  <2>3. ClustersOf(disk, fat, p) \subseteq Range(r) \cup Range(q)
    BY <1>4, <1>10
  <2>4. Tight(disk, fat, lost) => Covered(disk, fat, cache, op'.writes, lost \cup {h.loc : h \in op'.victim})
    BY <1>3, <1>15, <1>16, <1>17, <2>2, <2>3
  <2> QED BY <1>14, <1>16, <1>17, <1>21, <2>4, BeginLeak
<1> QED BY <1>20, <1>21


-----------------------------------------------------------------------------
(* New entries.                                                            *)

LEMMA BeforePos ==
  ASSUME NEW s, NEW f, NEW g, NEW x, Volume(s, f, g, x), NEW k, DirAt(s, x, k),
         NEW ls, ls = Ls(s, f, k), NEW p \in 1 .. Len(ls), NEW P,
         \A j \in 1 .. p - 1 : Kind(s, ls[j]) # "unused" \/ ls[j] \in P
  PROVE  Before(s, f, x, ls[p], P)
<1> SUFFICES ASSUME NEW m \in 0 .. RootSlots, DirAt(s, x, m),
                    NEW i \in DOMAIN Ls(s, f, m), NEW j \in DOMAIN Ls(s, f, m),
                    Ls(s, f, m)[i] = ls[p], j < i
             PROVE  Kind(s, Ls(s, f, m)[j]) # "unused" \/ Ls(s, f, m)[j] \in P
  BY DEF Before
<1>1. DOMAIN ls = 1 .. Len(ls) /\ Len(ls) \in Nat /\ ls[p][1] \in Span(s, f, k)
  BY PlaceIn
<1>2. Ls(s, f, m)[i][1] \in Span(s, f, m)
  BY PlaceIn
<1>3. m = k
  BY <1>1, <1>2, SameDir
<1>4. i = p
  BY <1>1, <1>3, DirFacts
<1>5. j \in 1 .. p - 1
  BY <1>1, <1>3, <1>4
<1> QED BY <1>3, <1>5

\* locs are n slots of ls from position p on, all of them open, and before them
\* nothing ends the listing.
Fits(s, ls, p, n, locs) ==
  /\ p \in 1 .. Len(ls) /\ p + n - 1 \in 1 .. Len(ls) /\ Len(locs) = n
  /\ \A i \in 1 .. n : locs[i] = ls[p + i - 1] /\ Kind(s, ls[p + i - 1]) \in {"unused", "deleted"}
  /\ \A j \in 1 .. p - 1 : Kind(s, ls[j]) # "unused"

Naming(nw, locs, long, v) ==
  /\ Len(nw) = Len(locs)
  /\ \A i \in 1 .. Len(locs) : /\ nw[i].to = "slot" /\ nw[i].at = locs[i]
                               /\ i <= Len(long) => nw[i].val = long[i]
                               /\ i > Len(long) => nw[i].val = v

LEMMA NameWritesIs ==
  ASSUME NEW locs \in Seq(Places), NEW long \in Seq(SlotT), NEW v \in SlotT
  PROVE  /\ NameWrites(locs, long, v) \in Seq(WriteT)
         /\ Naming(NameWrites(locs, long, v), locs, long, v)
<1> DEFINE V(i) == IF i <= Len(long) THEN long[i] ELSE v
<1>1. ASSUME NEW i \in 1 .. Len(locs)
      PROVE  V(i) \in SlotT /\ (i <= Len(long) => V(i) = long[i]) /\ (i > Len(long) => V(i) = v)
  OBVIOUS
<1> HIDE DEF V
<1>2. ASSUME NEW i \in 1 .. Len(locs)
      PROVE  SlotW(locs[i], V(i)) \in WriteT /\ SlotW(locs[i], V(i)).to = "slot"
             /\ SlotW(locs[i], V(i)).at = locs[i] /\ SlotW(locs[i], V(i)).val = V(i)
  BY <1>1, SlotWIs
<1>3. NameWrites(locs, long, v) = [i \in 1 .. Len(locs) |-> SlotW(locs[i], V(i))]
  BY DEF NameWrites, V
<1>4. NameWrites(locs, long, v) \in Seq(WriteT) /\ Len(NameWrites(locs, long, v)) = Len(locs)
  BY <1>2, <1>3
<1> QED BY <1>1, <1>2, <1>3, <1>4 DEF Naming

\* b writes what is in the clusters of a new directory.
Furnishes(b, c) ==
  /\ \A j \in 1 .. Len(b) : b[j].to = "data" => Bare(b[j].val)
  /\ \E j \in 1 .. Len(b) : b[j].to = "data" /\ b[j].at = c

\* The plan of a create or mkdir that need not grow its directory.
NewSeq(b, locs, long, v) == b \o NameWrites(locs, long, v)

\* A new entry v of n slots: where it goes, what it owns, and the writes b that make that.
Proper(s, f, x, k, n, p, locs, q, b, long, v) ==
  /\ n \in Nat \ {0} /\ (n = 1 \/ n = 2) /\ locs \in Seq(Places) /\ Fits(s, Ls(s, f, k), p, n, locs)
  /\ q \in Seq(Clusters) /\ Len(q) > 0 /\ Distinct(q) /\ \A c \in Range(q) : ~Owned(s, f, x, c)
  /\ b \in Seq(WriteT) /\ Linking(b, q)
  /\ long \in Seq(SlotT) /\ Len(long) = n - 1 /\ \A i \in 1 .. Len(long) : long[i].kind = "lfn"
  /\ v \in SlotT /\ v.kind = "short" /\ v.start = q[1] /\ (~v.dir => Len(q) = Clus(v.size))
  /\ v.dir => k = 0 /\ Len(q) = 1 /\ Furnishes(b, q[1])

LEMMA NewReady ==
  ASSUME NEW s, NEW f, NEW g, NEW x, Volume(s, f, g, x), NEW k, DirAt(s, x, k),
         NEW n, NEW p, NEW locs, NEW q, NEW b, NEW long, NEW v,
         Proper(s, f, x, k, n, p, locs, q, b, long, v), NEW ws, ws = NewSeq(b, locs, long, v)
  PROVE  /\ ws \in Seq(WriteT) /\ ws # <<>> /\ Ready(s, f, g, ws, x, x)
         /\ Tight(s, f, x) => Covered(s, f, g, ws, x)
<1> /\ n \in Nat \ {0} /\ (n = 1 \/ n = 2) /\ locs \in Seq(Places) /\ Fits(s, Ls(s, f, k), p, n, locs)
    /\ q \in Seq(Clusters) /\ Len(q) > 0 /\ Distinct(q) /\ \A c \in Range(q) : ~Owned(s, f, x, c)
    /\ b \in Seq(WriteT) /\ Linking(b, q)
    /\ long \in Seq(SlotT) /\ Len(long) = n - 1 /\ \A i \in 1 .. Len(long) : long[i].kind = "lfn"
    /\ v \in SlotT /\ v.kind = "short" /\ v.start = q[1] /\ (~v.dir => Len(q) = Clus(v.size))
    /\ v.dir => k = 0 /\ Len(q) = 1 /\ Furnishes(b, q[1])
  BY Zenon DEF Proper
<1>1. PICK ls : ls = Ls(s, f, k)
  OBVIOUS
<1>2. /\ p \in 1 .. Len(ls) /\ p + n - 1 \in 1 .. Len(ls) /\ Len(locs) = n
      /\ \A i \in 1 .. n : locs[i] = ls[p + i - 1] /\ Kind(s, ls[p + i - 1]) \in {"unused", "deleted"}
      /\ \A j \in 1 .. p - 1 : Kind(s, ls[j]) # "unused"
  BY <1>1 DEF Fits
<1>3. PICK nw \in Seq(WriteT) : nw = NameWrites(locs, long, v) /\ Naming(nw, locs, long, v)
  BY NameWritesIs
<1>4. ws \in Seq(WriteT) /\ IsCat(ws, b, nw)
  BY <1>3, CatFacts DEF NewSeq
<1>0. /\ Len(nw) = n
      /\ \A i \in 1 .. n : /\ nw[i].to = "slot" /\ nw[i].at = locs[i]
                           /\ i <= Len(long) => nw[i].val = long[i]
                           /\ i > Len(long) => nw[i].val = v
  BY <1>2, <1>3 DEF Naming
<1>5. PICK m \in Nat : m = Len(b) /\ Len(ws) = m + n /\ \A i \in 1 .. m : ws[i] = b[i]
  BY <1>0, <1>4 DEF IsCat
<1>6. \A i \in 1 .. n : ws[m + i] = nw[i]
  BY <1>0, <1>4, <1>5 DEF IsCat
<1>7. \A i \in 1 .. Len(ws) : i \in 1 .. m \/ i = m + n \/ (n = 2 /\ i = m + 1)
  BY <1>5
<1>8. PICK w \in WriteT : w = ws[Len(ws)] /\ w.to = "slot" /\ w.at = ls[p + n - 1] /\ w.val = v
  <2>1. n \in 1 .. n /\ n > Len(long)
    OBVIOUS
  <2>2. ws[Len(ws)] = nw[n]
    BY <1>5, <1>6, <2>1
  <2>3. nw[n] \in WriteT
    BY <1>0, <2>1, RangeIs
  <2> QED BY <1>0, <1>2, <2>1, <2>2, <2>3
<1>9. ASSUME NEW l, Kind(s, l) \in {"unused", "deleted"} PROVE ~EntAt(s, f, x, l)
  BY <1>9 DEF EntAt
<1>10. ASSUME n = 2
       PROVE  /\ ws[m + 1].to = "slot" /\ ws[m + 1].at = ls[p] /\ ws[m + 1].val.kind = "lfn"
              /\ Kind(s, ls[p]) \in {"unused", "deleted"}
  <2>1. 1 \in 1 .. n /\ 1 <= Len(long) /\ 1 \in 1 .. Len(long) /\ p + 1 - 1 = p
    BY <1>2, <1>10
  <2>2. ws[m + 1] = nw[1] /\ nw[1].to = "slot" /\ nw[1].at = locs[1] /\ nw[1].val = long[1]
    BY <1>0, <1>6, <2>1
  <2>3. locs[1] = ls[p] /\ Kind(s, ls[p]) \in {"unused", "deleted"} /\ long[1].kind = "lfn"
    BY <1>2, <2>1
  <2> QED BY <2>2, <2>3
<1>11. ASSUME NEW i \in 1 .. m PROVE b[i].to \in {"fat", "data"} /\ b[i].at \in Range(q)
  <2>1. PICK j \in 1 .. Len(q) : b[i].to \in {"fat", "data"} /\ b[i].at = q[j]
    BY <1>5, <1>11 DEF Linking
  <2> QED BY <2>1, RangeIs
<1>12. ASSUME NEW i \in 1 .. Len(ws) - 1 PROVE Harmless(s, f, x, ws[i])
  <2>1. CASE i \in 1 .. m
    <3>1. ws[i].to # "slot" /\ ~Owned(s, f, x, ws[i].at)
      BY <1>5, <1>11, <2>1
    <3> QED BY <3>1 DEF Harmless
  <2>2. CASE i \notin 1 .. m
    <3>1. n = 2 /\ i = m + 1
      <4>1. i \in 1 .. Len(ws) /\ i # m + n
        BY <1>5, <1>12
      <4> QED BY <1>7, <2>2, <4>1
    <3>2. Before(s, f, x, ls[p], {})
      BY <1>1, <1>2, BeforePos
    <3>3. ~EntAt(s, f, x, ls[p])
      BY <1>9, <1>10, <3>1
    <3> QED BY <1>10, <3>1, <3>2, <3>3 DEF Harmless
  <2> QED BY <2>1, <2>2
<1>13. \A h : Coming(h, ws, q)
  <2>1. ASSUME NEW j \in 1 .. Len(ws), ws[j].to = "fat"
        PROVE  (\E i \in 1 .. Len(q) : ws[j].at = q[i] /\ ws[j].val = Link(q, i)) \/ ws[j].at \notin Range(q)
    <3>1. j \in 1 .. m
      BY <1>5, <1>7, <1>8, <1>10, <2>1
    <3>2. j \in 1 .. Len(b) /\ ws[j] = b[j]
      BY <1>5, <3>1
    <3> QED BY <2>1, <3>2 DEF Linking
  <2>2. ASSUME NEW i \in 1 .. Len(q)
        PROVE  \E j \in 1 .. Len(ws) : ws[j].to = "fat" /\ ws[j].at = q[i]
    <3>1. PICK j \in 1 .. Len(b) : b[j].to = "fat" /\ b[j].at = q[i]
      BY DEF Linking
    <3>2. j \in 1 .. Len(ws) /\ ws[j] = b[j]
      BY <1>5, <3>1
    <3> QED BY <3>1, <3>2
  <2>3. \A i, j \in 1 .. Len(q) : q[i] = q[j] => i = j
    BY DEF Distinct
  <2> QED BY <1>4, <2>1, <2>2, <2>3, ComingFrom
<1>14. Before(s, f, x, ls[p + n - 1], Earlier(ws))
  <2>1. ASSUME NEW j \in 1 .. (p + n - 1) - 1 PROVE Kind(s, ls[j]) # "unused" \/ ls[j] \in Earlier(ws)
    <3>1. CASE j \in 1 .. p - 1
      BY <1>2, <3>1
    <3>2. CASE j \notin 1 .. p - 1
      <4>1. n = 2 /\ j = p
        BY <1>2, <2>1, <3>2
      <4>2. m + 1 \in 1 .. Len(ws) - 1
        BY <1>5, <4>1
      <4>3. ws[m + 1].at \in Earlier(ws)
        BY <1>10, <4>1, <4>2 DEF Earlier
      <4> QED BY <1>10, <4>1, <4>3
    <3> QED BY <3>1, <3>2
  <2> QED BY <1>1, <1>2, <2>1, BeforePos
<1>15. ASSUME v.dir PROVE w.at[1] = Root /\ Len(q) = 1 /\ BareComing(s, ws, q[1])
  <2>1. k = 0 /\ Len(q) = 1 /\ Furnishes(b, q[1])
    BY <1>15
  <2>2. \A i \in 1 .. Len(ls) : ls[i][1] = Root
    <3>1. Span(s, f, k) = {Root}
      BY <2>1, DirFacts
    <3> QED BY <1>1, <3>1, PlaceIn
  <2>3. w.at[1] = Root
    BY <1>2, <1>8, <2>2
  <2>4. DOMAIN ws = 1 .. Len(ws)
    BY <1>4
  <2>5. ASSUME NEW j \in 1 .. Len(ws), ws[j].to = "data" PROVE Bare(ws[j].val)
    <3>1. j \in 1 .. m
      BY <1>5, <1>7, <1>8, <1>10, <2>5
    <3>2. j \in 1 .. Len(b) /\ ws[j] = b[j]
      BY <1>5, <3>1
    <3> QED BY <2>1, <2>5, <3>2 DEF Furnishes
  <2>6. ASSUME NEW j \in 1 .. Len(ws), ws[j].to = "slot" PROVE ws[j].at[1] = Root
    <3>1. j \notin 1 .. m
      BY <1>5, <1>11, <2>6
    <3>2. j = Len(ws) \/ (n = 2 /\ j = m + 1)
      BY <1>5, <1>7, <3>1
    <3>3. CASE j = Len(ws)
      BY <1>8, <2>3, <3>3
    <3>4. CASE n = 2 /\ j = m + 1
      <4>1. ws[j].at = ls[p]
        BY <1>10, <3>4
      <4> QED BY <1>2, <2>2, <4>1
    <3> QED BY <3>2, <3>3, <3>4
  <2>7. \E j \in 1 .. Len(ws) : ws[j].to = "data" /\ ws[j].at = q[1]
    <3>1. PICK j \in 1 .. Len(b) : b[j].to = "data" /\ b[j].at = q[1]
      BY <2>1 DEF Furnishes
    <3>2. j \in 1 .. Len(ws) /\ ws[j] = b[j]
      BY <1>5, <3>1
    <3> QED BY <3>1, <3>2
  <2>8. BareComing(s, ws, q[1])
    BY <2>4, <2>5, <2>6, <2>7 DEF BareComing
  <2> QED BY <2>1, <2>3, <2>8
<1>16. PutsEntry(s, f, g, x, ws, w, q)
  <2>1. ~EntAt(s, f, x, w.at)
    <3>1. n \in 1 .. n
      OBVIOUS
    <3>2. Kind(s, ls[p + n - 1]) \in {"unused", "deleted"}
      BY <1>2, <3>1
    <3> QED BY <1>8, <1>9, <3>2
  <2>2. \A i \in DOMAIN q : ~Owned(s, f, x, q[i])
    BY RangeIs
  <2>3. Coming(f, ws, q) /\ Coming(g, ws, q)
    BY <1>13
  <2> QED BY <1>8, <1>14, <1>15, <2>1, <2>2, <2>3 DEF PutsEntry
<1>17. Finish(s, f, g, x, ws)
  BY <1>8, <1>16 DEF Finish
<1>18. ws # <<>>
  BY <1>5
<1>19. x \subseteq Places /\ Safe(s, f, g, x)
  BY DEF Volume
<1>20. ASSUME NEW j \in DOMAIN ws, ws[j].to = "fat" PROVE ws[j].at \in Range(q)
  <2>1. j \in 1 .. Len(ws)
    BY <1>4
  <2>2. j \in 1 .. m
    BY <1>5, <1>7, <1>8, <1>10, <1>20, <2>1
  <2> QED BY <1>5, <1>11, <2>2
<1>21. Homed(s, f, x, w.at)
  <2>1. DOMAIN ls = 1 .. Len(ls) /\ \A i \in DOMAIN ls : ls[i][1] \in Span(s, f, k)
    BY <1>1, PlaceIn
  <2>2. w.at[1] \in Span(s, f, k)
    BY <1>2, <1>8, <2>1
  <2>3. k \in 0 .. RootSlots
    BY DEF DirAt
  <2> QED BY <2>2, <2>3 DEF Homed
<1>22. ASSUME Tight(s, f, x) PROVE Covered(s, f, g, ws, x)
  <2>1. Covers(s, f, ws, x, Range(q))
    BY <1>20, <1>22 DEF Covers, Tight
  <2> QED BY <1>8, <1>16, <1>18, <1>21, <2>1 DEF Covered
<1> QED BY <1>4, <1>12, <1>17, <1>18, <1>19, <1>22 DEF Ready


-----------------------------------------------------------------------------
(* A directory that grows by a cluster.                                    *)

LEMMA SlotsAppend ==
  ASSUME NEW ch \in Seq(Clusters), NEW c2 \in Seq(Clusters), NEW new \in Clusters, NEW m \in Nat, m = Len(ch),
         Len(c2) = m + 1, \A i \in 1 .. m : c2[i] = ch[i], c2[m + 1] = new, Distinct(ch), Distinct(c2)
  PROVE  /\ Len(SlotsOf(ch)) \in Nat /\ Len(SlotsOf(c2)) = Len(SlotsOf(ch)) + SlotsPerCluster
         /\ \A i \in 1 .. Len(SlotsOf(ch)) : SlotsOf(c2)[i] = SlotsOf(ch)[i]
         /\ \A j \in 1 .. SlotsPerCluster : SlotsOf(c2)[Len(SlotsOf(ch)) + j] = <<new, j>>
<1>1. PICK n \in Nat \ {0} : n = SlotsPerCluster
  BY SlotsFit
<1>2. PICK a : a = SlotsOf(ch)
  OBVIOUS
<1>3. PICK b : b = SlotsOf(c2)
  OBVIOUS
<1>4. /\ a \in Seq(Places) /\ Len(a) = Len(ch) * n
      /\ Range(a) = {l \in Places : l[1] \in Range(ch)}
      /\ \A i, j \in 1 .. Len(a) : a[i] = a[j] => i = j
      /\ \A i \in 1 .. Len(ch), j \in 1 .. n : n * (i - 1) + j \in 1 .. Len(a) /\ a[n * (i - 1) + j] = <<ch[i], j>>
  <2>1. \A i, j \in 1 .. Len(ch) : ch[i] = ch[j] => i = j
    BY DEF Distinct
  <2> QED BY <1>1, <1>2, <2>1, SlotsOfFacts
<1>5. /\ b \in Seq(Places) /\ Len(b) = Len(c2) * n
      /\ \A i \in 1 .. Len(c2), j \in 1 .. n : n * (i - 1) + j \in 1 .. Len(b) /\ b[n * (i - 1) + j] = <<c2[i], j>>
  <2>1. \A i, j \in 1 .. Len(c2) : c2[i] = c2[j] => i = j
    BY DEF Distinct
  <2> QED BY <1>1, <1>3, <2>1, SlotsOfFacts
<1>6. PICK z \in Nat : z = m * n /\ z = n * m /\ (m + 1) * n = z + n
  OBVIOUS
<1>7. Len(a) = z /\ Len(b) = z + n
  BY <1>4, <1>5, <1>6
<1>8. ASSUME NEW j \in 1 .. n PROVE b[z + j] = <<new, j>>
  <2>1. PICK i \in 1 .. Len(c2) : i = m + 1 /\ n * (i - 1) = z
    BY <1>6
  <2>2. b[n * (i - 1) + j] = <<c2[i], j>>
    BY <1>5
  <2> QED BY <2>1, <2>2
<1>9. ASSUME NEW i \in 1 .. Len(a) PROVE b[i] = a[i]
  <2>1. a[i] \in Places /\ a[i] \in Range(a)
    BY <1>4, <1>9, RangeIs
  <2>2. a[i][1] \in Range(ch) /\ a[i][1] \in Clusters
    <3>1. a[i][1] \in Range(ch)
      BY <1>4, <2>1
    <3>2. PICK e \in 1 .. Len(ch) : ch[e] = a[i][1]
      BY <3>1, RangeIs
    <3> QED BY <3>1, <3>2
  <2>3. PICK e \in 1 .. m : ch[e] = a[i][1]
    BY <2>2, RangeIs
  <2>4. PICK j \in 1 .. n : a[i] = <<ch[e], j>>
    <3>1. a[i] = <<a[i][1], a[i][2]>> /\ a[i][2] \in 1 .. Width(a[i][1])
      BY <2>1, PlaceFacts
    <3>2. Width(a[i][1]) = n
      BY <1>1, <2>2, PlaceFacts DEF Width
    <3> QED BY <2>3, <3>1, <3>2
  <2>5. PICK t : t = n * (e - 1) + j
    OBVIOUS
  <2>6. t \in 1 .. Len(a) /\ a[t] = <<ch[e], j>>
    BY <1>4, <2>5
  <2>7. t = i
    BY <1>4, <1>9, <2>4, <2>6
  <2>8. e \in 1 .. Len(c2) /\ c2[e] = ch[e]
    BY <2>3
  <2>9. b[t] = <<c2[e], j>>
    BY <1>5, <2>5, <2>8
  <2> QED BY <2>4, <2>7, <2>8, <2>9
<1> QED BY <1>1, <1>2, <1>3, <1>6, <1>7, <1>8, <1>9

\* c2 is ch and then new.
Continues(ch, c2, new) ==
    /\ c2 \in Seq(Clusters) /\ Len(c2) = Len(ch) + 1 /\ c2[Len(ch) + 1] = new
    /\ \A i \in 1 .. Len(ch) : c2[i] = ch[i]
    /\ Range(c2) = Range(ch) \cup {new}
    /\ Distinct(ch) /\ Distinct(c2)

\* The chain after grow_directory.
LEMMA GrownChain ==
  ASSUME NEW f \in FatT, NEW c \in Clusters, Ends(f, c), NEW ch, ch = Chain(f, c),
         NEW last, last = Last(ch), NEW new \in Clusters, new \notin Range(ch),
         NEW f2, f2 = GrownFat(f, last, new)
  PROVE  /\ last \in Clusters /\ last \in Range(ch) /\ last # new
         /\ f2 \in FatT
         /\ \A y \in Clusters : f2[y] = IF y = new THEN Eoc ELSE IF y = last THEN new ELSE f[y]
         /\ Continues(ch, Chain(f2, c), new) /\ Ends(f2, c)
<1>1. PICK q \in Seq(Clusters), m \in Nat \ {0} :
        /\ q = ch /\ m = Len(q) /\ last = q[m] /\ Distinct(q) /\ IsChain(f, c, q)
  <2>1. /\ ch \in Seq(Clusters) /\ Len(ch) \in 1 .. LastCluster /\ Last(ch) = ch[Len(ch)]
        /\ \A i, j \in 1 .. Len(ch) : ch[i] = ch[j] => i = j
        /\ IsChain(f, c, ch)
    BY ChainFacts
  <2>2. Len(ch) \in Nat \ {0}
    BY <2>1, SlotsFit
  <2> QED BY <2>1, <2>2 DEF Distinct
<1>2. \A i \in 1 .. m : q[i] \in Range(q) /\ q[i] \in Clusters
  BY <1>1, RangeIs
<1>3. last \in Clusters /\ last \in Range(ch) /\ last # new
  BY <1>1, <1>2
<1>4. /\ f2 \in FatT
      /\ \A y \in Clusters : f2[y] = IF y = new THEN Eoc ELSE IF y = last THEN new ELSE f[y]
  BY <1>3 DEF GrownFat, FatT
<1>0. PICK r : r = Append(q, new)
  OBVIOUS
<1>5. /\ r \in Seq(Clusters) /\ Len(r) = m + 1 /\ r[m + 1] = new
      /\ \A i \in 1 .. m : r[i] = q[i]
  BY <1>0, <1>1, AppendFacts
<1>6. Range(r) = Range(q) \cup {new}
  <2>1. ASSUME NEW y \in Range(r) PROVE y \in Range(q) \cup {new}
    <3>1. PICK i \in 1 .. m + 1 : r[i] = y
      BY <1>5, <2>1, RangeIs
    <3>2. i \in 1 .. m \/ i = m + 1
      BY <3>1
    <3> QED BY <1>2, <1>5, <3>1, <3>2
  <2>2. ASSUME NEW y \in Range(q) PROVE y \in Range(r)
    <3>1. PICK i \in 1 .. m : q[i] = y
      BY <1>1, <2>2, RangeIs
    <3>2. i \in 1 .. Len(r) /\ r[i] = y
      BY <1>5, <3>1
    <3> QED BY <1>5, <3>2, RangeIs
  <2>3. new \in Range(r)
    <3>1. m + 1 \in 1 .. Len(r)
      BY <1>5
    <3> QED BY <1>5, <3>1, RangeIs
  <2> QED BY <2>1, <2>2, <2>3
<1>7. Distinct(r)
  <2> SUFFICES ASSUME NEW i \in 1 .. m + 1, NEW j \in 1 .. m + 1, r[i] = r[j] PROVE i = j
    BY <1>5 DEF Distinct
  <2>1. \A a \in 1 .. m : r[a] # new
    BY <1>1, <1>2, <1>5
  <2>2. CASE i \in 1 .. m /\ j \in 1 .. m
    <3>1. q[i] = q[j]
      BY <1>5, <2>2
    <3> QED BY <1>1, <2>2, <3>1 DEF Distinct
  <2> QED BY <1>5, <2>1, <2>2
<1>8. IsChain(f2, c, r)
  <2>1. r[1] = c
    BY <1>1, <1>5 DEF IsChain
  <2>2. ASSUME NEW i \in 1 .. m PROVE f2[r[i]] = r[i + 1]
    <3>1. r[i] = q[i] /\ q[i] \in Clusters /\ q[i] # new
      BY <1>1, <1>2, <1>5
    <3>2. CASE i = m
      <4>1. r[i] = last
        BY <1>1, <3>1, <3>2
      <4> QED BY <1>3, <1>4, <1>5, <3>2, <4>1
    <3>3. CASE i # m
      <4>1. i \in 1 .. m - 1 /\ i + 1 \in 1 .. m
        BY <3>3
      <4>2. q[i] # last
        BY <1>1, <3>3 DEF Distinct
      <4>3. f2[q[i]] = f[q[i]]
        BY <1>4, <3>1, <4>2
      <4>4. f[q[i]] = q[i + 1]
        BY <1>1, <4>1 DEF IsChain
      <4> QED BY <1>5, <3>1, <4>1, <4>3, <4>4
    <3> QED BY <3>2, <3>3
  <2>3. f2[r[m + 1]] = Eoc
    BY <1>4, <1>5
  <2>4. Len(r) > 0 /\ Len(r) - 1 = m
    BY <1>5
  <2> QED BY <1>5, <2>1, <2>2, <2>3, <2>4 DEF IsChain
<1>9. Chain(f2, c) = r /\ Ends(f2, c)
  BY <1>4, <1>8, ChainUnique
<1>10. Continues(ch, r, new)
  BY <1>1, <1>5, <1>6, <1>7 DEF Continues
<1> QED BY <1>3, <1>4, <1>9, <1>10


\* The volume t, f2, g2 is s, f, g with directory k grown from last to new.
Grown(s, f, x, k, last, new, t, f2, g2) ==
  /\ Volume(t, f2, g2, x) /\ DirAt(t, x, k)
  /\ last \in Clusters /\ last # new /\ last \in ClustersOf(s, f, <<Root, k>>)
  /\ Len(Ls(s, f, k)) \in Nat /\ Len(Ls(t, f2, k)) = Len(Ls(s, f, k)) + SlotsPerCluster
  /\ \A i \in 1 .. Len(Ls(s, f, k)) : /\ Ls(t, f2, k)[i] = Ls(s, f, k)[i]
                                       /\ Kind(t, Ls(t, f2, k)[i]) = Kind(s, Ls(s, f, k)[i])
  /\ \A j \in 1 .. SlotsPerCluster : /\ Ls(t, f2, k)[Len(Ls(s, f, k)) + j] = <<new, j>>
                                     /\ Kind(t, <<new, j>>) = "unused"
  /\ Tight(s, f, x) => Tight(t, f2, x)

\* grow_directory, done: the volume, and the slots of the directory.
LEMMA GrownVolume ==
  ASSUME NEW s, NEW f, NEW g, NEW x, Volume(s, f, g, x), NEW k, DirAt(s, x, k), k # 0,
         NEW ch, ch = Chain(f, HeadOf(s, k)), NEW last, last = Last(ch),
         NEW new \in Clusters, ~Owned(s, f, x, new),
         NEW t, t = PutData(s, new, Zeroed),
         NEW f2, f2 = GrownFat(f, last, new), NEW g2, g2 = GrownFat(g, last, new)
  PROVE  Grown(s, f, x, k, last, new, t, f2, g2)
<1>1. s \in DiskT /\ f \in FatT /\ g \in FatT /\ x \subseteq Places /\ Safe(s, f, g, x)
  BY DEF Volume
<1>2. /\ k \in 0 .. RootSlots /\ HeadOf(s, k) \in Clusters /\ Ends(f, HeadOf(s, k))
      /\ Ls(s, f, k) = SlotsOf(ch) /\ Span(s, f, k) = Range(ch)
      /\ \A c \in Range(ch) : Owned(s, f, x, c) /\ g[c] = f[c]
  BY DirFacts DEF Span
<1>3. new \notin Range(ch)
  BY <1>2
<1>4. PICK c2 : c2 = Chain(f2, HeadOf(s, k))
  OBVIOUS
<1>5. /\ last \in Clusters /\ last \in Range(ch) /\ last # new
      /\ f2 \in FatT
      /\ \A y \in Clusters : f2[y] = IF y = new THEN Eoc ELSE IF y = last THEN new ELSE f[y]
      /\ c2 \in Seq(Clusters) /\ Len(c2) = Len(ch) + 1 /\ c2[Len(ch) + 1] = new
      /\ \A i \in 1 .. Len(ch) : c2[i] = ch[i]
      /\ Range(c2) = Range(ch) \cup {new}
      /\ Distinct(ch) /\ Distinct(c2)
      /\ Chain(f2, HeadOf(s, k)) = c2 /\ Ends(f2, HeadOf(s, k))
  <2>1. PICK c \in Clusters : c = HeadOf(s, k) /\ Ends(f, c) /\ ch = Chain(f, c)
    BY <1>2
  <2>2. /\ last \in Clusters /\ last \in Range(ch) /\ last # new
        /\ f2 \in FatT
        /\ \A y \in Clusters : f2[y] = IF y = new THEN Eoc ELSE IF y = last THEN new ELSE f[y]
        /\ Continues(ch, Chain(f2, c), new) /\ Ends(f2, c)
    BY <1>1, <1>3, <2>1, GrownChain
  <2> QED BY <1>4, <2>1, <2>2 DEF Continues
<1>6. /\ g2 \in FatT
      /\ \A y \in Clusters : g2[y] = IF y = new THEN Eoc ELSE IF y = last THEN new ELSE g[y]
  BY <1>1, <1>5 DEF GrownFat, FatT
<1>7. t \in DiskT /\ \A l \in Places : At(t, l) = IF l[1] = new THEN Zeroed[l[2]] ELSE At(s, l)
  BY <1>1, ZeroedIs, WrittenData
<1>8. ASSUME NEW l \in Places, l[1] = new PROVE Kind(t, l) = "unused"
  <2>1. l[2] \in 1 .. SlotsPerCluster
    BY <1>8, PlaceFacts DEF Width
  <2>2. Zeroed[l[2]] = Unused
    BY <2>1 DEF Zeroed
  <2> QED BY <1>7, <1>8, <2>2, ZeroedIs DEF Kind
<1>9. PICK P \in Places : P = <<Root, k>> /\ EntAt(s, f, x, P)
  BY <1>1, DirIsEnt
<1>10. ClustersOf(s, f, P) = Range(ch) /\ At(s, P).start = HeadOf(s, k)
  BY <1>9 DEF ClustersOf, HeadOf
<1>11. Root # new
  BY PlaceFacts
<1>12. ASSUME NEW m
       PROVE  /\ DirAt(t, x, m) <=> DirAt(s, x, m)
              /\ DirAt(s, x, m) => HeadOf(t, m) = HeadOf(s, m)
  <2>1. CASE m = 0
    BY <2>1 DEF DirAt, HeadOf
  <2>2. CASE m # 0 /\ m \in 0 .. RootSlots
    <3>1. <<Root, m>> \in Places /\ <<Root, m>>[1] = Root
      BY <2>2, PlaceFacts, SlotsFit
    <3>2. At(t, <<Root, m>>) = At(s, <<Root, m>>)
      BY <1>7, <1>11, <3>1
    <3> QED BY <2>2, <3>2 DEF DirAt, HeadOf, Kind
  <2>3. CASE m \notin 0 .. RootSlots
    BY <2>3 DEF DirAt
  <2> QED BY <2>1, <2>2, <2>3
<1>13. ASSUME NEW l, EntAt(s, f, x, l)
       PROVE  /\ l \in Places /\ l[1] # new /\ At(t, l) = At(s, l)
              /\ At(s, l).start \in Clusters /\ Ends(f, At(s, l).start)
              /\ \A c \in ClustersOf(s, f, l) : c \in Clusters /\ c # new /\ g[c] = f[c]
              /\ l # P => last \notin ClustersOf(s, f, l)
  <2>1. l \in Places
    BY <1>13 DEF EntAt
  <2>2. PICK m \in 0 .. RootSlots : DirAt(s, x, m) /\ l[1] \in Span(s, f, m)
    BY <1>13 DEF EntAt
  <2>3. l[1] # new
    <3>1. CASE m = 0
      BY <1>11, <2>2, <3>1, DirFacts
    <3>2. CASE m # 0
      BY <2>2, <3>2, DirFacts
    <3> QED BY <3>1, <3>2
  <2>4. At(t, l) = At(s, l)
    BY <1>7, <2>1, <2>3
  <2>5. Held(s, f, g, l)
    BY <1>1, <1>13, <2>1 DEF Safe
  <2>6. At(s, l).start \in Clusters /\ Ends(f, At(s, l).start) /\ \A c \in ClustersOf(s, f, l) : g[c] = f[c]
    BY <2>5 DEF Held
  <2>7. \A c \in ClustersOf(s, f, l) : c \in Clusters /\ c # new
    <3>1. \A c \in ClustersOf(s, f, l) : Owned(s, f, x, c)
      BY <1>13, <2>1 DEF Owned
    <3>2. \A c \in ClustersOf(s, f, l) : c \in Clusters
      BY <1>1, <2>6, ChainFacts DEF ClustersOf
    <3> QED BY <3>1, <3>2
  <2>8. l # P => last \notin ClustersOf(s, f, l)
    <3>1. l # P => ClustersOf(s, f, l) \cap ClustersOf(s, f, P) = {}
      BY <1>1, <1>9, <1>13, <2>1 DEF Safe
    <3> QED BY <1>5, <1>10, <3>1
  <2> QED BY <2>1, <2>3, <2>4, <2>6, <2>7, <2>8
<1>14. ASSUME NEW l, EntAt(s, f, x, l), l # P
       PROVE  /\ Chain(f2, At(s, l).start) = Chain(f, At(s, l).start) /\ Ends(f2, At(s, l).start)
              /\ \A c \in ClustersOf(s, f, l) : g2[c] = f2[c]
  <2>1. /\ At(s, l).start \in Clusters /\ Ends(f, At(s, l).start)
        /\ \A c \in ClustersOf(s, f, l) : c \in Clusters /\ c # new /\ g[c] = f[c]
        /\ last \notin ClustersOf(s, f, l)
    BY <1>13, <1>14
  <2>2. \A c \in ClustersOf(s, f, l) : f2[c] = f[c] /\ g2[c] = f[c]
    BY <1>5, <1>6, <2>1
  <2>3. \A c \in Range(Chain(f, At(s, l).start)) : f2[c] = f[c]
    BY <2>2 DEF ClustersOf
  <2> QED BY <1>1, <1>5, <2>1, <2>2, <2>3, ChainFrame
<1>15. ASSUME NEW m, DirAt(s, x, m)
       PROVE  /\ m # k => Span(t, f2, m) = Span(s, f, m) /\ Ls(t, f2, m) = Ls(s, f, m)
              /\ m = k => Span(t, f2, m) = Span(s, f, m) \cup {new} /\ Ls(t, f2, m) = SlotsOf(c2)
  <2>1. HeadOf(t, m) = HeadOf(s, m)
    BY <1>12, <1>15
  <2>2. CASE m = 0
    BY <2>1, <2>2 DEF Span, Ls, Locs, HeadOf
  <2>3. CASE m # 0 /\ m # k
    <3>1. PICK l : l = <<Root, m>> /\ EntAt(s, f, x, l) /\ l # P
      BY <1>1, <1>9, <1>15, <2>3, DirIsEnt
    <3>2. Chain(f2, HeadOf(s, m)) = Chain(f, HeadOf(s, m))
      BY <1>14, <2>3, <3>1 DEF HeadOf
    <3> QED BY <2>1, <2>3, <3>2 DEF Span, Ls, Locs
  <2>4. CASE m = k
    <3>1. Chain(f2, HeadOf(t, m)) = c2 /\ HeadOf(t, m) # Root
      BY <1>2, <1>5, <2>1, <2>4, PlaceFacts
    <3> QED BY <1>2, <1>5, <2>4, <3>1 DEF Span, Ls, Locs
  <2> QED BY <2>2, <2>3, <2>4
<1>16. ASSUME NEW l PROVE EntAt(t, f2, x, l) <=> EntAt(s, f, x, l)
  <2>1. ASSUME EntAt(t, f2, x, l) PROVE EntAt(s, f, x, l)
    <3>1. l \in Places /\ l \notin x /\ Kind(t, l) = "short"
      BY <2>1 DEF EntAt
    <3>2. PICK m \in 0 .. RootSlots : DirAt(t, x, m) /\ l[1] \in Span(t, f2, m)
      BY <2>1 DEF EntAt
    <3>3. l[1] # new
      BY <1>8, <3>1
    <3>4. Kind(s, l) = "short"
      BY <1>7, <3>1, <3>3 DEF Kind
    <3>5. DirAt(s, x, m) /\ l[1] \in Span(s, f, m)
      BY <1>12, <1>15, <3>2, <3>3
    <3> QED BY <3>1, <3>4, <3>5 DEF EntAt
  <2>2. ASSUME EntAt(s, f, x, l) PROVE EntAt(t, f2, x, l)
    <3>1. l \in Places /\ l \notin x /\ Kind(s, l) = "short"
      BY <2>2 DEF EntAt
    <3>2. PICK m \in 0 .. RootSlots : DirAt(s, x, m) /\ l[1] \in Span(s, f, m)
      BY <2>2 DEF EntAt
    <3>3. Kind(t, l) = "short"
      BY <1>13, <2>2, <3>1 DEF Kind
    <3>4. DirAt(t, x, m) /\ l[1] \in Span(t, f2, m)
      BY <1>12, <1>15, <3>2
    <3> QED BY <3>1, <3>3, <3>4 DEF EntAt
  <2> QED BY <2>1, <2>2
<1>17. ASSUME NEW l, EntAt(s, f, x, l)
       PROVE  /\ l # P => ClustersOf(t, f2, l) = ClustersOf(s, f, l)
              /\ l = P => ClustersOf(t, f2, l) = ClustersOf(s, f, l) \cup {new}
              /\ Held(t, f2, g2, l)
  <2>1. At(t, l) = At(s, l)
    BY <1>13, <1>17
  <2>2. CASE l # P
    <3>1. ClustersOf(t, f2, l) = ClustersOf(s, f, l)
      BY <1>14, <1>17, <2>1, <2>2 DEF ClustersOf
    <3>2. Held(s, f, g, l)
      BY <1>1, <1>13, <1>17 DEF Safe
    <3>3. Held(t, f2, g2, l)
      BY <1>14, <1>17, <2>1, <2>2, <3>1, <3>2 DEF Held
    <3> QED BY <2>2, <3>1, <3>3
  <2>3. CASE l = P
    <3>1. At(t, l).start = HeadOf(s, k)
      BY <1>10, <2>1, <2>3
    <3>2. ClustersOf(t, f2, l) = Range(ch) \cup {new}
      BY <1>5, <3>1 DEF ClustersOf
    <3>3. \A c \in Range(ch) : c \in Clusters /\ c # new /\ g[c] = f[c]
      BY <1>9, <1>10, <1>13
    <3>4. \A c \in Range(ch) \cup {new} : g2[c] = f2[c]
      BY <1>5, <1>6, <3>3
    <3>5. At(s, l).dir
      BY <1>9, <2>3 DEF DirAt
    <3>6. Held(t, f2, g2, l)
      BY <1>2, <1>5, <2>1, <3>1, <3>2, <3>4, <3>5 DEF Held
    <3> QED BY <1>10, <2>3, <3>2, <3>6
  <2> QED BY <2>2, <2>3
<1>18. \A l \in Places : EntAt(t, f2, x, l) => Held(t, f2, g2, l)
  BY <1>16, <1>17
<1>19. ASSUME NEW l \in Places, NEW m \in Places, EntAt(t, f2, x, l), EntAt(t, f2, x, m), l # m
       PROVE  ClustersOf(t, f2, l) \cap ClustersOf(t, f2, m) = {}
  <2>1. EntAt(s, f, x, l) /\ EntAt(s, f, x, m)
    BY <1>16, <1>19
  <2>2. ClustersOf(s, f, l) \cap ClustersOf(s, f, m) = {}
    BY <1>1, <1>19, <2>1 DEF Safe
  <2>3. new \notin ClustersOf(s, f, l) /\ new \notin ClustersOf(s, f, m)
    BY <1>13, <2>1
  <2> QED BY <1>17, <1>19, <2>1, <2>2, <2>3
<1>20. /\ Len(SlotsOf(ch)) \in Nat /\ Len(SlotsOf(c2)) = Len(SlotsOf(ch)) + SlotsPerCluster
       /\ \A i \in 1 .. Len(SlotsOf(ch)) : SlotsOf(c2)[i] = SlotsOf(ch)[i]
       /\ \A j \in 1 .. SlotsPerCluster : SlotsOf(c2)[Len(SlotsOf(ch)) + j] = <<new, j>>
  <2>1. PICK q \in Seq(Clusters), m \in Nat : q = ch /\ m = Len(q)
    BY <1>1, <1>2, ChainFacts
  <2>2. /\ Len(c2) = m + 1 /\ c2[m + 1] = new /\ \A i \in 1 .. m : c2[i] = q[i]
        /\ Distinct(q) /\ Distinct(c2) /\ c2 \in Seq(Clusters) /\ q \in Seq(Clusters)
        /\ m \in Nat /\ m = Len(q)
    BY <1>5, <2>1
  <2>3. /\ Len(SlotsOf(q)) \in Nat /\ Len(SlotsOf(c2)) = Len(SlotsOf(q)) + SlotsPerCluster
        /\ \A i \in 1 .. Len(SlotsOf(q)) : SlotsOf(c2)[i] = SlotsOf(q)[i]
        /\ \A j \in 1 .. SlotsPerCluster : SlotsOf(c2)[Len(SlotsOf(q)) + j] = <<new, j>>
    BY <2>2, SlotsAppend
  <2> QED BY <2>1, <2>3
<1>21. /\ \A i \in 1 .. Len(SlotsOf(ch)) : Kind(t, SlotsOf(ch)[i]) = Kind(s, SlotsOf(ch)[i])
       /\ \A j \in 1 .. SlotsPerCluster : Kind(t, <<new, j>>) = "unused"
  <2>1. ASSUME NEW i \in 1 .. Len(SlotsOf(ch)) PROVE Kind(t, SlotsOf(ch)[i]) = Kind(s, SlotsOf(ch)[i])
    <3>1. SlotsOf(ch)[i] \in Places /\ SlotsOf(ch)[i][1] \in Range(ch)
      BY <1>2, <2>1, PlaceIn
    <3> QED BY <1>3, <1>7, <3>1 DEF Kind
  <2>2. ASSUME NEW j \in 1 .. SlotsPerCluster PROVE Kind(t, <<new, j>>) = "unused"
    <3>1. <<new, j>> \in Places /\ <<new, j>>[1] = new
      BY <2>2, PlaceFacts
    <3> QED BY <1>8, <3>1
  <2> QED BY <2>1, <2>2
<1>22. ASSUME NEW m \in 0 .. RootSlots, DirAt(t, x, m) PROVE NoGap(t, Ls(t, f2, m))
  <2>1. DirAt(s, x, m)
    BY <1>12, <1>22
  <2>2. NoGap(s, Ls(s, f, m))
    BY <1>1, <2>1 DEF Safe
  <2>3. CASE m # k
    <3>1. Ls(t, f2, m) = Ls(s, f, m)
      BY <1>15, <2>1, <2>3
    <3>2. ASSUME NEW i \in DOMAIN Ls(s, f, m) PROVE Kind(t, Ls(s, f, m)[i]) = Kind(s, Ls(s, f, m)[i])
      <4>1. Ls(s, f, m)[i] \in Places /\ Ls(s, f, m)[i][1] \in Span(s, f, m)
        BY <2>1, <3>2, PlaceIn
      <4>2. \A c \in Span(s, f, m) : c # new
        BY <1>11, <2>1, DirFacts
      <4> QED BY <1>7, <4>1, <4>2 DEF Kind
    <3> QED BY <2>2, <3>1, <3>2 DEF NoGap
  <2>4. CASE m = k
    <3>1. Ls(t, f2, m) = SlotsOf(c2)
      BY <1>15, <2>1, <2>4
    <3>2. PICK z \in Nat, n \in Nat : z = Len(SlotsOf(ch)) /\ n = SlotsPerCluster /\ Len(SlotsOf(c2)) = z + n
      BY <1>20, SlotsFit
    <3>3. DOMAIN SlotsOf(c2) = 1 .. z + n /\ DOMAIN SlotsOf(ch) = 1 .. z
      <4>1. Distinct(ch) /\ Distinct(c2) /\ c2 \in Seq(Clusters)
        BY <1>5
      <4>2. PICK q \in Seq(Clusters) : q = ch /\ Distinct(q)
        BY <1>1, <1>2, <1>5, ChainFacts
      <4>3. SlotsOf(q) \in Seq(Places) /\ SlotsOf(c2) \in Seq(Places)
        BY <4>1, <4>2, SlotsOfFacts DEF Distinct
      <4> QED BY <3>2, <4>2, <4>3, RangeIs
    <3>4. SUFFICES ASSUME NEW i \in 1 .. z + n, NEW j \in 1 .. z + n, i < j, Kind(t, SlotsOf(c2)[i]) = "unused"
                   PROVE  Kind(t, SlotsOf(c2)[j]) = "unused"
      BY <3>1, <3>3 DEF NoGap
    <3>5. CASE j \in 1 .. z
      <4>1. i \in 1 .. z
        BY <3>4, <3>5
      <4>2. Kind(s, SlotsOf(ch)[i]) = "unused"
        BY <1>20, <1>21, <3>2, <3>4, <4>1
      <4>3. Kind(s, SlotsOf(ch)[j]) = "unused"
        BY <1>2, <2>2, <2>4, <3>3, <3>4, <3>5, <4>1, <4>2 DEF NoGap
      <4> QED BY <1>20, <1>21, <3>2, <3>5, <4>3
    <3>6. CASE j \notin 1 .. z
      <4>1. PICK a \in 1 .. n : j = z + a
        <5>1. j - z \in 1 .. n /\ j = z + (j - z)
          BY <3>2, <3>4, <3>6
        <5> QED BY <5>1
      <4> QED BY <1>20, <1>21, <3>2, <4>1
    <3> QED BY <3>5, <3>6
  <2> QED BY <2>3, <2>4
<1>23. Safe(t, f2, g2, x)
  BY <1>18, <1>19, <1>22 DEF Safe
<1>24. Volume(t, f2, g2, x) /\ DirAt(t, x, k)
  BY <1>1, <1>5, <1>6, <1>7, <1>12, <1>23 DEF Volume
<1>25. Ls(t, f2, k) = SlotsOf(c2)
  BY <1>15
<1>26. ASSUME Tight(s, f, x), NEW c \in Clusters, f2[c] # Free PROVE Owned(t, f2, x, c)
  <2>1. EntAt(t, f2, x, P) /\ ClustersOf(t, f2, P) = Range(ch) \cup {new}
    BY <1>9, <1>10, <1>16, <1>17
  <2>2. CASE c = new \/ c = last
    BY <1>5, <2>1, <2>2 DEF Owned
  <2>3. CASE c # new /\ c # last
    <3>1. f[c] # Free
      BY <1>5, <1>26, <2>3
    <3>2. PICK l \in Places : EntAt(s, f, x, l) /\ c \in ClustersOf(s, f, l)
      BY <1>26, <3>1 DEF Tight, Owned
    <3>3. EntAt(t, f2, x, l) /\ c \in ClustersOf(t, f2, l)
      BY <1>16, <1>17, <3>2
    <3> QED BY <3>3 DEF Owned
  <2> QED BY <2>2, <2>3
<1>27. Tight(s, f, x) => Tight(t, f2, x)
  BY <1>26 DEF Tight
<1> QED BY <1>2, <1>5, <1>9, <1>10, <1>20, <1>21, <1>24, <1>25, <1>27 DEF Grown


LEMMA GrownIs ==
  ASSUME NEW s, NEW f, NEW g, NEW x, Volume(s, f, g, x), NEW k, DirAt(s, x, k), k # 0,
         NEW last, last = Last(Chain(f, HeadOf(s, k))), NEW new \in Clusters, ~Owned(s, f, x, new)
  PROVE  Grown(s, f, x, k, last, new, PutData(s, new, Zeroed), GrownFat(f, last, new), GrownFat(g, last, new))
BY GrownVolume

-----------------------------------------------------------------------------
(* The slots find_free_entry_run_in reserves.                              *)

LEMMA OpenIs ==
  ASSUME NEW s, NEW f, NEW g, NEW x, Volume(s, f, g, x), NEW k, DirAt(s, x, k), NEW ls, ls = Ls(s, f, k)
  PROVE  /\ ls \in Seq(Places) /\ Len(ls) \in Nat /\ Open(s, ls) \subseteq 1 .. Len(ls)
         /\ \A i \in Open(s, ls) : Kind(s, ls[i]) \in {"unused", "deleted"}
         /\ \A i, j \in 1 .. Len(ls) : i <= j /\ Kind(s, ls[i]) = "unused" => j \in Open(s, ls)
<1>1. ls \in Seq(Places) /\ Len(ls) \in Nat /\ DOMAIN ls = 1 .. Len(ls)
  BY DirFacts, PlaceIn
<1>2. NoGap(s, ls)
  BY DEF Volume, Safe, DirAt
<1>3. ASSUME NEW i \in 1 .. Len(ls), NEW j \in 1 .. Len(ls), i <= j, Kind(s, ls[i]) = "unused"
      PROVE  j \in Open(s, ls)
  <2>1. i = j \/ i < j
    BY <1>1, <1>3
  <2>2. Kind(s, ls[j]) = "unused"
    BY <1>1, <1>2, <1>3, <2>1 DEF NoGap
  <2> QED BY <1>1, <2>2 DEF Open
<1> QED BY <1>1, <1>3 DEF Open

\* The positions a run of n open slots starts at, and those from which all are open.
Runs(s, ls, n) == {p \in Open(s, ls) : p .. p + n - 1 \subseteq Open(s, ls)}
Least(p, T) == p \in T /\ \A j \in T : p <= j
OpenEnd(s, ls) == {p \in Open(s, ls) : p .. Len(ls) \subseteq Open(s, ls)}

LEMMA RunFits ==
  ASSUME NEW s, NEW f, NEW g, NEW x, Volume(s, f, g, x), NEW k, DirAt(s, x, k), NEW ls, ls = Ls(s, f, k),
         NEW n \in Nat \ {0}, Runs(s, ls, n) # {}, NEW p, p = Min(Runs(s, ls, n)),
         NEW locs, locs = SubSeq(ls, p, p + n - 1)
  PROVE  locs \in Seq(Places) /\ Fits(s, ls, p, n, locs)
<1>1. PICK m \in Nat :
         /\ m = Len(ls) /\ ls \in Seq(Places) /\ Open(s, ls) \subseteq 1 .. m
         /\ \A i \in Open(s, ls) : Kind(s, ls[i]) \in {"unused", "deleted"}
         /\ \A i, j \in 1 .. m : i <= j /\ Kind(s, ls[i]) = "unused" => j \in Open(s, ls)
  BY OpenIs
<1>2. Runs(s, ls, n) \subseteq Nat
  BY <1>1 DEF Runs
<1>3. p \in Runs(s, ls, n) /\ \A j \in Runs(s, ls, n) : p <= j
  BY <1>2, MinIs
<1>4. p \in 1 .. m /\ \A i \in p .. p + n - 1 : i \in Open(s, ls)
  BY <1>1, <1>3 DEF Runs
<1>5. p + n - 1 \in 1 .. m
  BY SMTT(30), <1>1, <1>4
<1>6. ASSUME NEW j \in 1 .. p - 1, Kind(s, ls[j]) = "unused" PROVE FALSE
  <2>1. j \in 1 .. m /\ j < p
    BY <1>4, <1>6
  <2>2. \A i \in j .. j + n - 1 : i \in 1 .. m /\ j <= i
    BY <1>4, <1>5, <2>1
  <2>3. \A i \in j .. j + n - 1 : i \in Open(s, ls)
    BY <1>1, <1>6, <2>1, <2>2
  <2>4. j \in Open(s, ls)
    BY <1>1, <1>6, <2>1
  <2>5. j \in Runs(s, ls, n)
    BY <2>3, <2>4 DEF Runs
  <2> QED BY <1>3, <2>1, <2>5
<1>7. locs \in Seq(Places) /\ IsPart(locs, ls, p, p + n - 1)
  <2>1. PICK e \in Nat : e = p + n - 1 /\ e <= m
    BY <1>5
  <2>2. p \in Nat \ {0} /\ p <= e + 1
    BY <1>4, <2>1
  <2>3. locs = SubSeq(ls, p, e) /\ e <= Len(ls)
    BY <1>1, <2>1
  <2> QED BY <1>1, <2>1, <2>2, <2>3, SubSeqFacts
<1>8. Len(locs) = n
  <2>1. (p + n - 1) + 1 - p = n
    BY <1>4
  <2> QED BY <1>7, <2>1 DEF IsPart
<1>9. ASSUME NEW i \in 1 .. n
      PROVE  locs[i] = ls[p + i - 1] /\ Kind(s, ls[p + i - 1]) \in {"unused", "deleted"}
  <2>1. locs[i] = ls[p + i - 1]
    BY <1>7, <1>8 DEF IsPart
  <2>2. p + i - 1 \in Open(s, ls)
    <3>1. p + i - 1 \in p .. p + n - 1
      BY <1>4
    <3> QED BY <1>4, <3>1
  <2> QED BY <1>1, <2>1, <2>2
<1> QED BY <1>1, <1>4, <1>5, <1>6, <1>7, <1>8, <1>9 DEF Fits

LEMMA GrownFits ==
  ASSUME NEW s, NEW f, NEW g, NEW x, Volume(s, f, g, x), NEW k, DirAt(s, x, k), NEW ls, ls = Ls(s, f, k),
         NEW n \in Nat \ {0}, n <= 2, Runs(s, ls, n) = {},
         NEW p, Least(p, OpenEnd(s, ls) \cup {Len(ls) + 1}),
         NEW new \in Clusters, NEW locs, locs = Continued(ls, p, n, new),
         NEW t, NEW lt \in Seq(Places), Len(lt) = Len(ls) + SlotsPerCluster,
         \A i \in 1 .. Len(ls) : lt[i] = ls[i] /\ Kind(t, lt[i]) = Kind(s, ls[i]),
         \A j \in 1 .. SlotsPerCluster : lt[Len(ls) + j] = <<new, j>> /\ Kind(t, <<new, j>>) = "unused"
  PROVE  locs \in Seq(Places) /\ Fits(t, lt, p, n, locs)
<1>1. PICK m \in Nat :
         /\ m = Len(ls) /\ ls \in Seq(Places) /\ Open(s, ls) \subseteq 1 .. m
         /\ \A i \in Open(s, ls) : Kind(s, ls[i]) \in {"unused", "deleted"}
         /\ \A i, j \in 1 .. m : i <= j /\ Kind(s, ls[i]) = "unused" => j \in Open(s, ls)
  BY OpenIs
<1>2. PICK z \in Nat : z = SlotsPerCluster /\ z >= 2
  BY SlotsFit
<1>3. PICK T : T = OpenEnd(s, ls) \cup {m + 1}
  OBVIOUS
<1>5. p \in T /\ \A j \in T : p <= j
  BY <1>1, <1>3 DEF Least
<1>6. p \in 1 .. m + 1 /\ (p \in 1 .. m => p \in OpenEnd(s, ls))
  BY <1>1, <1>3, <1>5 DEF OpenEnd
<1>7. \A i \in p .. m : i \in Open(s, ls)
  BY <1>1, <1>6 DEF OpenEnd
<1>8. ASSUME NEW j \in 1 .. p - 1, Kind(s, ls[j]) = "unused" PROVE FALSE
  <2>1. j \in 1 .. m /\ j < p
    BY <1>6, <1>8
  <2>2. \A i \in j .. m : i \in Open(s, ls)
    BY <1>1, <1>8, <2>1
  <2>3. j \in Open(s, ls)
    BY <2>1, <2>2
  <2>4. j \in OpenEnd(s, ls)
    BY <1>1, <2>2, <2>3 DEF OpenEnd
  <2>5. j \in T
    BY <1>3, <2>4, Zenon
  <2> QED BY <1>5, <1>6, <2>1, <2>5
<1>9. PICK e \in Nat : e = m + 1 - p
  BY <1>6
<1>10. e < n
  <2>1. SUFFICES ASSUME ~(e < n) PROVE FALSE
    OBVIOUS
  <2>2. p \in 1 .. m /\ p + n - 1 <= m
    BY <1>6, <1>9, <2>1
  <2>3. \A i \in p .. p + n - 1 : i \in Open(s, ls)
    BY <1>7, <2>2
  <2>4. p \in Open(s, ls)
    BY <1>7, <2>2
  <2>5. p \in Runs(s, ls, n)
    BY <2>3, <2>4 DEF Runs
  <2> QED BY <2>5
<1>11. PICK a : a = SubSeq(ls, p, m)
  OBVIOUS
<1>12. a \in Seq(Places) /\ IsPart(a, ls, p, m)
  <2>1. p \in Nat \ {0} /\ m <= m /\ p <= m + 1 /\ m <= Len(ls)
    BY <1>1, <1>6
  <2> QED BY <1>1, <1>11, <2>1, SubSeqFacts
<1>13. PICK r \in Nat : r = n - e /\ r <= z /\ r >= 1
  BY <1>2, <1>9, <1>10
<1>14. PICK b : b = [j \in 1 .. r |-> <<new, j>>]
  OBVIOUS
<1>15. b \in Seq(Places) /\ Len(b) = r /\ \A j \in 1 .. r : b[j] = <<new, j>>
  <2>1. \A j \in 1 .. r : <<new, j>> \in Places
    <3>1. \A j \in 1 .. r : j \in 1 .. SlotsPerCluster
      BY <1>2, <1>13
    <3> QED BY <3>1, PlaceFacts
  <2> QED BY <1>14, <2>1
<1>16. locs \in Seq(Places) /\ IsCat(locs, a, b)
  <2>1. locs = a \o b
    BY <1>1, <1>9, <1>11, <1>13, <1>14 DEF Continued
  <2> QED BY <1>12, <1>15, <2>1, CatFacts
<1>17. Len(a) = e /\ \A i \in 1 .. e : a[i] = ls[p + i - 1] /\ p + i - 1 \in 1 .. m
  <2>1. Len(a) = e
    BY <1>6, <1>9, <1>12 DEF IsPart
  <2> QED BY <1>1, <1>12, <2>1 DEF IsPart
<1>18. /\ Len(locs) = n /\ \A i \in 1 .. e : locs[i] = a[i]
       /\ \A j \in 1 .. r : locs[e + j] = <<new, j>>
  <2>1. Len(locs) = e + r /\ \A i \in 1 .. e : locs[i] = a[i]
    BY <1>15, <1>16, <1>17 DEF IsCat
  <2>2. \A j \in 1 .. r : locs[e + j] = b[j]
    BY <1>15, <1>16, <1>17 DEF IsCat
  <2> QED BY <1>9, <1>13, <1>15, <2>1, <2>2
<1>19. ASSUME NEW i \in 1 .. n
       PROVE  locs[i] = lt[p + i - 1] /\ Kind(t, lt[p + i - 1]) \in {"unused", "deleted"}
  <2>1. CASE i \in 1 .. e
    <3>1. PICK y \in 1 .. m : y = p + i - 1 /\ locs[i] = ls[y]
      BY <1>17, <1>18, <2>1
    <3>2. y \in p .. m
      BY <1>6, <2>1, <3>1
    <3>3. lt[y] = ls[y] /\ Kind(t, lt[y]) = Kind(s, ls[y])
      BY <1>1, <3>1
    <3> QED BY <1>1, <1>7, <3>1, <3>2, <3>3
  <2>2. CASE i \notin 1 .. e
    <3>1. PICK j \in 1 .. r : i = e + j
      <4>1. i - e \in 1 .. r /\ i = e + (i - e)
        BY <1>9, <1>13, <2>2
      <4> QED BY <4>1
    <3>2. p + i - 1 = m + j /\ j \in 1 .. SlotsPerCluster
      BY <1>2, <1>6, <1>9, <1>13, <3>1
    <3>3. lt[m + j] = <<new, j>> /\ Kind(t, <<new, j>>) = "unused"
      BY <1>1, <3>2
    <3> QED BY <1>18, <3>1, <3>2, <3>3
  <2> QED BY <2>1, <2>2
<1>20. \A j \in 1 .. p - 1 : Kind(t, lt[j]) # "unused"
  <2>1. \A j \in 1 .. p - 1 : j \in 1 .. m
    BY <1>6
  <2> QED BY <1>1, <1>8, <2>1
<1>21. p \in 1 .. Len(lt) /\ p + n - 1 \in 1 .. Len(lt)
  BY <1>1, <1>2, <1>6, <1>9, <1>10, <1>13
<1> QED BY <1>16, <1>18, <1>19, <1>20, <1>21 DEF Fits


\* lt is ls and then the slots of the fresh cluster new.
Wider(s, t, ls, lt, new) ==
  /\ lt \in Seq(Places) /\ Len(lt) = Len(ls) + SlotsPerCluster
  /\ \A i \in 1 .. Len(ls) : lt[i] = ls[i] /\ Kind(t, lt[i]) = Kind(s, ls[i])
  /\ \A j \in 1 .. SlotsPerCluster : lt[Len(ls) + j] = <<new, j>> /\ Kind(t, <<new, j>>) = "unused"

LEMMA WiderFits ==
  ASSUME NEW s, NEW f, NEW g, NEW x, Volume(s, f, g, x), NEW k, DirAt(s, x, k),
         NEW n \in Nat \ {0}, n <= 2, Runs(s, Ls(s, f, k), n) = {},
         NEW p, Least(p, OpenEnd(s, Ls(s, f, k)) \cup {Len(Ls(s, f, k)) + 1}),
         NEW new \in Clusters, NEW t, NEW lt, Wider(s, t, Ls(s, f, k), lt, new)
  PROVE  /\ Continued(Ls(s, f, k), p, n, new) \in Seq(Places)
         /\ Fits(t, lt, p, n, Continued(Ls(s, f, k), p, n, new))
BY SMTT(30), GrownFits DEF Wider

-----------------------------------------------------------------------------
(* The parts of a create: names, clusters, contents.                       *)

LEMMA LfnIs ==
  ASSUME NEW n \in LongNames, NEW a \in Range(Aliases)
  PROVE  Lfn(n, a) \in SlotT /\ Lfn(n, a).kind = "lfn"
<1>0. PICK sum \in Nat : sum = Checksum[a]
  <2>1. a \in ShortNames \cup Range(Aliases)
    OBVIOUS
  <2>2. Checksum[a] \in 0 .. 255
    BY <2>1, NamesAssumption, Zenon
  <2> QED BY <2>2, SMT
<1>1. n \in Words
  BY DEF Words, Names
<1>2. PICK k \in Kinds : k = "lfn" /\ k # "short"
  BY KindsDiffer
<1>3. PICK d \in BOOLEAN : d = FALSE
  BY Zenon
<1>4. 0 \in Int /\ 0 \in Nat
  BY SMT
<1>5. Slot(k, n, sum, d, 0, 0) \in SlotT /\ Slot(k, n, sum, d, 0, 0).kind = k
  BY <1>1, <1>2, <1>4, SlotIs
<1> QED BY <1>0, <1>2, <1>3, <1>5, Zenon DEF Lfn

LEMMA NameEntriesIs ==
  ASSUME NEW s, NEW f, NEW d, NEW n \in Names, NEW ne \in NameEntries(s, f, d, n)
  PROVE  /\ ne.short \in ShortNames \cup Range(Aliases)
         /\ ne.long \in Seq(SlotT) /\ (Len(ne.long) = 0 \/ Len(ne.long) = 1)
         /\ \A i \in 1 .. Len(ne.long) : ne.long[i].kind = "lfn"
<1>1. CASE n \in ShortNames
  <2>1. ne.short = n /\ ne.long = <<>>
    BY <1>1 DEF NameEntries
  <2>2. <<>> \in Seq(SlotT) /\ Len(<<>>) = 0
    OBVIOUS
  <2> QED BY <1>1, <2>1, <2>2
<1>2. CASE n \notin ShortNames
  <2>1. PICK i \in DOMAIN Aliases : ne.short = Aliases[i] /\ ne.long = <<Lfn(n, Aliases[i])>>
    BY <1>2 DEF NameEntries
  <2>2. Aliases[i] \in Range(Aliases) /\ n \in LongNames
    BY <1>2 DEF Range, Names
  <2>3. PICK v \in SlotT : v = Lfn(n, Aliases[i]) /\ v.kind = "lfn"
    BY <2>2, LfnIs
  <2>4. ne.long \in Seq(SlotT) /\ Len(ne.long) = 1 /\ ne.long[1] = v
    BY <2>1, <2>3, OneSeq
  <2> QED BY <2>1, <2>2, <2>3, <2>4
<1> QED BY <1>1, <1>2

LEMMA DotIs ==
  ASSUME NEW c \in Int
  PROVE  Dot(c) \in SlotT /\ Dot(c).kind = "dot"
<1>1. PICK n \in Words : n = ""
  BY KindsDiffer, Zenon
<1>2. PICK d \in BOOLEAN : d = TRUE
  BY Zenon
<1>3. PICK k \in Kinds : k = "dot" /\ k # "short" /\ k # "lfn"
  BY KindsDiffer
<1>4. Slot(k, n, 0, d, c, 0) \in SlotT /\ Slot(k, n, 0, d, c, 0).kind = k
  BY <1>3, PlainSlot, Zenon
<1> QED BY <1>1, <1>2, <1>3, <1>4, Zenon DEF Dot

LEMMA DotsIs ==
  ASSUME NEW c \in Int, NEW a \in Int
  PROVE  Dots(c, a) \in ClusterT /\ Bare(Dots(c, a))
<1>1. PICK n \in Nat : n = SlotsPerCluster /\ n >= 2
  BY SlotsFit
<1>2. PICK u \in SlotT, v \in SlotT, w \in SlotT :
        /\ u = Dot(c) /\ u.kind = "dot" /\ v = Dot(a) /\ v.kind = "dot"
        /\ w = Unused /\ w.kind = "unused"
  BY DotIs, ZeroedIs
<1>3. PICK b : b = [[[j \in 1 .. n |-> w] EXCEPT ![1] = u] EXCEPT ![2] = v]
  OBVIOUS
<1>4. Dots(c, a) = b
  BY <1>1, <1>2, <1>3 DEF Dots, Zeroed
<1>5. b \in [1 .. n -> SlotT] /\ b[1] = u /\ b[2] = v /\ \A j \in 3 .. n : b[j] = w
  BY SMTT(30), <1>1, <1>3
<1>6. \A j \in 1 .. n : j = 1 \/ j = 2 \/ j \in 3 .. n
  OBVIOUS
<1>7. \A j \in 1 .. n : b[j].kind \in {"dot", "unused"} /\ (b[j].kind = "unused" => j \in 3 .. n)
  BY <1>2, <1>5, <1>6
<1>8. ASSUME NEW i \in 1 .. n, NEW j \in 1 .. n, i < j, b[i].kind = "unused" PROVE b[j].kind = "unused"
  <2>1. j \in 3 .. n
    BY <1>7, <1>8
  <2> QED BY <1>2, <1>5, <2>1
<1> QED BY <1>1, <1>4, <1>5, <1>7, <1>8 DEF ClusterT, Bare

LEMMA BodyIs ==
  ASSUME NEW dir \in BOOLEAN, NEW q \in Seq(Clusters), Len(q) > 0, dir => Len(q) = 1,
         NEW at \in Int, NEW data \in Seq(Blocks), NEW b, b = Body(dir, q, at, data)
  PROVE  b \in Seq(WriteT) /\ Linking(b, q) /\ (dir => Furnishes(b, q[1]))
<1>1. CASE ~dir
  BY <1>1, ChainWritesIs DEF Body
<1>2. CASE dir
  <2>1. PICK c \in Clusters : c = q[1] /\ Len(q) = 1
    BY <1>2, RangeIs
  <2>2. c \in Int
    BY DEF Clusters
  <2>3. PICK v \in ClusterT : v = Dots(c, at) /\ Bare(v)
    BY <2>2, DotsIs
  <2>4. PICK w1 \in WriteT : w1 = DataW(c, v) /\ w1.to = "data" /\ w1.at = c /\ w1.val = v
    BY DataWIs
  <2>5. PICK w2 \in WriteT : w2 = FatW(c, Eoc) /\ w2.to = "fat" /\ w2.at = c /\ w2.val = Eoc
    BY FatWIs
  <2>6. b = <<w1, w2>>
    BY <1>2, <2>1, <2>3, <2>4, <2>5 DEF Body
  <2>7. b \in Seq(WriteT) /\ Len(b) = 2 /\ b[1] = w1 /\ b[2] = w2
    BY <2>6
  <2>8. Link(q, 1) = Eoc
    BY <2>1 DEF Link
  <2>9. \A j \in 1 .. 2 : j = 1 \/ j = 2
    OBVIOUS
  <2>10. Linking(b, q)
    <3>1. ASSUME NEW k \in 1 .. Len(b)
          PROVE  /\ b[k].to \in {"fat", "data"} /\ b[k].at = q[1]
                 /\ b[k].to = "fat" => b[k].val = Link(q, 1)
      BY <2>1, <2>4, <2>5, <2>7, <2>8, <2>9, <3>1
    <3>2. 1 \in 1 .. Len(q) /\ 2 \in 1 .. Len(b) /\ \A i \in 1 .. Len(q) : i = 1
      BY <2>1, <2>7
    <3>3. b[2].to = "fat" /\ b[2].at = q[1]
      BY <2>1, <2>5, <2>7
    <3> QED BY <3>1, <3>2, <3>3 DEF Linking
  <2>11. Furnishes(b, q[1])
    <3>1. \A j \in 1 .. Len(b) : b[j].to = "data" => Bare(b[j].val)
      BY <2>3, <2>4, <2>5, <2>7, <2>9
    <3>2. 1 \in 1 .. Len(b) /\ b[1].to = "data" /\ b[1].at = q[1]
      BY <2>1, <2>4, <2>7
    <3> QED BY <3>1, <3>2 DEF Furnishes
  <2> QED BY <2>7, <2>10, <2>11
<1> QED BY <1>1, <1>2

Picked(f, n) == SubSeq(FreeClusters(f), 1, n)

LEMMA PickedIs ==
  ASSUME NEW f, NEW n \in Nat \ {0}, n <= Len(FreeClusters(f)), NEW q, q = Picked(f, n)
  PROVE  /\ q \in Seq(Clusters) /\ Len(q) = n /\ Distinct(q)
         /\ Range(q) \subseteq Range(FreeClusters(f))
<1>1. PICK fr \in Seq(Clusters) : fr = FreeClusters(f) /\ Distinct(fr)
  BY FreeDistinct
<1>2. n \in Nat /\ n <= Len(fr) /\ 1 <= n + 1 /\ 1 \in Nat \ {0} /\ q = SubSeq(fr, 1, n)
  BY <1>1 DEF Picked
<1>3. q \in Seq(Clusters) /\ IsPart(q, fr, 1, n)
  BY <1>2, SubSeqFacts
<1>4. Len(q) = n /\ Distinct(q) /\ Range(q) \subseteq Range(fr)
  BY <1>1, <1>2, <1>3, ShrunkIs
<1> QED BY <1>1, <1>3, <1>4

\* What is left of a create once its directory has room.
LEMMA EntryReady ==
  ASSUME NEW s, NEW f, NEW g, NEW x, Volume(s, f, g, x), NEW k, DirAt(s, x, k),
         NEW ne, ne.short \in ShortNames \cup Range(Aliases), ne.long \in Seq(SlotT),
         Len(ne.long) = 0 \/ Len(ne.long) = 1, \A i \in 1 .. Len(ne.long) : ne.long[i].kind = "lfn",
         NEW p, NEW run, run.locs \in Seq(Places), Fits(s, Ls(s, f, k), p, Len(ne.long) + 1, run.locs),
         NEW dir \in BOOLEAN, NEW data \in Seq(Blocks), dir => k = 0 /\ data = <<>>,
         NEW d, d.at \in Int,
         Need(data) <= Len(FreeClusters(g)), NEW cs, cs = Picked(g, Need(data)),
         NEW ws, ws = EntryWrites(run, cs, d, ne, dir, data)
  PROVE  /\ ws \in Seq(WriteT) /\ ws # <<>> /\ Ready(s, f, g, ws, x, x)
         /\ Tight(s, f, x) => Covered(s, f, g, ws, x)
<1>1. PICK m \in Nat \ {0}, z \in Nat : m = Need(data) /\ z = Len(data) /\ m = Clus(z) /\ (dir => m = 1)
  <2>1. Need(<<>>) = 1
    BY DEF Need
  <2> QED BY <2>1, NeedIs
<1>2. PICK q \in Seq(Clusters) : /\ q = cs /\ Len(q) = m /\ Distinct(q)
                                 /\ Range(q) \subseteq Range(FreeClusters(g))
  BY <1>1, PickedIs
<1>3. \A c \in Range(q) : ~Owned(s, f, x, c)
  <2>1. \A i \in 1 .. Len(FreeClusters(g)) : ~Owned(s, f, x, FreeClusters(g)[i])
    BY FreeUnowned
  <2>2. \A c \in Range(FreeClusters(g)) : \E i \in 1 .. Len(FreeClusters(g)) : FreeClusters(g)[i] = c
    BY FreeDistinct, RangeIs
  <2> QED BY <1>2, <2>1, <2>2
<1>4. Len(q) > 0 /\ (dir => Len(q) = 1)
  BY <1>1, <1>2
<1>5. PICK b \in Seq(WriteT) : /\ b = Body(dir, q, d.at, data) /\ Linking(b, q)
                               /\ dir => Furnishes(b, q[1])
  BY <1>4, BodyIs
<1>6. PICK c \in Clusters : c = q[1]
  BY <1>4, RangeIs
<1>7. c \in Int
  BY DEF Clusters
<1>8. PICK v \in SlotT : /\ v = Entry(ne.short, dir, c, z) /\ v.kind = "short" /\ v.start = c
                         /\ v.dir = dir /\ v.size = z
  BY <1>7, EntrySlot
<1>0. PICK y \in Nat : y = Len(ne.long) /\ (y = 0 \/ y = 1)
  BY RangeIs
<1>20. y \in Nat /\ (y = 0 \/ y = 1)
  BY <1>0
<1>18. PICK n \in Nat \ {0} : n = y + 1 /\ y = n - 1 /\ (n = 1 \/ n = 2)
  BY <1>20
<1>9. PICK locs \in Seq(Places), long \in Seq(SlotT) :
        /\ locs = run.locs /\ long = ne.long /\ Len(long) = y
  BY <1>0
<1>10. ws = NewSeq(b, locs, long, v)
  BY <1>1, <1>2, <1>5, <1>6, <1>8, <1>9 DEF EntryWrites, NewSeq
<1>11. (n = 1 \/ n = 2) /\ Len(long) = n - 1
  BY <1>9, <1>18
<1>15. \A i \in 1 .. Len(long) : long[i].kind = "lfn"
  BY <1>9
<1>16. Fits(s, Ls(s, f, k), p, n, locs)
  BY <1>0, <1>9, <1>18
<1>17. locs \in Seq(Places) /\ long \in Seq(SlotT) /\ n \in Nat \ {0}
  BY <1>9
<1>12. v.start = q[1] /\ (~v.dir => Len(q) = Clus(v.size)) /\ v.kind = "short"
  BY <1>1, <1>2, <1>6, <1>8
<1>13. v.dir => k = 0 /\ Len(q) = 1 /\ Furnishes(b, q[1])
  BY <1>4, <1>5, <1>8
<1>14. Distinct(q) /\ Linking(b, q) /\ Len(q) > 0
  BY <1>2, <1>4, <1>5
<1>19. Proper(s, f, x, k, n, p, locs, q, b, long, v)
  BY <1>3, <1>11, <1>12, <1>13, <1>14, <1>15, <1>16, <1>17, Zenon DEF Proper
<1> QED BY <1>10, <1>19, NewReady


\* v is u without its first.
IsTail(v, u, m) == v \in Seq(WriteT) /\ Len(v) = m /\ \A i \in 1 .. m : v[i] = u[i + 1]

LEMMA TailIs ==
  ASSUME NEW u \in Seq(WriteT), NEW m \in Nat, Len(u) = m + 1
  PROVE  IsTail(Tail(u), u, m)
<1>1. u # <<>>
  OBVIOUS
<1>2. PICK v : v = Tail(u)
  OBVIOUS
<1>3. v \in Seq(WriteT) /\ Len(v) = Len(u) - 1 /\ \A i \in 1 .. Len(u) - 1 : v[i] = u[i + 1]
  BY <1>1, <1>2, TailFacts
<1>4. Len(u) - 1 = m
  OBVIOUS
<1>5. Len(v) = m /\ \A i \in 1 .. m : v[i] = u[i + 1]
  BY <1>3, <1>4
<1> QED BY <1>2, <1>3, <1>5, Zenon DEF IsTail

\* The plan of a create that grows its directory first.
GrowSeq(last, new, rest) == GrowWrites(last, new) \o rest

GrowSeqOf(last, new, rest, ws) ==
  /\ ws \in Seq(WriteT) /\ ws # <<>> /\ Len(rest) \in Nat /\ Len(ws) = Len(rest) + 3
  /\ ws[1] = DataW(new, Zeroed) /\ ws[2] = FatW(last, new) /\ ws[3] = FatW(new, Eoc)
  /\ Tail(Tail(Tail(ws))) = rest

LEMMA GrowSeqFacts ==
  ASSUME NEW last \in Clusters, NEW new \in Clusters, NEW rest \in Seq(WriteT)
  PROVE  GrowSeqOf(last, new, rest, GrowSeq(last, new, rest))
<1> PICK ws : ws = GrowSeq(last, new, rest)
  OBVIOUS
<1>1. PICK a \in Seq(WriteT) :
        /\ a = GrowWrites(last, new) /\ Len(a) = 3
        /\ a[1] = DataW(new, Zeroed) /\ a[2] = FatW(last, new) /\ a[3] = FatW(new, Eoc)
  <2>1. PICK u \in WriteT, v \in WriteT, w \in WriteT :
          u = DataW(new, Zeroed) /\ v = FatW(last, new) /\ w = FatW(new, Eoc)
    BY GrowWriteFacts
  <2>2. <<u, v, w>> \in Seq(WriteT) /\ Len(<<u, v, w>>) = 3
        /\ <<u, v, w>>[1] = u /\ <<u, v, w>>[2] = v /\ <<u, v, w>>[3] = w
    OBVIOUS
  <2> QED BY <2>1, <2>2 DEF GrowWrites
<1>2. ws \in Seq(WriteT) /\ IsCat(ws, a, rest)
  BY <1>1, CatFacts DEF GrowSeq
<1>3. PICK m \in Nat : m = Len(rest) /\ Len(ws) = m + 3
  BY <1>1, <1>2 DEF IsCat
<1>4. /\ ws[1] = a[1] /\ ws[2] = a[2] /\ ws[3] = a[3]
      /\ \A i \in 1 .. m : ws[3 + i] = rest[i]
  BY <1>1, <1>2, <1>3 DEF IsCat
<1>5. PICK u \in Seq(WriteT) : u = ws /\ u # <<>> /\ Len(u) = m + 3 /\ \A i \in 1 .. m : u[3 + i] = rest[i]
  BY <1>2, <1>3, <1>4
<1>0. PICK m1 \in Nat, m2 \in Nat, m3 \in Nat : m1 = m + 1 /\ m2 = m1 + 1 /\ m3 = m2 + 1 /\ m3 = m + 3
  OBVIOUS
<1>15. Len(u) = m3 /\ u \in Seq(WriteT) /\ m2 \in Nat /\ m3 \in Nat /\ m3 = m2 + 1
  BY <1>0, <1>5
<1>6. PICK v \in Seq(WriteT) : v = Tail(u) /\ Len(v) = m2 /\ \A i \in 1 .. m2 : v[i] = u[i + 1]
  <2>1. IsTail(Tail(u), u, m2)
    BY <1>15, TailIs
  <2> QED BY <2>1 DEF IsTail
<1>7. Len(v) = m2 /\ v \in Seq(WriteT) /\ m1 \in Nat /\ m2 \in Nat /\ m2 = m1 + 1
  BY <1>0, <1>6
<1>8. PICK w \in Seq(WriteT) : w = Tail(v) /\ Len(w) = m1 /\ \A i \in 1 .. m1 : w[i] = v[i + 1]
  <2>1. IsTail(Tail(v), v, m1)
    BY <1>7, TailIs
  <2> QED BY <2>1 DEF IsTail
<1>9. Len(w) = m1 /\ w \in Seq(WriteT) /\ m1 \in Nat /\ m \in Nat /\ m1 = m + 1
  BY <1>0, <1>8
<1>10. PICK y \in Seq(WriteT) : y = Tail(w) /\ Len(y) = m /\ \A i \in 1 .. m : y[i] = w[i + 1]
  <2>1. IsTail(Tail(w), w, m)
    BY <1>9, TailIs
  <2> QED BY <2>1 DEF IsTail
<1>11. ASSUME NEW i \in 1 .. m PROVE y[i] = rest[i]
  <2>1. y[i] = w[i + 1]
    BY <1>10
  <2>2. PICK j \in 1 .. m1 : j = i + 1
    BY <1>0
  <2>3. w[j] = v[j + 1]
    BY <1>8
  <2>4. PICK e \in 1 .. m2 : e = j + 1
    BY <1>0
  <2>5. v[e] = u[e + 1] /\ e + 1 = 3 + i
    BY <1>6, <2>2, <2>4
  <2> QED BY <1>5, <2>1, <2>2, <2>3, <2>4, <2>5
<1>12. y \in Seq(WriteT) /\ Len(y) = m
  BY <1>10
<1>13. y = rest
  BY <1>3, <1>11, <1>12
<1>14. Tail(Tail(Tail(ws))) = rest
  BY <1>5, <1>6, <1>8, <1>10, <1>13, Zenon
<1> QED BY <1>1, <1>2, <1>3, <1>4, <1>5, <1>14 DEF GrowSeqOf

LEMMA BeginGrowing ==
  ASSUME SoundInv, op = Idle, NEW p, op' = p, UNCHANGED <<disk, fat, cache, lost, failures>>,
         IsPlan(p), NEW ws \in Seq(WriteT), p.writes = ws, ws # <<>>, p.left \in Nat, p.left > 0,
         NEW h, p.grown = {h}, p.victim = {}, h.loc \in Places,
         NEW last \in Clusters, NEW new \in Clusters, last # new, Len(ws) = p.left + 2,
         ws[1] = DataW(new, Zeroed), ws[2] = FatW(last, new), ws[3] = FatW(new, Eoc),
         Ready([disk EXCEPT ![new] = Zeroed], GrownFat(fat, last, new), GrownFat(cache, last, new),
               Tail(Tail(Tail(ws))), lost, lost),
         ~Owned(disk, fat, lost, new), ~Owned(disk, fat, lost \cup {h.loc}, last)
  PROVE  SoundInv'
<1>1. Volume(disk, fat, cache, lost)
  BY IdleVolume
<1>2. Growing(h)'
  BY DEF Growing, GrowsA
<1>3. Going'
  BY <1>2 DEF Going
<1>4. Hurt(op.writes)' = {}
  BY DEF Hurt
<1>5. Damaged' = lost
  BY <1>4 DEF Damaged
<1>6. Volume(disk', fat', cache', Damaged')
  BY <1>1, <1>5
<1>7. lost' \subseteq Places /\ failures' \in 0 .. MaxFailures
  BY DEF SoundInv
<1> QED BY <1>3, <1>6, <1>7, InvFrom

LEMMA FatWSame ==
  ASSUME NEW a, NEW b, NEW c, NEW d
  PROVE  /\ FatW(a, b) = FatW(c, d) => a = c /\ b = d
         /\ FatW(a, b) # DataW(c, d)
<1>1. FatW(a, b).to = "fat" /\ FatW(a, b).at = a /\ FatW(a, b).val = b
  BY DEF FatW
<1>2. FatW(c, d).to = "fat" /\ FatW(c, d).at = c /\ FatW(c, d).val = d
  BY DEF FatW
<1>3. DataW(c, d).to = "data"
  BY DEF DataW
<1> QED BY <1>1, <1>2, <1>3

LEMMA BeginGrowingLeak ==
  ASSUME LeakInv, op = Idle, NEW p, op' = p, UNCHANGED <<disk, fat, cache, lost, failures>>,
         NEW ws \in Seq(WriteT), p.writes = ws, ws # <<>>, p.left \in Nat,
         NEW h, p.grown = {h}, NEW last \in Clusters, NEW new \in Clusters, Len(ws) = p.left + 2,
         ws[1] = DataW(new, Zeroed), ws[2] = FatW(last, new),
         Tight(disk, fat, lost) =>
           Covered([disk EXCEPT ![new] = Zeroed], GrownFat(fat, last, new), GrownFat(cache, last, new),
                   Tail(Tail(Tail(ws))), lost)
  PROVE  LeakInv'
<1>1. CASE failures = 0
  <2>1. lost = {} /\ Tight(disk, fat, lost)
    BY <1>1 DEF LeakInv
  <2>2. op' # Idle
    BY DEF Idle
  <2>3. Covered([disk' EXCEPT ![new] = Zeroed], GrownFat(fat', last, new), GrownFat(cache', last, new),
                Tail(Tail(Tail(op'.writes))), lost')
    BY <2>1
  <2>4. ASSUME NEW a \in Clusters, NEW b \in Clusters, op'.writes[2] = FatW(a, b) PROVE a = last /\ b = new
    <3>1. FatW(a, b) = FatW(last, new)
      BY <2>4
    <3>2. FatW(a, b) = FatW(last, new) => a = last /\ b = new
      BY FatWSame
    <3> QED BY <3>1, <3>2, Zenon
  <2>5. Len(op'.writes) = op'.left + 2 /\ op'.left \in Nat /\ op'.grown # {}
    OBVIOUS
  <2>6. Len(op'.writes) # op'.left + 1 /\ Len(op'.writes) # op'.left /\ Len(op'.writes) >= op'.left
    BY <2>5
  <2>7. NeatGrowing'
    BY <2>3, <2>4, <2>6, Zenon DEF NeatGrowing
  <2>8. Neat'
    BY <2>5, <2>6, <2>7 DEF Neat
  <2> QED BY <2>1, <2>2, <2>8, LeakFrom
<1>2. CASE failures # 0
  BY <1>2 DEF LeakInv
<1> QED BY <1>1, <1>2

\* What find_free_entry_run_in returns for the directory k.
RunIs(s, f, g, k, n, run) ==
  /\ Runs(s, Ls(s, f, k), n) # {} =>
       /\ run.ok /\ run.grow = <<>> /\ run.fat = g
       /\ run.locs = SubSeq(Ls(s, f, k), Min(Runs(s, Ls(s, f, k), n)), Min(Runs(s, Ls(s, f, k), n)) + n - 1)
  /\ Runs(s, Ls(s, f, k), n) = {} /\ (k = 0 \/ FreeClusters(g) = <<>>) => ~run.ok
  /\ Runs(s, Ls(s, f, k), n) = {} /\ k # 0 /\ FreeClusters(g) # <<>> =>
       /\ run.ok
       /\ run.locs = Continued(Ls(s, f, k), Min(OpenEnd(s, Ls(s, f, k)) \cup {Len(Ls(s, f, k)) + 1}), n,
                               FreeClusters(g)[1])
       /\ run.grow = GrowWrites(Last(Chain(f, HeadOf(s, k))), FreeClusters(g)[1])
       /\ run.fat = GrownFat(g, Last(Chain(f, HeadOf(s, k))), FreeClusters(g)[1])

LEMMA FreeRunIs ==
  ASSUME NEW s, NEW f, NEW g, NEW x, Volume(s, f, g, x), NEW k, DirAt(s, x, k), NEW n
  PROVE  RunIs(s, f, g, k, n, FreeRun(s, g, HeadOf(s, k), n))
<1> PICK ls : ls = Ls(s, f, k)
  OBVIOUS
<1> PICK run : run = FreeRun(s, g, HeadOf(s, k), n)
  OBVIOUS
<1>1. PICK c : c = HeadOf(s, k)
  OBVIOUS
<1>2. Locs(g, c) = ls /\ (k = 0 <=> c = Root) /\ (k # 0 => Chain(g, c) = Chain(f, c))
  BY <1>1, CacheDir
<1>3. PICK R, T : R = Runs(s, ls, n) /\ T = OpenEnd(s, ls) \cup {Len(ls) + 1}
  OBVIOUS
<1>0. PICK r : r = run
  OBVIOUS
<1>4. r = IF R # {}
        THEN [ok |-> TRUE, locs |-> SubSeq(ls, Min(R), Min(R) + n - 1), grow |-> <<>>, fat |-> g]
        ELSE IF c = Root \/ FreeClusters(g) = <<>>
        THEN [ok |-> FALSE, locs |-> <<>>, grow |-> <<>>, fat |-> g]
        ELSE [ok |-> TRUE, locs |-> Continued(ls, Min(T), n, FreeClusters(g)[1]),
              grow |-> GrowWrites(Last(Chain(g, c)), FreeClusters(g)[1]),
              fat |-> GrownFat(g, Last(Chain(g, c)), FreeClusters(g)[1])]
  BY <1>0, <1>1, <1>2, <1>3, Zenon DEF FreeRun, Runs, OpenEnd
<1>5. ASSUME R # {}
      PROVE  /\ r.ok /\ r.grow = <<>> /\ r.fat = g
             /\ r.locs = SubSeq(ls, Min(R), Min(R) + n - 1)
  <2>1. r = [ok |-> TRUE, locs |-> SubSeq(ls, Min(R), Min(R) + n - 1), grow |-> <<>>, fat |-> g]
    BY <1>4, <1>5, Zenon
  <2> QED BY <2>1
<1>6. ASSUME R = {}, c = Root \/ FreeClusters(g) = <<>> PROVE ~r.ok
  <2>1. r = [ok |-> FALSE, locs |-> <<>>, grow |-> <<>>, fat |-> g]
    BY <1>4, <1>6, Zenon
  <2> QED BY <2>1
<1>7. ASSUME R = {}, c # Root, FreeClusters(g) # <<>>
      PROVE  /\ r.ok /\ r.locs = Continued(ls, Min(T), n, FreeClusters(g)[1])
             /\ r.grow = GrowWrites(Last(Chain(g, c)), FreeClusters(g)[1])
             /\ r.fat = GrownFat(g, Last(Chain(g, c)), FreeClusters(g)[1])
  <2>1. r = [ok |-> TRUE, locs |-> Continued(ls, Min(T), n, FreeClusters(g)[1]),
               grow |-> GrowWrites(Last(Chain(g, c)), FreeClusters(g)[1]),
               fat |-> GrownFat(g, Last(Chain(g, c)), FreeClusters(g)[1])]
    BY <1>4, <1>7, Zenon
  <2> QED BY <2>1
<1> QED BY <1>0, <1>1, <1>2, <1>3, <1>5, <1>6, <1>7, Zenon DEF RunIs


-----------------------------------------------------------------------------
(* Creating a file or a directory.                                         *)

\* The writes of a create behind the growth.
RestOf(f, run, d, ne, dir, data) ==
  IF ClustersFor(f, run, Need(data)) = <<>> THEN <<>>
  ELSE EntryWrites(run, ClustersFor(f, run, Need(data)), d, ne, dir, data)

\* What build_name_entries returns.
Named(ne, n) ==
  /\ ne.short \in ShortNames \cup Range(Aliases) /\ ne.long \in Seq(SlotT)
  /\ (Len(ne.long) = 0 \/ Len(ne.long) = 1) /\ \A i \in 1 .. Len(ne.long) : ne.long[i].kind = "lfn"
  /\ n = Len(ne.long) + 1

LEMMA RestIs ==
  ASSUME NEW s, NEW f, NEW g, NEW x, Volume(s, f, g, x), NEW k, DirAt(s, x, k),
         NEW ne, NEW n, Named(ne, n), NEW p, NEW run, run.locs \in Seq(Places), run.fat = g,
         Fits(s, Ls(s, f, k), p, n, run.locs),
         NEW dir \in BOOLEAN, NEW data \in Seq(Blocks), dir => k = 0 /\ data = <<>>,
         NEW d, d.at \in Int, NEW any, NEW rest, rest = RestOf(any, run, d, ne, dir, data)
  PROVE  /\ rest \in Seq(WriteT) /\ Ready(s, f, g, rest, x, x)
         /\ Tight(s, f, x) => Covered(s, f, g, rest, x)
<1>1. PICK m \in Nat \ {0} : m = Need(data)
  BY NeedIs
<1>2. PICK y \in Nat : y = Len(FreeClusters(g))
  BY FreeFacts
<1>3. CASE y < m
  <2>1. ClustersFor(any, run, Need(data)) = <<>>
    BY <1>1, <1>2, <1>3 DEF ClustersFor
  <2>2. rest = <<>>
    BY <2>1 DEF RestOf
  <2>3. <<>> \in Seq(WriteT) /\ Len(<<>>) = 0
    OBVIOUS
  <2>4. x \subseteq Places /\ Safe(s, f, g, x)
    BY DEF Volume
  <2>5. Tight(s, f, x) => Covered(s, f, g, rest, x)
    <3>1. DOMAIN <<>> = {}
      OBVIOUS
    <3> QED BY <2>2, <3>1 DEF Covered, Covers, Tight
  <2> QED BY <2>2, <2>3, <2>4, <2>5 DEF Ready
<1>4. CASE ~(y < m)
  <2>1. PICK cs : cs = Picked(g, Need(data)) /\ cs = ClustersFor(any, run, Need(data))
    BY <1>1, <1>2, <1>4 DEF ClustersFor, Picked
  <2>2. Need(data) <= Len(FreeClusters(g))
    BY <1>1, <1>2, <1>4
  <2>3. cs = Picked(g, Need(data)) /\ cs # <<>>
    <3>1. cs \in Seq(Clusters) /\ Len(cs) = m
      BY <1>1, <2>1, <2>2, PickedIs
    <3> QED BY <2>1, <3>1
  <2>4. rest = EntryWrites(run, cs, d, ne, dir, data)
    BY <2>1, <2>3 DEF RestOf
  <2>5. Fits(s, Ls(s, f, k), p, Len(ne.long) + 1, run.locs)
    BY DEF Named
  <2>6. /\ ne.short \in ShortNames \cup Range(Aliases) /\ ne.long \in Seq(SlotT)
        /\ (Len(ne.long) = 0 \/ Len(ne.long) = 1) /\ \A i \in 1 .. Len(ne.long) : ne.long[i].kind = "lfn"
    BY DEF Named
  <2>7. cs = Picked(g, Need(data))
    BY <2>3
  <2> QED BY <2>2, <2>4, <2>5, <2>6, <2>7, EntryReady
<1> QED BY <1>3, <1>4

\* The fields of the plan p of a create.
PlanOf(d, run, rest, p) ==
  /\ IsPlan(p) /\ p.victim = {} /\ p.left = 1 + Len(rest)
  /\ run.ok => p.writes = run.grow \o rest
  /\ ~run.ok => p.writes = <<>>
  /\ run.grow = <<>> => p.grown = {}
  /\ run.grow # <<>> => p.grown = {[loc |-> d.loc, path |-> d.path]}

LEMMA PlanIs ==
  ASSUME NEW s, NEW f, NEW d, NEW ne, NEW name, NEW dir, NEW data, NEW n, Named(ne, n)
  PROVE  PlanOf(d, FreeRun(s, f, d.at, n), RestOf(f, FreeRun(s, f, d.at, n), d, ne, dir, data),
                EntryPlan(s, f, d, ne, name, dir, data))
<1> PICK run : run = FreeRun(s, f, d.at, n)
  OBVIOUS
<1> PICK rest : rest = RestOf(f, run, d, ne, dir, data)
  OBVIOUS
<1> PICK p : p = EntryPlan(s, f, d, ne, name, dir, data)
  OBVIOUS
<1>1. PICK z, r, t : z = n /\ r = run /\ t = rest
  OBVIOUS
<1>2. Len(ne.long) + 1 = z
  BY <1>1 DEF Named
<1>3. PICK M : M = {m \in {Made(Append(d.path, name), dir, data)} : t # <<>>}
  OBVIOUS
<1>4. PICK G : G = {g \in {[loc |-> d.loc, path |-> d.path]} : r.grow # <<>>}
  OBVIOUS
<1>5. r = FreeRun(s, f, d.at, z) /\ t = RestOf(f, r, d, ne, dir, data)
  BY <1>1
<1>6. p = [writes |-> IF r.ok THEN r.grow \o t ELSE <<>>, gone |-> {}, victim |-> {},
           made |-> M, grown |-> G, left |-> 1 + Len(t)]
  BY <1>2, <1>3, <1>4, <1>5, Zenon DEF EntryPlan, RestOf
<1>7. PICK w : w = IF r.ok THEN r.grow \o t ELSE <<>>
  OBVIOUS
<1>8. PICK u : u = p
  OBVIOUS
<1>9. u = [writes |-> w, gone |-> {}, victim |-> {}, made |-> M, grown |-> G, left |-> 1 + Len(t)]
  BY <1>6, <1>7, <1>8
<1>10. /\ u.writes = w /\ u.gone = {} /\ u.victim = {} /\ u.made = M /\ u.grown = G
       /\ u.left = 1 + Len(t) /\ IsPlan(u)
  BY <1>9 DEF IsPlan
<1>11. (r.ok => w = r.grow \o t) /\ (~r.ok => w = <<>>)
  BY <1>7
<1>12. /\ r.grow = <<>> => G = {}
       /\ r.grow # <<>> => G = {[loc |-> d.loc, path |-> d.path]}
  BY <1>4
<1> QED BY <1>1, <1>8, <1>10, <1>11, <1>12, Zenon DEF PlanOf

LEMMA CreateStraight ==
  ASSUME SoundInv, op = Idle, UNCHANGED <<disk, fat, cache, lost, failures>>,
         NEW k, DirAt(disk, lost, k), NEW d, d.at \in Int, NEW ne, NEW n, Named(ne, n),
         NEW run, run.fat = cache, NEW ls, ls = Ls(disk, fat, k), Runs(disk, ls, n) # {},
         NEW r, r = Min(Runs(disk, ls, n)), NEW locs, locs = SubSeq(ls, r, r + n - 1), run.locs = locs,
         NEW dir \in BOOLEAN, NEW data \in Seq(Blocks), dir => k = 0 /\ data = <<>>,
         NEW rest, rest = RestOf(cache, run, d, ne, dir, data),
         NEW p, op' = p, IsPlan(p), p.victim = {}, p.left = 1 + Len(rest), p.grown = {},
         p.writes = rest, rest # <<>>
  PROVE  SoundInv' /\ (LeakInv => LeakInv')
<1>1. Volume(disk, fat, cache, lost)
  BY IdleVolume
<1>2. PICK m \in Nat \ {0} : m = n
  <2>1. PICK y \in Nat : y = Len(ne.long)
    BY RangeIs DEF Named
  <2> QED BY <2>1 DEF Named
<1>3. locs \in Seq(Places) /\ Fits(disk, ls, r, n, locs)
  BY <1>1, <1>2, RunFits
<1>4. run.locs \in Seq(Places) /\ Fits(disk, Ls(disk, fat, k), r, n, run.locs)
  BY <1>3
<1>5. PICK v : v = rest
  OBVIOUS
<1>6. /\ v \in Seq(WriteT) /\ Ready(disk, fat, cache, v, lost, lost)
      /\ Tight(disk, fat, lost) => Covered(disk, fat, cache, v, lost)
  BY ZenonT(60), <1>1, <1>4, <1>5, RestIs
<1>7. lost \cup {h.loc : h \in p.victim} = lost
  OBVIOUS
<1>8. Ready(disk, fat, cache, p.writes, lost, lost \cup {h.loc : h \in p.victim})
  BY <1>5, <1>6, <1>7
<1>9. p.writes \in Seq(WriteT) /\ p.writes # <<>> /\ p.left \in Nat
  BY <1>5, <1>6, RangeIs
<1>10. SoundInv'
  BY <1>8, <1>9, BeginStraight
<1>11. ASSUME LeakInv PROVE LeakInv'
  <2>1. Tight(disk, fat, lost) => Covered(disk, fat, cache, op'.writes, lost \cup {h.loc : h \in op'.victim})
    BY <1>5, <1>6, <1>7
  <2> QED BY <1>9, <1>11, <2>1, BeginLeak
<1> QED BY <1>10, <1>11


\* A create in directory k that has to grow it.
GrowthOf(k, d, ne, n, last, new, run, ls, dir, data, rest, p) ==
  /\ DirAt(disk, lost, k) /\ k # 0 /\ d.at \in Int /\ d.loc = <<Root, k>> /\ Named(ne, n)
  /\ last = Last(Chain(fat, HeadOf(disk, k))) /\ FreeClusters(cache) # <<>> /\ new = FreeClusters(cache)[1]
  /\ run.fat = GrownFat(cache, last, new) /\ ls = Ls(disk, fat, k) /\ Runs(disk, ls, n) = {}
  /\ run.locs = Continued(ls, Min(OpenEnd(disk, ls) \cup {Len(ls) + 1}), n, new)
  /\ dir \in BOOLEAN /\ data \in Seq(Blocks) /\ (dir => k = 0 /\ data = <<>>)
  /\ rest = RestOf(cache, run, d, ne, dir, data)
  /\ IsPlan(p) /\ p.victim = {} /\ p.left = 1 + Len(rest)
  /\ p.grown = {[loc |-> d.loc, path |-> d.path]} /\ p.writes = GrowSeq(last, new, rest)

LEMMA GrowthStep ==
  ASSUME SoundInv, op = Idle, UNCHANGED <<disk, fat, cache, lost, failures>>,
         NEW k, NEW d, NEW ne, NEW n, NEW last, NEW new, NEW run, NEW ls, NEW dir, NEW data, NEW rest, NEW p,
         GrowthOf(k, d, ne, n, last, new, run, ls, dir, data, rest, p), op' = p
  PROVE  SoundInv' /\ (LeakInv => LeakInv')
<1> /\ DirAt(disk, lost, k) /\ k # 0 /\ d.at \in Int /\ d.loc = <<Root, k>> /\ Named(ne, n)
    /\ last = Last(Chain(fat, HeadOf(disk, k))) /\ FreeClusters(cache) # <<>> /\ new = FreeClusters(cache)[1]
    /\ run.fat = GrownFat(cache, last, new) /\ ls = Ls(disk, fat, k) /\ Runs(disk, ls, n) = {}
    /\ run.locs = Continued(ls, Min(OpenEnd(disk, ls) \cup {Len(ls) + 1}), n, new)
    /\ dir \in BOOLEAN /\ data \in Seq(Blocks) /\ (dir => k = 0 /\ data = <<>>)
    /\ rest = RestOf(cache, run, d, ne, dir, data)
    /\ IsPlan(p) /\ p.victim = {} /\ p.left = 1 + Len(rest)
    /\ p.grown = {[loc |-> d.loc, path |-> d.path]} /\ p.writes = GrowSeq(last, new, rest)
  BY Zenon DEF GrowthOf
<1>1. Volume(disk, fat, cache, lost)
  BY IdleVolume
<1>2. PICK m \in Nat \ {0} : m = n /\ m <= 2
  <2>1. PICK y \in Nat : y = Len(ne.long) /\ (y = 0 \/ y = 1)
    BY RangeIs DEF Named
  <2>2. y \in Nat /\ (y = 0 \/ y = 1)
    BY <2>1
  <2>3. PICK m \in Nat \ {0} : m = y + 1 /\ m <= 2
    BY <2>2
  <2> QED BY <2>1, <2>3 DEF Named
<1>3. PICK c \in Clusters : c = new /\ ~Owned(disk, fat, lost, c)
  <2>1. 1 \in 1 .. Len(FreeClusters(cache))
    BY FreeFacts
  <2> QED BY <1>1, <2>1, FreeUnowned
<1>4. PICK t, f2, g2, ch : /\ t = PutData(disk, c, Zeroed) /\ f2 = GrownFat(fat, last, c)
                           /\ g2 = GrownFat(cache, last, c) /\ ch = Chain(fat, HeadOf(disk, k))
  OBVIOUS
<1>5. /\ Volume(t, f2, g2, lost) /\ DirAt(t, lost, k)
      /\ last \in Clusters /\ last # c /\ last \in ClustersOf(disk, fat, <<Root, k>>)
      /\ Len(Ls(disk, fat, k)) \in Nat /\ Len(Ls(t, f2, k)) = Len(Ls(disk, fat, k)) + SlotsPerCluster
      /\ \A i \in 1 .. Len(Ls(disk, fat, k)) : /\ Ls(t, f2, k)[i] = Ls(disk, fat, k)[i]
                                               /\ Kind(t, Ls(t, f2, k)[i]) = Kind(disk, Ls(disk, fat, k)[i])
      /\ \A j \in 1 .. SlotsPerCluster : /\ Ls(t, f2, k)[Len(Ls(disk, fat, k)) + j] = <<c, j>>
                                         /\ Kind(t, <<c, j>>) = "unused"
      /\ Tight(disk, fat, lost) => Tight(t, f2, lost)
  <2>1. Grown(disk, fat, lost, k, last, c, PutData(disk, c, Zeroed), GrownFat(fat, last, c), GrownFat(cache, last, c))
    BY <1>1, <1>3, GrownIs
  <2> QED BY <1>4, <2>1 DEF Grown
<1>6. PICK b, lt : b = Ls(disk, fat, k) /\ lt = Ls(t, f2, k)
  OBVIOUS
<1>7. /\ lt \in Seq(Places) /\ Len(lt) = Len(b) + SlotsPerCluster
      /\ \A i \in 1 .. Len(b) : lt[i] = b[i] /\ Kind(t, lt[i]) = Kind(disk, b[i])
      /\ \A j \in 1 .. SlotsPerCluster : lt[Len(b) + j] = <<c, j>> /\ Kind(t, <<c, j>>) = "unused"
  BY <1>5, <1>6, DirFacts
<1>8. PICK r : r = Min(OpenEnd(disk, b) \cup {Len(b) + 1})
  OBVIOUS
<1>9. Least(r, OpenEnd(disk, b) \cup {Len(b) + 1})
  <2>1. Len(b) \in Nat /\ Open(disk, b) \subseteq 1 .. Len(b)
    BY <1>1, <1>6, OpenIs
  <2>2. PICK T : T = OpenEnd(disk, b) \cup {Len(b) + 1}
    OBVIOUS
  <2>3. T \subseteq Nat /\ T # {}
    BY <2>1, <2>2 DEF OpenEnd
  <2>4. Min(T) \in T /\ \A y \in T : Min(T) <= y
    BY <2>3, MinIs
  <2> QED BY <1>8, <2>2, <2>4, Zenon DEF Least
<1>10. PICK locs : locs = Continued(b, r, m, c) /\ locs = run.locs
  BY <1>2, <1>3, <1>6, <1>8
<1>11. locs \in Seq(Places) /\ Fits(t, lt, r, m, locs)
  <2>1. Wider(disk, t, b, lt, c)
    BY <1>7 DEF Wider
  <2>2. /\ Wider(disk, t, Ls(disk, fat, k), lt, c)
        /\ Runs(disk, Ls(disk, fat, k), m) = {}
        /\ Least(r, OpenEnd(disk, Ls(disk, fat, k)) \cup {Len(Ls(disk, fat, k)) + 1})
        /\ m \in Nat \ {0} /\ m <= 2 /\ c \in Clusters
    BY <1>2, <1>3, <1>6, <1>9, <2>1, Zenon
  <2>3. /\ Continued(Ls(disk, fat, k), r, m, c) \in Seq(Places)
        /\ Fits(t, lt, r, m, Continued(Ls(disk, fat, k), r, m, c))
    BY <1>1, <2>2, WiderFits
  <2> QED BY <1>6, <1>10, <2>3, Zenon
<1>12. /\ run.locs \in Seq(Places) /\ Fits(t, Ls(t, f2, k), r, n, run.locs) /\ run.fat = g2
  BY <1>2, <1>3, <1>4, <1>6, <1>10, <1>11
<1>13. PICK v : v = rest
  OBVIOUS
<1>14. v = RestOf(cache, run, d, ne, dir, data)
  BY <1>13
<1>15. /\ v \in Seq(WriteT) /\ Ready(t, f2, g2, v, lost, lost)
       /\ Tight(t, f2, lost) => Covered(t, f2, g2, v, lost)
  BY <1>5, <1>12, <1>14, RestIs
<1>16. PICK ws : ws = GrowSeq(last, c, v)
  OBVIOUS
<1>17. /\ ws \in Seq(WriteT) /\ ws # <<>> /\ Len(v) \in Nat /\ Len(ws) = Len(v) + 3
       /\ ws[1] = DataW(c, Zeroed) /\ ws[2] = FatW(last, c) /\ ws[3] = FatW(c, Eoc)
       /\ Tail(Tail(Tail(ws))) = v
  <2>1. last \in Clusters /\ c \in Clusters /\ v \in Seq(WriteT)
    BY <1>3, <1>5, <1>15
  <2>2. GrowSeqOf(last, c, v, GrowSeq(last, c, v))
    BY <2>1, GrowSeqFacts
  <2>3. GrowSeqOf(last, c, v, ws)
    BY <1>16, <2>2
  <2> QED BY <2>3 DEF GrowSeqOf
<1>18. p.writes = ws /\ p.left = 1 + Len(v)
  BY <1>3, <1>13, <1>16
<1>19. p.left \in Nat /\ p.left > 0 /\ Len(ws) = p.left + 2
  BY <1>17, <1>18
<1>20. PICK h : h = [loc |-> d.loc, path |-> d.path]
  OBVIOUS
<1>21. h.loc = <<Root, k>> /\ p.grown = {h}
  BY <1>20
<1>22. <<Root, k>> \in Places /\ EntAt(disk, fat, lost, <<Root, k>>)
  BY <1>1, DirIsEnt DEF Volume
<1>23. ~Owned(disk, fat, lost \cup {h.loc}, last)
  BY <1>1, <1>5, <1>21, <1>22, VictimUnowned
<1>24. Ready([disk EXCEPT ![c] = Zeroed], GrownFat(fat, last, c), GrownFat(cache, last, c),
             Tail(Tail(Tail(ws))), lost, lost)
  BY <1>4, <1>15, <1>17 DEF PutData
<1>25. last \in Clusters /\ last # c /\ h.loc \in Places
  BY <1>5, <1>21, <1>22
<1>26. SoundInv'
  BY <1>3, <1>17, <1>18, <1>19, <1>21, <1>23, <1>24, <1>25, BeginGrowing
<1>27. ASSUME LeakInv PROVE LeakInv'
  <2>1. Tight(disk, fat, lost) =>
           Covered([disk EXCEPT ![c] = Zeroed], GrownFat(fat, last, c), GrownFat(cache, last, c),
                   Tail(Tail(Tail(ws))), lost)
    BY <1>4, <1>5, <1>15, <1>17 DEF PutData
  <2> QED BY <1>3, <1>17, <1>18, <1>19, <1>21, <1>25, <1>27, <2>1, BeginGrowingLeak
<1> QED BY <1>26, <1>27

LEMMA CreateStep ==
  ASSUME SoundInv, op = Idle, UNCHANGED <<disk, fat, cache, lost, failures>>,
         NEW d \in SoundDirs(disk), NEW name \in Names, NEW dir \in BOOLEAN, NEW data \in Seq(Blocks),
         dir => d.at = Root /\ data = <<>>,
         NEW ne \in NameEntries(disk, cache, d.at, name),
         op' = EntryPlan(disk, cache, d, ne, name, dir, data), op'.writes # <<>>
  PROVE  SoundInv' /\ (LeakInv => LeakInv')
<1>1. Volume(disk, fat, cache, lost)
  BY IdleVolume
<1>2. PICK k \in 0 .. RootSlots : DirAt(disk, lost, k) /\ d.at = HeadOf(disk, k) /\ d.loc = <<Root, k>>
  BY SoundDirIs
<1>3. (k = 0 <=> d.at = Root) /\ d.at \in Int
  <2>1. (k = 0 <=> d.at = Root) /\ (k # 0 => d.at \in Clusters)
    BY <1>1, <1>2, CacheDir
  <2> QED BY <2>1 DEF Root, Clusters
<1>4. dir => k = 0 /\ data = <<>>
  BY <1>3
<1>5. PICK n : Named(ne, n)
  BY NameEntriesIs DEF Named
<1>6. PICK run : run = FreeRun(disk, cache, d.at, n)
  OBVIOUS
<1>7. PICK rest : rest = RestOf(cache, run, d, ne, dir, data)
  OBVIOUS
<1>8. PICK p : p = op' /\ p = EntryPlan(disk, cache, d, ne, name, dir, data)
  OBVIOUS
<1>9. /\ IsPlan(p) /\ p.victim = {} /\ p.left = 1 + Len(rest)
      /\ run.ok => p.writes = run.grow \o rest
      /\ ~run.ok => p.writes = <<>>
      /\ run.grow = <<>> => p.grown = {}
      /\ run.grow # <<>> => p.grown = {[loc |-> d.loc, path |-> d.path]}
  <2>1. PlanOf(d, FreeRun(disk, cache, d.at, n), RestOf(cache, FreeRun(disk, cache, d.at, n), d, ne, dir, data),
               EntryPlan(disk, cache, d, ne, name, dir, data))
    BY <1>5, PlanIs, Zenon
  <2>2. PlanOf(d, run, rest, p)
    BY <1>6, <1>7, <1>8, <2>1, Zenon
  <2> QED BY <2>2, Zenon DEF PlanOf
<1>10. run.ok
  BY <1>8, <1>9
<1>11. PICK ls : ls = Ls(disk, fat, k)
  OBVIOUS
<1>12. PICK last, new : last = Last(Chain(fat, HeadOf(disk, k))) /\ new = FreeClusters(cache)[1]
  OBVIOUS
<1>13. run = FreeRun(disk, cache, HeadOf(disk, k), n)
  BY <1>2, <1>6
<1>14. /\ Runs(disk, ls, n) # {} =>
              /\ run.ok /\ run.grow = <<>> /\ run.fat = cache
              /\ run.locs = SubSeq(ls, Min(Runs(disk, ls, n)), Min(Runs(disk, ls, n)) + n - 1)
       /\ Runs(disk, ls, n) = {} /\ (k = 0 \/ FreeClusters(cache) = <<>>) => ~run.ok
       /\ Runs(disk, ls, n) = {} /\ k # 0 /\ FreeClusters(cache) # <<>> =>
              /\ run.ok
              /\ run.locs = Continued(ls, Min(OpenEnd(disk, ls) \cup {Len(ls) + 1}), n, new)
              /\ run.grow = GrowWrites(last, new)
              /\ run.fat = GrownFat(cache, last, new)
  <2>1. RunIs(disk, fat, cache, k, n, FreeRun(disk, cache, HeadOf(disk, k), n))
    BY <1>1, <1>2, FreeRunIs, Zenon
  <2>2. RunIs(disk, fat, cache, k, n, run)
    BY <1>13, <2>1, Zenon
  <2> QED BY <1>11, <1>12, <2>2, Zenon DEF RunIs
<1>15. op' = p
  BY <1>8
<1>16. CASE Runs(disk, ls, n) # {}
  <2>1. run.grow = <<>> /\ run.fat = cache
    BY <1>14, <1>16
  <2>2. PICK r, locs : /\ r = Min(Runs(disk, ls, n)) /\ locs = SubSeq(ls, r, r + n - 1)
                       /\ run.locs = locs
    BY <1>14, <1>16
  <2>3. p.grown = {} /\ p.writes = <<>> \o rest /\ p.victim = {} /\ p.left = 1 + Len(rest) /\ IsPlan(p)
    BY <1>9, <1>10, <2>1
  <2>4. rest \in Seq(WriteT)
    <3>1. PICK m \in Nat \ {0} : m = n
      <4>1. PICK y \in Nat : y = Len(ne.long)
        BY <1>5, RangeIs DEF Named
      <4> QED BY <1>5, <4>1 DEF Named
    <3>2. locs \in Seq(Places) /\ Fits(disk, ls, r, n, locs)
      BY <1>1, <1>2, <1>11, <1>16, <2>2, <3>1, RunFits
    <3>3. run.locs \in Seq(Places) /\ Fits(disk, Ls(disk, fat, k), r, n, run.locs)
      BY <1>11, <2>2, <3>2
    <3> QED BY <1>1, <1>2, <1>3, <1>4, <1>5, <1>7, <2>1, <3>3, RestIs
  <2>5. p.writes = rest
    BY <2>3, <2>4
  <2>6. rest # <<>>
    BY <1>15, <2>5
  <2>7. p.grown = {} /\ p.victim = {} /\ p.left = 1 + Len(rest) /\ IsPlan(p)
    BY <2>3
  <2>8. DirAt(disk, lost, k) /\ d.at \in Int
    BY <1>2, <1>3
  <2> QED BY <1>4, <1>5, <1>7, <1>11, <1>15, <1>16, <2>1, <2>2, <2>5, <2>6, <2>7, <2>8, CreateStraight
<1>17. CASE Runs(disk, ls, n) = {}
  <2>1. k # 0 /\ FreeClusters(cache) # <<>>
    BY <1>10, <1>14, <1>17
  <2>2. /\ run.locs = Continued(ls, Min(OpenEnd(disk, ls) \cup {Len(ls) + 1}), n, new)
        /\ run.grow = GrowWrites(last, new)
        /\ run.fat = GrownFat(cache, last, new)
    BY <1>14, <1>17, <2>1
  <2>3. run.grow # <<>>
    <3>1. <<DataW(new, Zeroed), FatW(last, new), FatW(new, Eoc)>> # <<>>
      OBVIOUS
    <3> QED BY <2>2, <3>1 DEF GrowWrites
  <2>4. p.writes = GrowSeq(last, new, rest) /\ p.grown = {[loc |-> d.loc, path |-> d.path]}
    BY <1>9, <1>10, <2>2, <2>3 DEF GrowSeq
  <2>5. p.victim = {} /\ p.left = 1 + Len(rest) /\ IsPlan(p)
    BY <1>9
  <2>6. DirAt(disk, lost, k) /\ d.at \in Int /\ d.loc = <<Root, k>>
    BY <1>2, <1>3
  <2>7. run.locs = Continued(ls, Min(OpenEnd(disk, ls) \cup {Len(ls) + 1}), n, new) /\ run.fat = GrownFat(cache, last, new)
    BY <2>2
  <2>8. GrowthOf(k, d, ne, n, last, new, run, ls, dir, data, rest, p)
    BY <1>4, <1>5, <1>7, <1>11, <1>12, <1>17, <2>1, <2>4, <2>5, <2>6, <2>7, Zenon DEF GrowthOf
  <2> QED BY <1>15, <2>8, GrowthStep
<1> QED BY <1>16, <1>17


-----------------------------------------------------------------------------
(* The invariant is one.                                                   *)

LEMMA StepStep ==
  ASSUME SoundInv, Step
  PROVE  SoundInv'
<1>1. op # Idle
  BY DEF Step
<1>2. Going /\ (Straight \/ \E h \in op.grown : Growing(h))
  BY <1>1, GoingCases
<1>3. CASE Straight
  BY <1>3, StraightStep
<1>4. CASE \E h \in op.grown : Growing(h)
  <2>1. PICK h \in op.grown : Growing(h)
    BY <1>4
  <2> QED BY <1>2, <2>1, GrowStep
<1> QED BY <1>2, <1>3, <1>4

LEMMA NewEntryStep ==
  ASSUME SoundInv, NEW d \in SoundDirs(disk), NEW name \in Names, NEW dir \in BOOLEAN, NEW data \in Seq(Blocks),
         dir => d.at = Root /\ data = <<>>, Start(NewEntry(disk, cache, d, name, dir, data))
  PROVE  SoundInv' /\ (LeakInv => LeakInv')
<1>1. op = Idle /\ UNCHANGED <<disk, fat, cache, lost, failures>>
  BY DEF Start
<1>2. op' \in NewEntry(disk, cache, d, name, dir, data)
  BY DEF Start
<1>3. PICK ne \in NameEntries(disk, cache, d.at, name) :
        op' = EntryPlan(disk, cache, d, ne, name, dir, data) /\ op'.writes # <<>>
  BY <1>2 DEF NewEntry
<1> QED BY <1>1, <1>3, CreateStep

LEMMA FoundEntry ==
  ASSUME SoundInv, op = Idle, NEW d \in SoundDirs(disk), NEW n, NEW e \in FindSound(disk, cache, d.at, n)
  PROVE  e.loc \in Places /\ (e.dir <=> At(disk, e.loc).dir) /\ e.start = At(disk, e.loc).start
<1>1. Volume(disk, fat, cache, lost)
  BY IdleVolume
<1>2. PICK k \in 0 .. RootSlots : DirAt(disk, lost, k) /\ e \in Listing(disk, Ls(disk, fat, k))
  BY <1>1, FoundIs
<1> QED BY <1>1, <1>2, EntryIs

LEMMA BeginStep ==
  ASSUME SoundInv, \/ BeginCreateFile \/ BeginCreateDirectory \/ BeginWriteFile
                   \/ BeginDeleteFile \/ BeginDeleteDirectory
  PROVE  SoundInv' /\ (LeakInv => LeakInv')
<1>1. Contents \subseteq Seq(Blocks)
  BY NamesAssumption
<1>2. CASE BeginCreateFile
  <2>1. PICK d \in SoundDirs(disk), n \in Names, x \in Contents : Start(CreateFile(disk, cache, d, n, x))
    BY <1>2 DEF BeginCreateFile
  <2>2. PICK b \in BOOLEAN : b = FALSE
    BY Zenon
  <2>3. Start(NewEntry(disk, cache, d, n, b, x))
    BY <2>1, <2>2, Zenon DEF CreateFile
  <2>4. b => d.at = Root /\ x = <<>>
    BY <2>2, Zenon
  <2>5. x \in Seq(Blocks)
    BY <1>1
  <2> QED BY <2>3, <2>4, <2>5, NewEntryStep
<1>3. CASE BeginCreateDirectory
  <2>1. PICK d \in SoundDirs(disk), n \in Names : d.at = Root /\ Start(CreateDirectory(disk, cache, d, n))
    BY <1>3 DEF BeginCreateDirectory
  <2>2. PICK b \in BOOLEAN : b = TRUE
    BY Zenon
  <2>3. PICK x : x = <<>>
    OBVIOUS
  <2>4. Start(NewEntry(disk, cache, d, n, b, x))
    BY <2>1, <2>2, <2>3, Zenon DEF CreateDirectory
  <2>5. x \in Seq(Blocks)
    BY <2>3
  <2> QED BY <2>1, <2>3, <2>4, <2>5, NewEntryStep
<1>4. CASE BeginWriteFile
  <2>1. PICK d \in SoundDirs(disk), n \in Names, x \in Contents : Start(WriteFile(disk, cache, d, n, x))
    BY <1>4 DEF BeginWriteFile
  <2>2. op = Idle /\ op' \in WriteFile(disk, cache, d, n, x) /\ UNCHANGED <<disk, fat, cache, lost, failures>>
    BY <2>1 DEF Start
  <2>3. PICK e \in FindSound(disk, cache, d.at, n) :
          /\ op' = WritePlan(cache, d, e, x)
          /\ Len(x) <= Len(Chain(cache, e.start)) + Len(FreeClusters(cache)) /\ ~e.dir
    BY <2>2 DEF WriteFile
  <2> QED BY <2>2, <2>3, WriteStep
<1>5. CASE BeginDeleteFile
  <2>1. PICK d \in SoundDirs(disk), n \in Names : Start(DeleteFile(disk, cache, d, n))
    BY <1>5 DEF BeginDeleteFile
  <2>2. op = Idle /\ op' \in DeleteFile(disk, cache, d, n) /\ UNCHANGED <<disk, fat, cache, lost, failures>>
    BY <2>1 DEF Start
  <2>3. PICK e \in FindSound(disk, cache, d.at, n) : op' = Removed(disk, cache, d, e) /\ ~e.dir
    BY <2>2 DEF DeleteFile
  <2>4. e.loc \in Places /\ (e.dir <=> At(disk, e.loc).dir)
    BY <2>2, FoundEntry
  <2>5. Vacant(disk, fat, lost, e.loc)
    BY <2>3, <2>4, FileVacant
  <2> QED BY <2>2, <2>3, <2>5, RemoveStep
<1>6. CASE BeginDeleteDirectory
  <2>1. PICK d \in SoundDirs(disk), n \in Names : Start(DeleteDirectory(disk, cache, d, n))
    BY <1>6 DEF BeginDeleteDirectory
  <2>2. op = Idle /\ op' \in DeleteDirectory(disk, cache, d, n) /\ UNCHANGED <<disk, fat, cache, lost, failures>>
    BY <2>1 DEF Start
  <2>3. PICK e \in FindSound(disk, cache, d.at, n) :
          op' = Removed(disk, cache, d, e) /\ Entries(disk, cache, e.start) = {}
    BY <2>2 DEF DeleteDirectory
  <2>4. e.loc \in Places /\ e.start = At(disk, e.loc).start /\ Volume(disk, fat, cache, lost)
    BY <2>2, FoundEntry, IdleVolume
  <2>5. Vacant(disk, fat, lost, e.loc)
    BY <2>3, <2>4, DirVacant DEF Entries
  <2> QED BY <2>2, <2>3, <2>5, RemoveStep
<1> QED BY <1>2, <1>3, <1>4, <1>5, <1>6

LEMMA SoundInit ==
  ASSUME Init
  PROVE  SoundInv
<1>1. disk \in DiskT /\ \A l \in Places : Kind(disk, l) = "unused"
  <2>1. PICK u \in SlotT : u = Unused /\ u.kind = "unused"
    BY ZeroedIs
  <2>2. disk = [c \in Clusters \cup {Root} |->
                 IF c = Root THEN [j \in 1 .. RootSlots |-> u] ELSE [j \in 1 .. SlotsPerCluster |-> u]]
    BY <2>1 DEF Init, Zeroed
  <2>3. \A c \in Clusters \cup {Root} : disk[c] = [j \in 1 .. Width(c) |-> u]
    BY <2>2 DEF Width
  <2>4. disk \in DiskT
    BY <2>2, <2>3 DEF DiskT, Width, ClusterT
  <2>5. ASSUME NEW l \in Places PROVE Kind(disk, l) = "unused"
    <3>1. l[1] \in Clusters \cup {Root} /\ l[2] \in 1 .. Width(l[1])
      BY PlaceFacts
    <3> QED BY <2>1, <2>3, <3>1 DEF Kind, At
  <2> QED BY <2>4, <2>5
<1>2. fat \in FatT /\ cache \in FatT
  BY DEF Init, FatT
<1>3. lost = {} /\ op = Idle /\ Damaged = {}
  BY DEF Init, Damaged, Hurt, Idle
<1>4. failures \in 0 .. MaxFailures
  BY NamesAssumption DEF Init
<1>5. \A l \in Places : ~EntAt(disk, fat, {}, l)
  BY <1>1 DEF EntAt
<1>6. ASSUME NEW k \in 0 .. RootSlots, DirAt(disk, {}, k) PROVE NoGap(disk, Ls(disk, fat, k))
  <2>1. k = 0
    <3>1. SUFFICES ASSUME k # 0 PROVE FALSE
      OBVIOUS
    <3>2. k \in 1 .. RootSlots
      BY <3>1, SlotsFit
    <3>3. <<Root, k>> \in Places
      BY <3>2, PlaceFacts
    <3> QED BY <1>1, <1>6, <3>1, <3>3 DEF DirAt
  <2>2. Ls(disk, fat, k) = RootLocs
    BY <2>1 DEF Ls, HeadOf, Locs
  <2>3. \A i \in DOMAIN RootLocs : RootLocs[i] \in Places
    BY RootLocsFacts
  <2> QED BY <1>1, <2>2, <2>3 DEF NoGap
<1>7. Safe(disk, fat, cache, {})
  BY <1>5, <1>6 DEF Safe
<1> QED BY <1>1, <1>2, <1>3, <1>4, <1>7 DEF SoundInv

LEMMA SoundNext ==
  ASSUME SoundInv, [Next]_vars
  PROVE  SoundInv'
<1>1. CASE UNCHANGED vars
  BY ZenonT(60), <1>1 DEF vars, SoundInv, Damaged, Hurt, Going, Growing, GrowsA, GrowsB, GrowsC
<1>2. CASE \/ BeginCreateFile \/ BeginCreateDirectory \/ BeginWriteFile
           \/ BeginDeleteFile \/ BeginDeleteDirectory
  BY <1>2, BeginStep
<1>3. CASE Step
  BY <1>3, StepStep
<1>4. CASE PowerLoss
  BY <1>4, PowerLossStep
<1>5. CASE IoError
  BY <1>5, IoErrorStep
<1>6. CASE Mount
  BY <1>6, MountStep
<1> QED BY <1>1, <1>2, <1>3, <1>4, <1>5, <1>6 DEF Next

\* On a volume of any size, through any sequence of operations, power losses and
\* I/O errors: the chains of the entries end, are disjoint and known to the cached
\* FAT, no listing has a gap, and what an operation under way has still to write
\* keeps it so (fat12.rs, the write order of create, write, delete and mkdir).
THEOREM VolumeInvariant == Spec => []SoundInv
<1>1. Init => SoundInv
  BY SoundInit
<1>2. SoundInv /\ [Next]_vars => SoundInv'
  BY SoundNext
<1> QED BY <1>1, <1>2, PTL DEF Spec


-----------------------------------------------------------------------------
(* What it says of the listings a mount reads.                             *)

LEMMA EntryFull ==
  ASSUME NEW s, NEW ls, NEW e \in Listing(s, ls)
  PROVE  e = EntryAt(s, ls, e.pos) /\ e.pos \in Scanned(s, ls) /\ Kind(s, ls[e.pos]) = "short"
<1>1. PICK i \in Scanned(s, ls) : e = EntryAt(s, ls, i) /\ Kind(s, ls[i]) = "short"
  BY DEF Listing
<1>2. EntryAt(s, ls, i).pos = i
  BY DEF EntryAt
<1> QED BY <1>1, <1>2

\* The entry r.e, reached in directory k.
ReachedAt(s, f, x, r, k) ==
  /\ DirAt(s, x, k) /\ r.e \in Listing(s, Ls(s, f, k))
  /\ EntAt(s, f, x, r.e.loc) /\ r.e.start = At(s, r.e.loc).start
  /\ r.e.loc \in Places /\ r.e.loc[1] \in Span(s, f, k)
  /\ r = [dir |-> IF k = 0 THEN TheRoot ELSE AsDir(EntryAt(s, RootLocs, k)),
          e |-> EntryAt(s, Ls(s, f, k), r.e.pos)]
  /\ r.e.pos \in DOMAIN Ls(s, f, k) /\ r.e.loc = Ls(s, f, k)[r.e.pos]

LEMMA ReachedIs ==
  ASSUME NEW s, NEW f, NEW g, NEW x, Volume(s, f, g, x), NEW r \in Reachable(s, f, x)
  PROVE  \E k \in 0 .. RootSlots : ReachedAt(s, f, x, r, k)
<1>1. PICK d \in Dirs(s) : d.loc \notin x /\
        r \in {[dir |-> d, e |-> e] : e \in {h \in Entries(s, f, d.at) : h.loc \notin x}}
  BY DEF Reachable
<1>2. PICK e \in Entries(s, f, d.at) : e.loc \notin x /\ r = [dir |-> d, e |-> e]
  BY <1>1
<1>3. PICK k \in 0 .. RootSlots : /\ DirAt(s, x, k) /\ d.at = HeadOf(s, k)
                                  /\ d = IF k = 0 THEN TheRoot ELSE AsDir(EntryAt(s, RootLocs, k))
  BY <1>1, DirsIs
<1>4. e \in Listing(s, Ls(s, f, k))
  BY <1>2, <1>3 DEF Entries, Ls
<1>5. e = EntryAt(s, Ls(s, f, k), e.pos)
  BY <1>4, EntryFull
<1>6. r.e = e
  BY <1>2
<1>7. /\ EntAt(s, f, x, e.loc) /\ e.start = At(s, e.loc).start /\ e.loc \in Places
      /\ e.pos \in DOMAIN Ls(s, f, k) /\ e.loc = Ls(s, f, k)[e.pos]
  BY <1>2, <1>3, <1>4, EntryIs
<1>8. e.loc[1] \in Span(s, f, k)
  BY <1>3, <1>7, PlaceIn
<1>9. r = [dir |-> IF k = 0 THEN TheRoot ELSE AsDir(EntryAt(s, RootLocs, k)),
           e |-> EntryAt(s, Ls(s, f, k), e.pos)]
  BY <1>2, <1>3, <1>5, Zenon
<1> QED BY <1>3, <1>4, <1>6, <1>7, <1>8, <1>9, Zenon DEF ReachedAt

\* A reachable entry and its directory are determined by its place.
LEMMA ReachedApart ==
  ASSUME NEW s, NEW f, NEW g, NEW x, Volume(s, f, g, x),
         NEW r \in Reachable(s, f, x), NEW t \in Reachable(s, f, x), r.e.loc = t.e.loc
  PROVE  r = t
<1>7. PICK k \in 0 .. RootSlots, j \in 0 .. RootSlots : ReachedAt(s, f, x, r, k) /\ ReachedAt(s, f, x, t, j)
  BY ReachedIs
<1>1. /\ DirAt(s, x, k)
      /\ r.e.loc \in Places /\ r.e.loc[1] \in Span(s, f, k)
      /\ r = [dir |-> IF k = 0 THEN TheRoot ELSE AsDir(EntryAt(s, RootLocs, k)),
              e |-> EntryAt(s, Ls(s, f, k), r.e.pos)]
      /\ r.e.pos \in DOMAIN Ls(s, f, k) /\ r.e.loc = Ls(s, f, k)[r.e.pos]
  BY <1>7, Zenon DEF ReachedAt
<1>2. /\ DirAt(s, x, j)
      /\ t.e.loc \in Places /\ t.e.loc[1] \in Span(s, f, j)
      /\ t = [dir |-> IF j = 0 THEN TheRoot ELSE AsDir(EntryAt(s, RootLocs, j)),
              e |-> EntryAt(s, Ls(s, f, j), t.e.pos)]
      /\ t.e.pos \in DOMAIN Ls(s, f, j) /\ t.e.loc = Ls(s, f, j)[t.e.pos]
  BY <1>7, Zenon DEF ReachedAt
<1>3. k = j
  <2>1. DirAt(s, x, k) /\ DirAt(s, x, j) /\ r.e.loc[1] \in Span(s, f, k) /\ r.e.loc[1] \in Span(s, f, j)
    BY <1>1, <1>2, Zenon
  <2> QED BY <2>1, SameDir
<1>4. PICK a, b : a = r.e.pos /\ b = t.e.pos
  OBVIOUS
<1>5. a \in DOMAIN Ls(s, f, k) /\ b \in DOMAIN Ls(s, f, k) /\ Ls(s, f, k)[a] = Ls(s, f, k)[b]
  BY <1>1, <1>2, <1>3, <1>4, Zenon
<1>6. a = b
  BY <1>1, <1>5, DirFacts
<1> QED BY <1>1, <1>2, <1>3, <1>4, <1>6, Zenon

LEMMA SoundNow ==
  ASSUME SoundInv
  PROVE  SoundVolume
<1>1. Volume(disk, fat, cache, Damaged)
  BY InvVolume DEF VolumeNow
<1>2. ASSUME NEW r \in Reachable(disk, fat, Damaged)
      PROVE  /\ Ends(fat, r.e.start) /\ EntAt(disk, fat, Damaged, r.e.loc) /\ r.e.loc \in Places
             /\ Range(Chain(fat, r.e.start)) = ClustersOf(disk, fat, r.e.loc)
  <2>1. EntAt(disk, fat, Damaged, r.e.loc) /\ r.e.start = At(disk, r.e.loc).start /\ r.e.loc \in Places
    <3>1. PICK k \in 0 .. RootSlots : ReachedAt(disk, fat, Damaged, r, k)
      BY <1>1, ReachedIs
    <3> QED BY <3>1, Zenon DEF ReachedAt
  <2>2. Held(disk, fat, cache, r.e.loc)
    BY <1>1, <2>1 DEF Volume, Safe
  <2> QED BY <2>1, <2>2 DEF Held, ClustersOf
<1>3. ASSUME NEW r \in Reachable(disk, fat, Damaged), NEW t \in Reachable(disk, fat, Damaged), r # t
      PROVE  Range(Chain(fat, r.e.start)) \cap Range(Chain(fat, t.e.start)) = {}
  <2>1. r.e.loc # t.e.loc
    BY <1>1, <1>3, ReachedApart, Zenon
  <2>2. ClustersOf(disk, fat, r.e.loc) \cap ClustersOf(disk, fat, t.e.loc) = {}
    BY <1>1, <1>2, <2>1 DEF Volume, Safe
  <2> QED BY <1>2, <2>2, Zenon
<1>4. NoCrossLink
  BY <1>2, <1>3, Zenon DEF NoCrossLink
<1>5. ASSUME NEW d \in Dirs(disk), d.loc \notin Damaged, NEW i \in DOMAIN Locs(fat, d.at),
             Kind(disk, Locs(fat, d.at)[i]) \in {"short", "lfn", "dot"}
      PROVE  i \in Scanned(disk, Locs(fat, d.at))
  <2>1. PICK k \in 0 .. RootSlots : DirAt(disk, Damaged, k) /\ d.at = HeadOf(disk, k)
    BY <1>5, DirsIs
  <2>2. PICK ls : ls = Ls(disk, fat, k) /\ ls = Locs(fat, d.at)
    BY <2>1 DEF Ls
  <2>3. NoGap(disk, ls) /\ DOMAIN ls = 1 .. Len(ls) /\ Len(ls) \in Nat
    BY <1>1, <2>1, <2>2, PlaceIn DEF Volume, Safe
  <2>4. i \in 1 .. Len(ls) /\ Kind(disk, ls[i]) # "unused"
    BY <1>5, <2>2, <2>3
  <2>5. ASSUME NEW j \in 1 .. i PROVE Kind(disk, ls[j]) # "unused"
    <3>1. j \in 1 .. Len(ls) /\ (j = i \/ j < i)
      BY <2>3, <2>4
    <3> QED BY <2>3, <2>4, <3>1 DEF NoGap
  <2>6. i \in Scanned(disk, ls)
    BY <2>3, <2>4, <2>5 DEF Scanned
  <2> QED BY <2>2, <2>6
<1>6. EndMarkerHolds
  BY <1>5 DEF EndMarkerHolds
<1> QED BY <1>4, <1>6 DEF SoundVolume

\* At every moment, also between two sector writes and after a power loss or an I/O
\* error at any of them, no two entries share a cluster, every chain ends, and no
\* entry lies behind an end mark, whatever the size of the volume, the names and the
\* number of failures (create_file_impl, write_file_impl, delete_file_impl and
\* grow_directory write what a name leads to before the name, and free it after).
THEOREM VolumeStaysSound == Spec => []SoundVolume
<1>1. SoundInv => SoundVolume
  BY SoundNow
<1> QED BY <1>1, VolumeInvariant, PTL

LEMMA MaxOfTwo ==
  ASSUME NEW a \in Nat, NEW b \in Nat
  PROVE  Max({a, b}) \in Nat /\ a <= Max({a, b}) /\ b <= Max({a, b})
<1>1. PICK T : T = {a, b}
  OBVIOUS
<1>2. \E z \in T : \A y \in T : z >= y
  BY <1>1
<1>3. Max(T) = CHOOSE z \in T : \A y \in T : z >= y
  BY Zenon DEF Max
<1>4. Max(T) \in T /\ \A y \in T : Max(T) >= y
  BY <1>2, <1>3, Zenon
<1>5. PICK m : m = Max(T) /\ m \in T /\ \A y \in T : m >= y
  BY <1>4
<1>6. m \in Nat /\ a <= m /\ b <= m
  BY <1>1, <1>5
<1> QED BY <1>1, <1>5, <1>6, Zenon

\* The FATs link clusters, and every planned write is to a slot or a cluster there
\* is (write_fat_entry_to_disk and write_sector are never called outside the volume).
THEOREM TypeCorrect == Spec => []TypeOK
<1>1. SoundInv => TypeOK
  <2> SUFFICES ASSUME SoundInv PROVE TypeOK
    OBVIOUS
  <2>1. fat \in FatT /\ cache \in FatT /\ failures \in 0 .. MaxFailures
    BY DEF SoundInv
  <2>2. op.writes \in Seq(WriteT)
    <3>1. CASE op = Idle
      BY <3>1 DEF Idle
    <3>2. CASE op # Idle
      BY <3>2 DEF SoundInv, Going
    <3> QED BY <3>1, <3>2
  <2>3. ASSUME NEW w \in WriteT
        PROVE  /\ w.to = "slot" => /\ w.at[1] \in Clusters \cup {Root}
                                   /\ w.at[2] \in 1 .. Max({RootSlots, SlotsPerCluster})
               /\ w.to # "slot" => w.at \in Clusters
    <3>1. CASE w \in [to : {"slot"}, at : Places, val : SlotT]
      <4>1. w.to = "slot" /\ w.at \in Places
        BY <3>1
      <4>2. w.at[1] \in Clusters \cup {Root} /\ w.at[2] \in 1 .. Width(w.at[1])
        BY <4>1, PlaceFacts
      <4>3. PICK m \in Nat : m = Max({RootSlots, SlotsPerCluster}) /\ RootSlots <= m /\ SlotsPerCluster <= m
        BY SlotsFit, MaxOfTwo
      <4>4. Width(w.at[1]) \in Nat /\ Width(w.at[1]) <= m
        BY <4>3, SlotsFit DEF Width
      <4>5. w.at[2] \in 1 .. m
        BY <4>2, <4>4
      <4> QED BY <4>1, <4>2, <4>3, <4>5
    <3>2. CASE w \in [to : {"fat"}, at : Clusters, val : Clusters \cup {Free, Eoc}]
                       \cup [to : {"data"}, at : Clusters, val : ClusterT]
      BY <3>2
    <3> QED BY <3>1, <3>2 DEF WriteT
  <2>4. \A i \in DOMAIN op.writes : op.writes[i] \in WriteT
    BY <2>2, RangeIs
  <2> QED BY <2>1, <2>3, <2>4 DEF TypeOK, FatT
<1> QED BY <1>1, VolumeInvariant, PTL



-----------------------------------------------------------------------------
(* Nothing leaks.                                                          *)

\* A write before the last one.
LEMMA CoversStep ==
  ASSUME NEW s, NEW f, NEW g, NEW y, Volume(s, f, g, y), NEW ws \in Seq(WriteT), ws # <<>>,
         Harmless(s, f, y, ws[1]), NEW Q, Covers(s, f, ws, y, Q)
  PROVE  Covers(WrittenDisk(s, ws[1]), WrittenFat(f, ws[1]), Tail(ws), y, Q)
<1>1. PICK w \in WriteT : w = ws[1]
  BY TailFacts
<1>2. PICK vs \in Seq(WriteT) : vs = Tail(ws)
  BY TailFacts
<1>3. Len(ws) \in Nat \ {0} /\ Len(vs) = Len(ws) - 1 /\ \A j \in 1 .. Len(ws) - 1 : vs[j] = ws[j + 1]
  BY <1>2, TailFacts
<1>4. DOMAIN ws = 1 .. Len(ws) /\ DOMAIN vs = 1 .. Len(vs)
  OBVIOUS
<1>5. PICK t, h : t = WrittenDisk(s, w) /\ h = WrittenFat(f, w)
  OBVIOUS
<1>6. \A c : Owned(t, h, y, c) <=> Owned(s, f, y, c)
  <2>1. Same(s, f, t, h, y)
    BY <1>1, <1>5, HarmlessSame
  <2> QED BY <2>1, OwnedSame
<1>7. f \in FatT
  BY DEF Volume
<1>8. ASSUME NEW c \in Clusters, h[c] # Free
      PROVE  \/ Owned(t, h, y, c) \/ c \in Q
             \/ \E j \in DOMAIN vs : vs[j].to = "fat" /\ vs[j].at = c /\ vs[j].val = Free
  <2>1. CASE w.to = "fat" /\ w.at = c
    <3>1. h[c] = w.val
      BY <1>5, <1>7, <2>1 DEF WrittenFat, FatT
    <3>2. 1 \in DOMAIN ws
      BY <1>3, <1>4
    <3> QED BY <1>1, <1>8, <2>1, <3>1, <3>2 DEF Covers
  <2>2. CASE ~(w.to = "fat" /\ w.at = c)
    <3>1. h[c] = f[c]
      BY <1>5, <1>7, <2>2 DEF WrittenFat, FatT
    <3>2. CASE Owned(s, f, y, c) \/ c \in Q
      BY <1>6, <3>2
    <3>3. CASE \E j \in DOMAIN ws : ws[j].to = "fat" /\ ws[j].at = c /\ ws[j].val = Free
      <4>1. PICK j \in DOMAIN ws : ws[j].to = "fat" /\ ws[j].at = c /\ ws[j].val = Free
        BY <3>3
      <4>2. j # 1
        BY <1>1, <2>2, <4>1
      <4>3. j - 1 \in DOMAIN vs /\ vs[j - 1] = ws[j]
        BY <1>3, <1>4, <4>2
      <4> QED BY <4>1, <4>3
    <3> QED BY <1>8, <3>1, <3>2, <3>3 DEF Covers
  <2> QED BY <2>1, <2>2
<1>9. ASSUME NEW j \in DOMAIN vs, vs[j].to = "fat" PROVE vs[j].val = Free \/ vs[j].at \in Q
  <2>1. j + 1 \in DOMAIN ws /\ vs[j] = ws[j + 1]
    BY <1>3, <1>4
  <2> QED BY <1>9, <2>1 DEF Covers
<1> QED BY <1>1, <1>2, <1>5, <1>8, <1>9 DEF Covers

LEMMA HomedSame ==
  ASSUME NEW s, NEW f, NEW t, NEW h, NEW x, Same(s, f, t, h, x), NEW l, Homed(s, f, x, l)
  PROVE  Homed(t, h, x, l)
BY DEF Homed, Same

LEMMA CoveredStep ==
  ASSUME NEW s \in DiskT, NEW f \in FatT, NEW g \in FatT, NEW ws \in Seq(WriteT), NEW x, NEW y,
         Ready(s, f, g, ws, x, y), Len(ws) > 1, Covered(s, f, g, ws, y)
  PROVE  Covered(WrittenDisk(s, Head(ws)), WrittenFat(f, Head(ws)), WrittenFat(g, Head(ws)), Tail(ws), y)
<1>0. ws # <<>>
  OBVIOUS
<1>1. PICK v \in WriteT : v = ws[1] /\ Head(ws) = v
  BY <1>0, TailFacts
<1>2. PICK vs \in Seq(WriteT) : vs = Tail(ws)
  BY <1>0, TailFacts
<1>3. PICK t, h, r : t = WrittenDisk(s, v) /\ h = WrittenFat(f, v) /\ r = WrittenFat(g, v)
  OBVIOUS
<1>4. Volume(s, f, g, y) /\ Harmless(s, f, y, v)
  BY <1>1 DEF Ready, Volume
<1>5. Same(s, f, t, h, y)
  BY <1>3, <1>4, HarmlessSame
<1>6. Len(vs) = Len(ws) - 1 /\ Len(ws) \in Nat /\ \A j \in 1 .. Len(ws) - 1 : vs[j] = ws[j + 1]
  BY <1>0, <1>2, TailFacts
<1>7. vs[Len(vs)] = ws[Len(ws)] /\ vs # <<>>
  <2>1. Len(vs) \in 1 .. Len(ws) - 1 /\ Len(vs) + 1 = Len(ws)
    BY <1>6
  <2> QED BY <1>6, <2>1
<1>8. ASSUME NEW Q, Covers(s, f, ws, y, Q) PROVE Covers(t, h, vs, y, Q)
  BY <1>0, <1>1, <1>2, <1>3, <1>4, <1>8, CoversStep
<1>9. CASE Deletes(s, f, y, ws[Len(ws)]) /\ Covers(s, f, ws, y, {})
  <2>1. Harmless(t, h, y, ws[Len(ws)])
    BY <1>3, <1>4, <1>9, HarmlessKept DEF Deletes
  <2>2. Deletes(t, h, y, vs[Len(vs)])
    BY <1>7, <1>9, <2>1 DEF Deletes
  <2> QED BY <1>1, <1>2, <1>3, <1>7, <1>8, <1>9, <2>2 DEF Covered
<1>10. ASSUME NEW q \in Seq(Clusters), PutsEntry(s, f, g, y, ws, ws[Len(ws)], q),
              Homed(s, f, y, ws[Len(ws)].at), Covers(s, f, ws, y, Range(q))
       PROVE  Covered(t, h, r, vs, y)
  <2>1. PutsEntry(t, h, r, y, vs, ws[Len(ws)], q)
    BY <1>1, <1>2, <1>3, <1>4, <1>10, PutsEntryKept
  <2>2. Homed(t, h, y, ws[Len(ws)].at)
    BY <1>5, <1>10, HomedSame
  <2>3. Covers(t, h, vs, y, Range(q))
    BY <1>8, <1>10
  <2> QED BY <1>7, <2>1, <2>2, <2>3 DEF Covered
<1>11. Covered(t, h, r, vs, y)
  BY <1>0, <1>1, <1>2, <1>3, <1>9, <1>10 DEF Covered
<1> QED BY <1>1, <1>2, <1>3, <1>11


\* s and t differ in the place p only.
Elsewhere(s, t, p) == \A l \in Places : l # p => At(t, l) = At(s, l)

\* The last write changes one place, which held no entry: the entries there were are
\* still there.
LEMMA LastKeeps ==
  ASSUME NEW s, NEW f, NEW x, NEW y, y \subseteq Places, x \subseteq y, NEW p \in Places, ~EntAt(s, f, y, p),
         NEW t, Elsewhere(s, t, p)
  PROVE  /\ \A k : DirAt(s, y, k) => DirAt(t, x, k) /\ Span(t, f, k) = Span(s, f, k)
         /\ \A l : EntAt(s, f, y, l) => EntAt(t, f, x, l) /\ ClustersOf(t, f, l) = ClustersOf(s, f, l)
         /\ \A c : Owned(s, f, y, c) => Owned(t, f, x, c)
<1>1. ASSUME NEW k, DirAt(s, y, k) PROVE DirAt(t, x, k) /\ Span(t, f, k) = Span(s, f, k)
  <2>1. CASE k = 0
    BY <1>1, <2>1 DEF DirAt, Span
  <2>2. CASE k # 0
    <3>1. EntAt(s, f, y, <<Root, k>>) /\ <<Root, k>> \in Places
      BY <1>1, <2>2, DirIsEnt
    <3>2. At(t, <<Root, k>>) = At(s, <<Root, k>>)
      BY <3>1 DEF Elsewhere
    <3> QED BY <1>1, <2>2, <3>2 DEF DirAt, Span, HeadOf, Kind
  <2> QED BY <2>1, <2>2
<1>2. ASSUME NEW l, EntAt(s, f, y, l) PROVE EntAt(t, f, x, l) /\ ClustersOf(t, f, l) = ClustersOf(s, f, l)
  <2>1. l \in Places /\ l # p /\ l \notin x
    BY <1>2 DEF EntAt
  <2>2. At(t, l) = At(s, l)
    BY <2>1 DEF Elsewhere
  <2> QED BY <1>1, <1>2, <2>1, <2>2 DEF EntAt, Kind, ClustersOf
<1> QED BY <1>1, <1>2 DEF Owned

LEMMA CoveredLast ==
  ASSUME NEW s \in DiskT, NEW f \in FatT, NEW g \in FatT, NEW ws \in Seq(WriteT), NEW x, NEW y,
         Ready(s, f, g, ws, x, y), Len(ws) = 1, Covered(s, f, g, ws, y), x \cap Places = {}
  PROVE  Tight(WrittenDisk(s, Head(ws)), WrittenFat(f, Head(ws)), x)
<1>0. ws # <<>> /\ DOMAIN ws = {1}
  BY SMTT(30)
<1>1. PICK w \in WriteT : w = ws[1] /\ Head(ws) = w
  BY <1>0, TailFacts
<1>2. PICK t : t = WrittenDisk(s, w)
  OBVIOUS
<1>3. x \subseteq y /\ y \subseteq Places /\ Finish(s, f, g, y, ws)
  BY <1>0 DEF Ready
<1>4. w.to = "slot" /\ ~EntAt(s, f, y, w.at)
  BY <1>1, <1>3 DEF Finish, PutsEntry, Deletes, Harmless
<1>5. w.at \in Places /\ w.val \in SlotT
  BY <1>4, WriteKinds
<1>6. WrittenFat(f, w) = f
  BY <1>4 DEF WrittenFat
<1>7. \A l \in Places : At(t, l) = IF l = w.at THEN w.val ELSE At(s, l)
  <2>1. \A l \in Places : At(t, l) = Now(s, w, l)
    BY <1>2, WrittenDiskIs
  <2> QED BY <1>4, <2>1 DEF Now
<1>8. /\ \A k : DirAt(s, y, k) => DirAt(t, x, k) /\ Span(t, f, k) = Span(s, f, k)
      /\ \A c : Owned(s, f, y, c) => Owned(t, f, x, c)
  <2>1. PICK p \in Places : p = w.at
    BY <1>5
  <2>2. ~EntAt(s, f, y, p) /\ Elsewhere(s, t, p)
    BY <1>4, <1>7, <2>1 DEF Elsewhere
  <2> QED BY <1>3, <2>1, <2>2, LastKeeps
<1>9. ASSUME NEW Q, Covers(s, f, ws, y, Q), NEW c \in Clusters, f[c] # Free
      PROVE  Owned(t, f, x, c) \/ c \in Q
  BY <1>0, <1>1, <1>4, <1>8, <1>9 DEF Covers
<1>10. CASE Covers(s, f, ws, y, {})
  BY <1>1, <1>2, <1>6, <1>9, <1>10 DEF Tight
<1>11. ASSUME NEW q \in Seq(Clusters), PutsEntry(s, f, g, y, ws, w, q),
              Homed(s, f, y, w.at), Covers(s, f, ws, y, Range(q))
       PROVE  Tight(t, f, x)
  <2>1. Len(q) > 0 /\ q[1] = w.val.start /\ w.val.kind = "short" /\ Coming(f, ws, q)
    BY <1>11 DEF PutsEntry
  <2>2. Chain(f, q[1]) = q
    BY <1>1, <1>4, <2>1, CameIs
  <2>3. At(t, w.at) = w.val
    BY <1>5, <1>7
  <2>4. ClustersOf(t, f, w.at) = Range(q) /\ Kind(t, w.at) = "short"
    BY <2>1, <2>2, <2>3 DEF ClustersOf, Kind
  <2>5. PICK k \in 0 .. RootSlots : DirAt(s, y, k) /\ w.at[1] \in Span(s, f, k)
    BY <1>11 DEF Homed
  <2>6. w.at \notin x => EntAt(t, f, x, w.at)
    BY <1>5, <1>8, <2>4, <2>5 DEF EntAt
  <2> QED BY <1>5, <1>9, <1>11, <2>4, <2>6 DEF Tight, Owned
<1> QED BY <1>0, <1>1, <1>2, <1>6, <1>10, <1>11 DEF Covered


LEMMA StraightLeak ==
  ASSUME SoundInv, LeakInv, Straight, Step, failures = 0
  PROVE  LeakInv'
<1>1. PICK ws \in Seq(WriteT) : ws = op.writes /\ ws # <<>>
  BY DEF Straight
<1>2. PICK y : y = lost \cup {h.loc : h \in op.victim}
  OBVIOUS
<1>3. Ready(disk, fat, cache, ws, lost, y)
  BY <1>1, <1>2 DEF Straight
<1>4. disk \in DiskT /\ fat \in FatT /\ cache \in FatT
  BY DEF SoundInv
<1>5. /\ disk' = WrittenDisk(disk, Head(ws)) /\ fat' = WrittenFat(fat, Head(ws))
      /\ cache' = WrittenFat(cache, Head(ws)) /\ lost' = lost
  BY <1>1 DEF Step
<1>6. op # Idle
  BY DEF Step
<1>7. lost = {} /\ Neat
  BY <1>6 DEF LeakInv
<1>8. Len(ws) \in Nat \ {0} /\ op.left \in Nat /\ IsPlan(op) /\ (op.grown = {} \/ Len(ws) < op.left)
  BY <1>1, TailFacts DEF Straight
<1>9. ~(op.grown # {} /\ Len(op.writes) >= op.left)
  BY <1>1, <1>8
<1>10. Covered(disk, fat, cache, ws, y)
  BY <1>1, <1>2, <1>7, <1>9 DEF Neat
<1>11. CASE Len(ws) = 1
  <2>1. lost \cap Places = {}
    BY <1>7
  <2>2. Tight(disk', fat', lost)
    BY <1>3, <1>4, <1>5, <1>10, <1>11, <2>1, CoveredLast
  <2>3. op' = Idle
    BY <1>1, <1>11 DEF Step
  <2> QED BY <1>5, <1>7, <2>2, <2>3, LeakFrom
<1>12. CASE Len(ws) # 1
  <2>0. Len(ws) > 1
    BY <1>1, <1>12, LongerThanOne
  <2>1. Covered(disk', fat', cache', Tail(ws), y)
    BY <1>3, <1>4, <1>5, <1>10, <2>0, CoveredStep
  <2>2. op'.writes = Tail(ws) /\ op'.victim = op.victim /\ op'.grown = op.grown /\ op'.left = op.left
    BY <1>1, <1>8, <1>12, StepOp
  <2>3. Tail(ws) # <<>> /\ Len(Tail(ws)) = Len(ws) - 1
    BY <1>1, <1>12, LongerThanOne, TailFacts
  <2>4. op' # Idle
    BY <2>2, <2>3 DEF Idle
  <2>5. ~(op'.grown # {} /\ Len(op'.writes) >= op'.left)
    BY <1>8, <2>2, <2>3
  <2>6. lost' \cup {h.loc : h \in op'.victim} = y
    BY <1>2, <1>5, <2>2
  <2>7. Covered(disk', fat', cache', op'.writes, lost' \cup {h.loc : h \in op'.victim})
    BY <2>1, <2>2, <2>6
  <2>8. Neat'
    BY <2>5, <2>7 DEF Neat
  <2> QED BY <1>5, <1>7, <2>4, <2>8, LeakFrom
<1> QED BY <1>11, <1>12

LEMMA GrowLeak ==
  ASSUME SoundInv, LeakInv, NEW h, h \in op.grown, Going, Growing(h), Step, failures = 0
  PROVE  LeakInv'
<1>1. PICK ws \in Seq(WriteT) : ws = op.writes /\ ws # <<>> /\ Len(ws) \in Nat \ {0} /\ op.left \in Nat
  BY TailFacts DEF Going
<1>2. PICK w : w = ws[1] /\ w = Head(op.writes)
  BY <1>1, TailFacts
<1>3. /\ disk' = WrittenDisk(disk, w) /\ fat' = WrittenFat(fat, w) /\ cache' = WrittenFat(cache, w)
      /\ lost' = lost
  BY <1>2 DEF Step
<1>4. PICK last \in Clusters, new \in Clusters :
         \/ last # new /\ GrowsA(last, new, ws, h)
         \/ last # new /\ GrowsB(last, new, ws, h)
         \/ GrowsC(new, ws, h)
  BY <1>1 DEF Growing
<1>5. op.grown = {h} /\ op.victim = {} /\ op.left > 0
  BY DEF Growing
<1>6. lost = {} /\ Neat
  BY DEF LeakInv, Step
<1>7. ASSUME Len(ws) >= op.left PROVE NeatGrowing
  BY <1>1, <1>5, <1>6, <1>7 DEF Neat
<1>8. ASSUME Len(ws) # 1
      PROVE  /\ op'.writes = Tail(ws) /\ op'.writes # <<>> /\ Len(op'.writes) = Len(ws) - 1
             /\ op'.victim = {} /\ op'.grown = {h} /\ op'.left = op.left /\ op' # Idle
  <2>1. /\ op'.writes = Tail(ws) /\ op'.writes # <<>> /\ Len(op'.writes) = Len(ws) - 1
        /\ op'.victim = {} /\ op'.grown = {h} /\ op'.left = op.left
    BY <1>1, <1>8, GrowNext
  <2> QED BY <2>1 DEF Idle
<1>9. CASE last # new /\ GrowsA(last, new, ws, h)
  <2>1. /\ Len(ws) = op.left + 2 /\ w = DataW(new, Zeroed) /\ ws[1] = DataW(new, Zeroed)
        /\ ws[2] = FatW(last, new) /\ ws[3] = FatW(new, Eoc)
    BY <1>2, <1>9 DEF GrowsA
  <2>2. disk' = [disk EXCEPT ![new] = Zeroed] /\ fat' = fat /\ cache' = cache
    BY <1>3, <2>1, GrowWriteFacts
  <2>3. Covered([disk EXCEPT ![new] = Zeroed], GrownFat(fat, last, new), GrownFat(cache, last, new),
                Tail(Tail(Tail(ws))), lost)
    <3>1. NeatGrowing /\ ws = op.writes
      BY <1>1, <1>7, <2>1
    <3> QED BY <2>1, <3>1, Zenon DEF NeatGrowing
  <2>4. /\ op'.writes = Tail(ws) /\ Len(op'.writes) = op.left + 1
        /\ op'.grown = {h} /\ op'.left = op.left /\ op' # Idle
    BY <1>1, <1>5, <1>8, <2>1
  <2>5. Tail(ws)[1] = ws[2]
    BY <1>1, <1>5, <2>1, TailFacts
  <2>6. Covered(disk', GrownFat(fat', last, new), GrownFat(cache', last, new), Tail(Tail(op'.writes)), lost')
    BY <1>3, <2>2, <2>3, <2>4
  <2>7. ASSUME NEW a \in Clusters, NEW b \in Clusters, op'.writes[1] = FatW(a, b) PROVE a = last /\ b = new
    <3>1. FatW(a, b) = FatW(last, new)
      BY <2>1, <2>4, <2>5, <2>7, Zenon
    <3> QED BY <3>1, FatWSame, Zenon
  <2>8. NeatGrowing'
    BY <1>1, <2>4, <2>6, <2>7 DEF NeatGrowing
  <2>9. Neat'
    BY <1>1, <2>4, <2>8 DEF Neat
  <2> QED BY <1>3, <1>6, <2>4, <2>9, LeakFrom
<1>10. CASE last # new /\ GrowsB(last, new, ws, h)
  <2>1. /\ Len(ws) = op.left + 1 /\ w = FatW(last, new) /\ ws[1] = FatW(last, new)
        /\ ws[2] = FatW(new, Eoc)
    BY <1>2, <1>10 DEF GrowsB
  <2>2. /\ disk' = disk /\ [fat' EXCEPT ![new] = Eoc] = GrownFat(fat, last, new)
        /\ [cache' EXCEPT ![new] = Eoc] = GrownFat(cache, last, new)
    <3>0. /\ \A s : WrittenDisk(s, FatW(last, new)) = s
          /\ \A f : WrittenFat(f, FatW(last, new)) = [f EXCEPT ![last] = new]
      BY FatWrites
    <3>1. disk' = disk /\ fat' = [fat EXCEPT ![last] = new] /\ cache' = [cache EXCEPT ![last] = new]
      BY <1>3, <2>1, <3>0, Zenon
    <3> QED BY <3>1, Zenon DEF GrownFat
  <2>3. Covered(disk, GrownFat(fat, last, new), GrownFat(cache, last, new), Tail(Tail(ws)), lost)
    <3>1. NeatGrowing /\ ws = op.writes
      BY <1>1, <1>7, <2>1
    <3> QED BY <2>1, <3>1, Zenon DEF NeatGrowing
  <2>4. /\ op'.writes = Tail(ws) /\ Len(op'.writes) = op.left
        /\ op'.grown = {h} /\ op'.left = op.left /\ op' # Idle
    BY <1>1, <1>5, <1>8, <2>1
  <2>5. Tail(ws)[1] = ws[2]
    BY <1>1, <1>5, <2>1, TailFacts
  <2>6. Covered(disk', [fat' EXCEPT ![new] = Eoc], [cache' EXCEPT ![new] = Eoc], Tail(op'.writes), lost')
    BY <1>3, <2>2, <2>3, <2>4
  <2>7. ASSUME NEW b \in Clusters, op'.writes[1] = FatW(b, Eoc) PROVE b = new
    <3>1. FatW(b, Eoc) = FatW(new, Eoc)
      BY <2>1, <2>4, <2>5, <2>7, Zenon
    <3> QED BY <3>1, FatWSame, Zenon
  <2>8. NeatGrowing'
    <3>1. Len(op'.writes) # op'.left + 2 /\ Len(op'.writes) # op'.left + 1
      BY <1>1, <2>4
    <3> QED BY <2>6, <2>7, <3>1, Zenon DEF NeatGrowing
  <2>9. Neat'
    BY <1>1, <2>4, <2>8 DEF Neat
  <2> QED BY <1>3, <1>6, <2>4, <2>9, LeakFrom
<1>11. CASE GrowsC(new, ws, h)
  <2>1. Len(ws) = op.left /\ w = FatW(new, Eoc) /\ ws[1] = FatW(new, Eoc)
    BY <1>2, <1>11 DEF GrowsC
  <2>2. disk' = disk /\ fat' = [fat EXCEPT ![new] = Eoc] /\ cache' = [cache EXCEPT ![new] = Eoc]
    <3>1. /\ \A s : WrittenDisk(s, FatW(new, Eoc)) = s
          /\ \A f : WrittenFat(f, FatW(new, Eoc)) = [f EXCEPT ![new] = Eoc]
      BY FatWrites
    <3> QED BY <1>3, <2>1, <3>1, Zenon
  <2>3. Covered(disk', fat', cache', Tail(ws), lost)
    <3>1. NeatGrowing /\ ws = op.writes
      BY <1>1, <1>7, <2>1
    <3>2. Covered(disk, [fat EXCEPT ![new] = Eoc], [cache EXCEPT ![new] = Eoc], Tail(ws), lost)
      BY <2>1, <3>1, Zenon DEF NeatGrowing
    <3> QED BY <2>2, <3>2, Zenon
  <2>4. CASE Len(ws) = 1
    <3>1. op' = Idle
      BY <1>1, <2>4 DEF Step
    <3>2. Tail(ws) = <<>>
      <4>1. PICK vs \in Seq(WriteT) : vs = Tail(ws)
        BY <1>1, TailFacts
      <4>2. Len(vs) = Len(ws) - 1
        BY <1>1, <4>1, TailFacts
      <4>3. vs = <<>>
        BY <2>4, <4>2
      <4> QED BY <4>1, <4>3
    <3>3. Tight(disk', fat', lost)
      BY <2>3, <3>2 DEF Covered, Covers, Tight
    <3> QED BY <1>3, <1>6, <3>1, <3>3, LeakFrom
  <2>5. CASE Len(ws) # 1
    <3>1. /\ op'.writes = Tail(ws) /\ Len(op'.writes) = Len(ws) - 1
          /\ op'.victim = {} /\ op'.grown = {h} /\ op'.left = op.left /\ op' # Idle
      BY <1>8, <2>5
    <3>2. lost' \cup {g.loc : g \in op'.victim} = lost
      BY <1>3, <3>1
    <3>3. ~(op'.grown # {} /\ Len(op'.writes) >= op'.left)
      BY <1>1, <2>1, <3>1
    <3>4. Covered(disk', fat', cache', op'.writes, lost' \cup {g.loc : g \in op'.victim})
      BY <2>3, <3>1, <3>2
    <3>5. Neat'
      BY <3>3, <3>4 DEF Neat
    <3> QED BY <1>3, <1>6, <3>1, <3>5, LeakFrom
  <2> QED BY <2>4, <2>5
<1> QED BY <1>4, <1>9, <1>10, <1>11


LEMMA StepLeak ==
  ASSUME SoundInv, LeakInv, Step
  PROVE  LeakInv'
<1>1. CASE failures # 0
  BY <1>1 DEF Step, LeakInv
<1>2. CASE failures = 0
  <2>1. op # Idle
    BY DEF Step
  <2>2. Going /\ (Straight \/ \E h \in op.grown : Growing(h))
    BY <2>1, GoingCases
  <2>3. CASE Straight
    BY <1>2, <2>3, StraightLeak
  <2>4. CASE \E h \in op.grown : Growing(h)
    <3>1. PICK h \in op.grown : Growing(h)
      BY <2>4
    <3> QED BY <1>2, <2>2, <3>1, GrowLeak
  <2> QED BY <2>2, <2>3, <2>4
<1> QED BY <1>1, <1>2

LEMMA LeakInit ==
  ASSUME Init
  PROVE  LeakInv
<1>1. \A c \in Clusters : fat[c] = Free
  BY DEF Init
<1> QED BY <1>1 DEF Init, LeakInv, Tight

LEMMA LeakNext ==
  ASSUME SoundInv, LeakInv, [Next]_vars
  PROVE  LeakInv'
<1>1. CASE UNCHANGED vars
  BY ZenonT(60), <1>1 DEF vars, LeakInv, Neat, NeatGrowing
<1>2. CASE \/ BeginCreateFile \/ BeginCreateDirectory \/ BeginWriteFile
           \/ BeginDeleteFile \/ BeginDeleteDirectory
  BY <1>2, BeginStep
<1>3. CASE Step
  BY <1>3, StepLeak
<1>4. CASE PowerLoss \/ IoError
  <2>1. failures' = failures + 1 /\ failures \in 0 .. MaxFailures
    BY <1>4 DEF PowerLoss, IoError, SoundInv
  <2>2. failures' # 0
    BY <2>1, NamesAssumption
  <2> QED BY <2>2 DEF LeakInv
<1>5. CASE Mount
  BY <1>5 DEF Mount, LeakInv
<1> QED BY <1>1, <1>2, <1>3, <1>4, <1>5 DEF Next

\* A mount finds every directory and every entry.
LEMMA DirFound ==
  ASSUME NEW s, NEW f, NEW g, NEW x, Volume(s, f, g, x), NEW k, DirAt(s, x, k)
  PROVE  \E d \in Dirs(s) : d.at = HeadOf(s, k) /\ d.loc = <<Root, k>>
<1>1. CASE k = 0
  <2>1. TheRoot.at = Root /\ TheRoot.loc = <<Root, 0>> /\ HeadOf(s, 0) = Root
    BY DEF TheRoot, HeadOf
  <2> QED BY <1>1, <2>1 DEF Dirs
<1>2. CASE k # 0
  <2>1. PICK l \in Places : l = <<Root, k>> /\ l[1] = Root /\ Kind(s, l) = "short" /\ At(s, l).dir
    BY <1>2, DirIsEnt DEF Volume, DirAt
  <2>2. DirAt(s, x, 0) /\ Span(s, f, 0) = {Root} /\ Ls(s, f, 0) = RootLocs
    BY RootIsDir, DirFacts DEF Volume
  <2>3. PICK e \in Listing(s, RootLocs) : e.loc = l
    BY <2>1, <2>2, ListedIs
  <2>4. e.dir /\ e.start = At(s, l).start
    BY <2>1, <2>2, <2>3, EntryIs
  <2>5. AsDir(e) \in Dirs(s)
    BY <2>3, <2>4 DEF Dirs
  <2>6. AsDir(e).at = e.start /\ AsDir(e).loc = e.loc
    BY DEF AsDir
  <2>7. HeadOf(s, k) = At(s, l).start
    BY <1>2, <2>1 DEF HeadOf
  <2> QED BY <2>1, <2>3, <2>4, <2>5, <2>6, <2>7
<1> QED BY <1>1, <1>2

LEMMA EntryReached ==
  ASSUME NEW s, NEW f, NEW g, NEW x, Volume(s, f, g, x), NEW l, EntAt(s, f, x, l)
  PROVE  \E r \in Reachable(s, f, x) : r.e.loc = l
<1>1. PICK k \in 0 .. RootSlots : DirAt(s, x, k) /\ l[1] \in Span(s, f, k)
  BY DEF EntAt
<1>2. l \in Places /\ l \notin x /\ Kind(s, l) = "short"
  BY DEF EntAt
<1>3. PICK e \in Listing(s, Ls(s, f, k)) : e.loc = l
  BY <1>1, <1>2, ListedIs
<1>4. PICK d \in Dirs(s) : d.at = HeadOf(s, k) /\ d.loc = <<Root, k>>
  BY <1>1, DirFound
<1>5. e \in Entries(s, f, d.at)
  BY <1>3, <1>4 DEF Entries, Ls
<1>6. d.loc \notin x
  BY <1>1, <1>4 DEF DirAt
<1>7. [dir |-> d, e |-> e] \in Reachable(s, f, x)
  BY <1>2, <1>3, <1>5, <1>6 DEF Reachable
<1>8. [dir |-> d, e |-> e].e = e
  OBVIOUS
<1> QED BY <1>3, <1>7, <1>8

LEMMA NoLeakNow ==
  ASSUME SoundInv, LeakInv
  PROVE  NothingLeaks
<1> SUFFICES ASSUME op = Idle, failures = 0
             PROVE  /\ {c \in Clusters : fat[c] # Free}
                         = UNION {Range(Chain(fat, r.e.start)) : r \in Reachable(disk, fat, {})}
                    /\ \A r \in Reachable(disk, fat, {}) :
                          ~r.e.dir => Len(Chain(fat, r.e.start)) = IF r.e.size = 0 THEN 1 ELSE r.e.size
  BY DEF NothingLeaks
<1>1. lost = {} /\ Tight(disk, fat, {})
  BY DEF LeakInv
<1>2. Volume(disk, fat, cache, {})
  BY <1>1, IdleVolume
<1>3. ASSUME NEW r \in Reachable(disk, fat, {})
      PROVE  /\ EntAt(disk, fat, {}, r.e.loc) /\ r.e.start = At(disk, r.e.loc).start
             /\ (r.e.dir <=> At(disk, r.e.loc).dir) /\ r.e.size = At(disk, r.e.loc).size
             /\ Held(disk, fat, cache, r.e.loc)
  <2>1. PICK k \in 0 .. RootSlots : ReachedAt(disk, fat, {}, r, k)
    BY <1>2, ReachedIs
  <2>2. /\ DirAt(disk, {}, k) /\ r.e \in Listing(disk, Ls(disk, fat, k)) /\ r.e.loc \in Places
        /\ EntAt(disk, fat, {}, r.e.loc) /\ r.e.start = At(disk, r.e.loc).start
    BY <2>1, Zenon DEF ReachedAt
  <2>3. PICK e : e = r.e
    OBVIOUS
  <2>4. (e.dir <=> At(disk, e.loc).dir) /\ e.size = At(disk, e.loc).size
    BY <1>2, <2>2, <2>3, EntryIs
  <2>5. Held(disk, fat, cache, r.e.loc)
    BY <1>2, <2>2 DEF Volume, Safe
  <2> QED BY <2>2, <2>3, <2>4, <2>5
<1>4. ASSUME NEW c \in Clusters, fat[c] # Free
      PROVE  \E r \in Reachable(disk, fat, {}) : c \in Range(Chain(fat, r.e.start))
  <2>1. PICK l \in Places : EntAt(disk, fat, {}, l) /\ c \in ClustersOf(disk, fat, l)
    BY <1>1, <1>4 DEF Tight, Owned
  <2>2. PICK r \in Reachable(disk, fat, {}) : r.e.loc = l
    BY <1>2, <2>1, EntryReached
  <2> QED BY <1>3, <2>1, <2>2 DEF ClustersOf
<1>5. ASSUME NEW r \in Reachable(disk, fat, {}), NEW c \in Range(Chain(fat, r.e.start))
      PROVE  c \in Clusters /\ fat[c] # Free
  <2>1. r.e.start \in Clusters /\ Ends(fat, r.e.start) /\ fat \in FatT
    BY <1>2, <1>3 DEF Held, Volume
  <2> QED BY <1>5, <2>1, ChainFacts
<1>6. ASSUME NEW r \in Reachable(disk, fat, {}), ~r.e.dir
      PROVE  Len(Chain(fat, r.e.start)) = IF r.e.size = 0 THEN 1 ELSE r.e.size
  BY <1>3, <1>6 DEF Held, Clus
<1>7. {c \in Clusters : fat[c] # Free} = UNION {Range(Chain(fat, r.e.start)) : r \in Reachable(disk, fat, {})}
  BY <1>4, <1>5
<1> QED BY <1>6, <1>7

\* On a volume of any size that has met no failure, whenever no operation is under
\* way: every cluster the FAT has in use belongs to an entry a mount can reach, and
\* every file has exactly the clusters its size asks for.  write_file_impl gives back
\* what a shorter file no longer needs, delete_file_impl and delete_directory_impl the
\* whole chain (an empty file's one cluster too), and grow_directory's cluster is the
\* directory's even when the create it was for finds no room.
THEOREM NoLeaks == Spec => []NothingLeaks
<1>1. Init => LeakInv
  BY LeakInit
<1>2. SoundInv /\ LeakInv /\ [Next]_vars => LeakInv'
  BY LeakNext
<1>3. SoundInv /\ LeakInv => NothingLeaks
  BY NoLeakNow
<1> QED BY <1>1, <1>2, <1>3, VolumeInvariant, PTL DEF Spec


=============================================================================
