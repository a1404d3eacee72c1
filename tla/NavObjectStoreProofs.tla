------------------------ MODULE NavObjectStoreProofs ------------------------
(***************************************************************************)
(* TLAPS proofs about NavObjectStore, for any number of points, routes and *)
(* records, and any crashes.                                               *)
(***************************************************************************)
EXTENDS NavObjectStore, FiniteSetTheorems, SequenceTheorems, WellFoundedInduction, TLAPS

-----------------------------------------------------------------------------
(* The inductive invariant *)

Has(s, i) == \E m \in 1..Len(s) : s[m] = i
On(pts, r, i) == Has(pts[r], i)
In(w, i) == \E r \in Routes : On(w.pts, r, i)

(* The points of the routes are objects of the world.                      *)
Fits(w) ==
    /\ w \in Worlds
    /\ \A r \in Routes : \A m \in 1..Len(w.pts[r]) : w.pts[r][m] \in 1..Len(w.obj)

(* What holds of the flags of every object, of those that a replay leaves  *)
(* behind too.                                                             *)
FlagsOK(w) ==
    \A i \in 1..Len(w.obj) :
        /\ In(w, i) => w.obj[i].inRoute /\ ~w.obj[i].isolated
        /\ w.obj[i].isolated => ~w.obj[i].inRoute

(* No object of the list is neither a mark nor in a route.                 *)
NoneLost(w) ==
    \A i \in 1..Len(w.obj) : w.obj[i].listed => w.obj[i].isolated \/ In(w, i)

NoneShort(pts) == \A r \in Routes : Len(pts[r]) # 1

Sound(w) == Fits(w) /\ FlagsOK(w)

(* The document holds no route of one point either.                        *)
IInv == TypeOK /\ PointsBelong /\ (file # Torn => NoneShort(file.routes))

-----------------------------------------------------------------------------
(* Numbers and sequences *)

LEMMA LeastNumber ==
    ASSUME NEW K, K \subseteq Nat, K # {}
    PROVE  \E k \in K : \A j \in K : k <= j
<1> DEFINE R == OpToRel(<, Nat)
<1>1. IsWellFoundedOn(R, Nat)
  BY NatLessThanWellFounded, Zenon
<1>2. \A x, y \in Nat : x < y => <<x, y>> \in R
  BY DEF OpToRel
<1> HIDE DEF R
<1>3. PICK k \in K : \A j \in K : ~(<<j, k>> \in R)
  BY <1>1, WFMin
<1>4. ASSUME NEW j \in K PROVE k <= j
  <2>1. j \in Nat /\ k \in Nat /\ ~(j < k)
    BY <1>2, <1>3
  <2> QED
    BY <2>1
<1> QED
  BY <1>4

LEMMA RankType ==
    ASSUME NEW n \in Nat, NEW S \in SUBSET (1..n)
    PROVE  /\ Cardinality(S) \in 0..n
           /\ \A k \in 0..n : Rank(S, k) \in 0..Cardinality(S)
           /\ Rank(S, 0) = 0 /\ Rank(S, n) = Cardinality(S)
           /\ \A k \in 1..n : /\ k \in S => Rank(S, k) = Rank(S, k - 1) + 1
                              /\ k \notin S => Rank(S, k) = Rank(S, k - 1)
<1> DEFINE B(k) == {j \in S : j <= k}
<1>1. IsFiniteSet(1..n) /\ Cardinality(1..n) = n
  BY FS_Interval
<1>2. IsFiniteSet(S) /\ Cardinality(S) \in 0..n
  <2>1. IsFiniteSet(S) /\ Cardinality(S) <= n
    BY <1>1, FS_Subset
  <2> QED
    BY <2>1, FS_CardinalityType
<1>3. \A k \in 0..n : /\ IsFiniteSet(B(k)) /\ Cardinality(B(k)) \in Nat
                      /\ Cardinality(B(k)) <= Cardinality(S)
  <2> SUFFICES ASSUME NEW k \in 0..n
               PROVE  /\ IsFiniteSet(B(k)) /\ Cardinality(B(k)) \in Nat
                      /\ Cardinality(B(k)) <= Cardinality(S)
    OBVIOUS
  <2>1. B(k) \in SUBSET S
    OBVIOUS
  <2> HIDE DEF B
  <2>2. IsFiniteSet(B(k)) /\ Cardinality(B(k)) <= Cardinality(S)
    BY <1>2, <2>1, FS_Subset
  <2> QED
    BY <2>2, FS_CardinalityType
<1>4. B(0) = {} /\ B(n) = S
  <2>1. \A j \in S : j \in Int /\ j <= n /\ ~(j <= 0)
    OBVIOUS
  <2> QED
    BY <2>1
<1>5. \A k \in 1..n : /\ k - 1 \in 0..n /\ k \notin B(k - 1)
                      /\ k \in S => B(k) = B(k - 1) \cup {k}
                      /\ k \notin S => B(k) = B(k - 1)
  <2> SUFFICES ASSUME NEW k \in 1..n
               PROVE  /\ k - 1 \in 0..n /\ k \notin B(k - 1)
                      /\ k \in S => B(k) = B(k - 1) \cup {k}
                      /\ k \notin S => B(k) = B(k - 1)
    OBVIOUS
  <2>1. k - 1 \in 0..n /\ ~(k <= k - 1)
    OBVIOUS
  <2>2. \A j \in S : j <= k <=> j <= k - 1 \/ j = k
    OBVIOUS
  <2> QED
    BY <2>1, <2>2
<1>6. \A k : Rank(S, k) = Cardinality(B(k))
  BY DEF Rank
<1> HIDE DEF B
<1>7. \A k \in 1..n : /\ k \in S => Rank(S, k) = Rank(S, k - 1) + 1
                      /\ k \notin S => Rank(S, k) = Rank(S, k - 1)
  BY <1>3, <1>5, <1>6, FS_AddElement
<1> QED
  BY <1>2, <1>3, <1>4, <1>6, <1>7, FS_EmptySet

(* Every place of the order is taken by one number.                        *)
LEMMA SortedElements ==
    ASSUME NEW n \in Nat, NEW S \in SUBSET (1..n)
    PROVE  /\ Cardinality(S) \in Nat /\ Sorted(S) \in Seq(S)
           /\ Len(Sorted(S)) = Cardinality(S) /\ DOMAIN Sorted(S) = 1..Cardinality(S)
           /\ \A k \in 1..Cardinality(S) : Sorted(S)[k] \in S /\ Rank(S, Sorted(S)[k]) = k
           /\ \A i \in S : Rank(S, i) \in 1..Cardinality(S) /\ Sorted(S)[Rank(S, i)] = i
<1> DEFINE c == Cardinality(S)
           rank(k) == Rank(S, k)
<1>1. /\ c \in 0..n /\ rank(0) = 0 /\ rank(n) = c
      /\ \A k \in 0..n : rank(k) \in 0..c
      /\ \A k \in 1..n : /\ k \in S => rank(k) = rank(k - 1) + 1
                         /\ k \notin S => rank(k) = rank(k - 1)
  BY RankType
<1> HIDE DEF rank, c
<1>2. \A k \in 1..c : \E i \in S : rank(i) = k
  <2> SUFFICES ASSUME NEW k \in 1..c PROVE \E i \in S : rank(i) = k
    OBVIOUS
  <2> DEFINE K == {m \in 0..n : k <= rank(m)}
  <2>1. K \subseteq Nat /\ K # {}
    BY <1>1
  <2>2. PICK m \in K : \A j \in K : m <= j
    <3> HIDE DEF K
    <3> QED
      BY <2>1, LeastNumber
  <2>3. m \in 1..n /\ m - 1 \in 0..n /\ m - 1 \notin K
    BY <1>1, <2>2
  <2>4. rank(m) \in Nat /\ rank(m - 1) \in Nat /\ k <= rank(m) /\ rank(m - 1) < k
    BY <1>1, <2>2, <2>3
  <2>5. m \in S /\ rank(m) = k
    BY <1>1, <2>3, <2>4
  <2> QED
    BY <2>5
<1>3. \A i, j \in S : i < j => rank(i) < rank(j)
  <2> SUFFICES ASSUME NEW i \in S, NEW j \in S, i < j, ~(rank(i) < rank(j))
               PROVE  FALSE
    OBVIOUS
  <2> DEFINE K == {m \in i..n : m > i /\ rank(m) < rank(i) + 1 /\ (m \in S \/ rank(m) < rank(i))}
  <2>1. K \subseteq Nat /\ K # {}
    BY <1>1
  <2>2. PICK m \in K : \A l \in K : m <= l
    <3> HIDE DEF K
    <3> QED
      BY <2>1, LeastNumber
  <2>3. m \in 1..n /\ m - 1 \in i..n /\ m - 1 \notin K /\ i \in 1..n
    BY <2>2
  <2>4. rank(m) \in Nat /\ rank(m - 1) \in Nat /\ rank(i) \in Nat
    BY <1>1, <2>3
  <2>5. rank(m - 1) >= rank(i)
    BY <2>2, <2>3, <2>4
  <2>6. rank(m) >= rank(i) /\ (m \in S => rank(m) > rank(i))
    BY <1>1, <2>3, <2>4, <2>5
  <2> QED
    BY <2>2, <2>4, <2>6
<1>4. \A i, j \in S : rank(i) = rank(j) => i = j
  <2>1. \A i, j \in S : i \in Int /\ j \in Int /\ rank(i) \in Nat /\ rank(j) \in Nat
    BY <1>1
  <2> QED
    BY <1>3, <2>1
<1>5. \A i \in S : rank(i) \in 1..c
  BY <1>1
<1>6. Sorted(S) = [k \in 1..c |-> CHOOSE i \in S : rank(i) = k]
  BY DEF Sorted, rank, c
<1>7. \A k \in 1..c : Sorted(S)[k] \in S /\ rank(Sorted(S)[k]) = k
  BY <1>2, <1>6
<1>8. c \in Nat /\ Sorted(S) \in [1..c -> S]
  BY <1>1, <1>6, <1>7
<1>9. Sorted(S) \in Seq(S) /\ Len(Sorted(S)) = c /\ DOMAIN Sorted(S) = 1..c
  BY <1>8
<1> QED
  BY <1>4, <1>5, <1>7, <1>8, <1>9 DEF rank, c

LEMMA WithoutElements ==
    ASSUME NEW s \in Seq(Nat), NEW i
    PROVE  /\ Without(s, i) \in Seq(Nat)
           /\ \A j : Has(Without(s, i), j) <=> j # i /\ Has(s, j)
<1> DEFINE S == {k \in DOMAIN s : s[k] # i}
           rest == Sorted(S)
           c == Cardinality(S)
<1>1. Len(s) \in Nat /\ DOMAIN s = 1..Len(s) /\ S \in SUBSET (1..Len(s))
  OBVIOUS
<1>2. \A k : k \in S <=> k \in 1..Len(s) /\ s[k] # i
  OBVIOUS
<1>3. Without(s, i) = [k \in DOMAIN rest |-> s[rest[k]]]
  BY DEF Without
<1> HIDE DEF S
<1>4. /\ c \in Nat /\ DOMAIN rest = 1..c
      /\ \A k \in 1..c : rest[k] \in S
      /\ \A k \in S : Rank(S, k) \in 1..c /\ rest[Rank(S, k)] = k
  BY <1>1, SortedElements
<1> HIDE DEF rest, c
<1>5. /\ Without(s, i) \in [1..c -> Nat]
      /\ \A k \in 1..c : Without(s, i)[k] = s[rest[k]]
  BY <1>2, <1>3, <1>4
<1>6. Without(s, i) \in Seq(Nat) /\ Len(Without(s, i)) = c
  BY <1>4, <1>5
<1>7. ASSUME NEW j, j # i, NEW m \in 1..Len(s), s[m] = j
      PROVE  \E k \in 1..c : Without(s, i)[k] = j
  <2>1. m \in S
    BY <1>2, <1>7
  <2> QED
    BY <1>4, <1>5, <1>7, <2>1
<1>8. ASSUME NEW k \in 1..c
      PROVE  rest[k] \in 1..Len(s) /\ Without(s, i)[k] = s[rest[k]] /\ s[rest[k]] # i
  BY <1>2, <1>4, <1>5
<1> QED
  <2>1. ASSUME NEW j, NEW k \in 1..c, Without(s, i)[k] = j
        PROVE  j # i /\ \E m \in 1..Len(s) : s[m] = j
    BY <1>8, <2>1
  <2> QED
    BY <1>6, <1>7, <2>1 DEF Has

-----------------------------------------------------------------------------
(* Steps in turn: where each leads from one set of worlds to the next, all *)
(* of them lead to the last set.                                           *)

Within(f, V, n)  == \A k \in 0..n : f[k] \in V[k]
From(f, w, F, n) == f = [k \in 0..n |-> IF k = 0 THEN w ELSE F[k][f[k - 1]]]
Lead(F, V, n)    == \A k \in 1..n : \A v \in V[k - 1] : F[k][v] \in V[k]

LEMMA StaysWithin ==
    ASSUME NEW n \in Nat, NEW V, NEW f, f[0] \in V[0],
           \A k \in 1..n : f[k - 1] \in V[k - 1] => f[k] \in V[k]
    PROVE  Within(f, V, n)
<1> DEFINE K == {k \in 0..n : f[k] \notin V[k]}
<1> SUFFICES ASSUME K # {} PROVE FALSE
  BY DEF Within
<1>1. K \subseteq Nat
  OBVIOUS
<1>2. PICK m \in K : \A k \in K : m <= k
  <2> HIDE DEF K
  <2> QED
    BY <1>1, LeastNumber
<1>3. m \in 1..n /\ m - 1 \in 0..n /\ m - 1 \notin K
  BY <1>2
<1> QED
  BY <1>2, <1>3

LEMMA StepsExist ==
    ASSUME NEW n \in Nat, NEW V, NEW w, w \in V[0], NEW F, Lead(F, V, n)
    PROVE  \E f : From(f, w, F, n) /\ Within(f, V, n)
<1> DEFINE K == {k \in 0..n : ~\E f : From(f, w, F, k) /\ Within(f, V, k)}
<1> SUFFICES ASSUME K # {} PROVE FALSE
  OBVIOUS
<1>1. K \subseteq Nat
  OBVIOUS
<1>2. PICK m \in K : \A k \in K : m <= k
  <2> HIDE DEF K
  <2> QED
    BY <1>1, LeastNumber
<1>3. m # 0
  <2> DEFINE g == [k \in 0..0 |-> w]
  <2>1. From(g, w, F, 0) /\ Within(g, V, 0)
    BY DEF From, Within
  <2> QED
    BY <1>2, <2>1
<1>4. m \in 1..n /\ m - 1 \in 0..n /\ m - 1 \notin K
  BY <1>2, <1>3
<1>5. PICK f : From(f, w, F, m - 1) /\ Within(f, V, m - 1)
  BY <1>4
<1> DEFINE g == [k \in 0..m |-> IF k = m THEN F[m][f[m - 1]] ELSE f[k]]
<1>6. From(g, w, F, m)
  BY <1>4, <1>5 DEF From
<1>7. Within(g, V, m)
  BY <1>4, <1>5 DEF Within, Lead
<1> QED
  BY <1>2, <1>6, <1>7

-----------------------------------------------------------------------------
(* The calls that change a world *)

LEMMA FunctionSeq ==
    ASSUME NEW n \in Nat, NEW S, NEW f \in [1..n -> S]
    PROVE  f \in Seq(S) /\ Len(f) = n /\ DOMAIN f = 1..n
OBVIOUS

LEMMA AppendElements ==
    ASSUME NEW S, NEW s \in Seq(S), NEW x \in S
    PROVE  LET t == Append(s, x) IN
           /\ t \in Seq(S) /\ Len(s) \in Nat /\ Len(t) = Len(s) + 1 /\ t[Len(s) + 1] = x
           /\ \A m \in 1..Len(s) : t[m] = s[m]
           /\ \A m \in 1..Len(t) : m \in 1..Len(s) \/ m = Len(s) + 1
OBVIOUS

LEMMA WorldTypes ==
    ASSUME NEW w \in Worlds
    PROVE  /\ w.obj \in Seq(Objects) /\ Len(w.obj) \in Nat /\ DOMAIN w.obj = 1..Len(w.obj)
           /\ w.obj \in [1..Len(w.obj) -> Objects]
           /\ w.pts \in [Routes -> Seq(Nat)] /\ w.look \in [Routes -> 0..1]
           /\ \A r \in Routes : Len(w.pts[r]) \in Nat /\ DOMAIN w.pts[r] = 1..Len(w.pts[r])
BY DEF Worlds

LEMMA ContainersAre ==
    ASSUME NEW w \in Worlds, NEW i
    PROVE  /\ \A r \in Routes : r \in Containers(w, i) <=> On(w.pts, r, i)
           /\ Containers(w, i) \subseteq Routes
           /\ In(w, i) <=> Containers(w, i) # {}
<1>1. \A r \in Routes : r \in Containers(w, i) <=> i \in Range(w.pts[r])
  BY DEF Containers
<1>2. \A r \in Routes : i \in Range(w.pts[r]) <=> On(w.pts, r, i)
  BY WorldTypes DEF Range, On, Has
<1>3. Containers(w, i) \subseteq Routes
  BY DEF Containers
<1> QED
  BY <1>1, <1>2, <1>3 DEF In

(* An object enters the list.                                              *)
LEMMA ObjectAdded ==
    ASSUME NEW w, Sound(w), NEW o \in Objects, o.isolated => ~o.inRoute
    PROVE  LET v == AddRoutePoint(w, o)
               n == Len(w.obj) IN
           /\ Sound(v) /\ Len(v.obj) = n + 1 /\ v.pts = w.pts /\ v.look = w.look
           /\ v.obj[n + 1] = o /\ \A j \in 1..n : v.obj[j] = w.obj[j]
<1> DEFINE v == AddRoutePoint(w, o)
           n == Len(w.obj)
<1>1. w \in Worlds /\ n \in Nat /\ w.obj \in Seq(Objects)
  BY WorldTypes DEF Sound, Fits
<1>2. /\ v.obj = Append(w.obj, o) /\ v.pts = w.pts /\ v.look = w.look /\ v \in Worlds
  <2> DEFINE t == Append(w.obj, o)
  <2>1. t \in Seq(Objects) /\ v = [w EXCEPT !.obj = t]
    BY <1>1 DEF AddRoutePoint
  <2> HIDE DEF t
  <2>2. v.obj = t /\ v.pts = w.pts /\ v.look = w.look /\ v \in Worlds
    BY <1>1, <2>1 DEF Worlds
  <2> QED
    BY <2>2 DEF t
<1>3. Len(v.obj) = n + 1 /\ v.obj[n + 1] = o /\ \A j \in 1..n : v.obj[j] = w.obj[j]
  BY <1>1, <1>2, AppendElements
<1> HIDE DEF v
<1>4. \A i : In(v, i) <=> In(w, i)
  BY <1>2 DEF In
<1>5. \A i : In(w, i) => i \in 1..n
  BY DEF Sound, Fits, In, On, Has
<1>6. \A i \in 1..n + 1 : i \in 1..n \/ i = n + 1
  BY <1>1
<1>7. ~(n + 1 \in 1..n)
  BY <1>1
<1>8. FlagsOK(v)
  <2> SUFFICES ASSUME NEW i \in 1..n + 1
               PROVE  /\ In(v, i) => v.obj[i].inRoute /\ ~v.obj[i].isolated
                      /\ v.obj[i].isolated => ~v.obj[i].inRoute
    BY <1>3 DEF FlagsOK
  <2> QED
    BY <1>3, <1>4, <1>5, <1>6, <1>7 DEF Sound, FlagsOK
<1>9. Fits(v)
  BY <1>1, <1>2, <1>3 DEF Sound, Fits
<1> QED
  BY <1>2, <1>3, <1>8, <1>9 DEF v, Sound

(* An object joins a route.                                                *)
LEMMA PointAdded ==
    ASSUME NEW w, Sound(w), NEW r \in Routes, NEW i \in 1..Len(w.obj)
    PROVE  LET v == AddPoint(w, r, i) IN
           /\ Sound(v) /\ Len(v.obj) = Len(w.obj) /\ v.look = w.look
           /\ Len(v.pts[r]) = Len(w.pts[r]) + 1 /\ v.pts[r][Len(w.pts[r]) + 1] = i
           /\ \A m \in 1..Len(w.pts[r]) : v.pts[r][m] = w.pts[r][m]
           /\ \A j : In(v, j) <=> In(w, j) \/ j = i
           /\ \A j \in 1..Len(w.obj) : j # i => v.obj[j] = w.obj[j]
           /\ v.obj[i].pos = w.obj[i].pos /\ ~v.obj[i].isolated
           /\ v.obj[i].shared <=> w.obj[i].shared \/ w.obj[i].isolated
           /\ \A q \in Routes : q # r => v.pts[q] = w.pts[q]
           /\ \A j \in 1..Len(w.obj) : /\ v.obj[j].guid = w.obj[j].guid
                                       /\ v.obj[j].listed = w.obj[j].listed
           /\ (\A j \in 1..Len(w.obj) : j # i /\ w.obj[j].listed => w.obj[j].isolated \/ In(w, j))
                => NoneLost(v)
<1> DEFINE v == AddPoint(w, r, i)
           n == Len(w.obj)
           o == [w.obj[i] EXCEPT !.shared = w.obj[i].shared \/ w.obj[i].isolated,
                                 !.isolated = FALSE, !.inRoute = TRUE]
<1>1. w \in Worlds /\ n \in Nat /\ w.obj \in [1..n -> Objects] /\ w.pts \in [Routes -> Seq(Nat)]
  BY WorldTypes DEF Sound, Fits
<1>2. /\ o \in Objects /\ o.guid = w.obj[i].guid /\ o.listed = w.obj[i].listed
      /\ o.inRoute /\ ~o.isolated /\ o.pos = w.obj[i].pos
      /\ o.shared <=> w.obj[i].shared \/ w.obj[i].isolated
  BY <1>1 DEF Objects
<1>3. v = [w EXCEPT !.obj = [w.obj EXCEPT ![i] = o], !.pts = [w.pts EXCEPT ![r] = Append(w.pts[r], i)]]
  BY <1>1, Zenon DEF AddPoint
<1> HIDE DEF o
<1>4. /\ v.obj = [w.obj EXCEPT ![i] = o] /\ v.look = w.look
      /\ v.pts = [w.pts EXCEPT ![r] = Append(w.pts[r], i)]
  BY <1>1, <1>3 DEF Worlds
<1>5. /\ v.obj \in Seq(Objects) /\ Len(v.obj) = n
      /\ \A j \in 1..n : v.obj[j] = IF j = i THEN o ELSE w.obj[j]
  <2>1. v.obj \in [1..n -> Objects]
    BY <1>1, <1>2, <1>4
  <2>2. \A j \in 1..n : v.obj[j] = IF j = i THEN o ELSE w.obj[j]
    BY <1>1, <1>4
  <2> HIDE DEF v
  <2> QED
    BY <1>1, <2>1, <2>2, FunctionSeq
<1>6. v.pts \in [Routes -> Seq(Nat)] /\ v \in Worlds
  <2>1. Append(w.pts[r], i) \in Seq(Nat)
    BY <1>1
  <2>2. v.pts \in [Routes -> Seq(Nat)]
    BY <1>1, <1>4, <2>1
  <2> QED
    BY <1>1, <1>3, <1>4, <1>5, <2>2 DEF Worlds
<1>7. /\ \A q \in Routes : q # r => v.pts[q] = w.pts[q]
      /\ Len(w.pts[r]) \in Nat /\ Len(v.pts[r]) = Len(w.pts[r]) + 1
      /\ v.pts[r][Len(w.pts[r]) + 1] = i
      /\ \A m \in 1..Len(w.pts[r]) : v.pts[r][m] = w.pts[r][m]
      /\ \A m \in 1..Len(v.pts[r]) : m \in 1..Len(w.pts[r]) \/ m = Len(w.pts[r]) + 1
  <2>1. w.pts[r] \in Seq(Nat) /\ i \in Nat /\ v.pts[r] = Append(w.pts[r], i)
    BY <1>1, <1>4
  <2>2. \A q \in Routes : q # r => v.pts[q] = w.pts[q]
    BY <1>1, <1>4
  <2> QED
    BY <2>1, <2>2, AppendElements
<1> HIDE DEF v
<1>8. \A j : In(v, j) <=> In(w, j) \/ j = i
  <2>1. \A j, q : q \in Routes /\ On(w.pts, q, j) => On(v.pts, q, j)
    <3> SUFFICES ASSUME NEW q \in Routes, NEW m \in 1..Len(w.pts[q])
                 PROVE  \E l \in 1..Len(v.pts[q]) : v.pts[q][l] = w.pts[q][m]
      BY DEF On, Has
    <3>1. CASE q = r
      BY <1>7, <3>1
    <3>2. CASE q # r
      BY <1>7, <3>2
    <3> QED
      BY <3>1, <3>2
  <2>2. On(v.pts, r, i)
    BY <1>7 DEF On, Has
  <2>3. ASSUME NEW q \in Routes, NEW j, On(v.pts, q, j), j # i PROVE On(w.pts, q, j)
    <3>1. PICK m \in 1..Len(v.pts[q]) : v.pts[q][m] = j
      BY <2>3 DEF On, Has
    <3>2. m \in 1..Len(w.pts[q]) /\ w.pts[q][m] = j
      BY <1>7, <2>3, <3>1
    <3> QED
      BY <3>2 DEF On, Has
  <2> QED
    BY <2>1, <2>2, <2>3 DEF In
<1>9. Fits(v)
  <2> SUFFICES ASSUME NEW q \in Routes, NEW m \in 1..Len(v.pts[q])
               PROVE  v.pts[q][m] \in 1..n
    BY <1>5, <1>6 DEF Fits
  <2>1. CASE q = r
    BY <1>7, <2>1 DEF Sound, Fits
  <2>2. CASE q # r
    BY <1>7, <2>2 DEF Sound, Fits
  <2> QED
    BY <2>1, <2>2
<1>10. FlagsOK(v)
  BY <1>2, <1>5, <1>8 DEF Sound, FlagsOK
<1>11. ASSUME \A j \in 1..n : j # i /\ w.obj[j].listed => w.obj[j].isolated \/ In(w, j)
       PROVE  NoneLost(v)
  BY <1>5, <1>8, <1>11 DEF NoneLost
<1> QED
  BY <1>2, <1>4, <1>5, <1>7, <1>8, <1>9, <1>10, <1>11 DEF v, Sound

(* The looks that are left when the routes rs are deleted.                 *)
Bare(w, rs) == [q \in Routes |-> IF q \in rs THEN 0 ELSE w.look[q]]

(* Routes are deleted.                                                     *)
LEMMA RoutesDropped ==
    ASSUME NEW w, Sound(w), NEW rs
    PROVE  LET v == DropRoutes(w, rs) IN
           /\ Sound(v) /\ Len(v.obj) = Len(w.obj) /\ (NoneLost(w) => NoneLost(v))
           /\ \A q \in Routes : v.pts[q] = IF q \in rs THEN <<>> ELSE w.pts[q]
           /\ \A j \in 1..Len(w.obj) :
                /\ v.obj[j].guid = w.obj[j].guid
                /\ ~In(w, j) => v.obj[j] = w.obj[j]
           /\ v.look = Bare(w, rs)
           /\ \A j : \A q \in Routes : On(v.pts, q, j) <=> On(w.pts, q, j) /\ q \notin rs
           /\ \A j \in 1..Len(w.obj) :
                IF In(w, j) /\ ~In(v, j)
                THEN /\ v.obj[j].guid = w.obj[j].guid /\ v.obj[j].pos = w.obj[j].pos
                     /\ v.obj[j].listed <=> w.obj[j].listed /\ w.obj[j].shared
                     /\ v.obj[j].isolated <=> w.obj[j].shared
                ELSE v.obj[j] = w.obj[j]
<1> DEFINE v == DropRoutes(w, rs)
           n == Len(w.obj)
           own == {i \in DOMAIN w.obj : /\ w.obj[i].inRoute
                                        /\ Containers(w, i) # {} /\ Containers(w, i) \subseteq rs}
           pts == [r \in Routes |-> IF r \in rs THEN <<>> ELSE w.pts[r]]
           look == [r \in Routes |-> IF r \in rs THEN 0 ELSE w.look[r]]
           free(o) == [o EXCEPT !.inRoute = FALSE, !.isolated = o.isolated \/ o.shared,
                                !.shared = FALSE, !.listed = o.listed /\ o.shared]
           obj == [i \in DOMAIN w.obj |-> IF i \notin own THEN w.obj[i] ELSE free(w.obj[i])]
<1>1. /\ w \in Worlds /\ n \in Nat /\ w.obj \in [1..n -> Objects] /\ DOMAIN w.obj = 1..n
      /\ w.pts \in [Routes -> Seq(Nat)] /\ w.look \in [Routes -> 0..1]
  BY WorldTypes DEF Sound, Fits
<1>2. v = [w EXCEPT !.pts = pts, !.look = look, !.obj = obj]
  BY DEF DropRoutes
<1>3. pts \in [Routes -> Seq(Nat)] /\ look \in [Routes -> 0..1]
  BY <1>1
<1>4. \A o \in Objects : /\ free(o) \in Objects /\ free(o).guid = o.guid /\ ~free(o).inRoute
                         /\ free(o).listed => free(o).isolated
                         /\ free(o).pos = o.pos
                         /\ free(o).listed <=> o.listed /\ o.shared
                         /\ free(o).isolated <=> o.isolated \/ o.shared
  BY DEF Objects
<1>5. \A i \in 1..n : i \in own <=> w.obj[i].inRoute /\ Containers(w, i) # {}
                                     /\ Containers(w, i) \subseteq rs
  BY <1>1
<1> HIDE DEF free, own
<1>6. /\ obj \in [1..n -> Objects]
      /\ \A i \in 1..n : obj[i] = IF i \notin own THEN w.obj[i] ELSE free(w.obj[i])
  BY <1>1, <1>4
<1>7. \A q \in Routes : pts[q] = IF q \in rs THEN <<>> ELSE w.pts[q]
  OBVIOUS
<1> HIDE DEF pts, look, obj
<1>8. /\ v.pts = pts /\ v.obj = obj /\ v.look = look /\ v \in Worlds /\ Len(v.obj) = n
  <2>1. v.pts = pts /\ v.obj = obj /\ v.look = look
    BY <1>1, <1>2 DEF Worlds
  <2>2. obj \in Seq(Objects) /\ Len(obj) = n
    BY <1>1, <1>6, FunctionSeq
  <2> QED
    BY <1>1, <1>2, <1>3, <2>1, <2>2 DEF Worlds
<1> HIDE DEF v
<1>9. \A j : \A q \in Routes : On(v.pts, q, j) <=> On(w.pts, q, j) /\ q \notin rs
  BY <1>7, <1>8 DEF On, Has
<1>10. \A j : In(v, j) => In(w, j)
  BY <1>9 DEF In
<1>11. \A j \in 1..n : j \in own => In(w, j) /\ ~In(v, j)
  <2> SUFFICES ASSUME NEW j \in 1..n, j \in own PROVE In(w, j) /\ ~In(v, j)
    OBVIOUS
  <2>1. Containers(w, j) # {} /\ Containers(w, j) \subseteq rs
    BY <1>5
  <2>2. \A q \in Routes : On(w.pts, q, j) => q \in rs
    BY <1>1, <2>1, ContainersAre
  <2> QED
    BY <1>1, <1>9, <2>1, <2>2, ContainersAre DEF In
<1>12. \A j \in 1..n : In(w, j) /\ ~In(v, j) => j \in own
  <2> SUFFICES ASSUME NEW j \in 1..n, In(w, j), ~In(v, j) PROVE j \in own
    OBVIOUS
  <2>1. w.obj[j].inRoute
    BY DEF Sound, FlagsOK
  <2>2. \A q \in Routes : On(w.pts, q, j) => q \in rs
    BY <1>9 DEF In
  <2>3. Containers(w, j) # {} /\ Containers(w, j) \subseteq rs
    BY <1>1, <2>2, ContainersAre
  <2> QED
    BY <1>5, <2>1, <2>3
<1>13. FlagsOK(v)
  <2> SUFFICES ASSUME NEW j \in 1..n
               PROVE  /\ In(v, j) => v.obj[j].inRoute /\ ~v.obj[j].isolated
                      /\ v.obj[j].isolated => ~v.obj[j].inRoute
    BY <1>8 DEF FlagsOK
  <2>1. CASE j \in own
    BY <1>1, <1>4, <1>6, <1>8, <1>11, <2>1
  <2>2. CASE j \notin own
    BY <1>6, <1>8, <1>10, <2>2 DEF Sound, FlagsOK
  <2> QED
    BY <2>1, <2>2
<1>14. Fits(v)
  <2> SUFFICES ASSUME NEW q \in Routes, NEW m \in 1..Len(v.pts[q])
               PROVE  v.pts[q][m] \in 1..n
    BY <1>8 DEF Fits
  <2>1. q \notin rs
    BY <1>7, <1>8
  <2> QED
    BY <1>7, <1>8, <2>1 DEF Sound, Fits
<1>15. ASSUME NoneLost(w) PROVE NoneLost(v)
  <2> SUFFICES ASSUME NEW j \in 1..n, v.obj[j].listed
               PROVE  v.obj[j].isolated \/ In(v, j)
    BY <1>8 DEF NoneLost
  <2>1. CASE j \in own
    BY <1>1, <1>4, <1>6, <1>8, <2>1
  <2>2. CASE j \notin own
    BY <1>6, <1>8, <1>12, <1>15, <2>2 DEF NoneLost
  <2> QED
    BY <2>1, <2>2
<1>16. \A j \in 1..n : /\ v.obj[j].guid = w.obj[j].guid
                       /\ ~In(w, j) => v.obj[j] = w.obj[j]
  BY <1>1, <1>4, <1>6, <1>8, <1>11
<1>17. \A j \in 1..n : In(w, j) => ~w.obj[j].isolated
  BY DEF Sound, FlagsOK
<1>18. ASSUME NEW j \in 1..n
       PROVE  IF In(w, j) /\ ~In(v, j)
              THEN /\ v.obj[j].guid = w.obj[j].guid /\ v.obj[j].pos = w.obj[j].pos
                   /\ v.obj[j].listed <=> w.obj[j].listed /\ w.obj[j].shared
                   /\ v.obj[j].isolated <=> w.obj[j].shared
              ELSE v.obj[j] = w.obj[j]
  BY <1>1, <1>4, <1>6, <1>8, <1>11, <1>12, <1>17
<1>19. v.look = Bare(w, rs)
  BY <1>8 DEF look, Bare
<1> QED
  BY <1>7, <1>8, <1>9, <1>13, <1>14, <1>15, <1>16, <1>18, <1>19 DEF v, Sound

(* A point leaves routes.                                                  *)
LEMMA PointRemoved ==
    ASSUME NEW w, Sound(w), NEW rs, NEW i \in 1..Len(w.obj)
    PROVE  LET v == RemovePoint(w, rs, i) IN
           /\ Sound(v) /\ Len(v.obj) = Len(w.obj) /\ (NoneLost(w) => NoneLost(v))
           /\ \A q \in Routes : v.pts[q] = IF q \in rs THEN Without(w.pts[q], i) ELSE w.pts[q]
           /\ v.look = w.look
           /\ \A j : \A q \in Routes : On(v.pts, q, j) <=> On(w.pts, q, j) /\ (q \in rs => j # i)
           /\ \A j \in 1..Len(w.obj) : j # i \/ In(v, i) => v.obj[j] = w.obj[j]
           /\ v.obj[i].guid = w.obj[i].guid /\ v.obj[i].pos = w.obj[i].pos
           /\ v.obj[i].listed = w.obj[i].listed /\ v.obj[i].shared = w.obj[i].shared
           /\ ~In(v, i) => v.obj[i].isolated
<1> DEFINE u == Left(w, rs, i)
           v == RemovePoint(w, rs, i)
           n == Len(w.obj)
           pts == [r \in Routes |-> IF r \in rs THEN Without(w.pts[r], i) ELSE w.pts[r]]
           o == [w.obj[i] EXCEPT !.inRoute = FALSE, !.isolated = TRUE]
<1>1. /\ w \in Worlds /\ n \in Nat /\ w.obj \in [1..n -> Objects] /\ w.obj \in Seq(Objects)
      /\ w.pts \in [Routes -> Seq(Nat)]
  BY WorldTypes DEF Sound, Fits
<1>2. pts \in [Routes -> Seq(Nat)]
  BY <1>1, WithoutElements
<1>3. \A q \in Routes : pts[q] = IF q \in rs THEN Without(w.pts[q], i) ELSE w.pts[q]
  OBVIOUS
<1>4. u = [w EXCEPT !.pts = pts]
  BY DEF Left
<1> HIDE DEF pts
<1>5. u \in Worlds /\ u.pts = pts /\ u.obj = w.obj /\ u.look = w.look
  BY <1>1, <1>2, <1>4 DEF Worlds
<1> HIDE DEF u
<1>6. v = IF In(u, i) THEN u
          ELSE [u EXCEPT !.obj = [w.obj EXCEPT ![i] = o]]
  BY <1>5, ContainersAre DEF RemovePoint, u
<1>7. /\ o \in Objects /\ o.isolated /\ ~o.inRoute
      /\ o.guid = w.obj[i].guid /\ o.pos = w.obj[i].pos
      /\ o.listed = w.obj[i].listed /\ o.shared = w.obj[i].shared
  BY <1>1 DEF Objects
<1> HIDE DEF o
<1>8. /\ v \in Worlds /\ v.pts = pts /\ v.look = w.look /\ Len(v.obj) = n
      /\ \A j \in 1..n : v.obj[j] = IF j = i /\ ~In(u, i) THEN o ELSE w.obj[j]
  <2> DEFINE b == [w.obj EXCEPT ![i] = o]
  <2>1. b \in [1..n -> Objects] /\ \A j \in 1..n : b[j] = IF j = i THEN o ELSE w.obj[j]
    BY <1>1, <1>7
  <2>2. v = IF In(u, i) THEN u ELSE [u EXCEPT !.obj = b]
    BY <1>6
  <2> HIDE DEF b, v
  <2>3. b \in Seq(Objects) /\ Len(b) = n
    BY <1>1, <2>1, FunctionSeq
  <2>4. CASE In(u, i)
    BY <1>5, <2>2, <2>4
  <2>5. CASE ~In(u, i)
    <3>1. v \in Worlds /\ v.pts = pts /\ v.look = w.look /\ v.obj = b
      BY <1>5, <2>2, <2>3, <2>5 DEF Worlds
    <3> QED
      BY <2>1, <2>3, <2>5, <3>1
  <2> QED
    BY <2>4, <2>5
<1> HIDE DEF v
<1>9. \A j : \A q \in Routes : On(v.pts, q, j) <=> On(w.pts, q, j) /\ (q \in rs => j # i)
  <2> SUFFICES ASSUME NEW j, NEW q \in Routes
               PROVE  On(v.pts, q, j) <=> On(w.pts, q, j) /\ (q \in rs => j # i)
    OBVIOUS
  <2>1. w.pts[q] \in Seq(Nat)
    BY <1>1
  <2>2. Has(Without(w.pts[q], i), j) <=> j # i /\ Has(w.pts[q], j)
    BY <2>1, WithoutElements
  <2> QED
    BY <1>3, <1>8, <2>2 DEF On
<1>10. \A j : In(u, j) <=> In(v, j)
  BY <1>5, <1>8 DEF In
<1>11. \A j : /\ In(v, j) => In(w, j)
              /\ In(w, j) /\ j # i => In(v, j)
  BY <1>9 DEF In
<1>12. FlagsOK(v)
  BY <1>7, <1>8, <1>10, <1>11 DEF Sound, FlagsOK
<1>13. Fits(v)
  <2> SUFFICES ASSUME NEW q \in Routes, NEW m \in 1..Len(v.pts[q])
               PROVE  v.pts[q][m] \in 1..n
    BY <1>8 DEF Fits
  <2>1. On(v.pts, q, v.pts[q][m])
    BY DEF On, Has
  <2>2. On(w.pts, q, v.pts[q][m])
    BY <1>9, <2>1
  <2> QED
    BY <2>2 DEF Sound, Fits, On, Has
<1>14. ASSUME NoneLost(w) PROVE NoneLost(v)
  BY <1>7, <1>8, <1>10, <1>11, <1>14 DEF NoneLost
<1> QED
  BY <1>3, <1>7, <1>8, <1>9, <1>10, <1>12, <1>13, <1>14 DEF v, Sound

(* A point leaves the list.                                                *)
LEMMA Unlisted ==
    ASSUME NEW w, Sound(w), NEW i \in 1..Len(w.obj)
    PROVE  LET v == RemoveRoutePoint(w, i) IN
           /\ Sound(v) /\ Len(v.obj) = Len(w.obj) /\ (NoneLost(w) => NoneLost(v))
           /\ v.pts = w.pts /\ v.look = w.look /\ ~v.obj[i].listed
           /\ v.obj[i].guid = w.obj[i].guid
           /\ \A j \in 1..Len(w.obj) : j # i => v.obj[j] = w.obj[j]
<1> DEFINE v == RemoveRoutePoint(w, i)
           n == Len(w.obj)
           o == [w.obj[i] EXCEPT !.listed = FALSE]
           b == [w.obj EXCEPT ![i] = o]
<1>1. w \in Worlds /\ n \in Nat /\ w.obj \in [1..n -> Objects]
  BY WorldTypes DEF Sound, Fits
<1>2. /\ o \in Objects /\ ~o.listed /\ o.isolated = w.obj[i].isolated
      /\ o.inRoute = w.obj[i].inRoute /\ o.guid = w.obj[i].guid
  BY <1>1 DEF Objects
<1>3. v = [w EXCEPT !.obj = b]
  BY <1>1 DEF RemoveRoutePoint, Worlds
<1> HIDE DEF o
<1>4. b \in [1..n -> Objects] /\ \A j \in 1..n : b[j] = IF j = i THEN o ELSE w.obj[j]
  BY <1>1, <1>2
<1> HIDE DEF b
<1>5. b \in Seq(Objects) /\ Len(b) = n
  BY <1>1, <1>4, FunctionSeq
<1>6. v \in Worlds /\ v.pts = w.pts /\ v.look = w.look /\ v.obj = b
  BY <1>1, <1>3, <1>5 DEF Worlds
<1> HIDE DEF v
<1>7. \A j : In(v, j) <=> In(w, j)
  BY <1>6 DEF In
<1>8. FlagsOK(v) /\ (NoneLost(w) => NoneLost(v))
  BY <1>2, <1>4, <1>5, <1>6, <1>7 DEF Sound, FlagsOK, NoneLost
<1>9. Fits(v)
  BY <1>5, <1>6 DEF Sound, Fits
<1> QED
  BY <1>2, <1>4, <1>5, <1>6, <1>8, <1>9 DEF v, Sound

(* A point is destroyed, and what that leaves of its routes.               *)
LEMMA PointDestroyed ==
    ASSUME NEW w, Sound(w), NEW i \in 1..Len(w.obj)
    PROVE  LET u == LeaveRoutes(w, i)
               v == DestroyWaypoint(w, i) IN
           /\ Sound(u) /\ Len(u.obj) = Len(w.obj)
           /\ Sound(v) /\ (NoneLost(w) => NoneLost(v))
           /\ NoneShort(w.pts) => NoneShort(v.pts)
<1> DEFINE rs == Containers(w, i)
           u == LeaveRoutes(w, i)
           ds == {r \in rs : Len(u.pts[r]) < 2}
           d == DropRoutes(u, ds)
           v == DestroyWaypoint(w, i)
<1>1. u = (IF rs = {} THEN w ELSE RemovePoint(w, rs, i)) /\ v = RemoveRoutePoint(d, i)
  BY DEF LeaveRoutes, DestroyWaypoint
<1> HIDE DEF rs, u
<1>2. /\ Sound(u) /\ Len(u.obj) = Len(w.obj) /\ (NoneLost(w) => NoneLost(u))
      /\ \A q \in Routes : q \notin rs => u.pts[q] = w.pts[q]
  BY <1>1, PointRemoved
<1>3. /\ Sound(d) /\ Len(d.obj) = Len(w.obj) /\ (NoneLost(w) => NoneLost(d))
      /\ \A q \in Routes : d.pts[q] = IF q \in ds THEN <<>> ELSE u.pts[q]
  BY <1>2, RoutesDropped
<1>4. \A q \in Routes : q \in ds <=> q \in rs /\ Len(u.pts[q]) < 2
  OBVIOUS
<1> HIDE DEF d, ds, v
<1>5. Sound(v) /\ (NoneLost(w) => NoneLost(v)) /\ v.pts = d.pts
  BY <1>1, <1>3, Unlisted
<1>6. ASSUME NoneShort(w.pts) PROVE NoneShort(v.pts)
  <2> SUFFICES ASSUME NEW q \in Routes PROVE Len(d.pts[q]) # 1
    BY <1>5 DEF NoneShort
  <2>1. CASE q \in ds
    BY <1>3, <2>1
  <2>2. CASE q \notin ds /\ q \in rs
    <3>1. Len(u.pts[q]) \in Nat /\ ~(Len(u.pts[q]) < 2)
      BY <1>2, <1>4, <2>2, WorldTypes DEF Sound, Fits
    <3>2. d.pts[q] = u.pts[q]
      BY <1>3, <2>2
    <3>3. \A k \in Nat : ~(k < 2) => k # 1
      OBVIOUS
    <3> QED
      BY <3>1, <3>2, <3>3
  <2>3. CASE q \notin ds /\ q \notin rs
    BY <1>2, <1>3, <1>6, <2>3 DEF NoneShort
  <2> QED
    BY <2>1, <2>2, <2>3
<1> QED
  BY <1>2, <1>5, <1>6 DEF u, v

-----------------------------------------------------------------------------
(* The document is loaded *)

LEMMA FirstNamed ==
    ASSUME NEW w \in Worlds, NEW g, Named(w, g) # {}
    PROVE  LET i == Existing(w, g) IN
           i \in 1..Len(w.obj) /\ w.obj[i].listed /\ w.obj[i].guid = g
<1>1. Named(w, g) \subseteq Nat /\ \A i \in Named(w, g) :
        i \in 1..Len(w.obj) /\ w.obj[i].listed /\ w.obj[i].guid = g
  BY WorldTypes DEF Named
<1>2. \E i \in Named(w, g) : \A j \in Named(w, g) : i <= j
  BY <1>1, LeastNumber
<1>3. Existing(w, g) \in Named(w, g)
  BY <1>2 DEF Existing
<1> QED
  BY <1>1, <1>3

LEMMA ObjectOf ==
    ASSUME NEW rec \in Recs
    PROVE  LET o == Object(rec) IN
           /\ o \in Objects /\ o.guid = rec.guid /\ o.listed /\ ~o.isolated /\ ~o.inRoute
           /\ [o EXCEPT !.isolated = TRUE] \in Objects /\ [o EXCEPT !.inRoute = TRUE] \in Objects
           /\ [o EXCEPT !.isolated = TRUE].isolated /\ ~[o EXCEPT !.isolated = TRUE].inRoute
           /\ ~[o EXCEPT !.inRoute = TRUE].isolated /\ o.shared = rec.shared /\ o.pos = rec.pos
           /\ [o EXCEPT !.inRoute = TRUE].shared = rec.shared
           /\ [o EXCEPT !.isolated = TRUE].guid = rec.guid /\ [o EXCEPT !.isolated = TRUE].listed
           /\ [o EXCEPT !.isolated = TRUE].pos = rec.pos
           /\ [o EXCEPT !.inRoute = TRUE].guid = rec.guid /\ [o EXCEPT !.inRoute = TRUE].listed
           /\ [o EXCEPT !.inRoute = TRUE].inRoute
BY DEF Object, Objects, Recs

(* The worlds that a loop goes through, from first to last: the marks of a *)
(* document, the points of one of its routes, its routes, the points that  *)
(* a route is given, the changes of a set, the clicks that draw a route.   *)
MarksRun(doc) ==
    \E f : /\ f[0] = Empty
           /\ \A k \in 1..Len(doc.marks) : f[k] = LoadMark(f[k - 1], doc.marks[k])
           /\ LoadMarks(doc) = f[Len(doc.marks)]
RouteRun(w, doc, r) ==
    \E f : /\ f[0] = w
           /\ \A k \in 1..Len(doc.routes[r]) : f[k] = LoadRoutePoint(f[k - 1], r, doc.routes[r][k])
           /\ LoadRoute(w, doc, r) = [f[Len(doc.routes[r])] EXCEPT !.look[r] = doc.look[r]]
DocumentRun(doc) ==
    \E f : /\ f[0] = LoadMarks(doc)
           /\ \A k \in 1..MaxRoutes : f[k] = LoadRoute(f[k - 1], doc, k)
           /\ LoadAllGPXObjects(doc) = f[MaxRoutes]
PointsRun(w, r, recs) ==
    \E f : /\ f[0] = w
           /\ \A k \in 1..Len(recs) : f[k] = PutPoint(f[k - 1], r, recs[k])
           /\ PutPoints(w, r, recs) = f[Len(recs)]
ChangesRun(w, l) ==
    \E f : /\ f[0] = w
           /\ \A k \in 1..Len(l) : f[k] = Apply(f[k - 1], l[k])
           /\ ApplyChanges(w, l) = f[Len(l)]
StopsRun(w, r, stops) ==
    \E f : /\ f[0] = w
           /\ \A k \in 1..Len(stops) : f[k] = Draw(f[k - 1], r, stops[k])
           /\ DrawThrough(w, r, stops) = f[Len(stops)]

LEMMA MarkLoaded ==
    ASSUME NEW w, Sound(w), NEW rec \in Recs
    PROVE  Sound(LoadMark(w, rec)) /\ LoadMark(w, rec).pts = w.pts
<1> DEFINE o == [Object(rec) EXCEPT !.isolated = TRUE]
<1>1. o \in Objects /\ ~o.inRoute
  BY ObjectOf
<1>2. LoadMark(w, rec) \in {w, AddRoutePoint(w, o)}
  BY DEF LoadMark
<1> HIDE DEF o
<1> QED
  BY <1>1, <1>2, ObjectAdded

LEMMA RoutePointLoaded ==
    ASSUME NEW w, Sound(w), NEW r \in Routes, NEW rec \in Recs
    PROVE  LET v == LoadRoutePoint(w, r, rec) IN
           /\ Sound(v) /\ Len(v.pts[r]) = Len(w.pts[r]) + 1
           /\ \A q \in Routes : q # r => v.pts[q] = w.pts[q]
<1> DEFINE v == LoadRoutePoint(w, r, rec)
<1>1. CASE Named(w, rec.guid) # {}
  <2>1. Existing(w, rec.guid) \in 1..Len(w.obj)
    BY <1>1, FirstNamed DEF Sound, Fits
  <2>2. v = AddPoint(w, r, Existing(w, rec.guid))
    BY <1>1 DEF LoadRoutePoint
  <2> QED
    BY <2>1, <2>2, PointAdded
<1>2. CASE Named(w, rec.guid) = {}
  <2> DEFINE u == AddRoutePoint(w, Object(rec))
             n == Len(w.obj)
  <2>1. Object(rec) \in Objects /\ ~Object(rec).isolated
    BY ObjectOf
  <2>2. Sound(u) /\ Len(u.obj) = n + 1 /\ u.pts = w.pts
    BY <2>1, ObjectAdded
  <2>3. v = AddPoint(u, r, n + 1)
    BY <1>2 DEF LoadRoutePoint
  <2>4. n + 1 \in 1..Len(u.obj)
    BY <2>2, WorldTypes DEF Sound, Fits
  <2> HIDE DEF u, v
  <2>5. /\ Sound(v) /\ Len(v.pts[r]) = Len(u.pts[r]) + 1
        /\ \A q \in Routes : q # r => v.pts[q] = u.pts[q]
    BY <2>2, <2>3, <2>4, PointAdded
  <2> QED
    BY <2>2, <2>5 DEF v
<1> QED
  BY <1>1, <1>2

LEMMA MarksLoaded ==
    ASSUME NEW doc \in Docs
    PROVE  /\ Sound(LoadMarks(doc)) /\ \A r \in Routes : LoadMarks(doc).pts[r] = <<>>
           /\ MarksRun(doc)
<1> DEFINE n == Len(doc.marks)
           V == [k \in 0..n |-> {v \in Worlds : Sound(v) /\ v.pts = Empty.pts}]
           a[k \in 0..n] == IF k = 0 THEN Empty ELSE LoadMark(a[k - 1], doc.marks[k])
           F == [k \in 1..n |-> [v \in V[k - 1] |-> LoadMark(v, doc.marks[k])]]
<1>1. n \in Nat /\ doc.marks \in Seq(Recs) /\ Empty \in V[0]
  <2>1. doc.marks \in Seq(Recs)
    BY DEF Docs
  <2>2. Empty \in Worlds /\ Sound(Empty)
    BY DEF Empty, Worlds, Sound, Fits, FlagsOK
  <2> QED
    BY <2>1, <2>2
<1>2. \A k \in 1..n : \A v \in V[k - 1] : LoadMark(v, doc.marks[k]) \in V[k]
  BY <1>1, MarkLoaded DEF Sound, Fits
<1>3. \A k \in 1..n : \A v \in V[k - 1] : F[k][v] = LoadMark(v, doc.marks[k])
  OBVIOUS
<1> HIDE DEF F, V, n
<1>4. Lead(F, V, n)
  BY <1>2, <1>3 DEF Lead
<1>5. PICK f : From(f, Empty, F, n) /\ Within(f, V, n)
  BY <1>1, <1>4, StepsExist
<1>6. \A k \in 0..n : k # 0 => k \in 1..n /\ f[k - 1] \in V[k - 1]
  BY <1>1, <1>5 DEF Within
<1>7. f = [k \in 0..n |-> IF k = 0 THEN Empty ELSE LoadMark(f[k - 1], doc.marks[k])]
  BY <1>3, <1>5, <1>6 DEF From
<1>8. a = [k \in 0..n |-> IF k = 0 THEN Empty ELSE LoadMark(a[k - 1], doc.marks[k])]
  BY <1>7
<1>9. LoadMarks(doc) = a[n]
  BY DEF LoadMarks, InTurn, n
<1> HIDE DEF a
<1>20. a[0] = Empty /\ \A k \in 1..n : a[k] = LoadMark(a[k - 1], doc.marks[k])
  BY <1>1, <1>8
<1>10. a[0] \in V[0] /\ \A k \in 1..n : a[k - 1] \in V[k - 1] => a[k] \in V[k]
  BY <1>1, <1>2, <1>20
<1>11. a[n] \in V[n]
  <2>1. Within(a, V, n)
    BY <1>1, <1>10, StaysWithin
  <2> QED
    BY <1>1, <2>1 DEF Within
<1>12. a[n] \in Worlds /\ Sound(a[n]) /\ a[n].pts = Empty.pts
  BY <1>1, <1>11 DEF V
<1>21. \E h : /\ h[0] = Empty /\ \A k \in 1..Len(doc.marks) : h[k] = LoadMark(h[k - 1], doc.marks[k])
              /\ LoadMarks(doc) = h[Len(doc.marks)]
  BY <1>9, <1>20 DEF n
<1> QED
  BY <1>21, <1>9, <1>12 DEF Empty, MarksRun

LEMMA RouteLoaded ==
    ASSUME NEW doc \in Docs, NEW w, Sound(w), NEW r \in Routes
    PROVE  LET v == LoadRoute(w, doc, r) IN
           /\ Sound(v) /\ Len(v.pts[r]) = Len(w.pts[r]) + Len(doc.routes[r])
           /\ \A q \in Routes : q # r => v.pts[q] = w.pts[q]
           /\ RouteRun(w, doc, r)
<1> DEFINE s == doc.routes[r]
           n == Len(s)
           V == [k \in 0..n |-> {v \in Worlds :
                  /\ Sound(v) /\ Len(v.pts[r]) = Len(w.pts[r]) + k
                  /\ \A q \in Routes : q # r => v.pts[q] = w.pts[q]}]
           a[k \in 0..n] == IF k = 0 THEN w ELSE LoadRoutePoint(a[k - 1], r, s[k])
           F == [k \in 1..n |-> [v \in V[k - 1] |-> LoadRoutePoint(v, r, s[k])]]
<1>1. n \in Nat /\ s \in Seq(Recs) /\ w \in V[0] /\ Len(w.pts[r]) \in Nat
  <2>1. s \in Seq(Recs)
    BY DEF Docs
  <2>2. w \in Worlds /\ Len(w.pts[r]) \in Nat
    BY WorldTypes DEF Sound, Fits
  <2> QED
    BY <2>1, <2>2
<1>2. \A k \in 1..n : \A v \in V[k - 1] : LoadRoutePoint(v, r, s[k]) \in V[k]
  <2> SUFFICES ASSUME NEW k \in 1..n, NEW v \in V[k - 1]
               PROVE  LoadRoutePoint(v, r, s[k]) \in V[k]
    OBVIOUS
  <2> DEFINE x == LoadRoutePoint(v, r, s[k])
  <2>1. s[k] \in Recs /\ k - 1 \in 0..n /\ k \in 0..n
    BY <1>1
  <2>2. Sound(v) /\ Len(v.pts[r]) = Len(w.pts[r]) + (k - 1)
        /\ \A q \in Routes : q # r => v.pts[q] = w.pts[q]
    BY <2>1
  <2>3. Sound(x) /\ Len(x.pts[r]) = Len(v.pts[r]) + 1
        /\ \A q \in Routes : q # r => x.pts[q] = v.pts[q]
    BY <2>1, <2>2, RoutePointLoaded
  <2>4. Len(x.pts[r]) = Len(w.pts[r]) + k
    BY <1>1, <2>1, <2>2, <2>3
  <2> HIDE DEF x
  <2> QED
    BY <2>1, <2>2, <2>3, <2>4 DEF x, Sound, Fits
<1>3. \A k \in 1..n : \A v \in V[k - 1] : F[k][v] = LoadRoutePoint(v, r, s[k])
  OBVIOUS
<1> HIDE DEF F, V, n, s
<1>4. Lead(F, V, n)
  BY <1>2, <1>3 DEF Lead
<1>5. PICK f : From(f, w, F, n) /\ Within(f, V, n)
  BY <1>1, <1>4, StepsExist
<1>6. \A k \in 0..n : k # 0 => k \in 1..n /\ f[k - 1] \in V[k - 1]
  BY <1>1, <1>5 DEF Within
<1>7. f = [k \in 0..n |-> IF k = 0 THEN w ELSE LoadRoutePoint(f[k - 1], r, s[k])]
  BY <1>3, <1>5, <1>6 DEF From
<1>8. a = [k \in 0..n |-> IF k = 0 THEN w ELSE LoadRoutePoint(a[k - 1], r, s[k])]
  BY <1>7
<1>9. LoadRoute(w, doc, r) = [a[n] EXCEPT !.look[r] = doc.look[r]]
  BY DEF LoadRoute, InTurn, n, s
<1> HIDE DEF a
<1>20. a[0] = w /\ \A k \in 1..n : a[k] = LoadRoutePoint(a[k - 1], r, s[k])
  BY <1>1, <1>8
<1>10. a[0] \in V[0] /\ \A k \in 1..n : a[k - 1] \in V[k - 1] => a[k] \in V[k]
  BY <1>1, <1>2, <1>20
<1>11. a[n] \in V[n]
  <2>1. Within(a, V, n)
    BY <1>1, <1>10, StaysWithin
  <2> QED
    BY <1>1, <2>1 DEF Within
<1>12. /\ Sound(a[n]) /\ Len(a[n].pts[r]) = Len(w.pts[r]) + n
       /\ \A q \in Routes : q # r => a[n].pts[q] = w.pts[q]
  BY <1>1, <1>11 DEF V
<1>13. a[n] \in Worlds /\ doc.look[r] \in 0..1
  BY <1>12 DEF Sound, Fits, Docs
<1> DEFINE u == a[n]
           v == [u EXCEPT !.look[r] = doc.look[r]]
<1>14. v \in Worlds /\ v.pts = u.pts /\ v.obj = u.obj
  BY <1>13 DEF Worlds
<1> HIDE DEF u, v
<1>15. \A j : In(v, j) <=> In(u, j)
  BY <1>14 DEF In
<1>16. Sound(v)
  BY <1>12, <1>14, <1>15 DEF Sound, Fits, FlagsOK, u
<1>17. LoadRoute(w, doc, r) = v /\ n = Len(doc.routes[r])
  BY <1>9 DEF u, v, n, s
<1>21. \E h : /\ h[0] = w /\ \A k \in 1..Len(doc.routes[r]) : h[k] = LoadRoutePoint(h[k - 1], r, doc.routes[r][k])
              /\ LoadRoute(w, doc, r) = [h[Len(doc.routes[r])] EXCEPT !.look[r] = doc.look[r]]
  BY <1>9, <1>20 DEF n, s
<1> QED
  BY <1>21, <1>12, <1>14, <1>16, <1>17 DEF u, RouteRun

LEMMA DocumentLoaded ==
    ASSUME NEW doc \in Docs, NoneShort(doc.routes)
    PROVE  LET v == LoadAllGPXObjects(doc) IN
           /\ Sound(v) /\ NoneShort(v.pts)
           /\ DocumentRun(doc)
<1> DEFINE s == [r \in Routes |-> r]
           w == LoadMarks(doc)
           n == Len(s)
           V == [k \in 0..n |-> {v \in Worlds :
                  Sound(v) /\ \A q \in Routes : IF q <= k THEN Len(v.pts[q]) # 1 ELSE v.pts[q] = <<>>}]
           a[k \in 0..n] == IF k = 0 THEN w ELSE LoadRoute(a[k - 1], doc, s[k])
           F == [k \in 1..n |-> [v \in V[k - 1] |-> LoadRoute(v, doc, s[k])]]
<1>0. MaxRoutes \in Nat /\ n = MaxRoutes /\ \A k \in 1..n : s[k] = k
  BY NavAssumption DEF Routes
<1>1. n \in Nat /\ w \in V[0]
  <2>1. Sound(w) /\ \A q \in Routes : w.pts[q] = <<>>
    BY MarksLoaded
  <2>2. \A q \in Routes : ~(q <= 0)
    BY DEF Routes
  <2> QED
    BY <1>0, <2>1, <2>2 DEF Sound, Fits
<1>2. \A k \in 1..n : \A v \in V[k - 1] : LoadRoute(v, doc, s[k]) \in V[k]
  <2> SUFFICES ASSUME NEW k \in 1..n, NEW v \in V[k - 1]
               PROVE  LoadRoute(v, doc, k) \in V[k]
    BY <1>0
  <2> DEFINE x == LoadRoute(v, doc, k)
  <2>1. k \in Routes /\ k - 1 \in 0..n /\ k \in 0..n /\ ~(k <= k - 1)
    BY <1>0 DEF Routes
  <2>2. Sound(v) /\ \A q \in Routes : IF q <= k - 1 THEN Len(v.pts[q]) # 1 ELSE v.pts[q] = <<>>
    BY <2>1
  <2>3. Sound(x) /\ Len(x.pts[k]) = Len(v.pts[k]) + Len(doc.routes[k])
        /\ \A q \in Routes : q # k => x.pts[q] = v.pts[q]
    BY <2>1, <2>2, RouteLoaded
  <2>4. v.pts[k] = <<>> /\ Len(doc.routes[k]) \in Nat /\ Len(doc.routes[k]) # 1
    BY <2>1, <2>2 DEF Docs, NoneShort
  <2>5. Len(x.pts[k]) # 1
    BY <2>3, <2>4
  <2>6. \A q \in Routes : q # k => (q <= k - 1 <=> q <= k)
    BY <2>1 DEF Routes
  <2>7. \A q \in Routes : IF q <= k THEN Len(x.pts[q]) # 1 ELSE x.pts[q] = <<>>
    <3> HIDE DEF x
    <3> SUFFICES ASSUME NEW q \in Routes
                 PROVE  IF q <= k THEN Len(x.pts[q]) # 1 ELSE x.pts[q] = <<>>
      OBVIOUS
    <3>1. CASE q = k
      BY <2>1, <2>5, <3>1
    <3>2. CASE q # k
      BY <2>2, <2>3, <2>6, <3>2
    <3> QED
      BY <3>1, <3>2
  <2> HIDE DEF x
  <2> QED
    BY <2>1, <2>3, <2>7 DEF x, Sound, Fits
<1>3. \A k \in 1..n : \A v \in V[k - 1] : F[k][v] = LoadRoute(v, doc, s[k])
  OBVIOUS
<1> HIDE DEF F, V, n, s, w
<1>4. Lead(F, V, n)
  BY <1>2, <1>3 DEF Lead
<1>5. PICK f : From(f, w, F, n) /\ Within(f, V, n)
  BY <1>1, <1>4, StepsExist
<1>6. \A k \in 0..n : k # 0 => k \in 1..n /\ f[k - 1] \in V[k - 1]
  BY <1>1, <1>5 DEF Within
<1>7. f = [k \in 0..n |-> IF k = 0 THEN w ELSE LoadRoute(f[k - 1], doc, s[k])]
  BY <1>3, <1>5, <1>6 DEF From
<1>8. a = [k \in 0..n |-> IF k = 0 THEN w ELSE LoadRoute(a[k - 1], doc, s[k])]
  BY <1>7
<1>9. LoadAllGPXObjects(doc) = a[n]
  BY DEF LoadAllGPXObjects, InTurn, n, s, w
<1> HIDE DEF a
<1>20. a[0] = w /\ \A k \in 1..n : a[k] = LoadRoute(a[k - 1], doc, s[k])
  BY <1>1, <1>8
<1>10. a[0] \in V[0] /\ \A k \in 1..n : a[k - 1] \in V[k - 1] => a[k] \in V[k]
  BY <1>1, <1>2, <1>20
<1>11. a[n] \in V[n]
  <2>1. Within(a, V, n)
    BY <1>1, <1>10, StaysWithin
  <2> QED
    BY <1>1, <2>1 DEF Within
<1>12. Sound(a[n]) /\ \A q \in Routes : IF q <= n THEN Len(a[n].pts[q]) # 1 ELSE a[n].pts[q] = <<>>
  BY <1>1, <1>11 DEF V
<1>13. \A q \in Routes : q <= n
  BY <1>0 DEF Routes
<1>21. \E h : /\ h[0] = LoadMarks(doc) /\ \A k \in 1..MaxRoutes : h[k] = LoadRoute(h[k - 1], doc, k)
              /\ LoadAllGPXObjects(doc) = h[MaxRoutes]
  BY <1>0, <1>9, <1>20 DEF w
<1> QED
  BY <1>21, <1>9, <1>12, <1>13 DEF NoneShort, DocumentRun

-----------------------------------------------------------------------------
(* The change set is applied *)

Changed(w, i, o) == [w EXCEPT !.obj[i] = o]

(* An object changes, but nothing that says where it belongs.              *)
LEMMA ObjectChanged ==
    ASSUME NEW w, Sound(w), NEW i \in 1..Len(w.obj), NEW o \in Objects,
           o.guid = w.obj[i].guid, o.listed = w.obj[i].listed,
           o.isolated = w.obj[i].isolated, o.inRoute = w.obj[i].inRoute
    PROVE  LET v == Changed(w, i, o) IN
           /\ Sound(v) /\ Len(v.obj) = Len(w.obj) /\ (NoneLost(w) => NoneLost(v))
           /\ v.pts = w.pts /\ v.look = w.look /\ v.obj[i] = o
           /\ \A j \in 1..Len(w.obj) : j # i => v.obj[j] = w.obj[j]
           /\ \A j \in 1..Len(w.obj) : /\ v.obj[j].guid = w.obj[j].guid
                                       /\ v.obj[j].listed = w.obj[j].listed
<1> DEFINE b == [w.obj EXCEPT ![i] = o]
           v == [w EXCEPT !.obj = b]
           n == Len(w.obj)
<1>1. w \in Worlds /\ n \in Nat /\ w.obj \in [1..n -> Objects]
  BY WorldTypes DEF Sound, Fits
<1>2. Changed(w, i, o) = v
  BY DEF Changed
<1>3. b \in [1..n -> Objects] /\ \A j \in 1..n : b[j] = IF j = i THEN o ELSE w.obj[j]
  BY <1>1
<1> HIDE DEF b
<1>4. b \in Seq(Objects) /\ Len(b) = n
  BY <1>1, <1>3, FunctionSeq
<1>5. v \in Worlds /\ v.pts = w.pts /\ v.look = w.look /\ v.obj = b
  BY <1>1, <1>4 DEF Worlds
<1> HIDE DEF v
<1>6. \A j : In(v, j) <=> In(w, j)
  BY <1>5 DEF In
<1>7. FlagsOK(v) /\ (NoneLost(w) => NoneLost(v))
  BY <1>3, <1>4, <1>5, <1>6 DEF Sound, FlagsOK, NoneLost
<1>8. Fits(v)
  BY <1>4, <1>5 DEF Sound, Fits
<1> QED
  BY <1>2, <1>3, <1>4, <1>5, <1>7, <1>8 DEF Sound

(* Who is named what does not change either.                               *)
LEMMA SameNames ==
    ASSUME NEW w \in Worlds, NEW v \in Worlds, Len(v.obj) = Len(w.obj),
           \A j \in 1..Len(w.obj) : /\ v.obj[j].guid = w.obj[j].guid
                                    /\ v.obj[j].listed = w.obj[j].listed
    PROVE  \A g : Named(v, g) = Named(w, g)
BY WorldTypes DEF Named

LEMMA PointPut ==
    ASSUME NEW w, Sound(w), NEW r \in Routes, NEW rec \in Recs, Named(w, rec.guid) # {}
    PROVE  LET v == PutPoint(w, r, rec) IN
           /\ Sound(v) /\ Len(v.pts[r]) = Len(w.pts[r]) + 1
           /\ \A q \in Routes : q # r => v.pts[q] = w.pts[q]
           /\ \A g : Named(v, g) = Named(w, g)
<1> DEFINE i == Existing(w, rec.guid)
           o == [w.obj[i] EXCEPT !.pos = rec.pos]
           u == Changed(w, i, o)
           v == PutPoint(w, r, rec)
<1>1. w \in Worlds /\ w.obj \in [1..Len(w.obj) -> Objects] /\ rec.pos \in 1..MaxVersion
  BY WorldTypes DEF Sound, Fits, Recs
<1>2. i \in 1..Len(w.obj)
  BY <1>1, FirstNamed
<1>3. v = AddPoint(u, r, i)
  BY DEF PutPoint, Changed
<1> HIDE DEF i, v
<1>4. w.obj[i] \in Objects
  BY <1>1, <1>2
<1>5. /\ o \in Objects /\ o.guid = w.obj[i].guid /\ o.listed = w.obj[i].listed
      /\ o.isolated = w.obj[i].isolated /\ o.inRoute = w.obj[i].inRoute
  BY <1>1, <1>4 DEF Objects
<1> HIDE DEF o
<1>6. /\ Sound(u) /\ Len(u.obj) = Len(w.obj) /\ u.pts = w.pts
      /\ \A j \in 1..Len(w.obj) : /\ u.obj[j].guid = w.obj[j].guid
                                  /\ u.obj[j].listed = w.obj[j].listed
  BY <1>2, <1>5, ObjectChanged
<1> HIDE DEF u
<1>7. /\ Sound(v) /\ Len(v.obj) = Len(u.obj) /\ Len(v.pts[r]) = Len(u.pts[r]) + 1
      /\ \A q \in Routes : q # r => v.pts[q] = u.pts[q]
      /\ \A j \in 1..Len(u.obj) : /\ v.obj[j].guid = u.obj[j].guid
                                  /\ v.obj[j].listed = u.obj[j].listed
  <2>1. Sound(u) /\ i \in 1..Len(u.obj)
    BY <1>2, <1>6
  <2> QED
    BY <1>3, <2>1, PointAdded
<1>8. \A g : Named(v, g) = Named(w, g)
  <2>1. v \in Worlds /\ Len(v.obj) = Len(w.obj)
    BY <1>6, <1>7 DEF Sound, Fits
  <2>2. \A j \in 1..Len(w.obj) : /\ v.obj[j].guid = w.obj[j].guid
                                 /\ v.obj[j].listed = w.obj[j].listed
    BY <1>6, <1>7
  <2> QED
    BY <1>1, <2>1, <2>2, SameNames
<1> QED
  BY <1>6, <1>7, <1>8 DEF v

LEMMA PointsPut ==
    ASSUME NEW w, Sound(w), NEW r \in Routes, NEW recs \in Seq(Recs),
           \A k \in 1..Len(recs) : Named(w, recs[k].guid) # {}
    PROVE  LET v == PutPoints(w, r, recs) IN
           /\ Sound(v) /\ Len(v.pts[r]) = Len(w.pts[r]) + Len(recs)
           /\ \A q \in Routes : q # r => v.pts[q] = w.pts[q]
           /\ PointsRun(w, r, recs)
<1> DEFINE n == Len(recs)
           V == [k \in 0..n |-> {v \in Worlds :
                  /\ Sound(v) /\ Len(v.pts[r]) = Len(w.pts[r]) + k
                  /\ \A q \in Routes : q # r => v.pts[q] = w.pts[q]
                  /\ \A g : Named(v, g) = Named(w, g)}]
           a[k \in 0..n] == IF k = 0 THEN w ELSE PutPoint(a[k - 1], r, recs[k])
           F == [k \in 1..n |-> [v \in V[k - 1] |-> PutPoint(v, r, recs[k])]]
<1>1. n \in Nat /\ w \in V[0] /\ Len(w.pts[r]) \in Nat
  <2>1. w \in Worlds /\ Len(w.pts[r]) \in Nat
    BY WorldTypes DEF Sound, Fits
  <2> QED
    BY <2>1
<1>2. \A k \in 1..n : \A v \in V[k - 1] : PutPoint(v, r, recs[k]) \in V[k]
  <2> SUFFICES ASSUME NEW k \in 1..n, NEW v \in V[k - 1]
               PROVE  PutPoint(v, r, recs[k]) \in V[k]
    OBVIOUS
  <2> DEFINE x == PutPoint(v, r, recs[k])
  <2>1. recs[k] \in Recs /\ k - 1 \in 0..n /\ k \in 0..n
    BY <1>1
  <2>2. /\ Sound(v) /\ Len(v.pts[r]) = Len(w.pts[r]) + (k - 1)
        /\ \A q \in Routes : q # r => v.pts[q] = w.pts[q]
        /\ \A g : Named(v, g) = Named(w, g)
    BY <2>1
  <2>3. Named(v, recs[k].guid) # {}
    BY <2>2
  <2>4. /\ Sound(x) /\ Len(x.pts[r]) = Len(v.pts[r]) + 1
        /\ \A q \in Routes : q # r => x.pts[q] = v.pts[q]
        /\ \A g : Named(x, g) = Named(v, g)
    BY <2>1, <2>2, <2>3, PointPut
  <2>5. Len(x.pts[r]) = Len(w.pts[r]) + k
    BY <1>1, <2>1, <2>2, <2>4
  <2> HIDE DEF x
  <2> QED
    BY <2>1, <2>2, <2>4, <2>5 DEF x, Sound, Fits
<1>3. \A k \in 1..n : \A v \in V[k - 1] : F[k][v] = PutPoint(v, r, recs[k])
  OBVIOUS
<1> HIDE DEF F, V, n
<1>4. Lead(F, V, n)
  BY <1>2, <1>3 DEF Lead
<1>5. PICK f : From(f, w, F, n) /\ Within(f, V, n)
  BY <1>1, <1>4, StepsExist
<1>6. \A k \in 0..n : k # 0 => k \in 1..n /\ f[k - 1] \in V[k - 1]
  BY <1>1, <1>5 DEF Within
<1>7. f = [k \in 0..n |-> IF k = 0 THEN w ELSE PutPoint(f[k - 1], r, recs[k])]
  BY <1>3, <1>5, <1>6 DEF From
<1>8. a = [k \in 0..n |-> IF k = 0 THEN w ELSE PutPoint(a[k - 1], r, recs[k])]
  BY <1>7
<1>9. PutPoints(w, r, recs) = a[n]
  BY DEF PutPoints, InTurn, n
<1> HIDE DEF a
<1>20. a[0] = w /\ \A k \in 1..n : a[k] = PutPoint(a[k - 1], r, recs[k])
  BY <1>1, <1>8
<1>10. a[0] \in V[0] /\ \A k \in 1..n : a[k - 1] \in V[k - 1] => a[k] \in V[k]
  BY <1>1, <1>2, <1>20
<1>11. a[n] \in V[n]
  <2>1. Within(a, V, n)
    BY <1>1, <1>10, StaysWithin
  <2> QED
    BY <1>1, <2>1 DEF Within
<1>12. /\ Sound(a[n]) /\ Len(a[n].pts[r]) = Len(w.pts[r]) + n
       /\ \A q \in Routes : q # r => a[n].pts[q] = w.pts[q]
  BY <1>1, <1>11 DEF V
<1>13. n = Len(recs)
  BY DEF n
<1>21. \E h : /\ h[0] = w /\ \A k \in 1..Len(recs) : h[k] = PutPoint(h[k - 1], r, recs[k])
              /\ PutPoints(w, r, recs) = h[Len(recs)]
  BY <1>9, <1>20 DEF n
<1> QED
  BY <1>21, <1>9, <1>12, <1>13 DEF PointsRun

(* Objects that are no marks enter the list together.                      *)
Joined(w, s) == [w EXCEPT !.obj = @ \o s]

LEMMA ObjectsAdded ==
    ASSUME NEW w, Sound(w), NEW s \in Seq(Objects), \A k \in 1..Len(s) : ~s[k].isolated
    PROVE  LET v == Joined(w, s)
               n == Len(w.obj) IN
           /\ Sound(v) /\ Len(v.obj) = n + Len(s) /\ v.pts = w.pts /\ v.look = w.look
           /\ \A j \in 1..n : v.obj[j] = w.obj[j]
           /\ \A j \in 1..Len(v.obj) : j \in 1..n \/ \E k \in 1..Len(s) : j = n + k
           /\ \A j : In(v, j) <=> In(w, j)
           /\ \A k \in 1..Len(s) : /\ ~In(v, n + k) /\ n + k \in 1..Len(v.obj)
                                   /\ v.obj[n + k] = s[k]
<1> DEFINE v == [w EXCEPT !.obj = w.obj \o s]
           n == Len(w.obj)
           m == Len(s)
<1>1. w \in Worlds /\ n \in Nat /\ w.obj \in Seq(Objects) /\ w.obj \in [1..n -> Objects]
  BY WorldTypes DEF Sound, Fits
<1>2. m \in Nat
  OBVIOUS
<1> HIDE DEF m
<1>5. /\ w.obj \o s \in Seq(Objects) /\ Len(w.obj \o s) = n + m
      /\ \A j \in 1..n : (w.obj \o s)[j] = w.obj[j]
      /\ \A k \in 1..m : (w.obj \o s)[n + k] = s[k]
  <2> DEFINE t == w.obj \o s
  <2>1. t \in Seq(Objects) /\ Len(t) = n + m
    BY <1>1, ConcatProperties DEF m
  <2>2. \A j \in 1..(n + m) : t[j] = IF j <= n THEN w.obj[j] ELSE s[j - n]
    BY <1>1, ConcatProperties DEF m
  <2>3. /\ \A j \in 1..n : j \in 1..(n + m) /\ j <= n
        /\ \A k \in 1..m : n + k \in 1..(n + m) /\ ~(n + k <= n) /\ (n + k) - n = k
    BY <1>1, <1>2
  <2> QED
    BY <2>1, <2>2, <2>3
<1>6. v \in Worlds /\ v.pts = w.pts /\ v.look = w.look /\ v.obj = w.obj \o s
  BY <1>1, <1>5 DEF Worlds
<1> DEFINE x == v
<1>7. /\ x \in Worlds /\ x.pts = w.pts /\ x.look = w.look /\ Len(x.obj) = n + m
      /\ \A j \in 1..n : x.obj[j] = w.obj[j]
      /\ \A k \in 1..m : x.obj[n + k] = s[k]
  BY <1>5, <1>6
<1> HIDE DEF x
<1>8. \A j : In(x, j) <=> In(w, j)
  BY <1>7 DEF In
<1>9. \A j : In(w, j) => j \in 1..n
  BY DEF Sound, Fits, In, On, Has
<1>10. \A j \in 1..(n + m) : j \in 1..n \/ \E k \in 1..m : j = n + k
  <2> SUFFICES ASSUME NEW j \in 1..(n + m), j \notin 1..n PROVE \E k \in 1..m : j = n + k
    OBVIOUS
  <2>1. j - n \in 1..m /\ j = n + (j - n)
    BY <1>1, <1>2
  <2> QED
    BY <2>1
<1>11. \A k \in 1..m : n + k \notin 1..n /\ n + k \in 1..(n + m)
  BY <1>1, <1>2
<1>12. FlagsOK(x)
  <2> SUFFICES ASSUME NEW j \in 1..(n + m)
               PROVE  /\ In(x, j) => x.obj[j].inRoute /\ ~x.obj[j].isolated
                      /\ x.obj[j].isolated => ~x.obj[j].inRoute
    BY <1>7 DEF FlagsOK
  <2>1. CASE j \in 1..n
    BY <1>7, <1>8, <2>1 DEF Sound, FlagsOK
  <2>2. CASE j \notin 1..n
    <3>1. PICK k \in 1..m : j = n + k
      BY <1>10, <2>2
    <3>2. ~x.obj[j].isolated
      BY <1>7, <3>1 DEF m
    <3>3. ~In(x, j)
      BY <1>8, <1>9, <2>2
    <3> QED
      BY <3>2, <3>3
  <2> QED
    BY <2>1, <2>2
<1>13. Fits(x)
  <2> SUFFICES ASSUME NEW r \in Routes, NEW k \in 1..Len(w.pts[r])
               PROVE  w.pts[r][k] \in 1..(n + m)
    BY <1>7 DEF Fits
  <2>1. w.pts[r][k] \in 1..n
    BY DEF Sound, Fits
  <2> QED
    BY <1>1, <1>2, <2>1
<1>14. \A k \in 1..m : ~In(x, n + k) /\ n + k \in 1..Len(x.obj) /\ x.obj[n + k] = s[k]
  BY <1>7, <1>8, <1>9, <1>11
<1> QED
  BY <1>7, <1>8, <1>10, <1>12, <1>13, <1>14 DEF x, m, Joined, Sound

(* The objects that a route record leaves in the list.                     *)
WithRecord(w, recs) ==
    [w EXCEPT !.obj = @ \o [k \in DOMAIN recs |-> [Object(recs[k]) EXCEPT !.inRoute = TRUE]]]

LEMMA RecordLoaded ==
    ASSUME NEW w, Sound(w), NEW recs \in Seq(Recs)
    PROVE  LET v == WithRecord(w, recs)
               n == Len(w.obj) IN
           /\ Sound(v) /\ Len(v.obj) = n + Len(recs) /\ v.pts = w.pts /\ v.look = w.look
           /\ \A j \in 1..n : v.obj[j] = w.obj[j]
           /\ \A j \in 1..Len(v.obj) : j \in 1..n \/ \E k \in 1..Len(recs) : j = n + k
           /\ \A j : In(v, j) <=> In(w, j)
           /\ \A k \in 1..Len(recs) : /\ ~In(v, n + k) /\ n + k \in 1..Len(v.obj)
                                      /\ v.obj[n + k].listed
                                      /\ v.obj[n + k].guid = recs[k].guid
                                      /\ v.obj[n + k].shared = recs[k].shared
                                      /\ ~v.obj[n + k].isolated /\ v.obj[n + k].inRoute
<1> DEFINE loaded == [k \in DOMAIN recs |-> [Object(recs[k]) EXCEPT !.inRoute = TRUE]]
           v == Joined(w, loaded)
           m == Len(recs)
<1>1. m \in Nat /\ DOMAIN recs = 1..m /\ \A k \in 1..m : recs[k] \in Recs
  OBVIOUS
<1>2. \A k \in 1..m : /\ loaded[k] \in Objects /\ loaded[k].listed /\ ~loaded[k].isolated
                      /\ loaded[k].guid = recs[k].guid /\ loaded[k].shared = recs[k].shared
                      /\ loaded[k].inRoute
  <2> SUFFICES ASSUME NEW k \in 1..m
               PROVE  /\ loaded[k] \in Objects /\ loaded[k].listed /\ ~loaded[k].isolated
                      /\ loaded[k].guid = recs[k].guid /\ loaded[k].shared = recs[k].shared
                      /\ loaded[k].inRoute
    OBVIOUS
  <2>1. loaded[k] = [Object(recs[k]) EXCEPT !.inRoute = TRUE]
    BY <1>1
  <2> QED
    BY <1>1, <2>1, ObjectOf
<1>3. loaded \in Seq(Objects) /\ Len(loaded) = m
  <2>1. loaded \in [1..m -> Objects]
    BY <1>1, <1>2
  <2> HIDE DEF loaded
  <2> QED
    BY <1>1, <2>1, FunctionSeq
<1>4. WithRecord(w, recs) = v
  BY Zenon DEF WithRecord, Joined
<1> HIDE DEF loaded, v, m
<1>5. \A k \in 1..Len(loaded) : ~loaded[k].isolated
  BY <1>2, <1>3
<1>6. /\ Sound(v) /\ Len(v.obj) = Len(w.obj) + m /\ v.pts = w.pts /\ v.look = w.look
      /\ \A j \in 1..Len(w.obj) : v.obj[j] = w.obj[j]
      /\ \A j \in 1..Len(v.obj) : j \in 1..Len(w.obj) \/ \E k \in 1..m : j = Len(w.obj) + k
      /\ \A j : In(v, j) <=> In(w, j)
      /\ \A k \in 1..m : /\ ~In(v, Len(w.obj) + k) /\ Len(w.obj) + k \in 1..Len(v.obj)
                         /\ v.obj[Len(w.obj) + k] = loaded[k]
  BY <1>3, <1>5, ObjectsAdded DEF v
<1> QED
  BY <1>2, <1>4, <1>6 DEF m

LEMMA ChangeTypes ==
    ASSUME NEW c \in Changes
    PROVE  /\ c.kind = "wpt" => c.action \in Actions /\ c.pts[1] \in Recs
           /\ c.kind # "wpt" => c.guid \in Routes /\ c.pts \in Seq(Recs)
<1>1. CASE c \in [kind : {"wpt"}, action : Actions, guid : 1..MaxPoints, pts : [1..1 -> Recs]]
  <2>1. c.kind = "wpt" /\ c.action \in Actions /\ c.pts \in [1..1 -> Recs]
    BY <1>1
  <2>2. 1 \in 1..1
    OBVIOUS
  <2> QED
    BY <2>1, <2>2
<1>2. CASE c \in [kind : {"rte"}, action : Actions, guid : Routes, pts : Seq(Recs)]
  BY <1>2
<1> QED
  BY <1>1, <1>2 DEF Changes

LEMMA MarkApplied ==
    ASSUME NEW w, Sound(w), NoneShort(w.pts), NEW c \in Changes, c.kind = "wpt"
    PROVE  LET v == ApplyWpt(w, c) IN Sound(v) /\ NoneShort(v.pts)
<1> DEFINE mark == [Object(c.pts[1]) EXCEPT !.isolated = TRUE]
           old == Existing(w, c.guid)
           v == ApplyWpt(w, c)
<1>1. c.action \in Actions /\ mark \in Objects /\ ~mark.inRoute
  BY ChangeTypes, ObjectOf
<1>2. Named(w, c.guid) # {} => old \in 1..Len(w.obj)
  BY FirstNamed DEF Sound, Fits
<1>3. /\ c.action = "add" => v \in {w, AddRoutePoint(w, mark)}
      /\ c.action = "update" =>
            v = AddRoutePoint(IF Named(w, c.guid) # {} THEN RemoveRoutePoint(w, old) ELSE w, mark)
      /\ c.action = "delete" => v = IF Named(w, c.guid) # {} THEN DestroyWaypoint(w, old) ELSE w
  BY DEF ApplyWpt
<1> HIDE DEF mark, old, v
<1>4. c.action = "add" => Sound(v) /\ NoneShort(v.pts)
  BY <1>1, <1>3, ObjectAdded
<1>5. ASSUME c.action = "update" PROVE Sound(v) /\ NoneShort(v.pts)
  <2> DEFINE u == IF Named(w, c.guid) # {} THEN RemoveRoutePoint(w, old) ELSE w
  <2>1. Sound(u) /\ u.pts = w.pts
    BY <1>2, Unlisted
  <2>2. v = AddRoutePoint(u, mark)
    BY <1>3, <1>5
  <2> HIDE DEF u
  <2> QED
    BY <1>1, <2>1, <2>2, ObjectAdded
<1>6. c.action = "delete" => Sound(v) /\ NoneShort(v.pts)
  BY <1>2, <1>3, PointDestroyed
<1> QED
  BY <1>1, <1>4, <1>5, <1>6 DEF Actions, v

LEMMA RouteApplied ==
    ASSUME NEW w, Sound(w), NoneShort(w.pts), NEW c \in Changes, c.kind # "wpt"
    PROVE  LET v == ApplyRte(w, c) IN Sound(v) /\ NoneShort(v.pts)
<1> DEFINE recs == c.pts
           r == c.guid
           u == WithRecord(w, recs)
           d == DropRoute(u, r)
           n == Len(w.obj)
           v == ApplyRte(w, c)
<1>1. r \in Routes /\ recs \in Seq(Recs)
  BY ChangeTypes
<1>2. v \in {d, u, PutPoints(d, r, recs)} /\ (v = PutPoints(d, r, recs) => v \in {d, u} \/ ~(Len(recs) < 2))
  BY DEF ApplyRte, UpdateRouteA, WithRecord
<1> HIDE DEF recs, r
<1>3. /\ Sound(u) /\ Len(u.obj) = n + Len(recs) /\ u.pts = w.pts
      /\ \A k \in 1..Len(recs) : /\ ~In(u, n + k) /\ n + k \in 1..Len(u.obj)
                                 /\ u.obj[n + k].listed
                                 /\ u.obj[n + k].guid = recs[k].guid
  BY <1>1, RecordLoaded
<1> HIDE DEF u, n, v
<1>4. /\ Sound(d) /\ Len(d.obj) = Len(u.obj)
      /\ \A q \in Routes : d.pts[q] = IF q \in {r} THEN <<>> ELSE u.pts[q]
      /\ \A j \in 1..Len(u.obj) : ~In(u, j) => d.obj[j] = u.obj[j]
  BY <1>3, RoutesDropped DEF DropRoute
<1> HIDE DEF d
<1>5. NoneShort(u.pts) /\ NoneShort(d.pts)
  <2>1. \A q \in Routes : d.pts[q] = <<>> \/ d.pts[q] = w.pts[q]
    BY <1>3, <1>4
  <2>2. Len(<<>>) # 1
    OBVIOUS
  <2> QED
    BY <1>3, <2>1, <2>2 DEF NoneShort
<1>6. ASSUME v = PutPoints(d, r, recs), ~(Len(recs) < 2)
      PROVE  Sound(v) /\ NoneShort(v.pts)
  <2>1. \A k \in 1..Len(recs) : Named(d, recs[k].guid) # {}
    <3> SUFFICES ASSUME NEW k \in 1..Len(recs) PROVE n + k \in Named(d, recs[k].guid)
      OBVIOUS
    <3>1. /\ n + k \in 1..Len(d.obj) /\ d.obj[n + k].listed
          /\ d.obj[n + k].guid = recs[k].guid
      BY <1>3, <1>4
    <3>2. DOMAIN d.obj = 1..Len(d.obj)
      BY <1>4, WorldTypes DEF Sound, Fits
    <3> QED
      BY <3>1, <3>2 DEF Named
  <2>2. /\ Sound(v) /\ Len(v.pts[r]) = Len(d.pts[r]) + Len(recs)
        /\ \A q \in Routes : q # r => v.pts[q] = d.pts[q]
    BY <1>1, <1>4, <1>6, <2>1, PointsPut
  <2>3. Len(d.pts[r]) = 0 /\ Len(recs) \in Nat
    BY <1>1, <1>4
  <2>4. \A k \in Nat : ~(k < 2) => 0 + k # 1
    OBVIOUS
  <2>5. Len(v.pts[r]) # 1
    BY <1>6, <2>2, <2>3, <2>4
  <2> QED
    BY <1>5, <2>2, <2>5 DEF NoneShort
<1> QED
  BY <1>2, <1>3, <1>4, <1>5, <1>6 DEF v

LEMMA ChangesApplied ==
    ASSUME NEW w, Sound(w), NoneShort(w.pts), NEW l \in Seq(Changes)
    PROVE  LET v == ApplyChanges(w, l) IN
           /\ Sound(v) /\ NoneShort(v.pts)
           /\ ChangesRun(w, l)
<1> DEFINE n == Len(l)
           V == [k \in 0..n |-> {v \in Worlds : Sound(v) /\ NoneShort(v.pts)}]
           a[k \in 0..n] == IF k = 0 THEN w ELSE Apply(a[k - 1], l[k])
           F == [k \in 1..n |-> [v \in V[k - 1] |-> Apply(v, l[k])]]
<1>1. n \in Nat /\ w \in V[0]
  BY DEF Sound, Fits
<1>2. \A k \in 1..n : \A v \in V[k - 1] : Apply(v, l[k]) \in V[k]
  <2> SUFFICES ASSUME NEW k \in 1..n, NEW v \in V[k - 1]
               PROVE  Apply(v, l[k]) \in V[k]
    OBVIOUS
  <2> DEFINE x == Apply(v, l[k])
  <2>1. l[k] \in Changes /\ k - 1 \in 0..n /\ k \in 0..n
    BY <1>1
  <2>2. Sound(v) /\ NoneShort(v.pts)
    BY <2>1
  <2>3. x = IF l[k].kind = "wpt" THEN ApplyWpt(v, l[k]) ELSE ApplyRte(v, l[k])
    BY DEF Apply
  <2>4. Sound(x) /\ NoneShort(x.pts)
    BY <2>1, <2>2, <2>3, MarkApplied, RouteApplied
  <2> HIDE DEF x
  <2> QED
    BY <2>1, <2>4 DEF x, Sound, Fits
<1>3. \A k \in 1..n : \A v \in V[k - 1] : F[k][v] = Apply(v, l[k])
  OBVIOUS
<1> HIDE DEF F, V, n
<1>4. Lead(F, V, n)
  BY <1>2, <1>3 DEF Lead
<1>5. PICK f : From(f, w, F, n) /\ Within(f, V, n)
  BY <1>1, <1>4, StepsExist
<1>6. \A k \in 0..n : k # 0 => k \in 1..n /\ f[k - 1] \in V[k - 1]
  BY <1>1, <1>5 DEF Within
<1>7. f = [k \in 0..n |-> IF k = 0 THEN w ELSE Apply(f[k - 1], l[k])]
  BY <1>3, <1>5, <1>6 DEF From
<1>8. a = [k \in 0..n |-> IF k = 0 THEN w ELSE Apply(a[k - 1], l[k])]
  BY <1>7
<1>9. ApplyChanges(w, l) = a[n]
  BY DEF ApplyChanges, InTurn, n
<1> HIDE DEF a
<1>20. a[0] = w /\ \A k \in 1..n : a[k] = Apply(a[k - 1], l[k])
  BY <1>1, <1>8
<1>10. a[0] \in V[0] /\ \A k \in 1..n : a[k - 1] \in V[k - 1] => a[k] \in V[k]
  BY <1>1, <1>2, <1>20
<1>11. a[n] \in V[n]
  <2>1. Within(a, V, n)
    BY <1>1, <1>10, StaysWithin
  <2> QED
    BY <1>1, <2>1 DEF Within
<1>12. Sound(a[n]) /\ NoneShort(a[n].pts)
  BY <1>1, <1>11 DEF V
<1>21. \E h : /\ h[0] = w /\ \A k \in 1..Len(l) : h[k] = Apply(h[k - 1], l[k])
              /\ ApplyChanges(w, l) = h[Len(l)]
  BY <1>9, <1>20 DEF n
<1> QED
  BY <1>21, <1>9, <1>12 DEF ChangesRun

-----------------------------------------------------------------------------
(* Whatever is loaded and replayed, a listed object is flagged in-route or  *)
(* is an isolated mark                                                      *)

Accounted(o) == o.listed => o.isolated \/ o.inRoute
Flagged(w) == \A i \in 1..Len(w.obj) : Accounted(w.obj[i])

LEMMA AddedFlagged ==
    ASSUME NEW w, Sound(w), Flagged(w), NEW o \in Objects, o.isolated <=> ~o.inRoute
    PROVE  Flagged(AddRoutePoint(w, o))
<1> DEFINE v == AddRoutePoint(w, o)
           n == Len(w.obj)
<1>1. /\ n \in Nat /\ Len(v.obj) = n + 1 /\ v.obj[n + 1] = o
      /\ \A j \in 1..n : v.obj[j] = w.obj[j]
  BY ObjectAdded, WorldTypes DEF Sound, Fits
<1> HIDE DEF v, n
<1>2. \A j \in 1..(n + 1) : j \in 1..n \/ j = n + 1
  BY <1>1
<1>3. \A j \in 1..n : Accounted(w.obj[j])
  BY DEF Flagged, n
<1>4. Accounted(o)
  BY DEF Accounted
<1> QED
  BY <1>1, <1>2, <1>3, <1>4 DEF Flagged, v

LEMMA JoinedFlagged ==
    ASSUME NEW w, Sound(w), NEW r \in Routes, NEW i \in 1..Len(w.obj),
           \A j \in 1..Len(w.obj) : j # i => Accounted(w.obj[j])
    PROVE  Flagged(AddPoint(w, r, i))
<1> DEFINE v == AddPoint(w, r, i)
<1>1. /\ Sound(v) /\ Len(v.obj) = Len(w.obj) /\ In(v, i)
      /\ \A j \in 1..Len(w.obj) : j # i => v.obj[j] = w.obj[j]
  BY PointAdded
<1> HIDE DEF v
<1>2. v.obj[i].inRoute
  BY <1>1 DEF Sound, FlagsOK
<1>3. \A j \in 1..Len(w.obj) : Accounted(v.obj[j])
  BY <1>1, <1>2 DEF Accounted
<1> QED
  BY <1>1, <1>3 DEF Flagged, v

LEMMA DroppedFlagged ==
    ASSUME NEW w, Sound(w), Flagged(w), NEW rs
    PROVE  Flagged(DropRoutes(w, rs))
<1> DEFINE v == DropRoutes(w, rs)
<1>1. /\ Len(v.obj) = Len(w.obj)
      /\ \A j \in 1..Len(w.obj) :
           IF In(w, j) /\ ~In(v, j)
           THEN /\ v.obj[j].guid = w.obj[j].guid /\ v.obj[j].pos = w.obj[j].pos
                /\ v.obj[j].listed <=> w.obj[j].listed /\ w.obj[j].shared
                /\ v.obj[j].isolated <=> w.obj[j].shared
           ELSE v.obj[j] = w.obj[j]
  BY RoutesDropped
<1> HIDE DEF v
<1>2. \A j \in 1..Len(w.obj) : Accounted(v.obj[j])
  BY <1>1 DEF Flagged, Accounted
<1> QED
  BY <1>1, <1>2 DEF Flagged, v

LEMMA RemovedFlagged ==
    ASSUME NEW w, Sound(w), Flagged(w), NEW rs, NEW i \in 1..Len(w.obj)
    PROVE  Flagged(RemovePoint(w, rs, i))
<1> DEFINE v == RemovePoint(w, rs, i)
<1>1. /\ Len(v.obj) = Len(w.obj) /\ (~In(v, i) => v.obj[i].isolated)
      /\ \A j \in 1..Len(w.obj) : j # i \/ In(v, i) => v.obj[j] = w.obj[j]
  BY PointRemoved
<1> HIDE DEF v
<1>2. \A j \in 1..Len(w.obj) : Accounted(v.obj[j])
  BY <1>1 DEF Flagged, Accounted
<1> QED
  BY <1>1, <1>2 DEF Flagged, v

LEMMA UnlistedFlagged ==
    ASSUME NEW w, Sound(w), Flagged(w), NEW i \in 1..Len(w.obj)
    PROVE  Flagged(RemoveRoutePoint(w, i))
<1> DEFINE v == RemoveRoutePoint(w, i)
<1>1. /\ Len(v.obj) = Len(w.obj) /\ ~v.obj[i].listed
      /\ \A j \in 1..Len(w.obj) : j # i => v.obj[j] = w.obj[j]
  BY Unlisted
<1> HIDE DEF v
<1>2. \A j \in 1..Len(w.obj) : Accounted(v.obj[j])
  BY <1>1 DEF Flagged, Accounted
<1> QED
  BY <1>1, <1>2 DEF Flagged, v

LEMMA DestroyedFlagged ==
    ASSUME NEW w, Sound(w), Flagged(w), NEW i \in 1..Len(w.obj)
    PROVE  Flagged(DestroyWaypoint(w, i))
<1> DEFINE u == LeaveRoutes(w, i)
           ds == {r \in Containers(w, i) : Len(u.pts[r]) < 2}
           d == DropRoutes(u, ds)
<1>1. DestroyWaypoint(w, i) = RemoveRoutePoint(d, i)
  BY DEF DestroyWaypoint
<1>2. u \in {w, RemovePoint(w, Containers(w, i), i)}
  BY DEF LeaveRoutes
<1>3. Sound(u) /\ Flagged(u) /\ Len(u.obj) = Len(w.obj)
  BY <1>2, RemovedFlagged, PointRemoved
<1> HIDE DEF u, ds
<1>4. Sound(d) /\ Flagged(d) /\ Len(d.obj) = Len(u.obj)
  BY <1>3, RoutesDropped, DroppedFlagged
<1> HIDE DEF d
<1> QED
  BY <1>1, <1>3, <1>4, UnlistedFlagged

LEMMA MarkFlagged ==
    ASSUME NEW w, Sound(w), Flagged(w), NEW rec \in Recs
    PROVE  Flagged(LoadMark(w, rec))
<1> DEFINE o == [Object(rec) EXCEPT !.isolated = TRUE]
<1>1. o \in Objects /\ ~o.inRoute /\ o.isolated
  BY ObjectOf
<1>2. LoadMark(w, rec) \in {w, AddRoutePoint(w, o)}
  BY DEF LoadMark
<1> HIDE DEF o
<1> QED
  BY <1>1, <1>2, AddedFlagged

(* The object that a route takes in may be one that nobody flagged yet.     *)
LEMMA NewcomerFlagged ==
    ASSUME NEW w, Sound(w), Flagged(w), NEW r \in Routes, NEW o \in Objects, ~o.isolated
    PROVE  Flagged(AddPoint(AddRoutePoint(w, o), r, Len(w.obj) + 1))
<1> DEFINE u == AddRoutePoint(w, o)
           n == Len(w.obj)
           z == n + 1
<1>1. /\ n \in Nat /\ Sound(u) /\ Len(u.obj) = n + 1
      /\ \A j \in 1..n : u.obj[j] = w.obj[j]
  BY ObjectAdded, WorldTypes DEF Sound, Fits
<1> HIDE DEF u
<1>2. \A j \in 1..n : Accounted(w.obj[j])
  BY DEF Flagged
<1> HIDE DEF n
<1>3. z \in 1..Len(u.obj) /\ \A j \in 1..Len(u.obj) : j # z => j \in 1..n
  BY <1>1
<1> HIDE DEF z
<1>4. \A j \in 1..Len(u.obj) : j # z => Accounted(u.obj[j])
  BY <1>1, <1>2, <1>3
<1>5. Flagged(AddPoint(u, r, z))
  BY <1>1, <1>3, <1>4, JoinedFlagged
<1> QED
  BY <1>5 DEF u, n, z

LEMMA RoutePointFlagged ==
    ASSUME NEW w, Sound(w), Flagged(w), NEW r \in Routes, NEW rec \in Recs
    PROVE  Flagged(LoadRoutePoint(w, r, rec))
<1>1. CASE Named(w, rec.guid) # {}
  <2>1. Existing(w, rec.guid) \in 1..Len(w.obj)
    BY <1>1, FirstNamed DEF Sound, Fits
  <2>2. LoadRoutePoint(w, r, rec) = AddPoint(w, r, Existing(w, rec.guid))
    BY <1>1 DEF LoadRoutePoint
  <2> QED
    BY <2>1, <2>2, JoinedFlagged DEF Flagged
<1>2. CASE Named(w, rec.guid) = {}
  <2>1. Object(rec) \in Objects /\ ~Object(rec).isolated
    BY ObjectOf
  <2>2. LoadRoutePoint(w, r, rec) = AddPoint(AddRoutePoint(w, Object(rec)), r, Len(w.obj) + 1)
    BY <1>2 DEF LoadRoutePoint
  <2> QED
    BY <2>1, <2>2, NewcomerFlagged
<1> QED
  BY <1>1, <1>2

(* The worlds of which all that was said here holds.                        *)
Neat == {v \in Worlds : Sound(v) /\ Flagged(v)}

LEMMA NeatRun ==
    ASSUME NEW n \in Nat, NEW f, f[0] \in Neat, \A k \in 1..n : f[k - 1] \in Neat => f[k] \in Neat
    PROVE  f[n] \in Neat
<1> DEFINE V == [k \in 0..n |-> Neat]
<1>1. \A k \in 0..n : V[k] = Neat
  OBVIOUS
<1>2. \A k \in 1..n : k \in 0..n /\ k - 1 \in 0..n
  OBVIOUS
<1>3. 0 \in 0..n /\ n \in 0..n
  OBVIOUS
<1> HIDE DEF V
<1>4. f[0] \in V[0] /\ \A k \in 1..n : f[k - 1] \in V[k - 1] => f[k] \in V[k]
  BY <1>1, <1>2, <1>3
<1>5. Within(f, V, n)
  BY <1>4, StaysWithin
<1> QED
  BY <1>1, <1>3, <1>5 DEF Within

LEMMA NeatIs == \A v : v \in Neat <=> Sound(v) /\ Flagged(v)
BY DEF Neat, Sound, Fits

LEMMA MarksNeat == ASSUME NEW doc \in Docs PROVE LoadMarks(doc) \in Neat
<1> DEFINE n == Len(doc.marks)
<1>1. n \in Nat /\ \A k \in 1..n : doc.marks[k] \in Recs
  BY DEF Docs
<1>2. PICK f : /\ f[0] = Empty
               /\ \A k \in 1..n : f[k] = LoadMark(f[k - 1], doc.marks[k])
               /\ LoadMarks(doc) = f[n]
  BY MarksLoaded DEF MarksRun
<1>3. Empty \in Neat
  <2>1. Sound(Empty) /\ Len(Empty.obj) = 0
    BY DEF Empty, Worlds, Sound, Fits, FlagsOK
  <2> QED
    BY <2>1, NeatIs DEF Flagged
<1> HIDE DEF n
<1>4. \A k \in 1..n : f[k - 1] \in Neat => f[k] \in Neat
  BY <1>1, <1>2, NeatIs, MarkLoaded, MarkFlagged
<1> QED
  BY <1>1, <1>2, <1>3, <1>4, NeatRun

LEMMA RouteNeat ==
    ASSUME NEW doc \in Docs, NEW w \in Neat, NEW r \in Routes
    PROVE  LoadRoute(w, doc, r) \in Neat
<1> DEFINE s == doc.routes[r]
           n == Len(s)
<1>1. n \in Nat /\ \A k \in 1..n : s[k] \in Recs
  <2>1. s \in Seq(Recs)
    BY DEF Docs
  <2> QED
    BY <2>1
<1>0. Sound(w)
  BY NeatIs
<1> DEFINE Dressed(u) == [u EXCEPT !.look[r] = doc.look[r]]
<1>2. PICK f : /\ f[0] = w
               /\ \A k \in 1..n : f[k] = LoadRoutePoint(f[k - 1], r, s[k])
               /\ LoadRoute(w, doc, r) = Dressed(f[n])
  <2>1. RouteRun(w, doc, r)
    BY <1>0, RouteLoaded
  <2> QED
    BY <2>1, Zenon DEF RouteRun
<1>3. \A u \in Worlds : Dressed(u).obj = u.obj
  <2>1. \A u \in Worlds : \A x : [u EXCEPT !.look = x].obj = u.obj
    BY DEF Worlds
  <2> QED
    BY <2>1, Zenon
<1> HIDE DEF s, n, Dressed
<1>4. ASSUME NEW k \in 1..n, f[k - 1] \in Neat PROVE f[k] \in Neat
  BY <1>1, <1>2, <1>4, NeatIs, RoutePointLoaded, RoutePointFlagged
<1>5. f[n] \in Neat
  BY <1>1, <1>2, <1>4, NeatRun
<1>6. Sound(Dressed(f[n]))
  BY <1>0, <1>2, RouteLoaded
<1>7. Dressed(f[n]).obj = f[n].obj /\ Flagged(f[n])
  BY <1>3, <1>5, NeatIs DEF Neat
<1>8. Flagged(Dressed(f[n]))
  BY <1>7 DEF Flagged
<1> QED
  BY <1>2, <1>6, <1>8, NeatIs

LEMMA DocumentNeat ==
    ASSUME NEW doc \in Docs, NoneShort(doc.routes)
    PROVE  LoadAllGPXObjects(doc) \in Neat
<1>1. MaxRoutes \in Nat /\ \A k \in 1..MaxRoutes : k \in Routes
  BY NavAssumption DEF Routes
<1>2. PICK f : /\ f[0] = LoadMarks(doc)
               /\ \A k \in 1..MaxRoutes : f[k] = LoadRoute(f[k - 1], doc, k)
               /\ LoadAllGPXObjects(doc) = f[MaxRoutes]
  BY DocumentLoaded DEF DocumentRun
<1>3. f[0] \in Neat /\ \A k \in 1..MaxRoutes : f[k - 1] \in Neat => f[k] \in Neat
  BY <1>1, <1>2, MarksNeat, RouteNeat
<1> QED
  BY <1>1, <1>2, <1>3, NeatRun

LEMMA PutFlagged ==
    ASSUME NEW w, Sound(w), Flagged(w), NEW r \in Routes, NEW rec \in Recs,
           Named(w, rec.guid) # {}
    PROVE  Flagged(PutPoint(w, r, rec))
<1> DEFINE i == Existing(w, rec.guid)
           o == [w.obj[i] EXCEPT !.pos = rec.pos]
           u == Changed(w, i, o)
<1>1. w \in Worlds /\ w.obj \in [1..Len(w.obj) -> Objects] /\ rec.pos \in 1..MaxVersion
  BY WorldTypes DEF Sound, Fits, Recs
<1>2. i \in 1..Len(w.obj)
  BY <1>1, FirstNamed
<1>3. PutPoint(w, r, rec) = AddPoint(u, r, i)
  BY DEF PutPoint, Changed
<1> HIDE DEF i
<1>4. w.obj[i] \in Objects
  BY <1>1, <1>2
<1>5. /\ o \in Objects /\ o.guid = w.obj[i].guid /\ o.listed = w.obj[i].listed
      /\ o.isolated = w.obj[i].isolated /\ o.inRoute = w.obj[i].inRoute
  BY <1>1, <1>4 DEF Objects
<1> HIDE DEF o
<1>6. /\ Sound(u) /\ Len(u.obj) = Len(w.obj)
      /\ \A j \in 1..Len(w.obj) : j # i => u.obj[j] = w.obj[j]
  BY <1>2, <1>5, ObjectChanged
<1> HIDE DEF u
<1>7. i \in 1..Len(u.obj) /\ \A j \in 1..Len(u.obj) : j # i => Accounted(u.obj[j])
  BY <1>2, <1>6 DEF Flagged
<1> QED
  BY <1>3, <1>6, <1>7, JoinedFlagged

LEMMA PointsPutFlagged ==
    ASSUME NEW w, Sound(w), Flagged(w), NEW r \in Routes, NEW recs \in Seq(Recs),
           \A k \in 1..Len(recs) : Named(w, recs[k].guid) # {}
    PROVE  Flagged(PutPoints(w, r, recs))
<1> DEFINE n == Len(recs)
           All == {v \in Worlds : Sound(v) /\ Flagged(v) /\ \A g : Named(v, g) = Named(w, g)}
           V == [k \in 0..n |-> All]
<1>1. n \in Nat /\ \A k \in 1..n : recs[k] \in Recs /\ Named(w, recs[k].guid) # {}
  OBVIOUS
<1>2. PICK f : /\ f[0] = w
               /\ \A k \in 1..n : f[k] = PutPoint(f[k - 1], r, recs[k])
               /\ PutPoints(w, r, recs) = f[n]
  BY PointsPut DEF PointsRun
<1>3. \A v : v \in All <=> Sound(v) /\ Flagged(v) /\ \A g : Named(v, g) = Named(w, g)
  BY DEF Sound, Fits
<1>4. /\ \A k \in 0..n : V[k] = All
      /\ \A k \in 1..n : k \in 0..n /\ k - 1 \in 0..n
      /\ 0 \in 0..n /\ n \in 0..n
  BY <1>1
<1> HIDE DEF n, All, V
<1>5. ASSUME NEW k \in 1..n, f[k - 1] \in All PROVE f[k] \in All
  <2>1. /\ Sound(f[k - 1]) /\ Flagged(f[k - 1]) /\ \A g : Named(f[k - 1], g) = Named(w, g)
    BY <1>3, <1>5
  <2>2. recs[k] \in Recs /\ Named(f[k - 1], recs[k].guid) # {}
    BY <1>1, <2>1
  <2>3. f[k] = PutPoint(f[k - 1], r, recs[k])
    BY <1>2
  <2>4. /\ Sound(f[k]) /\ Flagged(f[k]) /\ \A g : Named(f[k], g) = Named(f[k - 1], g)
    <3> DEFINE v == f[k - 1]
               x == PutPoint(v, r, recs[k])
    <3>1. Sound(v) /\ Flagged(v)
      BY <2>1
    <3> HIDE DEF v
    <3>2. Sound(x) /\ \A g : Named(x, g) = Named(v, g)
      BY <2>2, <3>1, PointPut DEF v
    <3>3. Flagged(x)
      BY <2>2, <3>1, PutFlagged DEF v
    <3> HIDE DEF x
    <3> QED
      BY <2>3, <3>2, <3>3 DEF v, x
  <2> QED
    BY <1>3, <2>1, <2>4
<1>6. f[0] \in V[0] /\ \A k \in 1..n : f[k - 1] \in V[k - 1] => f[k] \in V[k]
  BY <1>2, <1>3, <1>4, <1>5
<1>7. Within(f, V, n)
  BY <1>1, <1>6, StaysWithin
<1> QED
  BY <1>2, <1>3, <1>4, <1>7 DEF Within

LEMMA MarkAppliedFlagged ==
    ASSUME NEW w, Sound(w), Flagged(w), NEW c \in Changes, c.kind = "wpt"
    PROVE  Flagged(ApplyWpt(w, c))
<1> DEFINE mark == [Object(c.pts[1]) EXCEPT !.isolated = TRUE]
           old == Existing(w, c.guid)
           u == IF Named(w, c.guid) # {} THEN RemoveRoutePoint(w, old) ELSE w
           v == ApplyWpt(w, c)
<1>1. c.action \in Actions /\ mark \in Objects /\ ~mark.inRoute /\ mark.isolated
  BY ChangeTypes, ObjectOf
<1>2. Named(w, c.guid) # {} => old \in 1..Len(w.obj)
  BY FirstNamed DEF Sound, Fits
<1>3. /\ c.action = "add" => v \in {w, AddRoutePoint(w, mark)}
      /\ c.action = "update" => v = AddRoutePoint(u, mark)
      /\ c.action = "delete" => v = IF Named(w, c.guid) # {} THEN DestroyWaypoint(w, old) ELSE w
  BY DEF ApplyWpt
<1> HIDE DEF mark, old, v
<1>4. Sound(u) /\ Flagged(u)
  BY <1>2, Unlisted, UnlistedFlagged
<1> HIDE DEF u
<1>5. Flagged(AddRoutePoint(w, mark)) /\ Flagged(AddRoutePoint(u, mark))
  BY <1>1, <1>4, AddedFlagged
<1>6. c.action = "delete" => Flagged(v)
  BY <1>2, <1>3, DestroyedFlagged
<1> QED
  BY <1>1, <1>3, <1>5, <1>6 DEF Actions, v

LEMMA RouteAppliedFlagged ==
    ASSUME NEW w, Sound(w), Flagged(w), NEW c \in Changes, c.kind # "wpt"
    PROVE  Flagged(ApplyRte(w, c))
<1> DEFINE recs == c.pts
           r == c.guid
           u == WithRecord(w, recs)
           d == DropRoute(u, r)
           n == Len(w.obj)
           v == ApplyRte(w, c)
<1>1. r \in Routes /\ recs \in Seq(Recs)
  BY ChangeTypes
<1>2. v \in {d, u, PutPoints(d, r, recs)}
  BY DEF ApplyRte, UpdateRouteA, WithRecord
<1> HIDE DEF recs, r
<1>3. /\ Sound(u) /\ Len(u.obj) = n + Len(recs)
      /\ \A j \in 1..n : u.obj[j] = w.obj[j]
      /\ \A j \in 1..Len(u.obj) : j \in 1..n \/ \E k \in 1..Len(recs) : j = n + k
      /\ \A k \in 1..Len(recs) : /\ ~In(u, n + k) /\ n + k \in 1..Len(u.obj)
                                 /\ u.obj[n + k].listed
                                 /\ u.obj[n + k].guid = recs[k].guid
                                 /\ u.obj[n + k].inRoute
  BY <1>1, RecordLoaded
<1>4. Flagged(u)
  <2>1. \A j \in 1..n : Accounted(w.obj[j])
    BY DEF Flagged
  <2> HIDE DEF u, n
  <2> QED
    BY <1>3, <2>1 DEF Flagged, Accounted
<1> HIDE DEF u, n, v
<1>5. /\ Sound(d) /\ Len(d.obj) = Len(u.obj) /\ Flagged(d)
      /\ \A j \in 1..Len(u.obj) : ~In(u, j) => d.obj[j] = u.obj[j]
  BY <1>3, <1>4, RoutesDropped, DroppedFlagged DEF DropRoute
<1> HIDE DEF d
<1>6. \A k \in 1..Len(recs) : Named(d, recs[k].guid) # {}
  <2> SUFFICES ASSUME NEW k \in 1..Len(recs) PROVE n + k \in Named(d, recs[k].guid)
    OBVIOUS
  <2>1. /\ n + k \in 1..Len(d.obj) /\ d.obj[n + k].listed
        /\ d.obj[n + k].guid = recs[k].guid
    BY <1>3, <1>5
  <2>2. DOMAIN d.obj = 1..Len(d.obj)
    BY <1>5, WorldTypes DEF Sound, Fits
  <2> QED
    BY <2>1, <2>2 DEF Named
<1>7. Flagged(PutPoints(d, r, recs))
  BY <1>1, <1>5, <1>6, PointsPutFlagged
<1> QED
  BY <1>2, <1>4, <1>5, <1>7 DEF v

LEMMA ChangesNeat ==
    ASSUME NEW w \in Neat, NoneShort(w.pts), NEW l \in Seq(Changes)
    PROVE  ApplyChanges(w, l) \in Neat
<1> DEFINE n == Len(l)
           All == {v \in Neat : NoneShort(v.pts)}
           V == [k \in 0..n |-> All]
<1>0. Sound(w) /\ n \in Nat /\ \A k \in 1..n : l[k] \in Changes
  BY NeatIs
<1>1. PICK f : /\ f[0] = w
               /\ \A k \in 1..n : f[k] = Apply(f[k - 1], l[k])
               /\ ApplyChanges(w, l) = f[n]
  BY <1>0, ChangesApplied DEF ChangesRun
<1>2. \A v : v \in All <=> Sound(v) /\ Flagged(v) /\ NoneShort(v.pts)
  BY NeatIs
<1>3. /\ \A k \in 0..n : V[k] = All
      /\ \A k \in 1..n : k \in 0..n /\ k - 1 \in 0..n
      /\ 0 \in 0..n /\ n \in 0..n
  BY <1>0
<1> HIDE DEF n, All, V
<1>4. ASSUME NEW k \in 1..n, f[k - 1] \in All PROVE f[k] \in All
  <2>1. l[k] \in Changes /\ Sound(f[k - 1]) /\ Flagged(f[k - 1]) /\ NoneShort(f[k - 1].pts)
    BY <1>0, <1>2, <1>4
  <2>2. f[k] = IF l[k].kind = "wpt" THEN ApplyWpt(f[k - 1], l[k]) ELSE ApplyRte(f[k - 1], l[k])
    BY <1>1 DEF Apply
  <2>3. CASE l[k].kind = "wpt"
    BY <1>2, <2>1, <2>2, <2>3, MarkApplied, MarkAppliedFlagged
  <2>4. CASE l[k].kind # "wpt"
    BY <1>2, <2>1, <2>2, <2>4, RouteApplied, RouteAppliedFlagged
  <2> QED
    BY <2>3, <2>4
<1>5. f[0] \in V[0] /\ \A k \in 1..n : f[k - 1] \in V[k - 1] => f[k] \in V[k]
  BY <1>0, <1>1, <1>2, <1>3, <1>4, NeatIs
<1>6. Within(f, V, n)
  BY <1>0, <1>5, StaysWithin
<1>7. f[n] \in All
  BY <1>3, <1>6 DEF Within
<1> QED
  BY <1>1, <1>2, <1>7, NeatIs

-----------------------------------------------------------------------------
(* The objects that nothing holds are left out *)

(* Every object is a mark or in a route.                                   *)
AllPlaced(w) == \A i \in 1..Len(w.obj) : w.obj[i].isolated \/ In(w, i)

Belong(w) == Sound(w) /\ NoneShort(w.pts) /\ AllPlaced(w)

LEMMA CompactIs ==
    ASSUME NEW w, Sound(w), NEW keep \in SUBSET (1..Len(w.obj)),
           \A i \in 1..Len(w.obj) : In(w, i) => i \in keep
    PROVE  LET v == Compact(w, keep)
               order == Sorted(keep) IN
           /\ Sound(v) /\ (NoneShort(w.pts) => NoneShort(v.pts)) /\ v.look = w.look
           /\ \A k \in 1..Len(v.obj) : /\ order[k] \in keep /\ v.obj[k] = w.obj[order[k]]
                                       /\ In(v, k) <=> In(w, order[k])
           /\ \A i \in keep : Rank(keep, i) \in 1..Len(v.obj) /\ order[Rank(keep, i)] = i
           /\ \A k \in 1..Len(v.obj) : Rank(keep, order[k]) = k
           /\ \A r \in Routes : /\ Len(v.pts[r]) = Len(w.pts[r])
                                /\ \A m \in 1..Len(w.pts[r]) : v.pts[r][m] = Rank(keep, w.pts[r][m])
<1> DEFINE n == Len(w.obj)
           c == Cardinality(keep)
           order == Sorted(keep)
           obj == [k \in DOMAIN order |-> w.obj[order[k]]]
           path(r) == [m \in DOMAIN w.pts[r] |-> Rank(keep, w.pts[r][m])]
           pts == [r \in Routes |-> path(r)]
           v == Compact(w, keep)
<1>1. /\ w \in Worlds /\ n \in Nat /\ w.obj \in [1..n -> Objects]
      /\ w.pts \in [Routes -> Seq(Nat)]
      /\ \A r \in Routes : Len(w.pts[r]) \in Nat /\ DOMAIN w.pts[r] = 1..Len(w.pts[r])
  BY WorldTypes DEF Sound, Fits
<1>2. /\ c \in Nat /\ DOMAIN order = 1..c
      /\ \A k \in 1..c : order[k] \in keep /\ Rank(keep, order[k]) = k
      /\ \A i \in keep : Rank(keep, i) \in 1..c /\ order[Rank(keep, i)] = i
  BY <1>1, SortedElements, ZenonT(30)
<1>3. v = [w EXCEPT !.obj = obj, !.pts = pts]
  BY DEF Compact
<1> HIDE DEF c, order
<1>4. obj \in [1..c -> Objects] /\ \A k \in 1..c : obj[k] = w.obj[order[k]]
  BY <1>1, <1>2
<1> HIDE DEF obj
<1>5. obj \in Seq(Objects) /\ Len(obj) = c
  BY <1>2, <1>4, FunctionSeq
<1>6. ASSUME NEW r \in Routes, NEW m \in 1..Len(w.pts[r])
      PROVE  w.pts[r][m] \in keep
  <2>1. w.pts[r][m] \in 1..n /\ On(w.pts, r, w.pts[r][m])
    BY DEF Sound, Fits, On, Has
  <2> QED
    BY <2>1 DEF In
<1>7. ASSUME NEW r \in Routes
      PROVE  /\ path(r) \in Seq(Nat) /\ Len(path(r)) = Len(w.pts[r])
             /\ \A m \in 1..Len(w.pts[r]) : path(r)[m] = Rank(keep, w.pts[r][m])
             /\ \A m \in 1..Len(w.pts[r]) : path(r)[m] \in 1..c
  <2>1. \A m \in 1..Len(w.pts[r]) : path(r)[m] = Rank(keep, w.pts[r][m])
    BY <1>1
  <2>2. \A m \in 1..Len(w.pts[r]) : path(r)[m] \in 1..c /\ path(r)[m] \in Nat
    <3> HIDE DEF path
    <3> SUFFICES ASSUME NEW m \in 1..Len(w.pts[r]) PROVE path(r)[m] \in 1..c
      BY <1>2
    <3>1. w.pts[r][m] \in keep
      BY <1>6
    <3> QED
      BY <1>2, <2>1, <3>1
  <2> DEFINE p == path(r)
             k == Len(w.pts[r])
  <2>3. p \in [1..k -> Nat] /\ k \in Nat
    BY <1>1, <2>2
  <2> HIDE DEF path, p, k
  <2>4. p \in Seq(Nat) /\ Len(p) = k
    BY <2>3, FunctionSeq
  <2> QED
    BY <2>1, <2>2, <2>4 DEF p, k
<1> HIDE DEF path
<1>8. pts \in [Routes -> Seq(Nat)] /\ \A r \in Routes : pts[r] = path(r)
  BY <1>7
<1> HIDE DEF pts
<1>9. v \in Worlds /\ v.obj = obj /\ v.pts = pts
  BY <1>1, <1>3, <1>5, <1>8 DEF Worlds
<1> HIDE DEF v
<1>10. \A k \in 1..c : In(v, k) <=> In(w, order[k])
  <2> SUFFICES ASSUME NEW k \in 1..c, NEW r \in Routes
               PROVE  On(v.pts, r, k) <=> On(w.pts, r, order[k])
    BY DEF In
  <2>1. ASSUME NEW m \in 1..Len(w.pts[r])
        PROVE  path(r)[m] = k <=> w.pts[r][m] = order[k]
    <3>1. w.pts[r][m] \in keep
      BY <1>6
    <3>2. path(r)[m] = Rank(keep, w.pts[r][m])
      BY <1>7
    <3>3. order[Rank(keep, w.pts[r][m])] = w.pts[r][m]
      BY <1>2, <3>1
    <3>4. Rank(keep, order[k]) = k
      BY <1>2
    <3> QED
      BY <3>2, <3>3, <3>4, Zenon
  <2>2. v.pts[r] = path(r) /\ Len(path(r)) = Len(w.pts[r])
    BY <1>7, <1>8, <1>9
  <2> QED
    BY <2>1, <2>2 DEF On, Has
<1>11. \A k \in 1..c : order[k] \in 1..n /\ order[k] \in keep /\ v.obj[k] = w.obj[order[k]]
  BY <1>2, <1>4, <1>9
<1>12. FlagsOK(v)
  BY <1>5, <1>9, <1>10, <1>11 DEF Sound, FlagsOK
<1>13. Fits(v)
  BY <1>5, <1>7, <1>8, <1>9 DEF Fits
<1>14. NoneShort(w.pts) => NoneShort(v.pts)
  BY <1>7, <1>8, <1>9 DEF NoneShort
<1>15. v.look = w.look
  <2>1. \A x \in Worlds : \A a, b : [x EXCEPT !.obj = a, !.pts = b].look = x.look
    BY DEF Worlds
  <2> QED
    BY <1>1, <1>3, <2>1
<1>16. \A r \in Routes : /\ Len(v.pts[r]) = Len(w.pts[r])
                         /\ \A m \in 1..Len(w.pts[r]) : v.pts[r][m] = Rank(keep, w.pts[r][m])
  BY <1>7, <1>8, <1>9
<1>17. Len(v.obj) = c
  BY <1>5, <1>9
<1>18. Sound(v)
  BY <1>12, <1>13 DEF Sound
<1> QED
  BY <1>2, <1>10, <1>11, <1>14, <1>15, <1>16, <1>17, <1>18 DEF v, order

LEMMA Compacted ==
    ASSUME NEW w, Sound(w), NoneShort(w.pts), NEW keep \in SUBSET (1..Len(w.obj)),
           \A i \in 1..Len(w.obj) : In(w, i) => i \in keep,
           \A i \in keep : w.obj[i].isolated \/ In(w, i)
    PROVE  Belong(Compact(w, keep))
BY CompactIs DEF Belong, AllPlaced

LEMMA HeldAre ==
    ASSUME NEW w \in Worlds
    PROVE  /\ Held(w) \in SUBSET (1..Len(w.obj)) /\ Shown(w) \in SUBSET Held(w)
           /\ \A i \in 1..Len(w.obj) : /\ i \in Held(w) <=> w.obj[i].listed \/ In(w, i)
                                       /\ i \in Shown(w) <=> /\ i \in Held(w)
                                                             /\ w.obj[i].isolated \/ In(w, i)
<1>1. DOMAIN w.obj = 1..Len(w.obj) /\ \A i : In(w, i) <=> Containers(w, i) # {}
  BY WorldTypes, ContainersAre
<1>2. Held(w) = {i \in 1..Len(w.obj) : w.obj[i].listed \/ In(w, i)}
  BY <1>1 DEF Held
<1>3. Shown(w) = {i \in Held(w) : w.obj[i].isolated \/ In(w, i)}
  BY <1>1 DEF Shown
<1> QED
  BY <1>2, <1>3

LEMMA KeptHeld ==
    ASSUME NEW w, Sound(w), NoneShort(w.pts), NoneLost(w)
    PROVE  Belong(Compact(w, Held(w)))
<1> DEFINE keep == Held(w)
<1>1. keep \in SUBSET (1..Len(w.obj))
  BY HeldAre DEF Sound, Fits
<1>2. /\ \A i \in 1..Len(w.obj) : In(w, i) => i \in keep
      /\ \A i \in keep : w.obj[i].isolated \/ In(w, i)
  BY <1>1, HeldAre DEF Sound, Fits, NoneLost
<1> HIDE DEF keep
<1>3. Belong(Compact(w, keep))
  BY <1>1, <1>2, Compacted
<1> QED
  BY <1>3 DEF keep

LEMMA KeptShown ==
    ASSUME NEW w, Sound(w), NoneShort(w.pts)
    PROVE  Belong(Compact(w, Shown(w)))
<1> DEFINE keep == Shown(w)
<1>1. keep \in SUBSET (1..Len(w.obj))
  BY HeldAre DEF Sound, Fits
<1>2. /\ \A i \in 1..Len(w.obj) : In(w, i) => i \in keep
      /\ \A i \in keep : w.obj[i].isolated \/ In(w, i)
  BY <1>1, HeldAre DEF Sound, Fits
<1> HIDE DEF keep
<1>3. Belong(Compact(w, keep))
  BY <1>1, <1>2, Compacted
<1> QED
  BY <1>3 DEF keep

-----------------------------------------------------------------------------
(* The records *)

LEMMA RecordsAre ==
    ASSUME NEW w, Sound(w)
    PROVE  /\ \A i \in 1..Len(w.obj) : Record(w.obj[i]) \in Recs
           /\ \A r \in Routes : Points(w, r) \in Seq(Recs) /\ Len(Points(w, r)) = Len(w.pts[r])
           /\ \A a \in Actions, r \in Routes : Rte(a, w, r) \in Changes
<1>1. /\ w.obj \in [1..Len(w.obj) -> Objects]
      /\ \A r \in Routes : Len(w.pts[r]) \in Nat /\ DOMAIN w.pts[r] = 1..Len(w.pts[r])
  BY WorldTypes DEF Sound, Fits
<1>2. \A o \in Objects : Record(o) \in Recs
  BY DEF Record, Objects, Recs
<1>3. \A i \in 1..Len(w.obj) : Record(w.obj[i]) \in Recs
  BY <1>1, <1>2
<1>4. ASSUME NEW r \in Routes
      PROVE  Points(w, r) \in Seq(Recs) /\ Len(Points(w, r)) = Len(w.pts[r])
  <2> DEFINE p == Points(w, r)
             k == Len(w.pts[r])
  <2>1. p = [m \in 1..k |-> Record(w.obj[w.pts[r][m]])] /\ k \in Nat
    BY <1>1 DEF Points
  <2>2. \A m \in 1..k : w.pts[r][m] \in 1..Len(w.obj)
    BY DEF Sound, Fits
  <2> HIDE DEF p, k
  <2>3. p \in [1..k -> Recs]
    BY <1>3, <2>1, <2>2
  <2>4. p \in Seq(Recs) /\ Len(p) = k
    BY <2>1, <2>3, FunctionSeq
  <2> QED
    BY <2>4 DEF p, k
<1>5. \A a \in Actions, r \in Routes : Rte(a, w, r) \in Changes
  <2> SUFFICES ASSUME NEW a \in Actions, NEW r \in Routes PROVE Rte(a, w, r) \in Changes
    OBVIOUS
  <2>1. Points(w, r) \in Seq(Recs)
    BY <1>4
  <2> QED
    BY <2>1 DEF Rte, Changes
<1> QED
  BY <1>3, <1>4, <1>5

LEMMA MarkRecord ==
    ASSUME NEW w, Sound(w), NEW a \in Actions, NEW i \in 1..Len(w.obj)
    PROVE  Wpt(a, w, i) \in Changes
<1>1. Record(w.obj[i]) \in Recs /\ w.obj[i] \in Objects
  BY RecordsAre, WorldTypes DEF Sound, Fits
<1>2. w.obj[i].guid \in 1..MaxPoints
  BY <1>1 DEF Objects
<1>3. <<Record(w.obj[i])>> \in [1..1 -> Recs]
  BY <1>1
<1> QED
  BY <1>2, <1>3 DEF Wpt, Changes

LEMMA RouteRecords ==
    ASSUME NEW w, Sound(w), NEW rs \in SUBSET Routes
    PROVE  RteUpdates(w, rs) \in Seq(Changes)
<1> DEFINE order == Sorted(rs)
           c == Cardinality(rs)
           records == RteUpdates(w, rs)
<1>1. MaxRoutes \in Nat /\ rs \in SUBSET (1..MaxRoutes)
  BY NavAssumption DEF Routes
<1>2. c \in Nat /\ DOMAIN order = 1..c /\ \A k \in 1..c : order[k] \in rs
  BY <1>1, SortedElements
<1>3. records = [k \in DOMAIN order |-> Rte("update", w, order[k])]
  BY DEF RteUpdates
<1>4. \A r \in Routes : Rte("update", w, r) \in Changes
  BY RecordsAre DEF Actions
<1> HIDE DEF order, c, records
<1>5. records \in [1..c -> Changes]
  BY <1>2, <1>3, <1>4
<1>6. records \in Seq(Changes)
  BY <1>2, <1>5, FunctionSeq
<1> QED
  BY <1>6 DEF records

-----------------------------------------------------------------------------
(* A new route *)

(* The listed objects that are neither a mark nor in a route.              *)
Lacking(w) == {i \in 1..Len(w.obj) : w.obj[i].listed /\ ~w.obj[i].isolated /\ ~In(w, i)}

LEMMA NothingLacks ==
    ASSUME NEW w, NEW v, \A j \in Lacking(v) : j \in Lacking(w), NoneLost(w)
    PROVE  NoneLost(v)
BY DEF NoneLost, Lacking

LEMMA PointDrawn ==
    ASSUME NEW w, Sound(w), NEW r \in Routes, NEW stop,
           stop.old \in 0..Len(w.obj), stop.old = 0 => stop.guid \in 1..MaxPoints
    PROVE  LET v == Draw(w, r, stop) IN
           /\ Sound(v) /\ Len(v.obj) >= Len(w.obj) /\ (NoneLost(w) => NoneLost(v))
           /\ Lacking(v) \subseteq Lacking(w) \ {stop.old}
           /\ Len(v.pts[r]) = Len(w.pts[r]) + 1
           /\ \A q \in Routes : q # r => v.pts[q] = w.pts[q]
<1> DEFINE v == Draw(w, r, stop)
           n == Len(w.obj)
<1> SUFFICES /\ Sound(v) /\ Lacking(v) \subseteq Lacking(w) \ {stop.old} /\ Len(v.obj) >= n
             /\ Len(v.pts[r]) = Len(w.pts[r]) + 1
             /\ \A q \in Routes : q # r => v.pts[q] = w.pts[q]
  <2> HIDE DEF v
  <2>1. ASSUME Lacking(v) \subseteq Lacking(w) PROVE NoneLost(w) => NoneLost(v)
    BY <2>1, NothingLacks
  <2> QED
    BY <2>1 DEF v
<1>0. n \in Nat
  BY WorldTypes DEF Sound, Fits
<1>1. CASE stop.old # 0
  <2>1. stop.old \in 1..n /\ v = AddPoint(w, r, stop.old)
    BY <1>0, <1>1 DEF Draw
  <2> HIDE DEF v
  <2>2. /\ Sound(v) /\ Len(v.obj) = n
        /\ Len(v.pts[r]) = Len(w.pts[r]) + 1
        /\ \A q \in Routes : q # r => v.pts[q] = w.pts[q]
        /\ \A j : In(v, j) <=> In(w, j) \/ j = stop.old
        /\ \A j \in 1..n : j # stop.old => v.obj[j] = w.obj[j]
    BY <2>1, PointAdded
  <2>3. Lacking(v) \subseteq Lacking(w) \ {stop.old}
    BY <2>2 DEF Lacking
  <2> QED
    BY <1>0, <2>2, <2>3
<1>2. CASE stop.old = 0
  <2> DEFINE o == Object([guid |-> stop.guid, pos |-> 1, shared |-> FALSE])
             u == AddRoutePoint(w, o)
             z == n + 1
  <2>1. [guid |-> stop.guid, pos |-> 1, shared |-> FALSE] \in Recs
    BY <1>2, NavAssumption DEF Recs
  <2>2. o \in Objects /\ ~o.isolated
    BY <2>1, ObjectOf
  <2>3. v = AddPoint(u, r, z)
    BY <1>2 DEF Draw
  <2> HIDE DEF o, u, v
  <2>4. /\ Sound(u) /\ Len(u.obj) = n + 1 /\ u.pts = w.pts
        /\ \A j \in 1..n : u.obj[j] = w.obj[j]
    BY <2>2, ObjectAdded DEF u
  <2>5. z \in 1..Len(u.obj) /\ \A j \in 1..Len(u.obj) : j # z => j \in 1..n
    BY <1>0, <2>4
  <2> HIDE DEF z
  <2>6. Sound(u) /\ z \in 1..Len(u.obj)
    BY <2>4, <2>5
  <2>7. /\ Sound(v) /\ Len(v.obj) = Len(u.obj)
        /\ Len(v.pts[r]) = Len(u.pts[r]) + 1
        /\ \A q \in Routes : q # r => v.pts[q] = u.pts[q]
        /\ \A j : In(v, j) <=> In(u, j) \/ j = z
        /\ \A j \in 1..Len(u.obj) : j # z => v.obj[j] = u.obj[j]
    BY <2>3, <2>6, PointAdded
  <2>9. \A j : In(u, j) <=> In(w, j)
    BY <2>4 DEF In
  <2>10. ASSUME NEW j \in Lacking(v) PROVE j \in Lacking(w) /\ j # stop.old
    <3>1. /\ j \in 1..Len(v.obj) /\ v.obj[j].listed /\ ~v.obj[j].isolated /\ ~In(v, j)
      BY DEF Lacking
    <3>2. j \in 1..n /\ v.obj[j] = w.obj[j] /\ ~In(w, j)
      BY <2>4, <2>5, <2>7, <2>9, <3>1
    <3>3. j # 0
      BY <3>2
    <3> QED
      BY <1>2, <3>1, <3>2, <3>3 DEF Lacking
  <2>8. n + 1 >= n
    BY <1>0
  <2> QED
    BY <2>4, <2>7, <2>8, <2>10
<1> QED
  BY <1>0, <1>1, <1>2

LEMMA PointsDrawn ==
    ASSUME NEW w, Sound(w), NEW r \in Routes, NEW stops, Len(stops) \in Nat,
           \A k \in 1..Len(stops) : /\ stops[k].old \in 0..Len(w.obj)
                                    /\ stops[k].old = 0 => stops[k].guid \in 1..MaxPoints
    PROVE  LET v == DrawThrough(w, r, stops) IN
           /\ Sound(v) /\ (NoneLost(w) => NoneLost(v))
           /\ Len(v.pts[r]) = Len(w.pts[r]) + Len(stops)
           /\ \A j \in Lacking(v) : j \in Lacking(w) /\ \A m \in 1..Len(stops) : stops[m].old # j
           /\ \A q \in Routes : q # r => v.pts[q] = w.pts[q]
           /\ StopsRun(w, r, stops)
<1> DEFINE n == Len(stops)
           V == [k \in 0..n |-> {v \in Worlds :
                  /\ Sound(v) /\ Len(v.obj) >= Len(w.obj)
                  /\ \A j \in Lacking(v) : j \in Lacking(w) /\ \A m \in 1..k : stops[m].old # j
                  /\ Len(v.pts[r]) = Len(w.pts[r]) + k
                  /\ \A q \in Routes : q # r => v.pts[q] = w.pts[q]}]
           a[k \in 0..n] == IF k = 0 THEN w ELSE Draw(a[k - 1], r, stops[k])
           F == [k \in 1..n |-> [v \in V[k - 1] |-> Draw(v, r, stops[k])]]
<1>1. n \in Nat /\ w \in V[0] /\ Len(w.pts[r]) \in Nat /\ Len(w.obj) \in Nat
  <2>1. w \in Worlds /\ Len(w.pts[r]) \in Nat /\ Len(w.obj) \in Nat
    BY WorldTypes DEF Sound, Fits
  <2> QED
    BY <2>1
<1>2. \A k \in 1..n : \A v \in V[k - 1] : Draw(v, r, stops[k]) \in V[k]
  <2> SUFFICES ASSUME NEW k \in 1..n, NEW v \in V[k - 1]
               PROVE  Draw(v, r, stops[k]) \in V[k]
    OBVIOUS
  <2> DEFINE x == Draw(v, r, stops[k])
  <2>1. k - 1 \in 0..n /\ k \in 0..n
    BY <1>1
  <2>2. /\ Sound(v) /\ Len(v.obj) >= Len(w.obj)
        /\ \A j \in Lacking(v) : j \in Lacking(w) /\ \A m \in 1..(k - 1) : stops[m].old # j
        /\ Len(v.pts[r]) = Len(w.pts[r]) + (k - 1)
        /\ \A q \in Routes : q # r => v.pts[q] = w.pts[q]
    BY <2>1
  <2>3. Len(v.obj) \in Nat
    BY <2>2, WorldTypes DEF Sound, Fits
  <2>4. stops[k].old \in 0..Len(v.obj) /\ (stops[k].old = 0 => stops[k].guid \in 1..MaxPoints)
    BY <1>1, <2>2, <2>3
  <2>5. /\ Sound(x) /\ Len(x.obj) >= Len(v.obj)
        /\ Lacking(x) \subseteq Lacking(v) \ {stops[k].old}
        /\ Len(x.pts[r]) = Len(v.pts[r]) + 1
        /\ \A q \in Routes : q # r => x.pts[q] = v.pts[q]
    BY <2>2, <2>4, PointDrawn
  <2> HIDE DEF x
  <2>6. Len(x.obj) \in Nat
    BY <2>5, WorldTypes DEF Sound, Fits
  <2>7. Len(x.pts[r]) = Len(w.pts[r]) + k /\ Len(x.obj) >= Len(w.obj)
    BY <1>1, <2>1, <2>2, <2>3, <2>5, <2>6
  <2>8. \A j \in Lacking(x) : j \in Lacking(w) /\ \A m \in 1..k : stops[m].old # j
    <3>1. \A m \in 1..k : m \in 1..(k - 1) \/ m = k
      BY <1>1
    <3> QED
      BY <2>2, <2>5, <3>1
  <2> QED
    BY <2>1, <2>2, <2>5, <2>7, <2>8 DEF x, Sound, Fits
<1>3. \A k \in 1..n : \A v \in V[k - 1] : F[k][v] = Draw(v, r, stops[k])
  OBVIOUS
<1> HIDE DEF F, V, n
<1>4. Lead(F, V, n)
  BY <1>2, <1>3 DEF Lead
<1>5. PICK f : From(f, w, F, n) /\ Within(f, V, n)
  BY <1>1, <1>4, StepsExist
<1>6. \A k \in 0..n : k # 0 => k \in 1..n /\ f[k - 1] \in V[k - 1]
  BY <1>1, <1>5 DEF Within
<1>7. f = [k \in 0..n |-> IF k = 0 THEN w ELSE Draw(f[k - 1], r, stops[k])]
  BY <1>3, <1>5, <1>6 DEF From
<1>8. a = [k \in 0..n |-> IF k = 0 THEN w ELSE Draw(a[k - 1], r, stops[k])]
  BY <1>7
<1>9. DrawThrough(w, r, stops) = a[n]
  BY DEF DrawThrough, InTurn, n
<1> HIDE DEF a
<1>20. a[0] = w /\ \A k \in 1..n : a[k] = Draw(a[k - 1], r, stops[k])
  BY <1>1, <1>8
<1>10. a[0] \in V[0] /\ \A k \in 1..n : a[k - 1] \in V[k - 1] => a[k] \in V[k]
  BY <1>1, <1>2, <1>20
<1>11. a[n] \in V[n]
  <2>1. Within(a, V, n)
    BY <1>1, <1>10, StaysWithin
  <2> QED
    BY <1>1, <2>1 DEF Within
<1>12. /\ Sound(a[n]) /\ Len(a[n].pts[r]) = Len(w.pts[r]) + n
       /\ \A j \in Lacking(a[n]) : j \in Lacking(w) /\ \A m \in 1..n : stops[m].old # j
       /\ \A q \in Routes : q # r => a[n].pts[q] = w.pts[q]
  BY <1>1, <1>11 DEF V
<1>13. n = Len(stops)
  BY DEF n
<1>14. NoneLost(w) => NoneLost(a[n])
  <2>1. \A j \in Lacking(a[n]) : j \in Lacking(w)
    BY <1>12
  <2> QED
    BY <2>1, NothingLacks
<1>21. \E h : /\ h[0] = w /\ \A k \in 1..Len(stops) : h[k] = Draw(h[k - 1], r, stops[k])
              /\ DrawThrough(w, r, stops) = h[Len(stops)]
  BY <1>9, <1>20 DEF n
<1> QED
  BY <1>21, <1>9, <1>12, <1>13, <1>14 DEF StopsRun

-----------------------------------------------------------------------------
(* The objects that a replay leaves over *)

StraysOK(s) ==
    s \in Seq(Objects) /\ \A k \in 1..Len(s) : s[k].listed /\ s[k].inRoute /\ ~s[k].isolated

LEMMA ChosenIs ==
    ASSUME NEW T, NEW s \in Seq(T), NEW S \in SUBSET (1..Len(s))
    PROVE  LET c == Chosen(s, S) IN
           /\ c \in Seq(T) /\ Len(c) = Cardinality(S) /\ Cardinality(S) \in Nat
           /\ \A k \in 1..Cardinality(S) : \E i \in S : c[k] = s[i]
<1> DEFINE n == Cardinality(S)
           order == Sorted(S)
           c == [k \in 1..n |-> s[order[k]]]
<1>0. Len(s) \in Nat /\ \A i \in S : s[i] \in T
  OBVIOUS
<1>1. n \in Nat /\ \A k \in 1..n : order[k] \in S
  BY <1>0, SortedElements
<1>2. Chosen(s, S) = c
  BY DEF Chosen
<1> HIDE DEF n, order
<1>3. c \in [1..n -> T] /\ \A k \in 1..n : c[k] = s[order[k]]
  BY <1>0, <1>1
<1> HIDE DEF c
<1>4. c \in Seq(T) /\ Len(c) = n
  BY <1>1, <1>3, FunctionSeq
<1> QED
  BY <1>1, <1>2, <1>3, <1>4 DEF n

LEMMA ChosenStrays ==
    ASSUME NEW s, StraysOK(s), NEW S \in SUBSET (1..Len(s))
    PROVE  /\ StraysOK(Chosen(s, S)) /\ Len(Chosen(s, S)) = Cardinality(S)
           /\ \A k \in 1..Cardinality(S) : \E i \in S : Chosen(s, S)[k] = s[i]
<1>1. s \in Seq(Objects) /\ \A k \in 1..Len(s) : s[k].listed /\ s[k].inRoute /\ ~s[k].isolated
  BY DEF StraysOK
<1> QED
  BY <1>1, ChosenIs DEF StraysOK

LEMMA LeftOverAre ==
    ASSUME NEW w \in Neat
    PROVE  StraysOK(Chosen(w.obj, Held(w) \ Shown(w)))
<1> DEFINE S == Held(w) \ Shown(w)
           c == Chosen(w.obj, S)
<1>1. w \in Worlds /\ Flagged(w)
  BY DEF Neat
<1>2. w.obj \in Seq(Objects) /\ Len(w.obj) \in Nat
  BY <1>1, WorldTypes
<1>3. S \in SUBSET (1..Len(w.obj))
      /\ \A i \in S : w.obj[i].listed /\ w.obj[i].inRoute /\ ~w.obj[i].isolated
  BY <1>1, HeldAre DEF Flagged, Accounted
<1> HIDE DEF S
<1>4. /\ c \in Seq(Objects) /\ Len(c) = Cardinality(S)
      /\ \A k \in 1..Cardinality(S) : \E i \in S : c[k] = w.obj[i]
  BY <1>2, <1>3, ChosenIs
<1> HIDE DEF c
<1>5. StraysOK(c)
  BY <1>3, <1>4 DEF StraysOK
<1> QED
  BY <1>5 DEF c, S

-----------------------------------------------------------------------------
(* The steps *)

(* What TypeOK and PointsBelong say of the world, in the terms above.      *)
LEMMA BelongMeans ==
    ASSUME NEW w \in Worlds
    PROVE  Belong(w) <=>
             /\ \A r \in Routes : Range(w.pts[r]) \subseteq DOMAIN w.obj
             /\ \A r \in Routes : Len(w.pts[r]) # 1
             /\ \A i \in DOMAIN w.obj : /\ w.obj[i].inRoute = (Containers(w, i) # {})
                                        /\ w.obj[i].isolated = (Containers(w, i) = {})
<1> DEFINE n == Len(w.obj)
<1>1. DOMAIN w.obj = 1..n /\ \A i \in 1..n : w.obj[i] \in Objects
  BY WorldTypes
<1>2. (\A r \in Routes : Range(w.pts[r]) \subseteq DOMAIN w.obj) <=> Fits(w)
  <2>1. ASSUME NEW r \in Routes
        PROVE  Range(w.pts[r]) \subseteq 1..n <=>
                 \A m \in 1..Len(w.pts[r]) : w.pts[r][m] \in 1..n
    BY WorldTypes DEF Range
  <2> HIDE DEF n
  <2>2. (\A r \in Routes : Range(w.pts[r]) \subseteq 1..n) <=>
           \A r \in Routes : \A m \in 1..Len(w.pts[r]) : w.pts[r][m] \in 1..n
    BY <2>1
  <2> QED
    BY <1>1, <2>2 DEF Fits, n
<1>3. ASSUME NEW i \in 1..n
      PROVE  /\ w.obj[i].inRoute \in BOOLEAN /\ w.obj[i].isolated \in BOOLEAN
             /\ In(w, i) <=> Containers(w, i) # {}
  BY <1>1, ContainersAre DEF Objects
<1>4. FlagsOK(w) /\ AllPlaced(w) <=>
        \A i \in 1..n : /\ w.obj[i].inRoute = (Containers(w, i) # {})
                        /\ w.obj[i].isolated = (Containers(w, i) = {})
  BY <1>3, Zenon DEF FlagsOK, AllPlaced
<1> QED
  BY <1>1, <1>2, <1>4 DEF Belong, Sound, NoneShort

LEMMA InvariantGives ==
    ASSUME IInv
    PROVE  /\ Belong(nav) /\ NoneLost(nav)
           /\ nav \in Worlds /\ Len(nav.obj) \in Nat /\ DOMAIN nav.obj = 1..Len(nav.obj)
           /\ \A i \in 1..Len(nav.obj) : nav.obj[i] \in Objects
           /\ StraysOK(strays)
<1>1. nav \in Worlds
  BY DEF IInv, TypeOK
<1>2. Belong(nav)
  BY <1>1, BelongMeans DEF IInv, TypeOK, PointsBelong
<1>3. NoneLost(nav)
  BY <1>2 DEF Belong, AllPlaced, NoneLost
<1>4. StraysOK(strays)
  BY DEF IInv, TypeOK, PointsBelong, StraysOK
<1> QED
  BY <1>1, <1>2, <1>3, <1>4, WorldTypes

LEMMA InvariantFollows ==
    ASSUME Belong(nav'),
           file' \in Docs \cup {Torn}, file' # Torn => NoneShort(file'.routes),
           log' \in Seq(Changes), Len(log') <= MaxLog, phase' \in Phases,
           made' \in [points : 0..MaxPoints, routes : 0..MaxRoutes], lossy' \subseteq Losses,
           StraysOK(strays')
    PROVE  IInv'
<1>1. nav' \in Worlds
  BY DEF Belong, Sound, Fits
<1>2. /\ \A r \in Routes : Range(nav'.pts[r]) \subseteq DOMAIN nav'.obj
      /\ \A r \in Routes : Len(nav'.pts[r]) # 1
      /\ \A i \in DOMAIN nav'.obj : /\ nav'.obj[i].inRoute = (Containers(nav', i) # {})
                                    /\ nav'.obj[i].isolated = (Containers(nav', i) = {})
  BY <1>1, BelongMeans
<1>3. /\ strays' \in Seq(Objects)
      /\ \A k \in DOMAIN strays' : strays'[k].listed /\ strays'[k].inRoute /\ ~strays'[k].isolated
  BY DEF StraysOK
<1> QED
  BY <1>1, <1>2, <1>3 DEF IInv, TypeOK, PointsBelong

LEMMA LossTypes ==
    ASSUME NEW what \in Losses, NEW really
    PROVE  Lost(what, really) \subseteq Losses
BY DEF Lost

LEMMA EditKeeps ==
    ASSUME IInv, NEW w, Sound(w), NoneShort(w.pts), NoneLost(w),
           NEW records \in Seq(Changes), NEW losses \in SUBSET Losses,
           Edit(w, records, losses), StraysOK(strays'),
           made' \in [points : 0..MaxPoints, routes : 0..MaxRoutes]
    PROVE  IInv'
<1>1. /\ Len(log) + Len(records) <= MaxLog
      /\ nav' = Compact(w, Held(w)) /\ log' = log \o records
      /\ file' = file /\ phase' = phase
  BY DEF Edit
<1>2. lossy' \subseteq Losses
  <2>1. "orphaned" \in Losses /\ lossy \subseteq Losses
    BY DEF IInv, TypeOK, Losses
  <2>2. \E b : lossy' = lossy \cup losses \cup Lost("orphaned", b)
    BY DEF Edit
  <2>3. PICK b : lossy' = lossy \cup losses \cup Lost("orphaned", b)
    BY <2>2
  <2>4. Lost("orphaned", b) \subseteq Losses
    BY <2>1, LossTypes
  <2> QED
    BY <2>1, <2>3, <2>4
<1>3. log' \in Seq(Changes) /\ Len(log') <= MaxLog
  BY <1>1, ConcatProperties DEF IInv, TypeOK
<1>4. Belong(nav')
  BY <1>1, KeptHeld
<1>5. /\ file' \in Docs \cup {Torn} /\ (file' # Torn => NoneShort(file'.routes))
      /\ phase' \in Phases
  BY <1>1 DEF IInv, TypeOK
<1> QED
  BY <1>2, <1>3, <1>4, <1>5, InvariantFollows

(* The look of a route says nothing of its points.                         *)
LEMMA LookChanged ==
    ASSUME NEW w, Sound(w), NEW r \in Routes
    PROVE  LET v == [w EXCEPT !.look[r] = 1] IN
           Sound(v) /\ (NoneLost(w) => NoneLost(v)) /\ v.pts = w.pts
<1> DEFINE look == [w.look EXCEPT ![r] = 1]
           v == [w EXCEPT !.look = look]
<1>1. w \in Worlds
  BY DEF Sound, Fits
<1>2. look \in [Routes -> 0..1]
  BY <1>1 DEF Worlds
<1> HIDE DEF look
<1>3. v \in Worlds /\ v.pts = w.pts /\ v.obj = w.obj
  BY <1>1, <1>2 DEF Worlds
<1> HIDE DEF v
<1>4. \A j : In(v, j) <=> In(w, j)
  BY <1>3 DEF In
<1> QED
  BY <1>3, <1>4 DEF v, look, Sound, Fits, FlagsOK, NoneLost

LEMMA MarkDropped == IInv /\ DropMark => IInv'
<1> SUFFICES ASSUME IInv, DropMark PROVE IInv'
  OBVIOUS
<1>0. StraysOK(strays')
  BY InvariantGives DEF DropMark
<1> DEFINE g == made.points + 1
           o == [Object([guid |-> g, pos |-> 1, shared |-> FALSE]) EXCEPT !.isolated = TRUE]
           w == AddRoutePoint(nav, o)
           n == Len(w.obj)
           records == <<Wpt("add", w, n)>>
<1>1. Edit(w, records, {})
  BY DEF DropMark
<1>2. /\ made.points < MaxPoints /\ made \in [points : 0..MaxPoints, routes : 0..MaxRoutes]
      /\ made' = [made EXCEPT !.points = g] /\ MaxPoints \in Nat
  BY NavAssumption DEF DropMark, IInv, TypeOK
<1>3. g \in 1..MaxPoints /\ made' \in [points : 0..MaxPoints, routes : 0..MaxRoutes]
  BY <1>2
<1> HIDE DEF g
<1>4. [guid |-> g, pos |-> 1, shared |-> FALSE] \in Recs
  BY <1>3, NavAssumption DEF Recs
<1>5. o \in Objects /\ o.isolated /\ ~o.inRoute
  BY <1>4, ObjectOf
<1> HIDE DEF o
<1>6. /\ Sound(w) /\ n = Len(nav.obj) + 1 /\ w.pts = nav.pts /\ w.obj[Len(nav.obj) + 1] = o
      /\ \A j \in 1..Len(nav.obj) : w.obj[j] = nav.obj[j]
  BY <1>5, InvariantGives, ObjectAdded DEF Belong
<1> HIDE DEF w
<1>7. Len(nav.obj) \in Nat /\ \A j \in 1..n : j \in 1..Len(nav.obj) \/ j = Len(nav.obj) + 1
  BY <1>6, InvariantGives
<1>8. NoneLost(w)
  <2>1. \A j \in 1..Len(nav.obj) : nav.obj[j].isolated \/ In(nav, j)
    BY InvariantGives DEF Belong, AllPlaced
  <2> QED
    BY <1>5, <1>6, <1>7, <2>1 DEF NoneLost, In
<1>9. NoneShort(w.pts)
  BY <1>6, InvariantGives DEF Belong
<1>10. records \in Seq(Changes)
  <2>1. n \in 1..Len(w.obj)
    BY <1>6, <1>7
  <2>2. Wpt("add", w, n) \in Changes
    BY <1>6, <2>1, MarkRecord DEF Actions
  <2> QED
    BY <2>2
<1> HIDE DEF records
<1> QED
  BY <1>1, <1>3, <1>6, <1>8, <1>9, <1>10, <1>0, EditKeeps

LEMMA PointMoved == ASSUME NEW i \in DOMAIN nav.obj PROVE IInv /\ MovePoint(i) => IInv'
<1> SUFFICES ASSUME IInv, MovePoint(i) PROVE IInv'
  OBVIOUS
<1>0. StraysOK(strays')
  BY InvariantGives DEF MovePoint
<1> DEFINE o == [nav.obj[i] EXCEPT !.pos = @ + 1]
           w == Changed(nav, i, o)
           rs == Containers(nav, i)
           records == <<Wpt("update", w, i)>>
           losses == Lost("restyled", Styled(nav, rs))
<1>1. /\ i \in 1..Len(nav.obj) /\ nav.obj[i] \in Objects /\ Sound(nav) /\ NoneShort(nav.pts)
      /\ NoneLost(nav) /\ rs \subseteq Routes
  BY InvariantGives, ContainersAre DEF Belong
<1>2. nav.obj[i].pos < MaxVersion /\ MaxVersion \in Nat
  BY NavAssumption DEF MovePoint
<1>3. /\ o \in Objects /\ o.guid = nav.obj[i].guid /\ o.listed = nav.obj[i].listed
      /\ o.isolated = nav.obj[i].isolated /\ o.inRoute = nav.obj[i].inRoute
  BY <1>1, <1>2 DEF Objects
<1>4. /\ made' \in [points : 0..MaxPoints, routes : 0..MaxRoutes]
      /\ IF nav.obj[i].inRoute THEN Edit(w, RteUpdates(w, rs), losses)
                               ELSE Edit(w, records, {})
  BY DEF MovePoint, IInv, TypeOK, Changed
<1> HIDE DEF o, rs
<1>5. Sound(w) /\ NoneLost(w) /\ w.pts = nav.pts /\ Len(w.obj) = Len(nav.obj)
  BY <1>1, <1>3, ObjectChanged
<1> HIDE DEF w
<1>6. RteUpdates(w, rs) \in Seq(Changes)
  BY <1>1, <1>5, RouteRecords
<1>7. records \in Seq(Changes)
  <2>1. i \in 1..Len(w.obj)
    BY <1>1, <1>5
  <2>2. Wpt("update", w, i) \in Changes
    BY <1>5, <2>1, MarkRecord DEF Actions
  <2> QED
    BY <2>2
<1>8. losses \in SUBSET Losses
  BY LossTypes DEF Losses
<1> HIDE DEF records, losses
<1>9. NoneShort(w.pts)
  BY <1>1, <1>5
<1>10. CASE nav.obj[i].inRoute
  BY <1>4, <1>5, <1>6, <1>8, <1>9, <1>10, <1>0, EditKeeps
<1>11. CASE ~nav.obj[i].inRoute
  BY <1>4, <1>5, <1>7, <1>9, <1>11, <1>0, EditKeeps
<1> QED
  BY <1>10, <1>11

LEMMA MarkDeleted == ASSUME NEW i \in DOMAIN nav.obj PROVE IInv /\ DeleteMark(i) => IInv'
<1> SUFFICES ASSUME IInv, DeleteMark(i) PROVE IInv'
  OBVIOUS
<1>0. StraysOK(strays')
  BY InvariantGives DEF DeleteMark
<1> DEFINE w == RemoveRoutePoint(nav, i)
           records == <<Wpt("delete", nav, i)>>
<1>1. /\ i \in 1..Len(nav.obj) /\ Sound(nav) /\ NoneShort(nav.pts) /\ NoneLost(nav)
  BY InvariantGives DEF Belong
<1>2. /\ made' \in [points : 0..MaxPoints, routes : 0..MaxRoutes]
      /\ Edit(w, records, {})
  BY DEF DeleteMark, IInv, TypeOK
<1>3. Sound(w) /\ NoneLost(w) /\ w.pts = nav.pts
  BY <1>1, Unlisted
<1>4. records \in Seq(Changes)
  <2>1. Wpt("delete", nav, i) \in Changes
    BY <1>1, MarkRecord DEF Actions
  <2> QED
    BY <2>1
<1> HIDE DEF w, records
<1> QED
  BY <1>1, <1>2, <1>3, <1>4, <1>0, EditKeeps

LEMMA PointDeleted == ASSUME NEW i \in DOMAIN nav.obj PROVE IInv /\ DeletePoint(i) => IInv'
<1> SUFFICES ASSUME IInv, DeletePoint(i) PROVE IInv'
  OBVIOUS
<1>0. StraysOK(strays')
  BY InvariantGives DEF DeletePoint
<1> DEFINE v == LeaveRoutes(nav, i)
           rs == Containers(nav, i)
           w == DestroyWaypoint(nav, i)
           records == Append(RteUpdates(v, rs), Wpt("delete", v, i))
           losses == Lost("restyled", Styled(nav, rs))
<1>1. /\ i \in 1..Len(nav.obj) /\ Sound(nav) /\ NoneShort(nav.pts) /\ NoneLost(nav)
      /\ rs \in SUBSET Routes
  BY InvariantGives, ContainersAre DEF Belong
<1>2. /\ made' \in [points : 0..MaxPoints, routes : 0..MaxRoutes]
      /\ Edit(w, records, losses)
  BY DEF DeletePoint, IInv, TypeOK
<1>3. /\ Sound(v) /\ Len(v.obj) = Len(nav.obj)
      /\ Sound(w) /\ NoneLost(w) /\ NoneShort(w.pts)
  BY <1>1, PointDestroyed
<1> HIDE DEF v, w, rs
<1>4. records \in Seq(Changes)
  <2>1. i \in 1..Len(v.obj)
    BY <1>1, <1>3
  <2>2. Wpt("delete", v, i) \in Changes
    BY <1>3, <2>1, MarkRecord DEF Actions
  <2>3. RteUpdates(v, rs) \in Seq(Changes)
    BY <1>1, <1>3, RouteRecords
  <2> QED
    BY <2>2, <2>3
<1>5. losses \in SUBSET Losses
  BY LossTypes DEF Losses
<1> HIDE DEF records, losses
<1> QED
  BY <1>2, <1>3, <1>4, <1>5, <1>0, EditKeeps

(* The lengths of a new route.                                             *)
Sizes == Nat \ {0, 1}

(* What drawing the points of stops makes of a world.                      *)
DrawnTo(w, r, stops, v) ==
    /\ Sound(v) /\ Len(v.pts[r]) = Len(w.pts[r]) + Len(stops)
    /\ \A q \in Routes : q # r => v.pts[q] = w.pts[q]
    /\ \A j \in Lacking(v) : j \in Lacking(w) /\ \A m \in 1..Len(stops) : stops[m].old # j

LEMMA PointsDrawnTo ==
    ASSUME NEW w, Sound(w), NEW r \in Routes, NEW stops, Len(stops) \in Nat,
           \A k \in 1..Len(stops) : /\ stops[k].old \in 0..Len(w.obj)
                                    /\ stops[k].old = 0 => stops[k].guid \in 1..MaxPoints
    PROVE  DrawnTo(w, r, stops, DrawThrough(w, r, stops))
<1> DEFINE v == DrawThrough(w, r, stops)
<1>1. /\ Sound(v)
      /\ Len(v.pts[r]) = Len(w.pts[r]) + Len(stops)
      /\ \A j \in Lacking(v) : j \in Lacking(w) /\ \A m \in 1..Len(stops) : stops[m].old # j
      /\ \A q \in Routes : q # r => v.pts[q] = w.pts[q]
  BY PointsDrawn
<1> HIDE DEF v
<1>2. DrawnTo(w, r, stops, v)
  BY <1>1 DEF DrawnTo
<1> QED
  BY <1>2 DEF v

(* A route is drawn in a world whose left-over objects, if it has some, the *)
(* route takes in.                                                         *)
LEMMA RouteDrawnIn ==
    ASSUME IInv, NEW base, Sound(base), NoneShort(base.pts),
           NEW n \in Sizes, NEW s \in [1..n -> 0..Len(base.obj)],
           \A j \in Lacking(base) : \E k \in 1..n : s[k] = j,
           NEW losses \in SUBSET Losses, DrawIn(base, s, losses), StraysOK(strays')
    PROVE  IInv'
<1> DEFINE r == made.routes + 1
           fresh == {k \in DOMAIN s : s[k] = 0}
           stops == [k \in DOMAIN s |-> [old |-> s[k], guid |-> made.points + Rank(fresh, k)]]
           w == DrawThrough(base, r, stops)
           c == Cardinality(fresh)
           records == <<Rte("add", w, r)>>
<1>1. /\ made.routes < MaxRoutes /\ made.points + c <= MaxPoints
      /\ Edit(w, records, losses)
      /\ made' = [points |-> made.points + c, routes |-> r]
  BY DEF DrawIn
<1>2. n \in Nat /\ n >= 2 /\ DOMAIN s = 1..n
  BY DEF Sizes
<1>3. /\ c \in Nat /\ \A k \in 1..n : k \in fresh => Rank(fresh, k) \in 1..c
  <2>1. fresh \in SUBSET (1..n)
    BY <1>2
  <2>2. \A k \in 1..n : s[k] = 0 <=> k \in fresh
    BY <1>2
  <2> HIDE DEF fresh
  <2>3. c \in Nat /\ \A k \in fresh : Rank(fresh, k) \in 1..c
    BY <1>2, <2>1, SortedElements
  <2> QED
    BY <2>3
<1>4. /\ MaxPoints \in Nat /\ MaxRoutes \in Nat
      /\ made.points \in 0..MaxPoints /\ made.routes \in 0..MaxRoutes
  BY NavAssumption DEF IInv, TypeOK
<1>5. \A k \in 1..n : k \in fresh <=> s[k] = 0
  BY <1>2
<1>6. \A k \in 1..n : stops[k] = [old |-> s[k], guid |-> made.points + Rank(fresh, k)]
  BY <1>2
<1>7. stops = [k \in 1..n |-> [old |-> s[k], guid |-> made.points + Rank(fresh, k)]]
  BY <1>2
<1> HIDE DEF fresh, c, stops
<1>8. Len(stops) = n
  BY <1>2, <1>7
<1>9. r \in Routes /\ r \in 0..MaxRoutes /\ made.points + c \in 0..MaxPoints
  BY <1>1, <1>3, <1>4 DEF Routes
<1>10. made' \in [points : 0..MaxPoints, routes : 0..MaxRoutes]
  BY <1>1, <1>9
<1> HIDE DEF r
<1>11. \A k \in 1..n : /\ stops[k].old \in 0..Len(base.obj) /\ stops[k].old = s[k]
                       /\ stops[k].old = 0 => stops[k].guid \in 1..MaxPoints
  <2> SUFFICES ASSUME NEW k \in 1..n
               PROVE  /\ stops[k].old \in 0..Len(base.obj) /\ stops[k].old = s[k]
                      /\ stops[k].old = 0 => stops[k].guid \in 1..MaxPoints
    OBVIOUS
  <2>1. stops[k].old = s[k] /\ stops[k].guid = made.points + Rank(fresh, k)
    <3>1. \A x, y : [old |-> x, guid |-> y].old = x /\ [old |-> x, guid |-> y].guid = y
      OBVIOUS
    <3>2. stops[k] = [old |-> s[k], guid |-> made.points + Rank(fresh, k)]
      BY <1>6
    <3> QED
      BY <3>1, <3>2
  <2>2. ASSUME s[k] = 0 PROVE made.points + Rank(fresh, k) \in 1..MaxPoints
    <3>1. Rank(fresh, k) \in 1..c
      BY <1>3, <1>5, <2>2
    <3> QED
      BY <1>1, <1>3, <1>4, <3>1
  <2> QED
    BY <2>1, <2>2
<1>12. Len(base.pts[r]) \in Nat
  BY <1>9, WorldTypes DEF Sound, Fits
<1>13. /\ Sound(w) /\ NoneLost(w) /\ Len(w.pts[r]) = Len(base.pts[r]) + n
       /\ \A q \in Routes : q # r => w.pts[q] = base.pts[q]
  <2>1. /\ Len(stops) \in Nat
        /\ \A k \in 1..Len(stops) : /\ stops[k].old \in 0..Len(base.obj)
                                    /\ stops[k].old = 0 => stops[k].guid \in 1..MaxPoints
    BY <1>2, <1>8, <1>11
  <2>2. /\ Sound(w) /\ Len(w.pts[r]) = Len(base.pts[r]) + Len(stops)
        /\ \A q \in Routes : q # r => w.pts[q] = base.pts[q]
        /\ \A j \in Lacking(w) : j \in Lacking(base) /\ \A m \in 1..Len(stops) : stops[m].old # j
    <3>1. DrawnTo(base, r, stops, w)
      BY <1>9, <2>1, PointsDrawnTo
    <3> HIDE DEF w
    <3> QED
      BY <3>1 DEF DrawnTo
  <2> HIDE DEF w
  <2>4. Lacking(w) = {}
    BY <1>8, <1>11, <2>2
  <2>5. NoneLost(w)
    BY <2>4 DEF NoneLost, Lacking
  <2> QED
    BY <1>8, <2>2, <2>5
<1> HIDE DEF w
<1>14. Len(w.pts[r]) # 1
  BY <1>2, <1>12, <1>13
<1>15. NoneShort(w.pts)
  BY <1>12, <1>13, <1>14 DEF NoneShort
<1>16. records \in Seq(Changes)
  <2>1. Rte("add", w, r) \in Changes
    BY <1>9, <1>13, RecordsAre DEF Actions
  <2> QED
    BY <2>1
<1> HIDE DEF records
<1> QED
  BY <1>1, <1>10, <1>13, <1>15, <1>16, EditKeeps

LEMMA RouteDrawn ==
    ASSUME NEW n \in Sizes, NEW s \in [1..n -> 0..Len(nav.obj)]
    PROVE  IInv /\ DrawRoute(s) => IInv'
<1> SUFFICES ASSUME IInv, DrawRoute(s) PROVE IInv'
  OBVIOUS
<1>1. DrawIn(nav, s, {}) /\ StraysOK(strays')
  BY InvariantGives DEF DrawRoute
<1>2. Sound(nav) /\ NoneShort(nav.pts) /\ Lacking(nav) = {}
  BY InvariantGives DEF Belong, NoneLost, Lacking
<1> QED
  BY <1>1, <1>2, RouteDrawnIn

(* What a route takes in.                                                  *)
LEMMA StraysTaken ==
    ASSUME StraysOK(strays), NEW J \in SUBSET (1..Len(strays))
    PROVE  /\ StraysOK(Taken(J)) /\ Len(Taken(J)) = Cardinality(J)
           /\ \A k \in 1..Cardinality(J) : \E i \in J : Taken(J)[k].guid = strays[i].guid
<1> DEFINE s == Chosen(strays, J)
           t == [k \in DOMAIN s |-> [s[k] EXCEPT !.shared = TRUE]]
           c == Cardinality(J)
<1>1. /\ s \in Seq(Objects) /\ Len(s) = c
      /\ \A k \in 1..c : s[k].listed /\ s[k].inRoute /\ ~s[k].isolated
      /\ \A k \in 1..c : \E i \in J : s[k] = strays[i]
  BY ChosenStrays DEF StraysOK
<1>2. Taken(J) = t
  BY DEF Taken
<1> HIDE DEF s, c
<1>3. c \in Nat /\ DOMAIN s = 1..c /\ \A k \in 1..c : s[k] \in Objects
  BY <1>1
<1>4. \A k \in 1..c : t[k] = [s[k] EXCEPT !.shared = TRUE]
  BY <1>3
<1>5. \A o \in Objects : LET x == [o EXCEPT !.shared = TRUE] IN
         /\ x \in Objects /\ x.listed = o.listed /\ x.inRoute = o.inRoute
         /\ x.isolated = o.isolated /\ x.guid = o.guid
  BY DEF Objects
<1>6. \A k \in 1..c : /\ t[k] \in Objects /\ t[k].listed /\ t[k].inRoute /\ ~t[k].isolated
                      /\ t[k].guid = s[k].guid
  BY <1>1, <1>3, <1>4, <1>5
<1>7. t \in [1..c -> Objects]
  BY <1>3, <1>6
<1> HIDE DEF t
<1>8. t \in Seq(Objects) /\ Len(t) = c
  BY <1>3, <1>7, FunctionSeq
<1>9. \A k \in 1..c : \E i \in J : t[k].guid = strays[i].guid
  BY <1>1, <1>6
<1> QED
  BY <1>2, <1>6, <1>8, <1>9 DEF StraysOK, c

(* The world in which the objects at J are no left-overs any more.         *)
LEMMA StraysJoined ==
    ASSUME IInv, NEW J \in SUBSET DOMAIN strays
    PROVE  LET v == Joined(nav, Taken(J))
               c == Cardinality(J) IN
           /\ Sound(v) /\ v.pts = nav.pts /\ v.look = nav.look /\ c \in Nat
           /\ Len(v.obj) = Len(nav.obj) + c
           /\ \A j \in 1..Len(nav.obj) : v.obj[j] = nav.obj[j]
           /\ \A j \in 1..Len(v.obj) : j \in 1..Len(nav.obj) \/ \E k \in 1..c : j = Len(nav.obj) + k
           /\ \A k \in 1..c : \E i \in J : v.obj[Len(nav.obj) + k].guid = strays[i].guid
           /\ \A j : In(v, j) <=> In(nav, j)
           /\ \A j \in Lacking(v) : j \in Len(nav.obj) + 1..Len(nav.obj) + c
<1> DEFINE s == Taken(J)
           v == Joined(nav, s)
           n == Len(nav.obj)
           c == Cardinality(J)
<1>1. /\ Sound(nav) /\ n \in Nat /\ StraysOK(strays)
      /\ \A j \in 1..n : nav.obj[j].isolated \/ In(nav, j)
  BY InvariantGives DEF Belong, AllPlaced
<1>2. J \in SUBSET (1..Len(strays))
  BY <1>1 DEF StraysOK
<1>3. /\ StraysOK(s) /\ Len(s) = c /\ c \in Nat
      /\ \A k \in 1..c : \E i \in J : s[k].guid = strays[i].guid
  <2>1. StraysOK(s) /\ Len(s) = c /\ \A k \in 1..c : \E i \in J : s[k].guid = strays[i].guid
    BY <1>1, <1>2, StraysTaken
  <2>2. Len(s) \in Nat
    BY <2>1 DEF StraysOK
  <2> QED
    BY <2>1, <2>2
<1> HIDE DEF s, c
<1>4. s \in Seq(Objects) /\ \A k \in 1..Len(s) : ~s[k].isolated
  BY <1>3 DEF StraysOK
<1>5. /\ Sound(v) /\ Len(v.obj) = n + c /\ v.pts = nav.pts /\ v.look = nav.look
      /\ \A j \in 1..n : v.obj[j] = nav.obj[j]
      /\ \A j \in 1..Len(v.obj) : j \in 1..n \/ \E k \in 1..c : j = n + k
      /\ \A j : In(v, j) <=> In(nav, j)
      /\ \A k \in 1..c : v.obj[n + k] = s[k]
  <2>1. /\ Sound(v) /\ Len(v.obj) = n + Len(s) /\ v.pts = nav.pts /\ v.look = nav.look
        /\ \A j \in 1..n : v.obj[j] = nav.obj[j]
        /\ \A j \in 1..Len(v.obj) : j \in 1..n \/ \E k \in 1..Len(s) : j = n + k
        /\ \A j : In(v, j) <=> In(nav, j)
        /\ \A k \in 1..Len(s) : /\ ~In(v, n + k) /\ n + k \in 1..Len(v.obj)
                                /\ v.obj[n + k] = s[k]
    BY <1>1, <1>4, ObjectsAdded, Zenon
  <2> HIDE DEF v, n
  <2> QED
    BY <1>3, <2>1
<1> HIDE DEF v, n
<1>6. \A k \in 1..c : n + k \in n + 1..n + c
  BY <1>1, <1>3
<1>7. \A j \in Lacking(v) : j \in n + 1..n + c
  BY <1>1, <1>5, <1>6 DEF Lacking
<1> QED
  BY <1>3, <1>5, <1>7 DEF v, n, c, s

LEMMA StraysDrawn ==
    ASSUME NEW J \in SUBSET DOMAIN strays, NEW n \in Sizes,
           NEW s \in [1..n -> 0..Len(nav.obj) + Cardinality(J)]
    PROVE  IInv /\ DrawThroughStrays(J, s) => IInv'
<1> SUFFICES ASSUME IInv, DrawThroughStrays(J, s) PROVE IInv'
  OBVIOUS
<1> DEFINE base == Joined(nav, Taken(J))
<1>1. /\ DrawIn(base, s, {"reused"})
      /\ Len(nav.obj) + 1..Len(nav.obj) + Cardinality(J) \subseteq Range(s)
      /\ strays' = Chosen(strays, DOMAIN strays \ J)
  BY DEF DrawThroughStrays, Joined
<1>2. StraysOK(strays')
  <2>1. StraysOK(strays) /\ DOMAIN strays \ J \in SUBSET (1..Len(strays))
    BY InvariantGives DEF StraysOK
  <2> QED
    BY <1>1, <2>1, ChosenStrays
<1>3. /\ Sound(base) /\ base.pts = nav.pts /\ Len(base.obj) = Len(nav.obj) + Cardinality(J)
      /\ \A j \in Lacking(base) : j \in Len(nav.obj) + 1..Len(nav.obj) + Cardinality(J)
  BY StraysJoined
<1> HIDE DEF base
<1>4. \A j \in Lacking(base) : \E k \in 1..n : s[k] = j
  <2>1. Range(s) = {s[k] : k \in 1..n}
    BY DEF Range
  <2> QED
    BY <1>1, <1>3, <2>1
<1>5. NoneShort(base.pts) /\ {"reused"} \in SUBSET Losses /\ s \in [1..n -> 0..Len(base.obj)]
  BY <1>3, InvariantGives DEF Belong, Losses
<1> QED
  BY <1>1, <1>2, <1>3, <1>4, <1>5, RouteDrawnIn

LEMMA StrayDeleted == ASSUME NEW j \in DOMAIN strays PROVE IInv /\ DeleteStray(j) => IInv'
<1> SUFFICES ASSUME IInv, DeleteStray(j) PROVE IInv'
  OBVIOUS
<1> DEFINE w == AddRoutePoint(nav, strays[j])
           records == <<Wpt("delete", w, Len(w.obj))>>
<1>1. /\ Sound(nav) /\ NoneShort(nav.pts) /\ NoneLost(nav) /\ StraysOK(strays)
      /\ Len(nav.obj) \in Nat
  BY InvariantGives DEF Belong
<1>2. /\ made' \in [points : 0..MaxPoints, routes : 0..MaxRoutes]
      /\ Edit(nav, records, {"reused"}) /\ strays' = Chosen(strays, DOMAIN strays \ {j})
  BY DEF DeleteStray, IInv, TypeOK
<1>3. StraysOK(strays')
  <2>1. DOMAIN strays \ {j} \in SUBSET (1..Len(strays))
    BY <1>1 DEF StraysOK
  <2> QED
    BY <1>1, <1>2, <2>1, ChosenStrays
<1>4. strays[j] \in Objects /\ ~strays[j].isolated
  BY <1>1 DEF StraysOK
<1>5. Sound(w) /\ Len(w.obj) = Len(nav.obj) + 1
  BY <1>1, <1>4, ObjectAdded
<1> HIDE DEF w
<1>6. records \in Seq(Changes) /\ {"reused"} \in SUBSET Losses
  <2>1. Len(w.obj) \in 1..Len(w.obj)
    BY <1>1, <1>5
  <2>2. Wpt("delete", w, Len(w.obj)) \in Changes
    BY <1>5, <2>1, MarkRecord DEF Actions
  <2> QED
    BY <2>2 DEF Losses
<1> HIDE DEF records
<1> QED
  BY <1>1, <1>2, <1>3, <1>6, EditKeeps

LEMMA RouteRestyled == ASSUME NEW r \in Routes PROVE IInv /\ RestyleRoute(r) => IInv'
<1> SUFFICES ASSUME IInv, RestyleRoute(r) PROVE IInv'
  OBVIOUS
<1>0. StraysOK(strays')
  BY InvariantGives DEF RestyleRoute
<1> DEFINE w == [nav EXCEPT !.look[r] = 1]
           records == <<Rte("update", w, r)>>
<1>1. Sound(nav) /\ NoneShort(nav.pts) /\ NoneLost(nav)
  BY InvariantGives DEF Belong
<1>2. /\ made' \in [points : 0..MaxPoints, routes : 0..MaxRoutes]
      /\ Edit(w, records, {"restyled"})
  BY DEF RestyleRoute, IInv, TypeOK
<1>3. Sound(w) /\ NoneLost(w) /\ w.pts = nav.pts
  BY <1>1, LookChanged
<1> HIDE DEF w
<1>4. records \in Seq(Changes)
  <2>1. Rte("update", w, r) \in Changes
    BY <1>3, RecordsAre DEF Actions
  <2> QED
    BY <2>1
<1>5. {"restyled"} \in SUBSET Losses
  BY DEF Losses
<1> HIDE DEF records
<1> QED
  BY <1>1, <1>2, <1>3, <1>4, <1>5, <1>0, EditKeeps

LEMMA PointTakenOut ==
    ASSUME NEW r \in Routes, NEW i \in DOMAIN nav.obj
    PROVE  IInv /\ TakeOutPoint(r, i) => IInv'
<1> SUFFICES ASSUME IInv, TakeOutPoint(r, i) PROVE IInv'
  OBVIOUS
<1>0. StraysOK(strays')
  BY InvariantGives DEF TakeOutPoint
<1> DEFINE w == RemovePoint(nav, {r}, i)
           v == DropRoute(w, r)
           losses == Lost("taken", ~nav.obj[i].shared /\ Containers(nav, i) = {r})
                     \cup Lost("restyled", Styled(nav, {r}))
           short == <<Rte("update", w, r), Rte("delete", w, r), Rte("delete", w, r)>>
           records == <<Rte("update", w, r)>>
<1>1. /\ Sound(nav) /\ NoneShort(nav.pts) /\ NoneLost(nav) /\ i \in 1..Len(nav.obj)
  BY InvariantGives DEF Belong
<1>2. /\ made' \in [points : 0..MaxPoints, routes : 0..MaxRoutes]
      /\ IF Len(w.pts[r]) <= 1 THEN Edit(v, short, losses) ELSE Edit(w, records, losses)
  BY DEF TakeOutPoint, IInv, TypeOK
<1>3. losses \in SUBSET Losses
  <2>1. "taken" \in Losses /\ "restyled" \in Losses
    BY DEF Losses
  <2> QED
    BY <2>1, LossTypes
<1> HIDE DEF losses
<1>4. /\ Sound(w) /\ NoneLost(w)
      /\ \A q \in Routes : w.pts[q] = IF q \in {r} THEN Without(nav.pts[q], i) ELSE nav.pts[q]
  BY <1>1, PointRemoved
<1> HIDE DEF w
<1>5. /\ Sound(v) /\ NoneLost(v)
      /\ \A q \in Routes : v.pts[q] = IF q \in {r} THEN <<>> ELSE w.pts[q]
  BY <1>4, RoutesDropped DEF DropRoute
<1> HIDE DEF v
<1>6. Rte("update", w, r) \in Changes /\ Rte("delete", w, r) \in Changes
  BY <1>4, RecordsAre DEF Actions
<1>7. short \in Seq(Changes) /\ records \in Seq(Changes)
  BY <1>6
<1> HIDE DEF short, records
<1>8. NoneShort(v.pts)
  <2>1. \A q \in Routes : v.pts[q] = <<>> \/ v.pts[q] = nav.pts[q]
    BY <1>4, <1>5
  <2>2. Len(<<>>) # 1
    OBVIOUS
  <2> QED
    BY <1>1, <2>1, <2>2 DEF NoneShort
<1>9. CASE Len(w.pts[r]) <= 1
  BY <1>2, <1>3, <1>5, <1>7, <1>8, <1>9, <1>0, EditKeeps
<1>10. CASE ~(Len(w.pts[r]) <= 1)
  <2>1. Len(w.pts[r]) # 1
    <3>1. Len(w.pts[r]) \in Nat
      BY <1>4, WorldTypes DEF Sound, Fits
    <3>2. \A k \in Nat : ~(k <= 1) => k # 1
      OBVIOUS
    <3> QED
      BY <1>10, <3>1, <3>2
  <2>2. NoneShort(w.pts)
    BY <1>1, <1>4, <2>1 DEF NoneShort
  <2> QED
    BY <1>2, <1>3, <1>4, <1>7, <1>10, <2>2, <1>0, EditKeeps
<1> QED
  BY <1>9, <1>10

(* Routes that are deleted leave no short route behind.                    *)
LEMMA DroppedKept ==
    ASSUME IInv, NEW rs
    PROVE  LET w == DropRoutes(nav, rs) IN Sound(w) /\ NoneLost(w) /\ NoneShort(w.pts)
<1> DEFINE w == DropRoutes(nav, rs)
<1>1. Sound(nav) /\ NoneShort(nav.pts) /\ NoneLost(nav)
  BY InvariantGives DEF Belong
<1>2. /\ Sound(w) /\ NoneLost(w)
      /\ \A q \in Routes : w.pts[q] = IF q \in rs THEN <<>> ELSE nav.pts[q]
  BY <1>1, RoutesDropped
<1> HIDE DEF w
<1>3. \A q \in Routes : w.pts[q] = <<>> \/ w.pts[q] = nav.pts[q]
  BY <1>2
<1>4. Len(<<>>) # 1
  OBVIOUS
<1>5. NoneShort(w.pts)
  BY <1>1, <1>3, <1>4 DEF NoneShort
<1> QED
  BY <1>2, <1>5 DEF w

LEMMA RouteDeleted == ASSUME NEW r \in Routes PROVE IInv /\ DeleteRoute(r) => IInv'
<1> SUFFICES ASSUME IInv, DeleteRoute(r) PROVE IInv'
  OBVIOUS
<1>0. StraysOK(strays')
  BY InvariantGives DEF DeleteRoute
<1> DEFINE w == DropRoute(nav, r)
           records == <<Rte("delete", nav, r)>>
<1>1. /\ made' \in [points : 0..MaxPoints, routes : 0..MaxRoutes]
      /\ Edit(w, records, {})
  BY DEF DeleteRoute, IInv, TypeOK
<1>2. Sound(w) /\ NoneLost(w) /\ NoneShort(w.pts)
  BY DroppedKept DEF DropRoute
<1>3. records \in Seq(Changes)
  <2>1. Rte("delete", nav, r) \in Changes
    BY InvariantGives, RecordsAre DEF Belong, Actions
  <2> QED
    BY <2>1
<1> HIDE DEF w, records
<1> QED
  BY <1>1, <1>2, <1>3, <1>0, EditKeeps

LEMMA AllRoutesDeleted == IInv /\ DeleteAllRoutes => IInv'
<1> SUFFICES ASSUME IInv, DeleteAllRoutes PROVE IInv'
  OBVIOUS
<1>0. StraysOK(strays')
  BY InvariantGives DEF DeleteAllRoutes
<1> DEFINE w == DropRoutes(nav, Routes)
           records == <<>>
<1>1. /\ made' \in [points : 0..MaxPoints, routes : 0..MaxRoutes]
      /\ Edit(w, records, {"wiped"})
  BY DEF DeleteAllRoutes, IInv, TypeOK
<1>2. Sound(w) /\ NoneLost(w) /\ NoneShort(w.pts)
  BY DroppedKept
<1>3. records \in Seq(Changes) /\ {"wiped"} \in SUBSET Losses
  BY DEF Losses
<1> HIDE DEF w, records
<1> QED
  BY <1>1, <1>2, <1>3, <1>0, EditKeeps

LEMMA FileTypes ==
    ASSUME IInv
    PROVE  /\ file \in Docs \cup {Torn} /\ (file # Torn => NoneShort(file.routes))
           /\ log \in Seq(Changes) /\ Len(log) <= MaxLog /\ phase \in Phases
           /\ made \in [points : 0..MaxPoints, routes : 0..MaxRoutes] /\ lossy \subseteq Losses
           /\ MaxLog \in Nat
BY NavAssumption DEF IInv, TypeOK

LEMMA SaveStarted == IInv /\ StartSave => IInv'
<1> SUFFICES ASSUME IInv, StartSave PROVE IInv'
  OBVIOUS
<1>1. /\ file' = Torn /\ phase' \in Phases
      /\ nav' = nav /\ log' = log /\ made' = made /\ lossy' = lossy /\ strays' = strays
  BY DEF StartSave, Phases
<1>2. Belong(nav') /\ StraysOK(strays')
  BY <1>1, InvariantGives
<1> QED
  BY <1>1, <1>2, FileTypes, InvariantFollows

(* What is written has no route of one point.                              *)
LEMMA DocumentWritten ==
    ASSUME NEW w, Belong(w)
    PROVE  CreateAllGPXObjects(w) \in Docs /\ NoneShort(CreateAllGPXObjects(w).routes)
<1> DEFINE S == {i \in DOMAIN w.obj : w.obj[i].listed /\ w.obj[i].isolated}
           order == Sorted(S)
           c == Cardinality(S)
           marks == [k \in DOMAIN order |-> Record(w.obj[order[k]])]
           routes == [r \in Routes |-> Points(w, r)]
<1>1. w \in Worlds /\ Sound(w) /\ NoneShort(w.pts)
  BY DEF Belong, Sound, Fits
<1>2. S \in SUBSET (1..Len(w.obj)) /\ Len(w.obj) \in Nat
  BY <1>1, WorldTypes
<1>3. CreateAllGPXObjects(w) = [marks |-> marks, routes |-> routes, look |-> w.look]
  BY DEF CreateAllGPXObjects
<1> HIDE DEF S
<1>4. c \in Nat /\ DOMAIN order = 1..c /\ \A k \in 1..c : order[k] \in S
  BY <1>2, SortedElements
<1> HIDE DEF order, c
<1>5. \A k \in 1..c : order[k] \in 1..Len(w.obj)
  BY <1>2, <1>4
<1>6. marks \in [1..c -> Recs]
  BY <1>1, <1>4, <1>5, RecordsAre
<1> HIDE DEF marks
<1>7. marks \in Seq(Recs)
  BY <1>4, <1>6, FunctionSeq
<1>8. routes \in [Routes -> Seq(Recs)] /\ \A r \in Routes : Len(routes[r]) = Len(w.pts[r])
  BY <1>1, RecordsAre
<1> HIDE DEF routes
<1>9. w.look \in [Routes -> 0..1]
  BY <1>1 DEF Worlds
<1> QED
  BY <1>1, <1>3, <1>7, <1>8, <1>9 DEF Docs, NoneShort

LEMMA WriteFinished == IInv /\ FinishWrite => IInv'
<1> SUFFICES ASSUME IInv, FinishWrite PROVE IInv'
  OBVIOUS
<1>1. /\ file' = CreateAllGPXObjects(nav) /\ phase' \in Phases
      /\ nav' = nav /\ log' = log /\ made' = made /\ lossy' = lossy /\ strays' = strays
  BY DEF FinishWrite, Phases
<1>2. Belong(nav') /\ StraysOK(strays')
  BY <1>1, InvariantGives
<1>3. file' \in Docs /\ NoneShort(file'.routes)
  BY <1>1, InvariantGives, DocumentWritten
<1> QED
  BY <1>1, <1>2, <1>3, FileTypes, InvariantFollows

LEMMA NoStrays == StraysOK(<<>>)
BY DEF StraysOK

LEMMA ChangesRemoved == IInv /\ RemoveChanges => IInv'
<1> SUFFICES ASSUME IInv, RemoveChanges PROVE IInv'
  OBVIOUS
<1>1. /\ phase' \in Phases /\ log' = <<>> /\ nav' = nav /\ file' = file /\ made' = made
      /\ lossy' = Lost("damaged", Damaged(nav)) /\ strays' \in {strays, <<>>}
  BY DEF RemoveChanges, Phases
<1>2. Belong(nav') /\ StraysOK(strays')
  BY <1>1, InvariantGives, NoStrays
<1>3. lossy' \subseteq Losses
  BY <1>1, LossTypes DEF Losses
<1>4. log' \in Seq(Changes) /\ Len(log') <= MaxLog
  BY <1>1, FileTypes
<1> QED
  BY <1>1, <1>2, <1>3, <1>4, FileTypes, InvariantFollows

LEMMA Crashed == IInv /\ Crash => IInv'
<1> SUFFICES ASSUME IInv, Crash PROVE IInv'
  OBVIOUS
<1>1. /\ phase' \in Phases /\ nav' = nav /\ file' = file /\ log' = log /\ made' = made
      /\ lossy' = lossy \cup Lost("torn", phase = "writing") \cup Lost("applied", phase = "applied")
      /\ strays' = <<>>
  BY DEF Crash, Phases
<1>2. Belong(nav') /\ StraysOK(strays')
  BY <1>1, InvariantGives, NoStrays
<1>3. lossy' \subseteq Losses
  <2>1. "torn" \in Losses /\ "applied" \in Losses
    BY DEF Losses
  <2>2. Lost("torn", phase = "writing") \subseteq Losses
    BY <2>1, LossTypes
  <2>3. Lost("applied", phase = "applied") \subseteq Losses
    BY <2>1, LossTypes
  <2> QED
    BY <1>1, <2>2, <2>3, FileTypes
<1> QED
  BY <1>1, <1>2, <1>3, FileTypes, InvariantFollows

LEMMA EmptySound == Sound(Empty) /\ NoneShort(Empty.pts) /\ Belong(Empty)
<1>1. Empty \in Worlds /\ Len(Empty.obj) = 0 /\ \A r \in Routes : Empty.pts[r] = <<>>
  BY DEF Empty, Worlds
<1>2. Len(<<>>) = 0 /\ \A i : i \notin 1..0
  OBVIOUS
<1> QED
  BY <1>1, <1>2 DEF Belong, Sound, Fits, FlagsOK, NoneShort, AllPlaced

LEMMA Started == IInv /\ Start => IInv'
<1> SUFFICES ASSUME IInv, Start PROVE IInv'
  OBVIOUS
<1> DEFINE l == IF file = Torn THEN Empty ELSE LoadAllGPXObjects(file)
           w == ApplyChanges(l, log)
<1>1. /\ nav' = Restored /\ log' = <<>> /\ file' = file /\ made' = made
      /\ lossy' = Lost("damaged", Damaged(nav')) /\ phase' \in Phases /\ strays' = LeftOver
  BY DEF Start, Phases
<1>2. l \in Neat /\ Sound(l) /\ NoneShort(l.pts)
  <2>1. Empty \in Neat
    BY EmptySound, NeatIs DEF Flagged, Empty
  <2> QED
    BY <2>1, FileTypes, EmptySound, DocumentLoaded, DocumentNeat
<1>3. /\ Restored = Compact(w, Shown(w))
      /\ LeftOver = Chosen(w.obj, Held(w) \ Shown(w))
  BY DEF Restored, LeftOver, Replayed
<1> HIDE DEF l
<1>4. Sound(w) /\ NoneShort(w.pts) /\ w \in Neat
  BY <1>2, FileTypes, ChangesApplied, ChangesNeat
<1>8. StraysOK(strays')
  BY <1>1, <1>3, <1>4, LeftOverAre
<1> HIDE DEF w
<1>5. Belong(nav')
  BY <1>1, <1>3, <1>4, KeptShown
<1>6. lossy' \subseteq Losses
  <2>1. "damaged" \in Losses
    BY DEF Losses
  <2>2. \E b : lossy' = Lost("damaged", b)
    BY <1>1
  <2> QED
    BY <2>1, <2>2, LossTypes
<1>7. log' \in Seq(Changes) /\ Len(log') <= MaxLog
  BY <1>1, FileTypes
<1> QED
  BY <1>1, <1>5, <1>6, <1>7, <1>8, FileTypes, InvariantFollows

LEMMA InitiallyIInv == Init => IInv
<1> SUFFICES ASSUME Init PROVE IInv
  OBVIOUS
<1>1. /\ nav = Empty /\ file = CreateAllGPXObjects(Empty) /\ log = <<>> /\ phase = "up"
      /\ made = [points |-> 0, routes |-> 0] /\ lossy = {} /\ strays = <<>>
  BY DEF Init
<1>2. file \in Docs /\ NoneShort(file.routes)
  BY <1>1, EmptySound, DocumentWritten
<1>3. nav \in Worlds /\ Belong(nav)
  BY <1>1, EmptySound DEF Belong, Sound, Fits
<1>4. /\ \A r \in Routes : Range(nav.pts[r]) \subseteq DOMAIN nav.obj
      /\ \A r \in Routes : Len(nav.pts[r]) # 1
      /\ \A i \in DOMAIN nav.obj : /\ nav.obj[i].inRoute = (Containers(nav, i) # {})
                                   /\ nav.obj[i].isolated = (Containers(nav, i) = {})
  BY <1>3, BelongMeans
<1>5. /\ log \in Seq(Changes) /\ Len(log) <= MaxLog
      /\ made \in [points : 0..MaxPoints, routes : 0..MaxRoutes]
  BY <1>1, NavAssumption
<1>6. strays \in Seq(Objects) /\ DOMAIN strays = {}
  BY <1>1
<1> QED
  BY <1>1, <1>2, <1>3, <1>4, <1>5, <1>6 DEF IInv, TypeOK, PointsBelong, Phases

LEMMA StepKeeps == IInv /\ [Next]_vars => IInv'
<1> SUFFICES ASSUME IInv, [Next]_vars PROVE IInv'
  OBVIOUS
<1>1. CASE UNCHANGED vars
  BY <1>1 DEF vars, IInv, TypeOK, PointsBelong
<1>2. ASSUME NEW i \in DOMAIN nav.obj, MovePoint(i) \/ DeleteMark(i) \/ DeletePoint(i)
      PROVE  IInv'
  BY <1>2, PointMoved, MarkDeleted, PointDeleted
<1>3. ASSUME NEW x, NEW n \in 2..x,
             \/ \E s \in [1..n -> 0..Len(nav.obj)] : DrawRoute(s)
             \/ \E J \in (SUBSET DOMAIN strays) \ {{}} :
                \E s \in [1..n -> 0..Len(nav.obj) + Cardinality(J)] : DrawThroughStrays(J, s)
      PROVE  IInv'
  <2>1. n \in Sizes
    BY DEF Sizes
  <2>2. ASSUME NEW s \in [1..n -> 0..Len(nav.obj)], DrawRoute(s) PROVE IInv'
    BY <2>1, <2>2, RouteDrawn
  <2>3. ASSUME NEW J \in SUBSET DOMAIN strays,
               NEW s \in [1..n -> 0..Len(nav.obj) + Cardinality(J)], DrawThroughStrays(J, s)
        PROVE  IInv'
    BY <2>1, <2>3, StraysDrawn
  <2> QED
    BY <1>3, <2>2, <2>3
<1>4. ASSUME NEW r \in Routes,
             \/ RestyleRoute(r) \/ DeleteRoute(r)
             \/ \E i \in DOMAIN nav.obj : TakeOutPoint(r, i)
      PROVE  IInv'
  BY <1>4, RouteRestyled, RouteDeleted, PointTakenOut
<1>5. ASSUME NEW j \in DOMAIN strays, DeleteStray(j) PROVE IInv'
  BY <1>5, StrayDeleted
<1> QED
  BY <1>1, <1>2, <1>3, <1>4, <1>5, MarkDropped, AllRoutesDeleted, SaveStarted, WriteFinished,
     ChangesRemoved, Crashed, Started DEF Next

-----------------------------------------------------------------------------
(* The theorems *)

LEMMA InvariantHolds == Spec => []IInv
<1>1. Init => IInv
  BY InitiallyIInv
<1>2. IInv /\ [Next]_vars => IInv'
  BY StepKeeps
<1> QED
  BY <1>1, <1>2, PTL DEF Spec

(* The two files, the world, the records and what a crash would undo stay  *)
(* what their types say: no record names an object that is not there.      *)
THEOREM TypeCorrectness == Spec => []TypeOK
<1>1. IInv => TypeOK
  BY DEF IInv
<1> QED
  BY <1>1, InvariantHolds, PTL

(* However many points, routes and records there are, and whenever the     *)
(* program dies, no route has one point, a point of a route is no isolated *)
(* mark, and the points that are neither are those that a replay left in   *)
(* the list, flagged in-route.                                             *)
THEOREM PointsKept == Spec => []PointsBelong
<1>1. IInv => PointsBelong
  BY DEF IInv
<1> QED
  BY <1>1, InvariantHolds, PTL

=============================================================================
