--------------------------- MODULE RouteNavProofs ---------------------------
(***************************************************************************)
(* TLAPS proofs about RouteNav, for any points, marks, routes and length   *)
(* of routes, about a user who is Settled (see below), who may activate    *)
(* one route over another in the dialog.                                   *)
(*                                                                         *)
(* The handlers are operators on a state w of the objects, so the lemmas   *)
(* are about them: a call that finds the objects sound leaves them sound.  *)
(* The lemma of an action puts together those of the calls it makes.       *)
(***************************************************************************)
EXTENDS RouteNav, FiniteSetTheorems, SequenceTheorems, WellFoundedInduction, TLAPS

-----------------------------------------------------------------------------
(* The inductive invariant.  Its parts are predicates of a state w of the  *)
(* objects, because an action passes through several of them.              *)

\* The user reuses no point within a route and answers a drag at once.
Settled == Habits \intersect {"loop", "ponder"} = {}

Typed(w) == w \in NavType /\ (w.route = NONE <=> w.point = NONE)

\* A route that is not listed is empty; a point is in a route at most once;
\* only a point that has existed can be flagged as active.
Tidy(w) ==
    /\ \A r \in Routes \ w.listed : w.pts[r] = <<>>
    /\ \A r \in w.listed : NoRepeat(w.pts[r])
    /\ w.temp \subseteq w.listed
    /\ \A p \in w.actPts : w.life[p] # "unborn"

\* RoutePointsAlive, InRouteFlagExact, NothingUnsaved, ActiveRouteIntact of w.
AliveIn(w) ==
    \A r \in w.listed : \A p \in Range(w.pts[r]) : w.life[p] = "live"

FlagIn(w) ==
    \A p \in Points : w.life[p] = "live" =>
        (p \in w.inRoute <=> Containers(w, p) # {})

SavedIn(w) ==
    \A p \in Points : w.life[p] = "live" =>
        p \in w.isolated \/ Containers(w, p) # {}

ActiveIn(w) ==
    w.route # NONE =>
        /\ w.route \in w.listed \intersect w.actRts
        /\ w.point \in Range(w.pts[w.route]) \intersect w.actPts
        /\ w.life[w.point] = "live"
        /\ w.rtePoint[w.route] = w.point

\* A mark that is part of a route is a shared one.
MarksShared(w) ==
    \A p \in Marks : /\ w.life[p] # "unborn"
                     /\ Containers(w, p) # {} => p \in w.shared

Sound(w) ==
    /\ Typed(w)
    /\ Tidy(w)
    /\ AliveIn(w)
    /\ FlagIn(w)
    /\ SavedIn(w)
    /\ ActiveIn(w)
    /\ MarksShared(w)

\* FlagsExact of w, which is no invariant but outlives most steps.
ExactIn(w) ==
    /\ w.actRts = {w.route} \ {NONE}
    /\ \A p \in w.actPts : w.life[p] = "live" => p = w.point

\* A call that finds w sound leaves v.
Keeps(w, v) == Sound(v) /\ (ExactIn(w) => ExactIn(v))

\* One thing is asked of the chart at a time, and what a drag found stands
\* until its question is answered.
DragStands ==
    asked # NONE =>
        /\ asked.point # asked.onto
        /\ nav.life[asked.onto] = "live"
        /\ asked.point \notin nav.actPts
        /\ asked.routes = Containers(nav, asked.point)
        /\ asked.routes # {}
        /\ \A r \in asked.routes :
              NoRepeat(Replace(nav.pts[r], asked.point, asked.onto))

OneAtATime ==
    /\ mouse # NONE => asked = NONE /\ wiping = "no" /\ mouse \notin nav.temp
    /\ asked # NONE => wiping = "no"

IInv == TypeOK /\ Sound(nav) /\ DragStands /\ OneAtATime

-----------------------------------------------------------------------------
(* Sequences: the elements of what the operators of SequencesExt return    *)

(* Every inhabited set of natural numbers has a least element.             *)
LEMMA LeastNumber ==
    ASSUME NEW K, K \subseteq Nat, K # {}
    PROVE  \E k \in K : \A j \in K : k =< j
<1> DEFINE R == OpToRel(<, Nat)
<1>1. IsWellFoundedOn(R, Nat)
  BY NatLessThanWellFounded
<1>2. \A x, y \in Nat : x < y => <<x, y>> \in R
  BY DEF OpToRel
<1> HIDE DEF R
<1>3. PICK k \in K : \A j \in K : ~(<<j, k>> \in R)
  BY <1>1, WFMin
<1>4. ASSUME NEW j \in K PROVE k =< j
  <2>1. j \in Nat /\ k \in Nat /\ ~(j < k)
    BY <1>2, <1>3
  <2> QED
    BY <2>1
<1> QED
  BY <1>4

(* The elements of a sequence are what its positions hold.                 *)
LEMMA RangeElements ==
    ASSUME NEW S, NEW s \in Seq(S)
    PROVE  /\ \A x : x \in Range(s) <=> \E i \in 1..Len(s) : s[i] = x
           /\ Range(s) \subseteq S
<1>1. DOMAIN s = 1..Len(s) /\ \A i \in 1..Len(s) : s[i] \in S
  OBVIOUS
<1> QED
  BY <1>1 DEF Range

(* IndexOf finds an element that is there.                                 *)
LEMMA IndexOfElement ==
    ASSUME NEW S, NEW s \in Seq(S), NEW p \in Range(s)
    PROVE  IndexOf(s, p) \in 1..Len(s) /\ s[IndexOf(s, p)] = p
<1> DEFINE I == {i \in 1..Len(s) : s[i] = p}
<1>1. I \subseteq Nat /\ I # {}
  BY RangeElements
<1>2. \E k \in I : \A j \in I : k =< j
  BY <1>1, LeastNumber
<1>3. IndexOf(s, p) = IF I # {} THEN Min(I) ELSE 0
  BY DEF IndexOf, SelectInSeq
<1> HIDE DEF I
<1>4. Min(I) \in I
  BY <1>2 DEF Min
<1>5. IndexOf(s, p) \in I
  BY <1>1, <1>3, <1>4
<1> QED
  BY <1>5 DEF I

(* Append adds one element.                                                *)
LEMMA AppendRange ==
    ASSUME NEW S, NEW s \in Seq(S), NEW e \in S
    PROVE  /\ Append(s, e) \in Seq(S)
           /\ Range(Append(s, e)) = Range(s) \union {e}
<1>1. /\ Append(s, e) \in Seq(S) /\ Len(Append(s, e)) = Len(s) + 1
      /\ \A i \in 1..(Len(s) + 1) :
            Append(s, e)[i] = IF i =< Len(s) THEN s[i] ELSE e
  OBVIOUS
<1> DEFINE t == Append(s, e)
<1> HIDE DEF t
<1>2. /\ t \in Seq(S) /\ Len(t) = Len(s) + 1
      /\ \A i \in 1..(Len(s) + 1) : t[i] = IF i =< Len(s) THEN s[i] ELSE e
  BY <1>1 DEF t
<1>3. \A x : x \in Range(t) <=> \E i \in 1..Len(t) : t[i] = x
  BY <1>2, RangeElements
<1>4. \A x : x \in Range(s) <=> \E i \in 1..Len(s) : s[i] = x
  BY RangeElements
<1>5. Len(s) \in Nat
  OBVIOUS
<1>6. ASSUME NEW x \in Range(t) PROVE x \in Range(s) \union {e}
  BY <1>2, <1>3, <1>4, <1>5
<1>7. ASSUME NEW x \in Range(s) PROVE x \in Range(t)
  <2>1. PICK i \in 1..Len(s) : s[i] = x
    BY <1>4
  <2>2. i \in 1..Len(t) /\ t[i] = x
    BY <1>2, <1>5, <2>1
  <2> QED
    BY <1>3, <2>2
<1>8. e \in Range(t)
  <2>1. Len(t) \in 1..Len(t) /\ t[Len(t)] = e
    BY <1>2, <1>5
  <2> QED
    BY <1>3, <2>1
<1>9. Range(t) = Range(s) \union {e}
  BY <1>6, <1>7, <1>8
<1> QED
  BY <1>2, <1>9 DEF t

(* RemoveFirst keeps the other elements; if none is repeated, the removed  *)
(* one is gone.                                                            *)
LEMMA RemoveFirstElements ==
    ASSUME NEW S, NEW s \in Seq(S), NEW p
    PROVE  /\ RemoveFirst(s, p) \in Seq(S)
           /\ Range(RemoveFirst(s, p)) \subseteq Range(s)
           /\ Range(s) \ {p} \subseteq Range(RemoveFirst(s, p))
           /\ NoRepeat(s) => /\ NoRepeat(RemoveFirst(s, p))
                             /\ p \notin Range(RemoveFirst(s, p))
<1>1. CASE p \notin Range(s)
  <2>1. RemoveFirst(s, p) = s
    BY <1>1, RangeElements DEF RemoveFirst
  <2> QED
    BY <1>1, <2>1
<1>2. CASE p \in Range(s)
  <2> DEFINE k == IndexOf(s, p)
             t == RemoveFirst(s, p)
             n == Len(s)
  <2>1. k \in 1..n /\ s[k] = p
    BY <1>2, IndexOfElement
  <2>2. t = SubSeq(s, 1, k-1) \o SubSeq(s, k+1, n)
    BY <1>2, RangeElements DEF RemoveFirst, RemoveAt, IndexOf
  <2> HIDE DEF k, t
  <2>3. /\ SubSeq(s, 1, k-1) \in Seq(S) /\ Len(SubSeq(s, 1, k-1)) = k-1
        /\ \A i \in 1..(k-1) : SubSeq(s, 1, k-1)[i] = s[i]
    BY <2>1
  <2>4. /\ SubSeq(s, k+1, n) \in Seq(S) /\ Len(SubSeq(s, k+1, n)) = n - k
        /\ \A i \in 1..(n - k) : SubSeq(s, k+1, n)[i] = s[k+i]
    BY <2>1
  <2>n. n \in Nat
    OBVIOUS
  <2> DEFINE f == SubSeq(s, 1, k-1)  b == SubSeq(s, k+1, n)
  <2>5. t = f \o b /\ f \in Seq(S) /\ b \in Seq(S) /\ Len(f) = k-1 /\ Len(b) = n-k
    BY <2>2, <2>3, <2>4
  <2>6. \A i \in 1..(k-1) : f[i] = s[i]
    BY <2>3
  <2>7. \A i \in 1..(n-k) : b[i] = s[k+i]
    BY <2>4
  <2> HIDE DEF f, b, n
  <2>8. t \in Seq(S) /\ Len(t) = n - 1
    <3>1. f \o b \in Seq(S) /\ Len(f \o b) = Len(f) + Len(b)
      BY <2>5, ConcatProperties
    <3>2. (k - 1) + (n - k) = n - 1
      BY <2>1, <2>n
    <3> QED
      BY <2>5, <3>1, <3>2
  <2>9. \A i \in 1..(n-1) : t[i] = IF i < k THEN f[i] ELSE b[i - (k-1)]
    BY <2>1, <2>5, <2>n
  <2>10. ASSUME NEW i \in 1..(n-1) PROVE t[i] = IF i < k THEN s[i] ELSE s[i+1]
    <3>1. CASE i < k
      BY <2>1, <2>6, <2>9, <2>n, <3>1
    <3>2. CASE ~(i < k)
      <4>1. i - (k-1) \in 1..(n-k) /\ k + (i - (k-1)) = i + 1
        BY <2>1, <2>n, <3>2
      <4> QED
        BY <2>7, <2>9, <3>2, <4>1
    <3> QED
      BY <3>1, <3>2
  <2>11. \A x : x \in Range(t) <=> \E i \in 1..(n-1) : t[i] = x
    BY <2>8, RangeElements
  <2>12. \A x : x \in Range(s) <=> \E i \in 1..n : s[i] = x
    BY RangeElements DEF n
  <2>13. ASSUME NEW x \in Range(t) PROVE x \in Range(s)
    <3>1. PICK i \in 1..(n-1) : t[i] = x
      BY <2>11
    <3>2. i \in 1..n /\ i + 1 \in 1..n
      BY <2>n
    <3> QED
      BY <2>10, <2>12, <3>1, <3>2
  <2>14. ASSUME NEW x \in Range(s), x # p PROVE x \in Range(t)
    <3>1. PICK i \in 1..n : s[i] = x
      BY <2>12
    <3>2. CASE i < k
      <4>1. i \in 1..(n-1)
        BY <2>1, <2>n, <3>2
      <4> QED
        BY <2>10, <2>11, <3>1, <3>2, <4>1
    <3>3. CASE i > k
      <4>1. i-1 \in 1..(n-1) /\ ~(i-1 < k) /\ (i-1)+1 = i
        BY <2>1, <2>n, <3>3
      <4> QED
        BY <2>10, <2>11, <3>1, <4>1
    <3>4. i # k
      BY <2>1, <2>14, <3>1
    <3> QED
      BY <2>1, <2>n, <3>2, <3>3, <3>4
  <2>15. ASSUME NoRepeat(s) PROVE NoRepeat(t) /\ p \notin Range(t)
    <3>1. \A i, j \in 1..n : i # j => s[i] # s[j]
      BY <2>15 DEF NoRepeat, n
    <3>2. ASSUME NEW i \in 1..(n-1)
          PROVE  \E a \in 1..n : /\ a = IF i < k THEN i ELSE i+1
                                 /\ a # k /\ t[i] = s[a]
      BY <2>1, <2>10, <2>n
    <3>3. ASSUME NEW i \in 1..(n-1), NEW j \in 1..(n-1), i # j
          PROVE  t[i] # t[j]
      <4>1. PICK a \in 1..n : a = (IF i < k THEN i ELSE i+1) /\ t[i] = s[a]
        BY <3>2
      <4>2. PICK c \in 1..n : c = (IF j < k THEN j ELSE j+1) /\ t[j] = s[c]
        BY <3>2
      <4>3. a # c
        BY <2>1, <2>n, <3>3, <4>1, <4>2
      <4> QED
        BY <3>1, <4>1, <4>2, <4>3
    <3>4. p \notin Range(t)
      BY <2>1, <2>11, <3>1, <3>2
    <3> QED
      BY <2>8, <3>3, <3>4 DEF NoRepeat
  <2> QED
    BY <2>8, <2>13, <2>14, <2>15 DEF t
<1> QED
  BY <1>1, <1>2

(* InsertAt adds one element, and repeats none that was not there.         *)
LEMMA InsertAtElements ==
    ASSUME NEW S, NEW s \in Seq(S), NEW k \in 1..(Len(s) + 1), NEW e \in S
    PROVE  /\ InsertAt(s, k, e) \in Seq(S)
           /\ Range(InsertAt(s, k, e)) = Range(s) \union {e}
           /\ NoRepeat(s) /\ e \notin Range(s) => NoRepeat(InsertAt(s, k, e))
<1> DEFINE n == Len(s)
           f == SubSeq(s, 1, k-1)
           b == SubSeq(s, k, n)
           g == f \o <<e>>
           t == g \o b
<1>n. n \in Nat /\ k \in 1..(n+1)
  OBVIOUS
<1>1. f \in Seq(S) /\ Len(f) = k-1 /\ \A i \in 1..(k-1) : f[i] = s[i]
  OBVIOUS
<1>2. b \in Seq(S) /\ Len(b) = (n-k)+1 /\ \A i \in 1..((n-k)+1) : b[i] = s[(k+i)-1]
  OBVIOUS
<1>3. InsertAt(s, k, e) = t
  BY DEF InsertAt
<1>s. \A x : x \in Range(s) <=> \E i \in 1..n : s[i] = x
  BY RangeElements
<1>ss. NoRepeat(s) <=> \A i, j \in 1..n : i # j => s[i] # s[j]
  BY DEF NoRepeat
<1> HIDE DEF n, f, b
<1>4. g \in Seq(S) /\ Len(g) = k /\ g[k] = e /\ \A i \in 1..(k-1) : g[i] = f[i]
  <2>1. g \in Seq(S) /\ Len(g) = Len(f) + 1
    BY <1>1
  <2>2. g[Len(f) + 1] = e /\ \A i \in 1..Len(f) : g[i] = f[i]
    BY <1>1
  <2>3. Len(f) + 1 = k
    BY <1>1, <1>n
  <2> QED
    BY <1>1, <2>1, <2>2, <2>3
<1> HIDE DEF g
<1>5. t \in Seq(S) /\ Len(t) = n+1
  <2>1. t \in Seq(S) /\ Len(t) = Len(g) + Len(b)
    BY <1>2, <1>4, ConcatProperties
  <2>2. k + ((n-k)+1) = n+1
    BY <1>n
  <2> QED
    BY <1>2, <1>4, <2>1, <2>2
<1>6. \A i \in 1..(n+1) : t[i] = IF i =< k THEN g[i] ELSE b[i-k]
  <2>1. \A i \in 1..(Len(g) + Len(b)) :
            t[i] = IF i =< Len(g) THEN g[i] ELSE b[i - Len(g)]
    BY <1>2, <1>4
  <2>2. Len(g) + Len(b) = n+1
    BY <1>2, <1>4, <1>n
  <2> QED
    BY <1>4, <2>1, <2>2
<1> HIDE DEF t
<1>7. \A i \in 1..(n+1) :
         t[i] = IF i < k THEN s[i] ELSE IF i = k THEN e ELSE s[i-1]
  <2> SUFFICES ASSUME NEW i \in 1..(n+1)
               PROVE  t[i] = IF i < k THEN s[i] ELSE IF i = k THEN e ELSE s[i-1]
    OBVIOUS
  <2>1. CASE i < k
    BY <1>n, <1>1, <1>4, <1>6, <2>1
  <2>2. CASE i = k
    BY <1>n, <1>4, <1>6, <2>2
  <2>3. CASE i > k
    <3>1. i - k \in 1..((n-k)+1) /\ (k + (i-k)) - 1 = i - 1
      BY <1>n, <2>3
    <3>2. b[i-k] = s[i-1]
      BY <1>2, <3>1
    <3> QED
      BY <1>n, <1>6, <2>3, <3>2
  <2> QED
    BY <1>n, <2>1, <2>2, <2>3
<1>8. \A x : x \in Range(t) <=> \E i \in 1..(n+1) : t[i] = x
  BY <1>5, RangeElements
<1>9. ASSUME NEW x \in Range(t) PROVE x \in Range(s) \union {e}
  <2>1. PICK i \in 1..(n+1) : t[i] = x
    BY <1>8
  <2>2. i < k => i \in 1..n
    BY <1>n
  <2>3. i > k => i-1 \in 1..n
    BY <1>n
  <2> QED
    BY <1>n, <1>s, <1>7, <2>1, <2>2, <2>3
<1>10. ASSUME NEW x \in Range(s) PROVE x \in Range(t)
  <2>1. PICK i \in 1..n : s[i] = x
    BY <1>s
  <2>2. CASE i < k
    BY <1>n, <1>7, <1>8, <2>1, <2>2
  <2>3. CASE ~(i < k)
    <3>1. i+1 \in 1..(n+1) /\ ~(i+1 < k) /\ i+1 # k /\ (i+1)-1 = i
      BY <1>n, <2>3
    <3> QED
      BY <1>7, <1>8, <2>1, <3>1
  <2> QED
    BY <2>2, <2>3
<1>11. e \in Range(t)
  BY <1>n, <1>7, <1>8
<1>12. ASSUME NoRepeat(s), e \notin Range(s) PROVE NoRepeat(t)
  <2> SUFFICES ASSUME NEW i \in 1..(n+1), NEW j \in 1..(n+1), i < j
               PROVE  t[i] # t[j]
    BY <1>5, <1>n DEF NoRepeat
  <2>1. \A a, c \in 1..n : a # c => s[a] # s[c]
    BY <1>ss, <1>12
  <2>2. \A a \in 1..n : s[a] # e
    BY <1>s, <1>12
  <2>3. CASE j < k
    <3>1. i \in 1..n /\ j \in 1..n /\ i < k
      BY <1>n, <2>3
    <3> QED
      BY <1>7, <1>n, <2>1, <2>3, <3>1
  <2>4. CASE j = k
    <3>1. i \in 1..n /\ i < k
      BY <1>n, <2>4
    <3> QED
      BY <1>7, <1>n, <2>2, <2>4, <3>1
  <2>5. CASE j > k
    <3>1. j-1 \in 1..n /\ t[j] = s[j-1]
      BY <1>7, <1>n, <2>5
    <3>2. CASE i < k
      <4>1. i \in 1..n /\ t[i] = s[i] /\ i # j-1
        BY <1>7, <1>n, <2>5, <3>2
      <4> QED
        BY <2>1, <3>1, <4>1
    <3>3. CASE i = k
      <4>1. t[i] = e
        BY <1>7, <3>3, <1>n
      <4> QED
        BY <2>2, <3>1, <4>1
    <3>4. CASE i > k
      <4>1. i-1 \in 1..n /\ t[i] = s[i-1] /\ i-1 # j-1
        BY <1>7, <1>n, <3>4
      <4> QED
        BY <2>1, <3>1, <4>1
    <3> QED
      BY <1>n, <3>2, <3>3, <3>4
  <2> QED
    BY <1>n, <2>3, <2>4, <2>5
<1> QED
  BY <1>3, <1>5, <1>9, <1>10, <1>11, <1>12

(* Reverse keeps the elements.                                             *)
LEMMA ReverseElements ==
    ASSUME NEW S, NEW s \in Seq(S)
    PROVE  /\ Reverse(s) \in Seq(S)
           /\ Range(Reverse(s)) = Range(s)
           /\ NoRepeat(s) => NoRepeat(Reverse(s))
<1> DEFINE n == Len(s)
           t == Reverse(s)
<1>n. n \in Nat
  OBVIOUS
<1>1. \A x : x \in Range(s) <=> \E i \in 1..n : s[i] = x
  BY RangeElements
<1>2. t = [i \in 1..n |-> s[(n - i) + 1]] /\ \A i \in 1..n : s[i] \in S
  BY DEF Reverse
<1>nr. NoRepeat(s) <=> \A i, j \in 1..n : i # j => s[i] # s[j]
  BY DEF NoRepeat
<1> HIDE DEF n, t
<1>3. \A i \in 1..n : (n - i) + 1 \in 1..n
  BY <1>n
<1>4. t \in Seq(S) /\ Len(t) = n /\ \A i \in 1..n : t[i] = s[(n - i) + 1]
  BY <1>n, <1>2, <1>3
<1>5. \A x : x \in Range(t) <=> \E i \in 1..n : t[i] = x
  BY <1>4, RangeElements
<1>6. ASSUME NEW x \in Range(t) PROVE x \in Range(s)
  BY <1>1, <1>3, <1>4, <1>5
<1>7. ASSUME NEW x \in Range(s) PROVE x \in Range(t)
  <2>1. PICK i \in 1..n : s[i] = x
    BY <1>1
  <2>2. (n - i) + 1 \in 1..n /\ (n - ((n - i) + 1)) + 1 = i
    BY <1>n
  <2>3. t[(n - i) + 1] = s[i]
    BY <1>4, <2>2
  <2> QED
    BY <1>5, <2>1, <2>2, <2>3
<1>8. ASSUME NoRepeat(s) PROVE NoRepeat(t)
  <2> SUFFICES ASSUME NEW i \in 1..n, NEW j \in 1..n, i # j PROVE t[i] # t[j]
    BY <1>4 DEF NoRepeat
  <2>1. (n - i) + 1 # (n - j) + 1
    BY <1>n
  <2>2. t[i] = s[(n - i) + 1] /\ t[j] = s[(n - j) + 1]
    BY <1>4
  <2>3. (n - i) + 1 \in 1..n /\ (n - j) + 1 \in 1..n
    BY <1>3
  <2> HIDE DEF NoRepeat
  <2>4. \A a, c \in 1..n : a # c => s[a] # s[c]
    BY <1>8, <1>nr
  <2> QED
    BY <2>1, <2>2, <2>3, <2>4
<1> QED
  BY <1>4, <1>6, <1>7, <1>8 DEF t

(* Replace puts q in the place of the first p.                             *)
LEMMA ReplaceElements ==
    ASSUME NEW S, NEW s \in Seq(S), NEW p \in Range(s), NEW q \in S
    PROVE  /\ Replace(s, p, q) \in Seq(S)
           /\ Range(Replace(s, p, q)) \subseteq Range(s) \union {q}
           /\ Range(s) \ {p} \subseteq Range(Replace(s, p, q))
           /\ q \in Range(Replace(s, p, q))
           /\ NoRepeat(s) /\ p # q => p \notin Range(Replace(s, p, q))
<1> DEFINE k == IndexOf(s, p)
           t == Replace(s, p, q)
<1>1. k \in 1..Len(s) /\ s[k] = p
  BY IndexOfElement
<1>2. t = [s EXCEPT ![k] = q]
  BY DEF Replace
<1> HIDE DEF k, t
<1>3. t \in Seq(S) /\ Len(t) = Len(s) /\ t[k] = q
      /\ \A i \in 1..Len(s) : i # k => t[i] = s[i]
  BY <1>1, <1>2
<1>4. \A x : x \in Range(t) <=> \E i \in 1..Len(s) : t[i] = x
  BY <1>3, RangeElements
<1>5. \A x : x \in Range(s) <=> \E i \in 1..Len(s) : s[i] = x
  BY RangeElements
<1>6. ASSUME NoRepeat(s), p # q PROVE p \notin Range(t)
  BY <1>1, <1>3, <1>4, <1>6 DEF NoRepeat
<1>7. \A x \in Range(t) : x \in Range(s) \union {q}
  BY <1>3, <1>4, <1>5
<1>8. \A x \in Range(s) \ {p} : x \in Range(t)
  BY <1>1, <1>3, <1>4, <1>5
<1>9. q \in Range(t)
  BY <1>1, <1>3, <1>4
<1> QED
  BY <1>3, <1>6, <1>7, <1>8, <1>9 DEF t

-----------------------------------------------------------------------------
(* The calls of Routeman and Route keep the objects sound *)

(* Containers depends on the list and the points of its routes only.       *)
LEMMA SameContainers ==
    ASSUME NEW v, NEW w, v.listed = w.listed, v.pts = w.pts
    PROVE  \A p : Containers(v, p) = Containers(w, p)
BY DEF Containers

(* The active point is in a route.                                         *)
LEMMA ActiveContained ==
    ASSUME NEW w, Sound(w), w.route # NONE
    PROVE  w.route \in Routes /\ w.point \in Points /\ Containers(w, w.point) # {}
<1>1. w \in NavType /\ w.route \in w.listed /\ w.point \in Range(w.pts[w.route])
  BY DEF Sound, Typed, ActiveIn
<1>2. w.route \in Routes /\ w.pts[w.route] \in Seq(Points)
  BY <1>1 DEF NavType
<1> QED
  BY <1>1, <1>2, RangeElements DEF Containers

(* Points that no route has may be freed.                                  *)
LEMMA FreeSound ==
    ASSUME NEW w, Sound(w), NEW ps \in SUBSET Points,
           \A p \in ps : Containers(w, p) = {}
    PROVE  /\ Keeps(w, Free(w, ps))
           /\ Free(w, ps).listed = w.listed /\ Free(w, ps).temp = w.temp
<1> DEFINE v == Free(w, ps)
<1>w. w \in NavType
  BY DEF Sound, Typed
<1>1. /\ v.life = [p \in Points |-> IF p \in ps THEN "deleted" ELSE w.life[p]]
      /\ v.inRoute = w.inRoute \ ps /\ v.isolated = w.isolated \ ps
      /\ v.shared = w.shared \ ps /\ v.actPts = w.actPts \ ps
      /\ v.listed = w.listed /\ v.pts = w.pts /\ v.temp = w.temp
      /\ v.actRts = w.actRts /\ v.rtePoint = w.rtePoint /\ v.route = w.route
      /\ v.point = w.point
  BY <1>w DEF Free, NavType
<1>2. v \in NavType
  BY <1>w DEF Free, NavType, PointLife
<1> HIDE DEF v
<1>3. \A p : Containers(v, p) = Containers(w, p)
  BY <1>1 DEF Containers
<1>4. \A p \in ps, r \in w.listed : p \notin Range(w.pts[r])
  BY DEF Containers
<1>5. Typed(v) /\ Tidy(v)
  BY <1>w, <1>1, <1>2 DEF Sound, Typed, Tidy, NavType
<1>6. \A p \in Points : v.life[p] = IF p \in ps THEN "deleted" ELSE w.life[p]
  BY <1>1
<1>7. \A p \in Points : v.life[p] = "live" => p \notin ps /\ w.life[p] = "live"
  BY <1>6
<1>8. FlagIn(v) /\ SavedIn(v)
  BY <1>1, <1>3, <1>7 DEF Sound, FlagIn, SavedIn
<1>9. \A r \in w.listed : w.pts[r] \in Seq(Points) /\ Range(w.pts[r]) \subseteq Points
  BY <1>w, RangeElements DEF NavType
<1>10. AliveIn(v)
  BY <1>1, <1>4, <1>6, <1>9 DEF Sound, AliveIn
<1>11. ActiveIn(v)
  <2> SUFFICES ASSUME w.route # NONE PROVE ActiveIn(v)
    BY <1>1 DEF ActiveIn
  <2>1. w.point \in Points /\ w.point \notin ps
    BY ActiveContained
  <2> QED
    BY <1>1, <1>6, <2>1 DEF Sound, ActiveIn
<1>12. MarksShared(v)
  BY <1>1, <1>3, <1>6, NavAssumption DEF Sound, MarksShared
<1>13. ExactIn(w) => ExactIn(v)
  BY <1>w, <1>1, <1>6 DEF ExactIn, NavType
<1> QED
  BY <1>1, <1>5, <1>8, <1>10, <1>11, <1>12, <1>13 DEF Keeps, Sound, v

LEMMA DeactivateSound ==
    ASSUME NEW w, Sound(w)
    PROVE  /\ Keeps(w, DeactivateRoute(w))
           /\ DeactivateRoute(w).route = NONE
           /\ DeactivateRoute(w).listed = w.listed
           /\ DeactivateRoute(w).pts = w.pts
           /\ DeactivateRoute(w).temp = w.temp
           /\ DeactivateRoute(w).life = w.life
           /\ DeactivateRoute(w).inRoute = w.inRoute
           /\ DeactivateRoute(w).isolated = w.isolated
           /\ DeactivateRoute(w).shared = w.shared
<1> DEFINE v == DeactivateRoute(w)
<1>w. w \in NavType
  BY DEF Sound, Typed
<1>1. /\ v.life = w.life /\ v.inRoute = w.inRoute /\ v.isolated = w.isolated
      /\ v.shared = w.shared /\ v.listed = w.listed /\ v.pts = w.pts
      /\ v.temp = w.temp /\ v.route = NONE /\ v.point = NONE
      /\ v.actPts = w.actPts \ {w.point} /\ v.actRts = w.actRts \ {w.route}
  BY <1>w DEF DeactivateRoute, NavType
<1>2. v \in NavType
  BY <1>w DEF DeactivateRoute, NavType
<1> HIDE DEF v
<1>3. \A p : Containers(v, p) = Containers(w, p)
  BY <1>1, SameContainers
<1>4. Typed(v) /\ Tidy(v) /\ AliveIn(v) /\ ActiveIn(v)
  BY <1>1, <1>2 DEF Sound, Typed, Tidy, AliveIn, ActiveIn
<1>5. FlagIn(v) /\ SavedIn(v) /\ MarksShared(v)
  BY <1>1, <1>3 DEF Sound, FlagIn, SavedIn, MarksShared
<1>6. ExactIn(w) => ExactIn(v)
  BY <1>1 DEF ExactIn
<1> QED
  BY <1>1, <1>4, <1>5, <1>6 DEF Keeps, Sound, v

(* A point of a listed route may become the active one.                    *)
LEMMA ActivateSound ==
    ASSUME NEW w, Sound(w), NEW r \in w.listed, NEW p \in Range(w.pts[r])
    PROVE  /\ Sound(ActivateRoute(w, r, p))
           /\ r \in w.actRts => Sound(ActivateRoutePoint(w, r, p))
           /\ w.route = NONE => Keeps(w, ActivateRoute(w, r, p))
           /\ w.route = r => Keeps(w, ActivateRoutePoint(w, r, p))
           /\ ActivateRoute(w, r, p).listed = w.listed
           /\ ActivateRoutePoint(w, r, p).listed = w.listed
           /\ ActivateRoute(w, r, p).route = r
<1> DEFINE u == ActivateRoutePoint(w, r, p)
           v == ActivateRoute(w, r, p)
           b == SegmentBegin(w, r, p)
<1>w. w \in NavType
  BY DEF Sound, Typed
<1>t. r \in Routes /\ w.pts[r] \in Seq(Points) /\ p \in Points
  <2>1. r \in Routes /\ w.pts[r] \in Seq(Points)
    BY <1>w DEF NavType
  <2> QED
    BY <2>1, RangeElements
<1>b. b \in Points \union {HERE, NONE}
  <2>1. IndexOf(w.pts[r], p) \in 1..Len(w.pts[r])
    BY <1>t, IndexOfElement
  <2>2. CASE IndexOf(w.pts[r], p) = 1
    BY <2>2 DEF SegmentBegin
  <2>3. CASE IndexOf(w.pts[r], p) # 1
    <3>1. IndexOf(w.pts[r], p) - 1 \in 1..Len(w.pts[r]) /\ IndexOf(w.pts[r], p) # 0
      BY <1>t, <2>1, <2>3
    <3>2. w.pts[r][IndexOf(w.pts[r], p) - 1] \in Points
      BY <1>t, <3>1
    <3> QED
      BY <2>3, <3>1, <3>2 DEF SegmentBegin
  <2> QED
    BY <2>2, <2>3
<1> HIDE DEF b
<1>1. u = [w EXCEPT !.route = r, !.point = p, !.rtePoint[r] = p,
                    !.actPts = (@ \ Range(w.pts[r])) \union {p},
                    !.begin = b, !.virtual = @ \/ b = HERE]
  BY DEF ActivateRoutePoint, b
<1>2. /\ u.life = w.life /\ u.inRoute = w.inRoute /\ u.isolated = w.isolated
      /\ u.shared = w.shared /\ u.listed = w.listed /\ u.pts = w.pts
      /\ u.temp = w.temp /\ u.route = r /\ u.point = p /\ u.actRts = w.actRts
      /\ u.rtePoint[r] = p
      /\ u.actPts = (w.actPts \ Range(w.pts[r])) \union {p}
  BY <1>w, <1>t, <1>1 DEF NavType
<1>3. u \in NavType
  <2> DEFINE a == (w.actPts \ Range(w.pts[r])) \union {p}
             q == [w.rtePoint EXCEPT ![r] = p]
             m == w.virtual \/ b = HERE
  <2>1. a \in SUBSET Points /\ q \in [Routes -> Points \union {NONE}]
    BY <1>w, <1>t DEF NavType
  <2>2. m \in BOOLEAN
    OBVIOUS
  <2>3. u = [w EXCEPT !.route = r, !.point = p, !.rtePoint = q,
                      !.actPts = a, !.begin = b, !.virtual = m]
    BY <1>w, <1>1 DEF NavType
  <2> HIDE DEF a, q, m, u
  <2>4. r \in Routes /\ p \in Points
    BY <1>t
  <2> QED
    BY <1>w, <1>b, <2>1, <2>2, <2>3, <2>4 DEF NavType
<1> HIDE DEF u
<1>4. v = [u EXCEPT !.actRts = @ \union {r}]
  BY DEF ActivateRoute, u
<1>5. /\ v.life = w.life /\ v.inRoute = w.inRoute /\ v.isolated = w.isolated
      /\ v.shared = w.shared /\ v.listed = w.listed /\ v.pts = w.pts
      /\ v.temp = w.temp /\ v.route = r /\ v.point = p
      /\ v.rtePoint[r] = p /\ v.actPts = u.actPts
      /\ v.actRts = w.actRts \union {r}
  BY <1>2, <1>3, <1>4 DEF NavType
<1>6. v \in NavType
  <2> DEFINE a == u.actRts \union {r}
  <2>1. a \in SUBSET Routes
    BY <1>3, <1>t DEF NavType
  <2>2. v = [u EXCEPT !.actRts = a]
    BY <1>3, <1>4 DEF NavType
  <2> HIDE DEF a, v
  <2> QED
    BY <1>3, <2>1, <2>2 DEF NavType
<1> HIDE DEF v
<1>7. ASSUME NEW x, x \in NavType, r \in x.actRts,
             x.life = w.life /\ x.inRoute = w.inRoute /\ x.isolated = w.isolated,
             x.shared = w.shared /\ x.listed = w.listed /\ x.pts = w.pts,
             x.temp = w.temp /\ x.route = r /\ x.point = p,
             x.rtePoint[r] = p,
             x.actPts = (w.actPts \ Range(w.pts[r])) \union {p}
      PROVE  Sound(x)
  <2>1. \A q : Containers(x, q) = Containers(w, q)
    BY <1>7, SameContainers
  <2>2. r # NONE /\ p # NONE
    BY <1>t, NavAssumption
  <2>3. Typed(x) /\ Tidy(x) /\ AliveIn(x)
    BY <1>7, <2>2 DEF Sound, Typed, Tidy, AliveIn
  <2>4. FlagIn(x) /\ SavedIn(x) /\ MarksShared(x)
    BY <1>7, <2>1 DEF Sound, FlagIn, SavedIn, MarksShared
  <2>5. ActiveIn(x)
    BY <1>7 DEF Sound, AliveIn, ActiveIn
  <2> QED
    BY <2>3, <2>4, <2>5 DEF Sound
<1>8. Sound(v)
  BY <1>2, <1>5, <1>6, <1>7
<1>9. r \in w.actRts => Sound(u)
  BY <1>2, <1>3, <1>7
<1>10. w.route = NONE /\ ExactIn(w) => ExactIn(v)
  BY <1>w, <1>t, <1>2, <1>5, NavAssumption DEF ExactIn, Sound, Typed, NavType
<1>11. w.route = r => r \in w.actRts /\ w.point \in Range(w.pts[r])
  BY <1>t, NavAssumption DEF Sound, ActiveIn
<1>12. w.route = r /\ ExactIn(w) => ExactIn(u)
  BY <1>2, <1>11 DEF ExactIn
<1> QED
  BY <1>2, <1>5, <1>8, <1>9, <1>10, <1>11, <1>12 DEF Keeps, u, v

(* The point after the active one is a point of the same route.            *)
LEMMA NextPointSound ==
    ASSUME NEW w, Sound(w), w.route # NONE, HasNext(w)
    PROVE  /\ Keeps(w, ActivateNextPoint(w))
           /\ ActivateNextPoint(w).listed = w.listed
           /\ ActivateNextPoint(w).temp = w.temp
<1> DEFINE s    == w.pts[w.route]
           next == s[IndexOf(s, w.point) + 1]
           v    == ActivateNextPoint(w)
<1>w. w \in NavType /\ w.route \in w.listed \intersect w.actRts
      /\ w.point \in Range(s)
  BY DEF Sound, Typed, ActiveIn
<1>s. w.route \in Routes /\ s \in Seq(Points) /\ w.point \in Points
  BY <1>w, ActiveContained DEF NavType
<1>n. next \in Range(s) /\ next \in Points
  <2>1. IndexOf(s, w.point) \in 1..Len(s)
    BY <1>w, <1>s, IndexOfElement
  <2>2. IndexOf(s, w.point) + 1 =< Len(s)
    BY DEF HasNext
  <2> HIDE DEF s
  <2>3. IndexOf(s, w.point) + 1 \in 1..Len(s)
    BY <1>s, <2>1, <2>2
  <2> QED
    BY <1>s, <2>3, RangeElements
<1> HIDE DEF next
<1>1. v = [w EXCEPT !.actPts = (@ \ {w.point}) \union {next},
                    !.begin = w.point, !.rtePoint[w.route] = next, !.point = next]
  BY DEF ActivateNextPoint, next
<1>2. /\ v.life = w.life /\ v.inRoute = w.inRoute /\ v.isolated = w.isolated
      /\ v.shared = w.shared /\ v.listed = w.listed /\ v.pts = w.pts
      /\ v.temp = w.temp /\ v.route = w.route /\ v.point = next
      /\ v.actRts = w.actRts /\ v.rtePoint[w.route] = next
      /\ v.actPts = (w.actPts \ {w.point}) \union {next}
  BY <1>w, <1>s, <1>1 DEF NavType
<1>3. v \in NavType
  <2> DEFINE a == (w.actPts \ {w.point}) \union {next}
             q == [w.rtePoint EXCEPT ![w.route] = next]
  <2>1. a \in SUBSET Points /\ q \in [Routes -> Points \union {NONE}]
    BY <1>w, <1>s, <1>n DEF NavType
  <2>2. v = [w EXCEPT !.actPts = a, !.begin = w.point, !.rtePoint = q,
                      !.point = next]
    BY <1>w, <1>1 DEF NavType
  <2> HIDE DEF a, q, v
  <2>3. w.point \in Points
    BY <1>s
  <2> QED
    BY <1>w, <1>n, <2>1, <2>2, <2>3 DEF NavType
<1> HIDE DEF v
<1>4. \A q : Containers(v, q) = Containers(w, q)
  BY <1>2, SameContainers
<1>5. next # NONE
  BY <1>n, NavAssumption
<1>6. Typed(v) /\ Tidy(v) /\ AliveIn(v)
  BY <1>w, <1>n, <1>2, <1>3, <1>5 DEF Sound, Typed, Tidy, AliveIn
<1>7. FlagIn(v) /\ SavedIn(v) /\ MarksShared(v)
  BY <1>2, <1>4 DEF Sound, FlagIn, SavedIn, MarksShared
<1>8. ActiveIn(v)
  BY <1>w, <1>n, <1>2 DEF Sound, AliveIn, ActiveIn
<1>9. ExactIn(w) => ExactIn(v)
  BY <1>2 DEF ExactIn
<1> QED
  BY <1>2, <1>6, <1>7, <1>8, <1>9 DEF Keeps, Sound, v

(* An empty route enters the list, as a temporary one (ts = {r}) or not.   *)
Listed(w, r, ts) == [w EXCEPT !.listed = @ \union {r}, !.temp = @ \union ts]

LEMMA ListSound ==
    ASSUME NEW w, Sound(w), NEW r \in Routes, r \notin w.listed,
           NEW ts \in SUBSET {r}
    PROVE  /\ Keeps(w, Listed(w, r, ts))
           /\ Listed(w, r, ts).listed = w.listed \union {r}
           /\ Listed(w, r, ts).temp = w.temp \union ts
           /\ Listed(w, r, ts).pts = w.pts
           /\ Listed(w, r, ts).pts[r] = <<>>
           /\ Listed(w, r, ts).life = w.life
<1> DEFINE v == Listed(w, r, ts)
<1>w. w \in NavType
  BY DEF Sound, Typed
<1>1. /\ v.life = w.life /\ v.inRoute = w.inRoute /\ v.isolated = w.isolated
      /\ v.shared = w.shared /\ v.actPts = w.actPts /\ v.pts = w.pts
      /\ v.listed = w.listed \union {r} /\ v.actRts = w.actRts
      /\ v.rtePoint = w.rtePoint /\ v.route = w.route /\ v.point = w.point
      /\ v.temp = w.temp \union ts
  BY <1>w DEF Listed, NavType
<1>2. v \in NavType
  BY <1>w DEF Listed, NavType
<1> HIDE DEF v
<1>4. w.pts[r] = <<>> /\ Range(w.pts[r]) = {} /\ NoRepeat(w.pts[r])
  BY DEF Sound, Tidy, Range, NoRepeat
<1>5. \A p : Containers(v, p) = Containers(w, p)
  BY <1>1, <1>4 DEF Containers
<1>6. Typed(v) /\ Tidy(v) /\ AliveIn(v) /\ ActiveIn(v)
  BY <1>1, <1>2, <1>4 DEF Sound, Typed, Tidy, AliveIn, ActiveIn
<1>7. FlagIn(v) /\ SavedIn(v) /\ MarksShared(v)
  BY <1>1, <1>5 DEF Sound, FlagIn, SavedIn, MarksShared
<1>8. ExactIn(w) => ExactIn(v)
  BY <1>1 DEF ExactIn
<1> QED
  BY <1>1, <1>4, <1>5, <1>6, <1>7, <1>8 DEF Keeps, Sound, v

(* A point may be flagged as shared.                                       *)
LEMMA ShareSound ==
    ASSUME NEW w, Sound(w), NEW p \in Points, NEW v,
           v = [w EXCEPT !.shared = @ \union {p}]
    PROVE  /\ Keeps(w, v)
           /\ v.listed = w.listed /\ v.pts = w.pts /\ v.life = w.life
           /\ v.temp = w.temp /\ v.route = w.route
<1>w. w \in NavType
  BY DEF Sound, Typed
<1>1. /\ v.life = w.life /\ v.inRoute = w.inRoute /\ v.isolated = w.isolated
      /\ v.shared = w.shared \union {p} /\ v.actPts = w.actPts /\ v.pts = w.pts
      /\ v.listed = w.listed /\ v.actRts = w.actRts /\ v.temp = w.temp
      /\ v.rtePoint = w.rtePoint /\ v.route = w.route /\ v.point = w.point
  BY <1>w DEF NavType
<1>2. v \in NavType
  BY <1>w DEF NavType
<1>3. \A q : Containers(v, q) = Containers(w, q)
  BY <1>1, SameContainers
<1>4. Typed(v) /\ Tidy(v) /\ AliveIn(v) /\ ActiveIn(v)
  BY <1>1, <1>2 DEF Sound, Typed, Tidy, AliveIn, ActiveIn
<1>5. FlagIn(v) /\ SavedIn(v) /\ MarksShared(v)
  BY <1>1, <1>3 DEF Sound, FlagIn, SavedIn, MarksShared
<1>6. ExactIn(w) => ExactIn(v)
  BY <1>1 DEF ExactIn
<1> QED
  BY <1>1, <1>4, <1>5, <1>6 DEF Keeps, Sound

(* A point enters a route of the list at some place.                       *)
LEMMA EnterSound ==
    ASSUME NEW w, Sound(w), NEW v, v \in NavType,
           NEW r \in w.listed, NEW p \in Points, NEW t \in Seq(Points),
           w.life[p] \in {"unborn", "live"},
           Range(t) = Range(w.pts[r]) \union {p}, NoRepeat(t),
           v.life = [w.life EXCEPT ![p] = "live"],
           v.pts = [w.pts EXCEPT ![r] = t],
           v.inRoute = w.inRoute \union {p},
           w.isolated \ {p} \subseteq v.isolated,
           w.shared \subseteq v.shared, p \in Marks => p \in v.shared,
           v.listed = w.listed /\ v.temp = w.temp,
           v.actPts = w.actPts /\ v.actRts = w.actRts,
           v.route = w.route /\ v.point = w.point /\ v.rtePoint = w.rtePoint
    PROVE  Keeps(w, v)
<1>w. w \in NavType /\ r \in Routes
  BY DEF Sound, Typed, NavType
<1>1. \A q \in Points : v.life[q] = IF q = p THEN "live" ELSE w.life[q]
  BY <1>w DEF NavType
<1>2. \A x \in Routes : v.pts[x] = IF x = r THEN t ELSE w.pts[x]
  BY <1>w DEF NavType
<1>3. \A q : Containers(v, q) = Containers(w, q) \union IF q = p THEN {r} ELSE {}
  BY <1>w, <1>2 DEF Containers, NavType
<1>4. \A x \in Routes : Range(w.pts[x]) \subseteq Points
  BY <1>w, RangeElements DEF NavType
<1>5. Typed(v)
  BY DEF Sound, Typed
<1>6. Tidy(v)
  <2>1. \A x \in Routes \ v.listed : v.pts[x] = <<>>
    BY <1>2 DEF Sound, Tidy
  <2>2. \A x \in v.listed : NoRepeat(v.pts[x])
    BY <1>w, <1>2 DEF Sound, Tidy, NavType
  <2>3. \A q \in v.actPts : v.life[q] # "unborn"
    BY <1>w, <1>1 DEF Sound, Tidy, NavType
  <2>4. v.temp \subseteq v.listed
    BY DEF Sound, Tidy
  <2> QED
    BY <2>1, <2>2, <2>3, <2>4 DEF Tidy
<1>7. AliveIn(v)
  <2> SUFFICES ASSUME NEW x \in w.listed, NEW q \in Range(v.pts[x])
               PROVE  v.life[q] = "live"
    BY DEF AliveIn
  <2>1. x \in Routes
    BY <1>w DEF NavType
  <2>2. q = p \/ q \in Range(w.pts[x])
    BY <1>2, <2>1
  <2>3. q \in Points
    BY <1>4, <2>1, <2>2
  <2> QED
    BY <1>1, <2>2, <2>3 DEF Sound, AliveIn
<1>8. FlagIn(v)
  BY <1>1, <1>3 DEF Sound, FlagIn
<1>9. SavedIn(v)
  BY <1>1, <1>3 DEF Sound, SavedIn
<1>10. ActiveIn(v)
  <2> SUFFICES ASSUME w.route # NONE PROVE ActiveIn(v)
    BY DEF ActiveIn
  <2>1. w.route \in Routes /\ w.point \in Points
    BY ActiveContained
  <2>2. Range(w.pts[w.route]) \subseteq Range(v.pts[w.route])
    BY <1>2, <2>1
  <2> QED
    BY <1>1, <2>1, <2>2 DEF Sound, ActiveIn
<1>11. MarksShared(v)
  BY <1>1, <1>3, NavAssumption DEF Sound, MarksShared
<1>12. ExactIn(w) => ExactIn(v)
  <2>1. \A q \in w.actPts : v.life[q] = "live" => w.life[q] = "live"
    BY <1>w, <1>1 DEF Sound, Tidy, NavType
  <2> QED
    BY <2>1 DEF ExactIn
<1> QED
  BY <1>5, <1>6, <1>7, <1>8, <1>9, <1>10, <1>11, <1>12 DEF Keeps, Sound

(* What AddPoint does: Append to a route that does not have the point yet. *)
LEMMA AddPointSound ==
    ASSUME NEW w, Sound(w), NEW r \in w.listed, NEW p \in Points,
           w.life[p] \in {"unborn", "live"}, NoRepeat(Append(w.pts[r], p))
    PROVE  /\ Keeps(w, AddPoint(w, r, p))
           /\ AddPoint(w, r, p).listed = w.listed
           /\ AddPoint(w, r, p).temp = w.temp
           /\ AddPoint(w, r, p).route = w.route
           /\ \A q \in Points \ {p} : AddPoint(w, r, p).life[q] = w.life[q]
           /\ AddPoint(w, r, p).pts[r] = Append(w.pts[r], p)
<1> DEFINE v  == AddPoint(w, r, p)
           sh == IF p \in w.isolated THEN w.shared \union {p} ELSE w.shared
           t  == Append(w.pts[r], p)
           lf == [w.life EXCEPT ![p] = "live"]
           pt == [w.pts EXCEPT ![r] = t]
<1>w. w \in NavType /\ r \in Routes /\ w.pts[r] \in Seq(Points)
  BY DEF Sound, Typed, NavType
<1>t. t \in Seq(Points) /\ Range(t) = Range(w.pts[r]) \union {p}
  BY <1>w, AppendRange
<1>1. v = [w EXCEPT !.life = lf, !.shared = sh, !.isolated = w.isolated \ {p},
                    !.inRoute = w.inRoute \union {p}, !.pts = pt]
  BY <1>w DEF AddPoint, NavType
<1>n. NoRepeat(t)
  OBVIOUS
<1> HIDE DEF t
<1>2. sh \in SUBSET Points /\ lf \in [Points -> PointLife]
      /\ pt \in [Routes -> Seq(Points)]
  BY <1>w, <1>t DEF NavType, PointLife
<1> HIDE DEF v, sh, lf, pt
<1>3. /\ v.life = lf /\ v.shared = sh /\ v.isolated = w.isolated \ {p}
      /\ v.inRoute = w.inRoute \union {p} /\ v.pts = pt
      /\ v.listed = w.listed /\ v.temp = w.temp
      /\ v.actPts = w.actPts /\ v.actRts = w.actRts
      /\ v.route = w.route /\ v.point = w.point /\ v.rtePoint = w.rtePoint
  BY <1>w, <1>1 DEF NavType
<1>4. v \in NavType
  BY <1>w, <1>1, <1>2 DEF NavType
<1>5. w.shared \subseteq sh /\ p \in Marks => p \in sh
  <2> SUFFICES ASSUME p \in Marks PROVE p \in sh
    BY DEF sh
  <2>1. w.life[p] = "live"
    BY DEF Sound, MarksShared
  <2>2. p \in w.isolated \/ p \in w.shared
    BY <2>1 DEF Sound, SavedIn, MarksShared
  <2> QED
    BY <2>2 DEF sh
<1>6. w.shared \subseteq sh
  BY DEF sh
<1>7. v.life = [w.life EXCEPT ![p] = "live"] /\ v.pts = [w.pts EXCEPT ![r] = t]
  BY <1>3 DEF lf, pt
<1>8. Keeps(w, v)
  BY <1>t, <1>n, <1>3, <1>4, <1>5, <1>6, <1>7, EnterSound
<1>9. /\ \A q \in Points \ {p} : v.life[q] = w.life[q]
      /\ v.pts[r] = t
  BY <1>w, <1>7 DEF NavType
<1> QED
  BY <1>3, <1>8, <1>9 DEF v, t

(* A point leaves some routes that do not follow it.  Afterwards it is an  *)
(* isolated mark if no route has it.                                       *)
Leave(w, rs, p) ==
    LET v == [w EXCEPT !.pts = [x \in Routes |-> IF x \in rs THEN RemoveFirst(@[x], p)
                                                ELSE @[x]]]
    IN  IF Containers(v, p) # {} THEN v
        ELSE [v EXCEPT !.inRoute = @ \ {p}, !.isolated = @ \union {p}]

LEMMA LeaveSound ==
    ASSUME NEW w, Sound(w), NEW rs \in SUBSET w.listed, NEW p \in Points,
           w.route \in rs => w.point # p
    PROVE  /\ Keeps(w, Leave(w, rs, p))
           /\ Leave(w, rs, p).listed = w.listed
           /\ Leave(w, rs, p).temp = w.temp
           /\ Leave(w, rs, p).life = w.life
           /\ rs = Containers(w, p) => Containers(Leave(w, rs, p), p) = {}
<1> DEFINE pt == [x \in Routes |-> IF x \in rs THEN RemoveFirst(w.pts[x], p)
                                   ELSE w.pts[x]]
           v  == [w EXCEPT !.pts = pt]
           u  == Leave(w, rs, p)
<1>w. w \in NavType /\ rs \subseteq Routes
  BY DEF Sound, Typed, NavType
<1>p. \A x \in Routes : w.pts[x] \in Seq(Points) /\ Range(w.pts[x]) \subseteq Points
  BY <1>w, RangeElements DEF NavType
<1>1. ASSUME NEW x \in Routes
      PROVE  /\ pt[x] \in Seq(Points)
             /\ Range(pt[x]) \subseteq Range(w.pts[x])
             /\ Range(w.pts[x]) \ {p} \subseteq Range(pt[x])
             /\ x \notin rs => pt[x] = w.pts[x]
             /\ NoRepeat(w.pts[x]) => NoRepeat(pt[x])
             /\ NoRepeat(w.pts[x]) /\ x \in rs => p \notin Range(pt[x])
  <2>1. CASE x \in rs
    <3>1. pt[x] = RemoveFirst(w.pts[x], p)
      BY <2>1
    <3> QED
      BY <1>p, <2>1, <3>1, RemoveFirstElements
  <2>2. CASE x \notin rs
    BY <1>p, <2>2
  <2> QED
    BY <2>1, <2>2
<1>pt. pt \in [Routes -> Seq(Points)]
  <2>1. pt = [x \in Routes |-> pt[x]]
    OBVIOUS
  <2> HIDE DEF pt
  <2> QED
    BY <1>1, <2>1
<1>2. u = IF Containers(v, p) # {} THEN v
          ELSE [v EXCEPT !.inRoute = w.inRoute \ {p},
                         !.isolated = w.isolated \union {p}]
  BY <1>w DEF Leave, NavType
<1> HIDE DEF pt
<1>v. /\ v \in NavType
      /\ v.pts = pt /\ v.inRoute = w.inRoute /\ v.isolated = w.isolated
      /\ v.listed = w.listed /\ v.temp = w.temp /\ v.life = w.life
      /\ v.actPts = w.actPts /\ v.actRts = w.actRts /\ v.shared = w.shared
      /\ v.route = w.route /\ v.point = w.point /\ v.rtePoint = w.rtePoint
  BY <1>w, <1>pt DEF NavType
<1> HIDE DEF v, u
<1>3. /\ u \in NavType
      /\ u.pts = pt
      /\ u.listed = w.listed /\ u.temp = w.temp /\ u.life = w.life
      /\ u.actPts = w.actPts /\ u.actRts = w.actRts /\ u.shared = w.shared
      /\ u.route = w.route /\ u.point = w.point /\ u.rtePoint = w.rtePoint
      /\ Containers(v, p) # {} => u.inRoute = w.inRoute /\ u.isolated = w.isolated
      /\ Containers(v, p) = {} => /\ u.inRoute = w.inRoute \ {p}
                                  /\ u.isolated = w.isolated \union {p}
  <2>1. CASE Containers(v, p) # {}
    BY <1>2, <1>v, <2>1
  <2>2. CASE Containers(v, p) = {}
    <3>1. u = [v EXCEPT !.inRoute = w.inRoute \ {p},
                        !.isolated = w.isolated \union {p}]
      BY <1>2, <2>2
    <3>2. w.inRoute \ {p} \in SUBSET Points /\ w.isolated \union {p} \in SUBSET Points
      BY <1>w DEF NavType
    <3>3. /\ u.inRoute = w.inRoute \ {p} /\ u.isolated = w.isolated \union {p}
          /\ u.pts = v.pts
          /\ u.listed = v.listed /\ u.temp = v.temp /\ u.life = v.life
          /\ u.actPts = v.actPts /\ u.actRts = v.actRts /\ u.shared = v.shared
          /\ u.route = v.route /\ u.point = v.point /\ u.rtePoint = v.rtePoint
      BY <1>v, <3>1 DEF NavType
    <3>4. u \in NavType
      BY <1>v, <3>1, <3>2 DEF NavType
    <3> QED
      BY <1>v, <2>2, <3>3, <3>4
  <2> QED
    BY <2>1, <2>2
<1>4. Containers(u, p) = Containers(v, p)
  BY <1>v, <1>3 DEF Containers
<1>5. \A q : Containers(u, q) \subseteq Containers(w, q)
  BY <1>w, <1>1, <1>3 DEF Containers, NavType
<1>6. \A q : q # p => Containers(u, q) = Containers(w, q)
  BY <1>w, <1>1, <1>3 DEF Containers, NavType
<1>7. Typed(u) /\ Tidy(u)
  <2>1. \A x \in Routes \ u.listed : u.pts[x] = <<>>
    BY <1>1, <1>3 DEF Sound, Tidy
  <2>2. \A x \in u.listed : NoRepeat(u.pts[x])
    BY <1>w, <1>1, <1>3 DEF Sound, Tidy, NavType
  <2> QED
    BY <1>3, <2>1, <2>2 DEF Sound, Typed, Tidy
<1>8. AliveIn(u)
  <2> SUFFICES ASSUME NEW x \in w.listed, NEW q \in Range(pt[x])
               PROVE  w.life[q] = "live"
    BY <1>3 DEF AliveIn
  <2>1. x \in Routes
    BY <1>w DEF NavType
  <2>2. q \in Range(w.pts[x])
    BY <1>1, <2>1
  <2> QED
    BY <2>2 DEF Sound, AliveIn
<1>9. FlagIn(u)
  BY <1>3, <1>4, <1>5, <1>6 DEF Sound, FlagIn
<1>10. SavedIn(u)
  BY <1>3, <1>4, <1>5, <1>6 DEF Sound, SavedIn
<1>11. ActiveIn(u)
  <2> SUFFICES ASSUME w.route # NONE PROVE ActiveIn(u)
    BY <1>3 DEF ActiveIn
  <2>1. w.route \in Routes /\ w.point \in Range(w.pts[w.route])
    BY ActiveContained DEF Sound, ActiveIn
  <2>2. w.point \in Range(pt[w.route])
    BY <1>1, <2>1
  <2> QED
    BY <1>3, <2>2 DEF Sound, ActiveIn
<1>12. MarksShared(u)
  BY <1>3, <1>5, <1>w DEF Sound, MarksShared
<1>13. ExactIn(w) => ExactIn(u)
  BY <1>3 DEF ExactIn
<1>14. rs = Containers(w, p) => Containers(u, p) = {}
  BY <1>w, <1>1, <1>3, <1>5 DEF Containers, Sound, Tidy, NavType
<1> QED
  BY <1>3, <1>7, <1>8, <1>9, <1>10, <1>11, <1>12, <1>13, <1>14
     DEF Keeps, Sound, u

(* RemovePoint deactivates first if the point is the active one.           *)
LEMMA RemovePointSound ==
    ASSUME NEW w, Sound(w), NEW r \in w.listed, NEW p \in Points
    PROVE  /\ Keeps(w, RemovePoint(w, r, p))
           /\ RemovePoint(w, r, p).listed = w.listed
           /\ RemovePoint(w, r, p).temp = w.temp
           /\ RemovePoint(w, r, p).life = w.life
<1> DEFINE d == IF p \in w.actPts /\ r \in w.actRts THEN DeactivateRoute(w) ELSE w
<1>1. /\ Keeps(w, d) /\ d.listed = w.listed /\ d.temp = w.temp /\ d.life = w.life
      /\ d.route = NONE \/ (d = w /\ ~(p \in w.actPts /\ r \in w.actRts))
  BY DeactivateSound DEF Keeps
<1>2. d \in NavType /\ r \in Routes
  BY <1>1 DEF Keeps, Sound, Typed, NavType
<1>3. RemovePoint(w, r, p) =
          LET v == [d EXCEPT !.pts[r] = RemoveFirst(@, p)]
          IN  IF Containers(v, p) # {} THEN v
              ELSE [v EXCEPT !.inRoute = @ \ {p}, !.isolated = @ \union {p}]
  BY DEF RemovePoint
<1> HIDE DEF d
<1>4. RemovePoint(w, r, p) = Leave(d, {r}, p)
  <2> DEFINE pt == [x \in Routes |-> IF x \in {r} THEN RemoveFirst(d.pts[x], p)
                                     ELSE d.pts[x]]
  <2>1. [d.pts EXCEPT ![r] = RemoveFirst(@, p)] = pt
    BY <1>2 DEF NavType
  <2>2. [d EXCEPT !.pts[r] = RemoveFirst(@, p)] = [d EXCEPT !.pts = pt]
    BY <1>2, <2>1 DEF NavType
  <2> QED
    BY <1>2, <1>3, <2>2 DEF Leave, NavType
<1>5. d.route \in {r} => d.point # p
  <2>1. r # NONE
    BY <1>2, NavAssumption
  <2> QED
    BY <1>1, <1>2, <2>1 DEF Sound, ActiveIn
<1>6. {r} \in SUBSET d.listed /\ Sound(d)
  BY <1>1 DEF Keeps
<1> QED
  BY <1>1, <1>4, <1>5, <1>6, LeaveSound DEF Keeps

(* The deletion of some routes: the points only they have are deleted, or  *)
(* are isolated marks if they are shared.  Marks are.                      *)
LEMMA DeleteRoutesSound ==
    ASSUME NEW w, Sound(w), NEW rs \in SUBSET w.listed
    PROVE  /\ Keeps(w, DeleteRoutes(w, rs))
           /\ DeleteRoutes(w, rs).listed = w.listed \ rs
           /\ DeleteRoutes(w, rs).temp = w.temp \ rs
           /\ \A q : Containers(DeleteRoutes(w, rs), q) \subseteq Containers(w, q)
           /\ \A q \in Marks : DeleteRoutes(w, rs).life[q] = w.life[q]
           /\ DeleteRoutes(w, rs).route \in {w.route, NONE}
<1> DEFINE d   == IF w.route \in rs THEN DeactivateRoute(w) ELSE w
           v   == Unlist(d, rs)
           own == {p \in (UNION {Range(w.pts[r]) : r \in rs}) \intersect d.inRoute :
                      Containers(v, p) = {}}
           x   == [v EXCEPT !.inRoute  = @ \ own,
                            !.isolated = @ \union (own \intersect d.shared),
                            !.shared   = @ \ own]
           y   == DeleteRoutes(w, rs)
<1>1. /\ Keeps(w, d) /\ d.listed = w.listed /\ d.temp = w.temp /\ d.life = w.life
      /\ d.pts = w.pts /\ d.route \notin rs /\ d.route \in {w.route, NONE}
  <2>1. rs \subseteq Routes
    BY DEF Sound, Typed, NavType
  <2>2. NONE \notin rs
    BY <2>1, NavAssumption
  <2> QED
    BY <2>2, DeactivateSound DEF Keeps
<1>2. y = Free(x, own \ d.shared)
  BY DEF DeleteRoutes
<1>d. d \in NavType /\ w \in NavType /\ rs \subseteq Routes
  BY <1>1 DEF Keeps, Sound, Typed, NavType
<1> HIDE DEF d, y
<1>3. /\ v.life = d.life /\ v.inRoute = d.inRoute /\ v.isolated = d.isolated
      /\ v.shared = d.shared /\ v.actPts = d.actPts
      /\ v.pts = [r \in Routes |-> IF r \in rs THEN <<>> ELSE d.pts[r]]
      /\ v.listed = d.listed \ rs /\ v.actRts = d.actRts \ rs
      /\ v.temp = d.temp \ rs
      /\ v.rtePoint = [r \in Routes |-> IF r \in rs THEN NONE ELSE d.rtePoint[r]]
      /\ v.route = d.route /\ v.point = d.point
  BY <1>d DEF Unlist, NavType
<1>4. v \in NavType
  <2> DEFINE pt == [r \in Routes |-> IF r \in rs THEN <<>> ELSE d.pts[r]]
             rp == [r \in Routes |-> IF r \in rs THEN NONE ELSE d.rtePoint[r]]
  <2>1. pt \in [Routes -> Seq(Points)] /\ rp \in [Routes -> Points \union {NONE}]
    BY <1>d DEF NavType
  <2>2. v = [d EXCEPT !.listed = d.listed \ rs, !.pts = pt, !.temp = d.temp \ rs,
                      !.actRts = d.actRts \ rs, !.rtePoint = rp]
    BY <1>d DEF Unlist, NavType
  <2> HIDE DEF pt, rp, v
  <2> QED
    BY <1>d, <2>1, <2>2 DEF NavType
<1> HIDE DEF v
<1>5. own \subseteq d.inRoute /\ own \subseteq Points
  BY <1>d DEF NavType
<1>6. \A p \in Points :
         p \in own <=> /\ p \in d.inRoute
                       /\ Containers(v, p) = {}
                       /\ \E r \in rs : p \in Range(w.pts[r])
  OBVIOUS
<1> HIDE DEF own
<1>7. /\ x \in NavType
      /\ x.inRoute = d.inRoute \ own
      /\ x.isolated = d.isolated \union (own \intersect d.shared)
      /\ x.shared = d.shared \ own
      /\ x.life = v.life /\ x.actPts = v.actPts /\ x.pts = v.pts
      /\ x.listed = v.listed /\ x.actRts = v.actRts /\ x.temp = v.temp
      /\ x.rtePoint = v.rtePoint /\ x.route = v.route /\ x.point = v.point
  BY <1>3, <1>4, <1>5 DEF NavType
<1> HIDE DEF x
<1> DEFINE ps == own \ d.shared
<1>ps. ps \subseteq own
  OBVIOUS
<1>8. /\ y.life = [p \in Points |-> IF p \in ps THEN "deleted" ELSE d.life[p]]
      /\ y.inRoute = d.inRoute \ own
      /\ y.isolated = (d.isolated \union (own \intersect d.shared)) \ ps
      /\ y.shared = d.shared \ own /\ y.actPts = d.actPts \ ps
      /\ y.pts = v.pts /\ y.listed = d.listed \ rs /\ y.temp = d.temp \ rs
      /\ y.actRts = d.actRts \ rs /\ y.rtePoint = v.rtePoint
      /\ y.route = d.route /\ y.point = d.point
  <2>1. y = Free(x, ps)
    BY <1>2
  <2> HIDE DEF ps
  <2>2. /\ y.life = [p \in Points |-> IF p \in ps THEN "deleted" ELSE x.life[p]]
        /\ y.inRoute = x.inRoute \ ps /\ y.isolated = x.isolated \ ps
        /\ y.shared = x.shared \ ps /\ y.actPts = x.actPts \ ps
        /\ y.pts = x.pts /\ y.listed = x.listed /\ y.temp = x.temp
        /\ y.actRts = x.actRts /\ y.rtePoint = x.rtePoint
        /\ y.route = x.route /\ y.point = x.point
    BY <1>7, <2>1 DEF Free, NavType
  <2> QED
    BY <1>3, <1>7, <1>ps, <2>2
<1>9. y \in NavType
  <2>1. y = Free(x, ps) /\ ps \subseteq Points
    BY <1>2, <1>5
  <2> HIDE DEF ps
  <2> QED
    BY <1>7, <2>1 DEF Free, NavType, PointLife
<1> HIDE DEF ps
<1>10. \A r \in w.listed \ rs : y.pts[r] = w.pts[r] /\ y.rtePoint[r] = d.rtePoint[r]
  BY <1>1, <1>3, <1>8, <1>d DEF NavType
<1>11. \A p : /\ Containers(y, p) = Containers(w, p) \ rs
              /\ Containers(v, p) = Containers(w, p) \ rs
  <2>1. y.listed = w.listed \ rs /\ v.listed = w.listed \ rs /\ y.pts = v.pts
    BY <1>1, <1>3, <1>8
  <2>2. ASSUME NEW p PROVE Containers(y, p) = Containers(w, p) \ rs
    BY <1>10, <2>1 DEF Containers
  <2>3. ASSUME NEW p PROVE Containers(v, p) = Containers(y, p)
    BY <2>1, SameContainers
  <2> QED
    BY <2>2, <2>3
<1>12. \A r \in w.listed : Range(w.pts[r]) \subseteq Points
  BY <1>d, RangeElements DEF NavType
<1>13. \A p \in Points : y.life[p] = IF p \in ps THEN "deleted" ELSE w.life[p]
  BY <1>1, <1>8
<1>14. \A p \in Points : w.life[p] = "live" =>
          (p \in own <=> Containers(w, p) # {} /\ Containers(y, p) = {})
  <2> SUFFICES ASSUME NEW p \in Points, w.life[p] = "live"
               PROVE  p \in own <=> Containers(w, p) # {} /\ Containers(y, p) = {}
    OBVIOUS
  <2>1. p \in d.inRoute <=> Containers(w, p) # {}
    BY <1>1 DEF Keeps, Sound, FlagIn, Containers
  <2>2. Containers(w, p) # {} /\ Containers(y, p) = {} =>
            \E r \in rs : p \in Range(w.pts[r])
    BY <1>11 DEF Containers
  <2> QED
    BY <1>6, <1>11, <2>1, <2>2
<1>15. \A p \in own : w.life[p] = "live" /\ Containers(y, p) = {}
  BY <1>5, <1>6, <1>11 DEF Sound, AliveIn
<1>16. Typed(y)
  BY <1>1, <1>8, <1>9 DEF Keeps, Sound, Typed
<1>17. Tidy(y)
  <2>1. \A r \in Routes \ y.listed : y.pts[r] = <<>>
    BY <1>1, <1>3, <1>8 DEF Sound, Tidy
  <2>2. \A r \in y.listed : NoRepeat(y.pts[r])
    BY <1>1, <1>8, <1>10 DEF Sound, Tidy
  <2>3. y.temp \subseteq y.listed
    BY <1>1, <1>8 DEF Sound, Tidy
  <2>4. \A p \in y.actPts : y.life[p] # "unborn"
    BY <1>1, <1>8, <1>d, <1>13 DEF Keeps, Sound, Tidy, NavType
  <2> QED
    BY <2>1, <2>2, <2>3, <2>4 DEF Tidy
<1>18. AliveIn(y)
  <2> SUFFICES ASSUME NEW r \in w.listed \ rs, NEW p \in Range(w.pts[r])
               PROVE  y.life[p] = "live"
    BY <1>1, <1>8, <1>10 DEF AliveIn
  <2>1. p \in Points /\ w.life[p] = "live" /\ r \in Containers(y, p)
    BY <1>11, <1>12 DEF Sound, AliveIn, Containers
  <2> QED
    BY <1>13, <1>15, <1>ps, <2>1
<1>19. \A p \in Points : y.life[p] = "live" => w.life[p] = "live" /\ p \notin ps
  BY <1>13
<1>20. FlagIn(y)
  <2> SUFFICES ASSUME NEW p \in Points, y.life[p] = "live"
               PROVE  p \in y.inRoute <=> Containers(y, p) # {}
    BY DEF FlagIn
  <2>1. w.life[p] = "live" /\ (p \in d.inRoute <=> Containers(w, p) # {})
    BY <1>1, <1>19 DEF Keeps, Sound, FlagIn, Containers
  <2> QED
    BY <1>8, <1>11, <1>14, <2>1
<1>21. SavedIn(y)
  <2> SUFFICES ASSUME NEW p \in Points, y.life[p] = "live"
               PROVE  p \in y.isolated \/ Containers(y, p) # {}
    BY DEF SavedIn
  <2>1. w.life[p] = "live" /\ p \notin ps
    BY <1>19
  <2>2. p \in d.isolated \/ Containers(w, p) # {}
    BY <1>1, <2>1 DEF Keeps, Sound, SavedIn, Containers
  <2> QED
    BY <1>8, <1>14, <2>1, <2>2 DEF ps
<1>22. ActiveIn(y)
  <2> SUFFICES ASSUME d.route # NONE PROVE ActiveIn(y)
    BY <1>8 DEF ActiveIn
  <2>1. /\ d.route \in d.listed \intersect d.actRts
        /\ d.point \in Range(d.pts[d.route]) \intersect d.actPts
        /\ d.life[d.point] = "live"
        /\ d.rtePoint[d.route] = d.point
    BY <1>1 DEF Keeps, Sound, ActiveIn
  <2>2. d.route \in w.listed \ rs
    BY <1>1, <2>1
  <2>3. d.point \in Points /\ Containers(y, d.point) # {}
    BY <1>1, <1>11, <1>12, <2>1, <2>2 DEF Containers
  <2>4. d.point \notin ps
    BY <1>15, <1>ps, <2>3
  <2> QED
    BY <1>1, <1>8, <1>10, <1>13, <2>1, <2>2, <2>3, <2>4 DEF ActiveIn
<1>23. \A p \in Marks : p \notin ps
  <2> SUFFICES ASSUME NEW p \in Marks, p \in own PROVE p \in d.shared
    BY DEF ps
  <2>1. p \in Points /\ Containers(d, p) # {}
    BY <1>1, <1>5, <1>6, <1>15 DEF Containers
  <2> QED
    BY <1>1, <2>1 DEF Keeps, Sound, MarksShared
<1>24. \A p \in Marks : y.life[p] = w.life[p]
  BY <1>13, <1>23, NavAssumption
<1>25. MarksShared(y)
  <2> SUFFICES ASSUME NEW p \in Marks
               PROVE  /\ y.life[p] # "unborn"
                      /\ Containers(y, p) # {} => p \in y.shared
    BY DEF MarksShared
  <2>1. w.life[p] # "unborn" /\ (Containers(w, p) # {} => p \in d.shared)
    BY <1>1 DEF Keeps, Sound, MarksShared, Containers
  <2> QED
    BY <1>8, <1>11, <1>15, <1>24, <2>1
<1>26. ExactIn(w) => ExactIn(y)
  <2> SUFFICES ASSUME ExactIn(d) PROVE ExactIn(y)
    BY <1>1 DEF Keeps
  <2>1. y.actRts = {y.route} \ {NONE}
    BY <1>1, <1>8 DEF ExactIn
  <2>2. \A p \in y.actPts : y.life[p] = "live" => p = y.point
    BY <1>1, <1>8, <1>19, <1>d DEF ExactIn, NavType
  <2> QED
    BY <2>1, <2>2 DEF ExactIn
<1> QED
  BY <1>1, <1>8, <1>11, <1>16, <1>17, <1>18, <1>20, <1>21, <1>22, <1>24, <1>25,
     <1>26 DEF Keeps, Sound, y

(* DestroyWaypoint leaves the point in no route and not live.              *)
LEMMA DestroyWaypointSound ==
    ASSUME NEW w, Sound(w), NEW p \in Points, w.life[p] = "live"
    PROVE  /\ Keeps(w, DestroyWaypoint(w, p))
           /\ Containers(DestroyWaypoint(w, p), p) = {}
           /\ DestroyWaypoint(w, p).route \in {w.route, NONE}
<1> DEFINE rs   == Containers(w, p)
           d    == IF p \in w.actPts /\ rs \intersect w.actRts # {}
                   THEN DeactivateRoute(w) ELSE w
           v    == [d EXCEPT !.pts = [r \in Routes |->
                                        IF r \in rs THEN RemoveFirst(@[r], p) ELSE @[r]]]
           u    == IF rs = {} \/ Containers(v, p) # {} THEN v
                   ELSE [v EXCEPT !.inRoute = @ \ {p}, !.isolated = @ \union {p}]
           gone == DeleteRoutes(u, {r \in rs : Len(u.pts[r]) < 2})
           z    == DestroyWaypoint(w, p)
<1>1. z = [gone EXCEPT !.life[p] = IF @ = "deleted" THEN @ ELSE "retired"]
  BY DEF DestroyWaypoint
<1>2. /\ Keeps(w, d) /\ d.listed = w.listed /\ d.pts = w.pts
      /\ \/ d.route = NONE
         \/ d = w /\ ~(p \in w.actPts /\ rs \intersect w.actRts # {})
      /\ d.route \in {w.route, NONE}
  BY DeactivateSound DEF Keeps
<1>d. d \in NavType
  BY <1>2 DEF Keeps, Sound, Typed
<1>rs. rs \in SUBSET w.listed /\ rs \subseteq Routes /\ rs = Containers(d, p)
  BY <1>2 DEF Containers, Sound, Typed, NavType
<1> HIDE DEF d, rs, gone, z
<1>3. Keeps(d, u) /\ u.listed = d.listed /\ Containers(u, p) = {}
      /\ u.route = d.route
  <2>1. CASE rs = {}
    <3>1. [r \in Routes |-> IF r \in rs THEN RemoveFirst(d.pts[r], p) ELSE d.pts[r]]
             = d.pts
      BY <1>d, <2>1 DEF NavType
    <3>2. v = d
      BY <1>d, <3>1 DEF NavType
    <3> QED
      BY <1>2, <1>rs, <2>1, <3>2 DEF Keeps
  <2>2. CASE rs # {}
    <3>1. u = Leave(d, rs, p)
      BY <2>2 DEF Leave
    <3>2. d.route \in rs => d.point # p
      BY <1>2, <1>rs, NavAssumption DEF Sound, ActiveIn
    <3>3. u.route = d.route
      BY <1>d DEF NavType
    <3> HIDE DEF u
    <3> QED
      BY <1>2, <1>rs, <3>1, <3>2, <3>3, LeaveSound DEF Keeps
  <2> QED
    BY <2>1, <2>2
<1> HIDE DEF u
<1>4. /\ Keeps(u, gone)
      /\ \A q : Containers(gone, q) \subseteq Containers(u, q)
      /\ \A q \in Marks : gone.life[q] = u.life[q]
      /\ gone.route \in {u.route, NONE}
  <2>1. {r \in rs : Len(u.pts[r]) < 2} \in SUBSET u.listed
    BY <1>2, <1>3, <1>rs
  <2> QED
    BY <1>3, <2>1, DeleteRoutesSound DEF Keeps, gone
<1>5. gone \in NavType /\ Containers(gone, p) = {}
  BY <1>3, <1>4 DEF Keeps, Sound, Typed
<1>6. /\ z.life = [gone.life EXCEPT ![p] = IF @ = "deleted" THEN @ ELSE "retired"]
      /\ z.inRoute = gone.inRoute /\ z.isolated = gone.isolated
      /\ z.shared = gone.shared /\ z.actPts = gone.actPts /\ z.pts = gone.pts
      /\ z.listed = gone.listed /\ z.actRts = gone.actRts /\ z.temp = gone.temp
      /\ z.rtePoint = gone.rtePoint /\ z.route = gone.route /\ z.point = gone.point
  BY <1>1, <1>5 DEF NavType
<1>7. z \in NavType
  <2> DEFINE lf == [gone.life EXCEPT ![p] = IF @ = "deleted" THEN @ ELSE "retired"]
  <2>1. lf \in [Points -> PointLife]
    BY <1>5 DEF NavType, PointLife
  <2>2. z = [gone EXCEPT !.life = lf]
    BY <1>1, <1>5 DEF NavType
  <2> HIDE DEF lf
  <2> QED
    BY <1>5, <2>1, <2>2 DEF NavType
<1>8. \A q \in Points : /\ q # p => z.life[q] = gone.life[q]
                        /\ z.life[p] \in {"deleted", "retired"}
  BY <1>5, <1>6 DEF NavType
<1>9. \A q : Containers(z, q) = Containers(gone, q)
  BY <1>6, SameContainers
<1>10. Typed(z) /\ Tidy(z)
  BY <1>4, <1>5, <1>6, <1>7, <1>8 DEF Keeps, Sound, Typed, Tidy, NavType
<1>11. FlagIn(z) /\ SavedIn(z)
  BY <1>4, <1>6, <1>8, <1>9 DEF Keeps, Sound, FlagIn, SavedIn
<1>12. AliveIn(z)
  <2> SUFFICES ASSUME NEW r \in gone.listed, NEW q \in Range(gone.pts[r])
               PROVE  z.life[q] = "live"
    BY <1>6 DEF AliveIn
  <2>1. q # p
    BY <1>5 DEF Containers
  <2>2. q \in Points
    BY <1>5, RangeElements DEF NavType
  <2> QED
    BY <1>4, <1>8, <2>1, <2>2 DEF Keeps, Sound, AliveIn
<1>13. ActiveIn(z)
  <2> SUFFICES ASSUME gone.route # NONE PROVE ActiveIn(z)
    BY <1>6 DEF ActiveIn
  <2>1. gone.point \in Points /\ gone.point # p
    BY <1>4, <1>5, ActiveContained DEF Keeps
  <2> QED
    BY <1>4, <1>6, <1>8, <2>1 DEF Keeps, Sound, ActiveIn
<1>14. MarksShared(z)
  BY <1>4, <1>6, <1>8, <1>9, NavAssumption DEF Keeps, Sound, MarksShared
<1>15. ExactIn(gone) => ExactIn(z)
  BY <1>5, <1>6, <1>8 DEF ExactIn, NavType
<1> QED
  BY <1>2, <1>3, <1>4, <1>5, <1>6, <1>9, <1>10, <1>11, <1>12, <1>13, <1>14,
     <1>15 DEF Keeps, Sound, z

(* "Insert Waypoint": a new point that is not in the route.                *)
LEMMA InsertSound ==
    ASSUME NEW w, Sound(w), NEW r \in w.listed, NEW p \in Range(w.pts[r]),
           NEW q \in Points, w.life[q] = "unborn", NEW v,
           v = [w EXCEPT !.life[q] = "live",
                         !.inRoute = @ \union {q},
                         !.pts[r]  = InsertAt(@, IndexOf(@, p) + 1, q)]
    PROVE  Keeps(w, v) /\ v.listed = w.listed
<1> DEFINE t  == InsertAt(w.pts[r], IndexOf(w.pts[r], p) + 1, q)
           lf == [w.life EXCEPT ![q] = "live"]
           pt == [w.pts EXCEPT ![r] = t]
<1>w. w \in NavType /\ r \in Routes /\ w.pts[r] \in Seq(Points)
  BY DEF Sound, Typed, NavType
<1>1. q \notin Range(w.pts[r]) /\ NoRepeat(w.pts[r])
  BY DEF Sound, AliveIn, Tidy
<1>2. IndexOf(w.pts[r], p) + 1 \in 1..(Len(w.pts[r]) + 1)
  <2>1. IndexOf(w.pts[r], p) \in 1..Len(w.pts[r]) /\ Len(w.pts[r]) \in Nat
    BY <1>w, IndexOfElement
  <2> QED
    BY <2>1
<1>3. t \in Seq(Points) /\ Range(t) = Range(w.pts[r]) \union {q} /\ NoRepeat(t)
  BY <1>w, <1>1, <1>2, InsertAtElements
<1>4. v = [w EXCEPT !.life = lf, !.inRoute = w.inRoute \union {q}, !.pts = pt]
  BY <1>w DEF NavType
<1> HIDE DEF t
<1>5. lf \in [Points -> PointLife] /\ pt \in [Routes -> Seq(Points)]
  BY <1>w, <1>3 DEF NavType, PointLife
<1> HIDE DEF lf, pt
<1>6. /\ v.life = lf /\ v.shared = w.shared /\ v.isolated = w.isolated
      /\ v.inRoute = w.inRoute \union {q} /\ v.pts = pt
      /\ v.listed = w.listed /\ v.temp = w.temp
      /\ v.actPts = w.actPts /\ v.actRts = w.actRts
      /\ v.route = w.route /\ v.point = w.point /\ v.rtePoint = w.rtePoint
  BY <1>w, <1>4 DEF NavType
<1>7. v \in NavType
  <2> DEFINE i == w.inRoute \union {q}
  <2>1. i \in SUBSET Points
    BY <1>w DEF NavType
  <2>2. v = [w EXCEPT !.life = lf, !.inRoute = i, !.pts = pt]
    BY <1>4
  <2> HIDE DEF i
  <2> QED
    BY <1>w, <1>5, <2>1, <2>2 DEF NavType
<1>8. q \notin Marks
  <2>1. \A m \in Marks : w.life[m] # "unborn"
    BY DEF Sound, MarksShared
  <2> QED
    BY <2>1
<1>9. v.life = [w.life EXCEPT ![q] = "live"] /\ v.pts = [w.pts EXCEPT ![r] = t]
  BY <1>6 DEF lf, pt
<1>10. w.life[q] \in {"unborn", "live"}
  OBVIOUS
<1>11. Keeps(w, v)
  BY <1>3, <1>6, <1>7, <1>8, <1>9, <1>10, EnterSound
<1> QED
  BY <1>6, <1>11

(* Another order of the same points.                                       *)
LEMMA ReverseSound ==
    ASSUME NEW w, Sound(w), NEW r \in w.listed, NEW v,
           v = [w EXCEPT !.pts[r] = Reverse(@)]
    PROVE  Keeps(w, v) /\ v.listed = w.listed
<1> DEFINE t  == Reverse(w.pts[r])
           pt == [w.pts EXCEPT ![r] = t]
<1>w. w \in NavType /\ r \in Routes /\ w.pts[r] \in Seq(Points)
  BY DEF Sound, Typed, NavType
<1>1. NoRepeat(w.pts[r])
  BY DEF Sound, Tidy
<1>2. t \in Seq(Points) /\ Range(t) = Range(w.pts[r]) /\ NoRepeat(t)
  BY <1>w, <1>1, ReverseElements
<1>3. v = [w EXCEPT !.pts = pt]
  BY <1>w DEF NavType
<1> HIDE DEF t
<1>4. pt \in [Routes -> Seq(Points)]
      /\ \A x \in Routes : pt[x] = IF x = r THEN t ELSE w.pts[x]
  BY <1>w, <1>2 DEF NavType
<1> HIDE DEF pt
<1>5. /\ v.life = w.life /\ v.shared = w.shared /\ v.isolated = w.isolated
      /\ v.inRoute = w.inRoute /\ v.pts = pt
      /\ v.listed = w.listed /\ v.temp = w.temp
      /\ v.actPts = w.actPts /\ v.actRts = w.actRts
      /\ v.route = w.route /\ v.point = w.point /\ v.rtePoint = w.rtePoint
  BY <1>w, <1>3 DEF NavType
<1>6. v \in NavType
  BY <1>w, <1>3, <1>4 DEF NavType
<1>7. \A x \in Routes : Range(pt[x]) = Range(w.pts[x])
                        /\ (NoRepeat(w.pts[x]) => NoRepeat(pt[x]))
  BY <1>2, <1>4
<1>8. \A q : Containers(v, q) = Containers(w, q)
  BY <1>w, <1>5, <1>7 DEF Containers, NavType
<1>9. Typed(v) /\ ActiveIn(v)
  BY <1>5, <1>6, <1>7, ActiveContained DEF Sound, Typed, ActiveIn
<1>10. Tidy(v)
  BY <1>w, <1>4, <1>5, <1>7 DEF Sound, Tidy, NavType
<1>11. AliveIn(v)
  BY <1>w, <1>5, <1>7 DEF Sound, AliveIn, NavType
<1>12. FlagIn(v) /\ SavedIn(v) /\ MarksShared(v)
  BY <1>5, <1>8 DEF Sound, FlagIn, SavedIn, MarksShared
<1>13. ExactIn(w) => ExactIn(v)
  BY <1>5 DEF ExactIn
<1> QED
  BY <1>5, <1>9, <1>10, <1>11, <1>12, <1>13 DEF Keeps, Sound

(* Yes to the question of a drag, while what the drag found stands.        *)
Replaced(w, rs, p, q) ==
    [w EXCEPT
        !.shared   = IF q \in w.isolated THEN @ \union {q} ELSE @,
        !.isolated = @ \ {q},
        !.inRoute  = @ \union {q},
        !.pts      = [r \in Routes |-> IF r \in rs THEN Replace(@[r], p, q)
                                      ELSE @[r]]]

LEMMA ReplaceSound ==
    ASSUME NEW w, Sound(w), NEW p \in Points, NEW q \in Points, p # q,
           w.life[q] = "live", p \notin w.actPts, NEW rs, rs = Containers(w, p),
           rs # {}, \A r \in rs : NoRepeat(Replace(w.pts[r], p, q))
    PROVE  Keeps(w, Free(Replaced(w, rs, p, q), {p}))
<1> DEFINE sh == IF q \in w.isolated THEN w.shared \union {q} ELSE w.shared
           pt == [r \in Routes |-> IF r \in rs THEN Replace(w.pts[r], p, q)
                                   ELSE w.pts[r]]
           ir == w.inRoute \union {q}
           u  == Replaced(w, rs, p, q)
           v  == Free(u, {p})
<1>w. w \in NavType /\ rs \subseteq w.listed /\ w.listed \subseteq Routes
  BY DEF Sound, Typed, NavType, Containers
<1>p. \A x \in Routes : w.pts[x] \in Seq(Points) /\ Range(w.pts[x]) \subseteq Points
  BY <1>w, RangeElements DEF NavType
<1>1. ASSUME NEW x \in rs
      PROVE  /\ pt[x] \in Seq(Points) /\ NoRepeat(pt[x])
             /\ Range(pt[x]) = (Range(w.pts[x]) \ {p}) \union {q}
  <2>1. x \in Routes /\ p \in Range(w.pts[x]) /\ NoRepeat(w.pts[x])
    BY <1>w DEF Containers, Sound, Tidy
  <2>2. pt[x] = Replace(w.pts[x], p, q)
    BY <2>1
  <2> HIDE DEF pt
  <2>3. /\ pt[x] \in Seq(Points)
        /\ Range(pt[x]) \subseteq Range(w.pts[x]) \union {q}
        /\ Range(w.pts[x]) \ {p} \subseteq Range(pt[x])
        /\ q \in Range(pt[x]) /\ p \notin Range(pt[x])
    BY <1>p, <2>1, <2>2, ReplaceElements
  <2> QED
    BY <2>2, <2>3
<1>2. \A x \in Routes \ rs : pt[x] = w.pts[x]
  OBVIOUS
<1>3. pt \in [Routes -> Seq(Points)]
  <2>1. pt = [x \in Routes |-> pt[x]]
    OBVIOUS
  <2> HIDE DEF pt
  <2> QED
    BY <1>p, <1>1, <1>2, <2>1
<1>4. u = [w EXCEPT !.shared = sh, !.isolated = w.isolated \ {q},
                    !.inRoute = ir, !.pts = pt]
  BY <1>w DEF Replaced, NavType
<1> HIDE DEF pt, u
<1>5. sh \in SUBSET Points /\ ir \in SUBSET Points
  BY <1>w DEF NavType
<1>6. w.shared \subseteq sh /\ (q \in Marks => q \in sh)
  BY DEF Sound, SavedIn, MarksShared
<1>7. ir = w.inRoute \union {q}
  OBVIOUS
<1> HIDE DEF sh, ir
<1>8. u \in NavType
  BY <1>w, <1>3, <1>4, <1>5 DEF NavType
<1>9. /\ u.life = w.life /\ u.inRoute = ir /\ u.isolated = w.isolated \ {q}
      /\ u.shared = sh /\ u.actPts = w.actPts /\ u.pts = pt
      /\ u.listed = w.listed /\ u.actRts = w.actRts /\ u.temp = w.temp
      /\ u.rtePoint = w.rtePoint /\ u.route = w.route /\ u.point = w.point
  BY <1>w, <1>4 DEF NavType
<1>10. v \in NavType
  BY <1>8 DEF Free, NavType, PointLife
<1>11. /\ v.life = [x \in Points |-> IF x \in {p} THEN "deleted" ELSE u.life[x]]
       /\ v.inRoute = u.inRoute \ {p} /\ v.isolated = u.isolated \ {p}
       /\ v.shared = u.shared \ {p} /\ v.actPts = u.actPts \ {p}
       /\ v.listed = u.listed /\ v.pts = u.pts /\ v.temp = u.temp
       /\ v.actRts = u.actRts /\ v.rtePoint = u.rtePoint /\ v.route = u.route
       /\ v.point = u.point
  BY <1>8 DEF Free, NavType
<1> HIDE DEF v
<1>12. \A x \in Points : v.life[x] = IF x = p THEN "deleted" ELSE w.life[x]
  BY <1>9, <1>11
<1>13. Containers(v, p) = {} /\ Containers(v, q) # {}
  <2>1. \A x \in w.listed : p \notin Range(pt[x])
    BY <1>w, <1>1, <1>2 DEF Containers
  <2>2. \A x \in rs : q \in Range(pt[x])
    BY <1>1
  <2> QED
    BY <1>w, <1>9, <1>11, <2>1, <2>2 DEF Containers
<1>14. \A x : x # p /\ x # q => Containers(v, x) = Containers(w, x)
  <2> SUFFICES ASSUME NEW x, x # p, x # q, NEW r \in w.listed
               PROVE  x \in Range(pt[r]) <=> x \in Range(w.pts[r])
    BY <1>9, <1>11 DEF Containers
  <2> QED
    BY <1>w, <1>1, <1>2
<1>15. Typed(v)
  BY <1>9, <1>10, <1>11 DEF Sound, Typed
<1>16. Tidy(v)
  <2>1. \A r \in Routes \ v.listed : v.pts[r] = <<>>
    BY <1>w, <1>2, <1>9, <1>11 DEF Sound, Tidy
  <2>2. \A r \in v.listed : NoRepeat(v.pts[r])
    BY <1>w, <1>1, <1>2, <1>9, <1>11 DEF Sound, Tidy
  <2>3. \A x \in v.actPts : v.life[x] # "unborn"
    BY <1>w, <1>9, <1>11, <1>12 DEF Sound, Tidy, NavType
  <2>4. v.temp \subseteq v.listed
    BY <1>9, <1>11 DEF Sound, Tidy
  <2> QED
    BY <2>1, <2>2, <2>3, <2>4 DEF Tidy
<1>17. AliveIn(v)
  <2> SUFFICES ASSUME NEW r \in w.listed, NEW x \in Range(pt[r])
               PROVE  v.life[x] = "live"
    BY <1>9, <1>11 DEF AliveIn
  <2>1. x # p
    BY <1>9, <1>11, <1>13 DEF Containers
  <2>2. x = q \/ x \in Range(w.pts[r])
    BY <1>w, <1>1, <1>2
  <2>3. x \in Points /\ w.life[x] = "live"
    BY <1>w, <1>p, <2>2 DEF Sound, AliveIn
  <2> QED
    BY <1>12, <2>1, <2>3
<1>18. FlagIn(v)
  <2> SUFFICES ASSUME NEW x \in Points, v.life[x] = "live"
               PROVE  x \in v.inRoute <=> Containers(v, x) # {}
    BY DEF FlagIn
  <2>1. x # p /\ w.life[x] = "live"
    BY <1>12
  <2> QED
    BY <1>7, <1>9, <1>11, <1>13, <1>14, <2>1 DEF Sound, FlagIn
<1>19. SavedIn(v)
  <2> SUFFICES ASSUME NEW x \in Points, v.life[x] = "live"
               PROVE  x \in v.isolated \/ Containers(v, x) # {}
    BY DEF SavedIn
  <2>1. x # p /\ w.life[x] = "live"
    BY <1>12
  <2> QED
    BY <1>9, <1>11, <1>13, <1>14, <2>1 DEF Sound, SavedIn
<1>20. ActiveIn(v)
  <2> SUFFICES ASSUME w.route # NONE PROVE ActiveIn(v)
    BY <1>9, <1>11 DEF ActiveIn
  <2>1. /\ w.route \in w.listed \intersect w.actRts
        /\ w.point \in Range(w.pts[w.route]) \intersect w.actPts
        /\ w.life[w.point] = "live"
        /\ w.rtePoint[w.route] = w.point
    BY DEF Sound, ActiveIn
  <2>2. w.point # p /\ w.point \in Points
    BY <2>1, ActiveContained
  <2>3. w.point \in Range(pt[w.route])
    BY <1>w, <1>1, <1>2, <2>1, <2>2
  <2> QED
    BY <1>9, <1>11, <1>12, <2>1, <2>2, <2>3 DEF ActiveIn
<1>21. MarksShared(v)
  <2> SUFFICES ASSUME NEW x \in Marks
               PROVE  /\ v.life[x] # "unborn"
                      /\ Containers(v, x) # {} => x \in v.shared
    BY DEF MarksShared
  <2>1. /\ x \in Points /\ w.life[x] # "unborn"
        /\ Containers(w, x) # {} => x \in w.shared
    BY NavAssumption DEF Sound, MarksShared
  <2> QED
    BY <1>6, <1>9, <1>11, <1>12, <1>13, <1>14, <2>1
<1>22. ExactIn(w) => ExactIn(v)
  BY <1>w, <1>9, <1>11, <1>12 DEF ExactIn, NavType
<1> QED
  BY <1>15, <1>16, <1>17, <1>18, <1>19, <1>20, <1>21, <1>22
     DEF Keeps, Sound, u, v

(* A point is put at the end of a route by a click.                        *)
LEMMA PlaceSound ==
    ASSUME NEW w, Sound(w), NEW r \in w.listed, NEW p \in Points,
           w.life[p] \in {"unborn", "live"}, NoRepeat(Append(w.pts[r], p))
    PROVE  /\ Keeps(w, Place(w, r, p))
           /\ Place(w, r, p).listed = w.listed
           /\ Place(w, r, p).temp = w.temp
           /\ Place(w, r, p).route = w.route
<1> DEFINE v == IF w.life[p] = "live" /\ Containers(w, p) = {}
                THEN [w EXCEPT !.shared = @ \union {p}] ELSE w
<1>1. /\ Keeps(w, v) /\ v.listed = w.listed /\ v.temp = w.temp
      /\ v.route = w.route /\ v.pts = w.pts /\ v.life = w.life
  BY ShareSound DEF Keeps
<1>2. Place(w, r, p) = AddPoint(v, r, p)
  BY DEF Place
<1> HIDE DEF v
<1>3. /\ Keeps(v, AddPoint(v, r, p))
      /\ AddPoint(v, r, p).listed = v.listed
      /\ AddPoint(v, r, p).temp = v.temp
      /\ AddPoint(v, r, p).route = v.route
  <2>1. /\ Sound(v) /\ r \in v.listed /\ v.life[p] \in {"unborn", "live"}
        /\ NoRepeat(Append(v.pts[r], p))
    BY <1>1 DEF Keeps
  <2> QED
    BY <2>1, AddPointSound
<1> QED
  BY <1>1, <1>2, <1>3 DEF Keeps

-----------------------------------------------------------------------------
(* The actions *)

\* What every step does: the invariant stands, and the flags follow.
Step ==
    /\ IInv'
    /\ ExactIn(nav) => \/ ExactIn(nav')
                       \/ nav.route # NONE /\ nav'.route \notin {NONE, nav.route}

(* At first there are marks and no routes.                                 *)
LEMMA Initially == Init => IInv
<1> SUFFICES ASSUME Init PROVE IInv
  OBVIOUS
<1>1. /\ nav.listed = {} /\ nav.temp = {} /\ nav.actPts = {} /\ nav.inRoute = {}
      /\ nav.isolated = Marks /\ nav.route = NONE /\ nav.point = NONE
      /\ nav.pts = [r \in Routes |-> <<>>]
      /\ nav.life = [p \in Points |-> IF p \in Marks THEN "live" ELSE "unborn"]
  BY DEF Init
<1>2. nav \in NavType
  <2> DEFINE lf == [p \in Points |-> IF p \in Marks THEN "live" ELSE "unborn"]
             pt == [r \in Routes |-> <<>>]
             rp == [r \in Routes |-> NONE]
  <2>1. lf \in [Points -> PointLife] /\ pt \in [Routes -> Seq(Points)]
        /\ rp \in [Routes -> Points \union {NONE}]
    BY DEF PointLife
  <2>2. nav = [life |-> lf, inRoute |-> {}, isolated |-> Marks, shared |-> {},
               actPts |-> {}, listed |-> {}, pts |-> pt, temp |-> {},
               actRts |-> {}, rtePoint |-> rp, route |-> NONE, point |-> NONE,
               begin |-> NONE, virtual |-> FALSE]
    BY DEF Init
  <2> HIDE DEF lf, pt, rp
  <2>3. Marks \subseteq Points
    BY NavAssumption
  <2> QED
    BY <2>1, <2>2, <2>3 DEF NavType
<1>3. \A p : Containers(nav, p) = {}
  BY <1>1 DEF Containers
<1>4. leg \in [away : 0..3, measured : BOOLEAN]
      /\ mouse = NONE /\ asked = NONE /\ wiping = "no"
  BY DEF Init, Unmeasured
<1>5. TypeOK
  BY <1>1, <1>2, <1>4 DEF TypeOK
<1>6. Typed(nav) /\ Tidy(nav) /\ AliveIn(nav) /\ ActiveIn(nav)
  BY <1>1, <1>2 DEF Typed, Tidy, AliveIn, ActiveIn
<1>7. FlagIn(nav) /\ SavedIn(nav) /\ MarksShared(nav)
  <2>1. \A p \in Points : nav.life[p] = IF p \in Marks THEN "live" ELSE "unborn"
    BY <1>1
  <2> QED
    BY <1>1, <1>3, <2>1, NavAssumption DEF FlagIn, SavedIn, MarksShared
<1> QED
  BY <1>4, <1>5, <1>6, <1>7 DEF IInv, Sound, DragStands, OneAtATime

(* A command changes nothing but the objects and the leg.                  *)
LEMMA CommandKeeps ==
    ASSUME IInv, Idle, Sound(nav'), UNCHANGED <<mouse, asked, wiping>>,
           leg' \in [away : 0..3, measured : BOOLEAN]
    PROVE  IInv'
<1>1. mouse' = NONE /\ asked' = NONE /\ wiping' = "no"
  BY DEF Idle
<1>2. TypeOK'
  BY <1>1 DEF TypeOK, Sound, Typed
<1> QED
  BY <1>1, <1>2 DEF IInv, DragStands, OneAtATime

(* So it does if what it makes of the objects is kept sound.               *)
LEMMA BecomeKeeps ==
    ASSUME IInv, Idle, NEW w, Become(w), Keeps(nav, w)
    PROVE  Step
<1>1. nav' = w /\ UNCHANGED <<mouse, asked, wiping>>
      /\ leg' \in [away : 0..3, measured : BOOLEAN]
  BY DEF Become, Unmeasured, IInv, TypeOK
<1>2. Sound(nav') /\ (ExactIn(nav) => ExactIn(nav'))
  BY <1>1 DEF Keeps
<1>3. IInv'
  BY <1>1, <1>2, CommandKeeps
<1> QED
  BY <1>2, <1>3 DEF Step

(* The first click makes a listed route of one point, which is no          *)
(* temporary one.                                                          *)
LEMMA StartRouteStep ==
    ASSUME IInv, NEW r \in Routes, NEW p \in Points, StartRoute(r, p)
    PROVE  Step
<1> DEFINE v == [nav EXCEPT !.listed = @ \union {r}]
<1>1. /\ Idle /\ r \notin nav.listed /\ nav.life[p] \in {"unborn", "live"}
      /\ nav' = Place(v, r, p) /\ mouse' = r /\ UNCHANGED <<leg, asked, wiping>>
  BY DEF StartRoute
<1>2. Sound(nav) /\ nav \in NavType /\ nav.temp \subseteq nav.listed
  BY DEF IInv, Sound, Typed, Tidy
<1>3. v = Listed(nav, r, {})
  BY <1>2 DEF Listed, NavType
<1> HIDE DEF v
<1>4. /\ Keeps(nav, v) /\ v.listed = nav.listed \union {r} /\ v.pts[r] = <<>>
      /\ v.life = nav.life /\ v.temp = nav.temp
  <2>1. \A ts \in SUBSET {r} :
           /\ Keeps(nav, Listed(nav, r, ts))
           /\ Listed(nav, r, ts).listed = nav.listed \union {r}
           /\ Listed(nav, r, ts).temp = nav.temp \union ts
           /\ Listed(nav, r, ts).pts[r] = <<>>
           /\ Listed(nav, r, ts).life = nav.life
    BY <1>1, <1>2, ListSound
  <2>2. {} \in SUBSET {r} /\ nav.temp \union {} = nav.temp
    OBVIOUS
  <2> QED
    BY <1>3, <2>1, <2>2
<1>5. NoRepeat(Append(v.pts[r], p))
  BY <1>4 DEF NoRepeat
<1>6. /\ Keeps(v, nav') /\ nav'.listed = v.listed /\ nav'.temp = v.temp
  BY <1>1, <1>4, <1>5, PlaceSound DEF Keeps
<1>7. Sound(nav') /\ (ExactIn(nav) => ExactIn(nav'))
  BY <1>4, <1>6 DEF Keeps
<1>8. asked' = NONE /\ wiping' = "no" /\ mouse' \in nav'.listed \ nav'.temp
  BY <1>1, <1>2, <1>4, <1>6 DEF Idle
<1>9. TypeOK'
  BY <1>1, <1>7, <1>8 DEF IInv, TypeOK, Sound, Typed
<1> QED
  BY <1>7, <1>8, <1>9 DEF Step, IInv, DragStands, OneAtATime

(* Each further click appends a point that the route does not have yet.    *)
LEMMA AppendPointStep ==
    ASSUME Settled, IInv, NEW p \in Points, AppendPoint(p)
    PROVE  Step
<1>1. /\ mouse # NONE /\ nav.life[p] \in {"unborn", "live"}
      /\ NoRepeat(Append(nav.pts[mouse], p))
      /\ nav' = Place(nav, mouse, p) /\ UNCHANGED <<leg, mouse, asked, wiping>>
  BY DEF AppendPoint, Allowed, Settled
<1>2. /\ Sound(nav) /\ mouse \in nav.listed \ nav.temp
      /\ asked = NONE /\ wiping = "no"
  BY <1>1 DEF IInv, TypeOK, OneAtATime
<1>3. Keeps(nav, nav') /\ nav'.listed = nav.listed /\ nav'.temp = nav.temp
  BY <1>1, <1>2, PlaceSound
<1>4. TypeOK'
  BY <1>1, <1>2, <1>3 DEF IInv, TypeOK, Keeps, Sound, Typed
<1> QED
  BY <1>1, <1>2, <1>3, <1>4 DEF Step, Keeps, IInv, DragStands, OneAtATime

(* The drawn route stays, or is deleted if it has one point.               *)
LEMMA FinishRouteStep ==
    ASSUME IInv, FinishRoute
    PROVE  Step
<1>1. mouse # NONE /\ mouse' = NONE /\ UNCHANGED <<leg, asked, wiping>>
      /\ (nav' = nav \/ nav' = DeleteRoutes(nav, {mouse}))
  BY DEF FinishRoute
<1>2. Sound(nav) /\ mouse \in nav.listed /\ asked = NONE /\ wiping = "no"
  BY <1>1 DEF IInv, TypeOK, OneAtATime
<1>3. Keeps(nav, nav')
  BY <1>1, <1>2, DeleteRoutesSound DEF Keeps
<1>4. TypeOK'
  BY <1>1, <1>2, <1>3 DEF IInv, TypeOK, Keeps, Sound, Typed
<1> QED
  BY <1>1, <1>2, <1>3, <1>4 DEF Step, Keeps, IInv, DragStands, OneAtATime

(* The new point is in no route before.                                    *)
LEMMA InsertPointAfterStep ==
    ASSUME IInv, NEW r \in Routes, NEW p \in Points, NEW q \in Points,
           InsertPointAfter(r, p, q)
    PROVE  Step
<1> DEFINE v == [nav EXCEPT !.life[q] = "live",
                            !.inRoute = @ \union {q},
                            !.pts[r]  = InsertAt(@, IndexOf(@, p) + 1, q)]
<1>1. /\ Idle /\ r \in nav.listed /\ p \in Range(nav.pts[r])
      /\ nav.life[q] = "unborn" /\ Become(v)
  BY DEF InsertPointAfter
<1>2. Sound(nav)
  BY DEF IInv
<1>3. Keeps(nav, v)
  BY <1>1, <1>2, InsertSound
<1> HIDE DEF v
<1> QED
  BY <1>1, <1>3, BecomeKeeps

(* Taking a point out of a route may delete the route.                     *)
LEMMA RemovePointFromRouteStep ==
    ASSUME IInv, NEW r \in Routes, NEW p \in Points, RemovePointFromRoute(r, p)
    PROVE  Step
<1> DEFINE w == RemovePoint(nav, r, p)
           v == IF Len(w.pts[r]) =< 1 THEN DeleteRoutes(w, {r}) ELSE w
<1>1. Idle /\ r \in nav.listed /\ Become(v)
  BY DEF RemovePointFromRoute
<1>2. Sound(nav)
  BY DEF IInv
<1>3. Keeps(nav, w) /\ w.listed = nav.listed
  BY <1>1, <1>2, RemovePointSound
<1> HIDE DEF w
<1>4. Keeps(w, v)
  BY <1>1, <1>3, DeleteRoutesSound DEF Keeps
<1> HIDE DEF v
<1>5. Keeps(nav, v)
  BY <1>3, <1>4 DEF Keeps
<1> QED
  BY <1>1, <1>5, BecomeKeeps

(* A deleted point is in no route afterwards.                              *)
LEMMA DeletePointStep ==
    ASSUME IInv, NEW p \in Points, DeletePoint(p)
    PROVE  Step
<1>1. Idle /\ nav.life[p] = "live" /\ Become(DestroyWaypoint(nav, p)) /\ Sound(nav)
  BY DEF DeletePoint, IInv
<1>2. Keeps(nav, DestroyWaypoint(nav, p))
  BY <1>1, DestroyWaypointSound
<1> QED
  BY <1>1, <1>2, BecomeKeeps

(* The deletion of a route deletes no mark.                                *)
LEMMA DeleteRouteStep ==
    ASSUME IInv, NEW r \in Routes, DeleteRoute(r)
    PROVE  Step /\ \A p \in Marks : nav'.life[p] = nav.life[p]
<1>1. Idle /\ {r} \in SUBSET nav.listed /\ Become(DeleteRoutes(nav, {r})) /\ Sound(nav)
  BY DEF DeleteRoute, IInv
<1>2. /\ Keeps(nav, DeleteRoutes(nav, {r}))
      /\ \A p \in Marks : DeleteRoutes(nav, {r}).life[p] = nav.life[p]
  BY <1>1, DeleteRoutesSound
<1>3. nav' = DeleteRoutes(nav, {r})
  BY <1>1 DEF Become
<1>4. Step
  BY <1>1, <1>2, BecomeKeeps
<1> QED
  BY <1>2, <1>3, <1>4

(* The reversed route has the same points.                                 *)
LEMMA ReversedStep ==
    ASSUME IInv, NEW r \in Routes, Reversed(r)
    PROVE  Step
<1> DEFINE v == [nav EXCEPT !.pts[r] = Reverse(@)]
<1>1. Idle /\ r \in nav.listed /\ Become(v) /\ Sound(nav)
  BY DEF Reversed, IInv
<1>2. Keeps(nav, v)
  BY <1>1, ReverseSound
<1> HIDE DEF v
<1> QED
  BY <1>1, <1>2, BecomeKeeps

(* Every edit of routes and points.                                        *)
LEMMA EditStep ==
    ASSUME Settled, IInv, Edit
    PROVE  Step
BY FinishRouteStep, AppendPointStep, DeletePointStep, DeleteRouteStep, ReversedStep,
   StartRouteStep, RemovePointFromRouteStep, InsertPointAfterStep DEF Edit

(* The menu deactivates the active route before it activates another.      *)
LEMMA MenuActivateStep ==
    ASSUME IInv, NEW r \in Routes, NEW p \in Points, MenuActivate(r, p)
    PROVE  Step
<1> DEFINE d == IF nav.route = NONE THEN nav ELSE DeactivateRoute(nav)
<1>1. Idle /\ r \in nav.listed /\ p \in Range(nav.pts[r]) /\ Sound(nav)
      /\ Become(ActivateRoute(d, r, p))
  BY DEF MenuActivate, IInv
<1>2. Keeps(nav, d) /\ d.route = NONE /\ d.listed = nav.listed /\ d.pts = nav.pts
  BY <1>1, DeactivateSound DEF Keeps
<1> HIDE DEF d
<1>3. Keeps(d, ActivateRoute(d, r, p))
  BY <1>1, <1>2, ActivateSound DEF Keeps
<1>4. Keeps(nav, ActivateRoute(d, r, p))
  BY <1>2, <1>3 DEF Keeps
<1> QED
  BY <1>1, <1>4, BecomeKeeps

(* Here alone the flags of the route that was active may stay behind.      *)
LEMMA DialogActivateStep ==
    ASSUME IInv, NEW r \in Routes, NEW p \in Points, DialogActivate(r, p)
    PROVE  Step
<1> DEFINE v == ActivateRoute(nav, r, p)
<1>1. Idle /\ r \in nav.listed \ nav.actRts /\ p \in Range(nav.pts[r]) /\ Sound(nav)
      /\ Become(v)
  BY DEF DialogActivate, IInv
<1>2. Sound(v) /\ v.route = r /\ (nav.route = NONE => Keeps(nav, v))
  BY <1>1, ActivateSound
<1> HIDE DEF v
<1>3. CASE nav.route = NONE
  BY <1>1, <1>2, <1>3, BecomeKeeps
<1>4. CASE nav.route # NONE
  <2>1. nav.route \in nav.actRts /\ r # NONE
    BY <1>1, <1>4, NavAssumption DEF Sound, ActiveIn
  <2>2. nav' = v /\ UNCHANGED <<mouse, asked, wiping>>
        /\ leg' \in [away : 0..3, measured : BOOLEAN]
    BY <1>1 DEF Become, Unmeasured, IInv, TypeOK
  <2>3. IInv'
    BY <1>1, <1>2, <2>2, CommandKeeps
  <2>4. nav'.route \notin {NONE, nav.route}
    BY <1>1, <1>2, <2>1, <2>2
  <2> QED
    BY <1>4, <2>3, <2>4 DEF Step
<1> QED
  BY <1>3, <1>4

(* Afterwards no route is active.                                          *)
LEMMA DeactivateStep ==
    ASSUME IInv, NEW r \in Routes, Deactivate(r)
    PROVE  Step
<1>1. Idle /\ Become(DeactivateRoute(nav)) /\ Sound(nav)
  BY DEF Deactivate, IInv
<1> QED
  BY <1>1, DeactivateSound, BecomeKeeps

(* Another point of the active route becomes the active one.               *)
LEMMA MenuActivatePointStep ==
    ASSUME IInv, NEW r \in Routes, NEW p \in Points, MenuActivatePoint(r, p)
    PROVE  Step
<1>1. Idle /\ r \in nav.listed /\ r = nav.route /\ p \in Range(nav.pts[r])
      /\ Become(ActivateRoutePoint(nav, r, p)) /\ Sound(nav)
  BY DEF MenuActivatePoint, IInv
<1>2. Keeps(nav, ActivateRoutePoint(nav, r, p))
  BY <1>1, ActivateSound
<1> QED
  BY <1>1, <1>2, BecomeKeeps

(* The next point of the active route becomes the active one.              *)
LEMMA SkipToNextPointStep ==
    ASSUME IInv, SkipToNextPoint
    PROVE  Step
<1>1. /\ Idle /\ nav.route # NONE /\ HasNext(nav) /\ nav' = ActivateNextPoint(nav)
      /\ leg' \in [away : 0..3, measured : BOOLEAN]
      /\ UNCHANGED <<mouse, asked, wiping>> /\ Sound(nav)
  BY DEF SkipToNextPoint, Unmeasured, IInv
<1>2. Keeps(nav, nav')
  BY <1>1, NextPointSound
<1>3. IInv'
  BY <1>1, <1>2, CommandKeeps DEF Keeps
<1> QED
  BY <1>2, <1>3 DEF Step, Keeps

(* Only the start of the active leg changes.                               *)
LEMMA ZeroXTEStep ==
    ASSUME IInv, ZeroXTE
    PROVE  Step
<1> DEFINE v == [nav EXCEPT !.virtual = TRUE, !.begin = HERE]
<1>1. /\ Idle /\ nav' = v /\ leg' = [leg EXCEPT !.measured = FALSE]
      /\ UNCHANGED <<mouse, asked, wiping>> /\ Sound(nav)
  BY DEF ZeroXTE, IInv
<1>n. nav \in NavType
  BY <1>1 DEF Sound, Typed
<1>2. /\ v.life = nav.life /\ v.inRoute = nav.inRoute /\ v.isolated = nav.isolated
      /\ v.shared = nav.shared /\ v.actPts = nav.actPts /\ v.pts = nav.pts
      /\ v.listed = nav.listed /\ v.actRts = nav.actRts /\ v.temp = nav.temp
      /\ v.rtePoint = nav.rtePoint /\ v.route = nav.route /\ v.point = nav.point
  BY <1>n DEF NavType
<1>3. v \in NavType
  BY <1>n DEF NavType
<1> HIDE DEF v
<1>4. \A p : Containers(v, p) = Containers(nav, p)
  BY <1>2, SameContainers
<1>5. Typed(v) /\ Tidy(v) /\ AliveIn(v) /\ ActiveIn(v)
  BY <1>1, <1>2, <1>3 DEF Sound, Typed, Tidy, AliveIn, ActiveIn
<1>6. FlagIn(v) /\ SavedIn(v) /\ MarksShared(v)
  BY <1>1, <1>2, <1>4 DEF Sound, FlagIn, SavedIn, MarksShared
<1>7. Sound(v) /\ (ExactIn(nav) => ExactIn(v))
  BY <1>2, <1>5, <1>6 DEF Sound, ExactIn
<1>8. leg' \in [away : 0..3, measured : BOOLEAN]
  BY <1>1 DEF IInv, TypeOK
<1>9. IInv'
  BY <1>1, <1>7, <1>8, CommandKeeps
<1> QED
  BY <1>1, <1>7, <1>9 DEF Step

(* The temporary route is listed, gets its two points, and is activated     *)
(* after the active one has been deactivated.                              *)
LEMMA GotoWaypointStep ==
    ASSUME IInv, NEW r \in Routes, NEW p \in Points, NEW q \in Points,
           GotoWaypoint(r, p, q)
    PROVE  Step
<1> DEFINE l == [nav EXCEPT !.listed = @ \union {r}, !.temp = @ \union {r}]
           a == AddPoint(l, r, p)
           w == AddPoint(a, r, q)
           v == [w EXCEPT !.shared = @ \union {q}]
           d == IF v.route = NONE THEN v ELSE DeactivateRoute(v)
<1>1. /\ Idle /\ r \notin nav.listed
      /\ nav.life[p] = "unborn" /\ nav.life[q] = "live"
      /\ Become(ActivateRoute(d, r, q)) /\ Sound(nav)
  BY DEF GotoWaypoint, IInv
<1>n. nav \in NavType
  BY <1>1 DEF Sound, Typed
<1>2. /\ Keeps(nav, l) /\ l.listed = nav.listed \union {r} /\ l.pts[r] = <<>>
      /\ l.life = nav.life /\ l.pts = nav.pts
  <2>1. l = Listed(nav, r, {r})
    BY DEF Listed
  <2> HIDE DEF l
  <2> QED
    BY <1>1, <2>1, ListSound
<1> HIDE DEF l
<1>3. NoRepeat(Append(l.pts[r], p)) /\ Append(l.pts[r], p) = <<p>>
  BY <1>2 DEF NoRepeat
<1>4. /\ Keeps(l, a) /\ a.listed = l.listed
      /\ \A x \in Points \ {p} : a.life[x] = nav.life[x]
      /\ a.pts[r] = <<p>>
  <2>1. /\ Sound(l) /\ r \in l.listed /\ l.life[p] \in {"unborn", "live"}
        /\ NoRepeat(Append(l.pts[r], p))
    BY <1>1, <1>2, <1>3 DEF Keeps
  <2>2. /\ Keeps(l, a) /\ a.listed = l.listed
        /\ \A x \in Points \ {p} : a.life[x] = l.life[x]
        /\ a.pts[r] = Append(l.pts[r], p)
    BY <2>1, AddPointSound
  <2> QED
    BY <1>2, <1>3, <2>2
<1> HIDE DEF a
<1>5. /\ p # q /\ a.pts[r] = <<p>> /\ a.life[q] = "live"
  BY <1>1, <1>4, <1>n DEF NavType
<1> DEFINE t == Append(<<p>>, q)
<1>6. NoRepeat(t) /\ q \in Range(t)
  <2>1. <<p>> \in Seq(Points) /\ Len(<<p>>) = 1 /\ <<p>>[1] = p
    OBVIOUS
  <2>2. t \in Seq(Points) /\ Len(t) = 2 /\ t[1] = p /\ t[2] = q
    BY <2>1
  <2> HIDE DEF t
  <2>3. NoRepeat(t)
    BY <1>5, <2>2 DEF NoRepeat
  <2>4. q \in Range(t)
    BY <2>2, RangeElements
  <2> QED
    BY <2>3, <2>4
<1> HIDE DEF t
<1>7. /\ Keeps(a, w) /\ w.listed = a.listed
      /\ w.pts[r] = t
  <2>t. Append(a.pts[r], q) = t
    BY <1>5 DEF t
  <2>1. /\ Sound(a) /\ r \in a.listed
        /\ NoRepeat(Append(a.pts[r], q)) /\ a.life[q] \in {"unborn", "live"}
    BY <1>2, <1>4, <1>5, <1>6, <2>t DEF Keeps
  <2> HIDE DEF v, d
  <2>2. Keeps(a, AddPoint(a, r, q))
    BY <2>1, AddPointSound
  <2>4. AddPoint(a, r, q).listed = a.listed
    BY <2>1, AddPointSound
  <2>5. AddPoint(a, r, q).pts[r] = Append(a.pts[r], q)
    BY <2>1, AddPointSound
  <2> QED
    BY <2>t, <2>2, <2>4, <2>5
<1> HIDE DEF w
<1>8. /\ Keeps(w, v) /\ v.listed = w.listed /\ v.pts = w.pts
  BY <1>7, ShareSound DEF Keeps
<1> HIDE DEF v
<1>9. /\ Keeps(v, d) /\ d.route = NONE /\ d.listed = v.listed /\ d.pts = v.pts
  BY <1>8, DeactivateSound DEF Keeps
<1> HIDE DEF d
<1>10. r \in d.listed /\ q \in Range(d.pts[r])
  <2>1. d.pts[r] = t
    BY <1>7, <1>8, <1>9
  <2> QED
    BY <1>2, <1>4, <1>6, <1>7, <1>8, <1>9, <2>1
<1>11. Keeps(d, ActivateRoute(d, r, q))
  BY <1>9, <1>10, ActivateSound DEF Keeps
<1>12. Keeps(nav, ActivateRoute(d, r, q))
  BY <1>2, <1>4, <1>7, <1>8, <1>9, <1>11 DEF Keeps
<1> QED
  BY <1>1, <1>12, BecomeKeeps

(* Every command that follows a route.                                     *)
LEMMA FollowStep ==
    ASSUME IInv, Follow
    PROVE  Step
BY SkipToNextPointStep, ZeroXTEStep, DeactivateStep, MenuActivateStep,
   DialogActivateStep, MenuActivatePointStep, GotoWaypointStep DEF Follow

(* The question of a drag is about points and routes that exist.           *)
LEMMA DropPointStep ==
    ASSUME Settled, IInv, NEW p \in Points, NEW q \in Points, DropPoint(p, q)
    PROVE  Step
<1> DEFINE rs == Containers(nav, p)
<1>1. /\ Idle /\ p # q /\ nav.life[q] = "live" /\ p \notin nav.actPts /\ rs # {}
      /\ \A r \in rs : NoRepeat(Replace(nav.pts[r], p, q))
      /\ asked' = [point |-> p, onto |-> q, routes |-> rs]
      /\ UNCHANGED <<nav, leg, mouse, wiping>>
  BY DEF DropPoint, Allowed, Settled
<1>2. rs \subseteq Routes
  BY DEF IInv, Sound, Typed, NavType, Containers
<1>3. Containers(nav, p)' = rs'
  OBVIOUS
<1>4. mouse = NONE /\ wiping = "no"
  BY <1>1 DEF Idle
<1>5. asked' \in Drag
  BY <1>1, <1>2 DEF Drag
<1>6. TypeOK'
  BY <1>1, <1>5 DEF IInv, TypeOK
<1>7. asked'.point = p /\ asked'.onto = q /\ asked'.routes = rs
  BY <1>1
<1>8. Sound(nav)' /\ OneAtATime'
  BY <1>1, <1>4 DEF IInv, OneAtATime
<1>9. DragStands'
  <2>1. nav' = nav
    BY <1>1
  <2> QED
    BY <1>1, <1>7, <2>1 DEF DragStands
<1> QED
  BY <1>1, <1>6, <1>8, <1>9 DEF Step, IInv

(* Yes: what the drag found still stands.                                  *)
LEMMA ReplacePointStep ==
    ASSUME IInv, ReplacePoint
    PROVE  Step
<1> DEFINE p  == asked.point
           q  == asked.onto
           rs == asked.routes \intersect nav.listed
<1>1. /\ asked # NONE /\ nav' = Free(Replaced(nav, rs, p, q), {p})
      /\ asked' = NONE /\ UNCHANGED <<leg, mouse, wiping>>
  BY DEF ReplacePoint, Replaced
<1>2. /\ p \in Points /\ q \in Points /\ mouse = NONE /\ wiping = "no"
      /\ Sound(nav)
  BY <1>1 DEF IInv, TypeOK, Drag, OneAtATime
<1>3. /\ p # q /\ nav.life[q] = "live" /\ p \notin nav.actPts
      /\ rs = Containers(nav, p) /\ rs # {}
      /\ \A r \in rs : NoRepeat(Replace(nav.pts[r], p, q))
  BY <1>1 DEF IInv, DragStands, Containers
<1> HIDE DEF p, q, rs
<1>4. Keeps(nav, nav')
  BY <1>1, <1>2, <1>3, ReplaceSound
<1>5. mouse' = NONE /\ asked' = NONE /\ wiping' = "no"
  BY <1>1, <1>2
<1>6. TypeOK'
  BY <1>1, <1>4, <1>5 DEF IInv, TypeOK, Keeps, Sound, Typed
<1> QED
  BY <1>4, <1>5, <1>6 DEF Step, Keeps, IInv, DragStands, OneAtATime

(* No: nothing changes.                                                    *)
LEMMA KeepPointStep ==
    ASSUME IInv, KeepPoint
    PROVE  Step
<1>1. asked' = NONE /\ UNCHANGED <<nav, leg, mouse, wiping>> /\ asked # NONE
  BY DEF KeepPoint
<1>2. TypeOK' /\ Sound(nav)' /\ DragStands' /\ OneAtATime'
  BY <1>1 DEF IInv, TypeOK, DragStands, OneAtATime
<1> QED
  BY <1>1, <1>2 DEF Step, IInv

(* One turn of the loop of DeleteAllWaypoints frees a point only after it   *)
(* has been taken out of its routes.                                       *)
LEMMA WipePointStep ==
    ASSUME IInv, NEW p \in Points, WipePoint(p)
    PROVE  Step
<1> DEFINE d == DestroyWaypoint(nav, p)
<1>1. /\ wiping # "no" /\ nav.life[p] = "live" /\ nav' = Free(d, {p})
      /\ leg' \in {leg, Unmeasured} /\ UNCHANGED <<mouse, asked, wiping>>
      /\ Sound(nav)
  BY DEF WipePoint, Condemned, IInv
<1>2. Keeps(nav, d) /\ Containers(d, p) = {}
  BY <1>1, DestroyWaypointSound
<1> HIDE DEF d
<1>3. Keeps(d, nav')
  BY <1>1, <1>2, FreeSound DEF Keeps
<1>4. Keeps(nav, nav')
  BY <1>2, <1>3 DEF Keeps
<1>5. mouse' = NONE /\ asked' = NONE
  BY <1>1 DEF IInv, OneAtATime
<1>6. TypeOK'
  <2>1. leg' \in [away : 0..3, measured : BOOLEAN]
    <3>1. leg \in [away : 0..3, measured : BOOLEAN]
      BY DEF IInv, TypeOK
    <3>2. Unmeasured \in [away : 0..3, measured : BOOLEAN]
      BY DEF Unmeasured
    <3> QED
      BY <1>1, <3>1, <3>2
  <2>2. wiping' \in {"no", "all", "unused"}
    BY <1>1 DEF IInv, TypeOK
  <2> QED
    BY <1>4, <1>5, <2>1, <2>2 DEF TypeOK, Keeps, Sound, Typed
<1> QED
  BY <1>4, <1>5, <1>6 DEF Step, Keeps, IInv, DragStands, OneAtATime

(* The whole loop, from its start to its end.                              *)
LEMMA WipeStep ==
    ASSUME IInv, Wipe
    PROVE  Step
<1>1. CASE WipeEnds
  <2>1. wiping # "no" /\ wiping' = "no" /\ UNCHANGED <<nav, leg, mouse, asked>>
    BY <1>1 DEF WipeEnds
  <2>2. TypeOK' /\ Sound(nav)' /\ DragStands' /\ OneAtATime'
    BY <2>1 DEF IInv, TypeOK, DragStands, OneAtATime
  <2> QED
    BY <2>1, <2>2 DEF Step, IInv
<1>2. ASSUME NEW mode \in {"all", "unused"}, DeleteAllWaypoints(mode) PROVE Step
  <2>1. Idle /\ wiping' = mode /\ UNCHANGED <<nav, leg, mouse, asked>>
    BY <1>2 DEF DeleteAllWaypoints
  <2>2. TypeOK' /\ Sound(nav)' /\ DragStands' /\ OneAtATime'
    BY <2>1 DEF IInv, TypeOK, DragStands, OneAtATime, Idle
  <2> QED
    BY <2>1, <2>2 DEF Step, IInv
<1> QED
  BY <1>1, <1>2, WipePointStep DEF Wipe

(* The timer: at an arrival it goes on to the next point or ends the route, *)
(* and deletes a temporary one, which is not the one being drawn.          *)
LEMMA UpdateProgressStep ==
    ASSUME Settled, IInv, NEW fix \in Fixes, UpdateProgress(fix)
    PROVE  Step
<1>1. /\ wiping = "no" /\ asked = NONE /\ nav.route # NONE /\ Sound(nav)
      /\ UNCHANGED <<mouse, asked, wiping>>
  BY DEF UpdateProgress, TimerRuns, Settled, IInv
<1>2. CASE Arrives(fix)
  <2>1. nav' = DoAdvance(nav) /\ leg' = Unmeasured
    BY <1>2 DEF UpdateProgress
  <2>2. Keeps(nav, nav') /\ (mouse \in nav.listed \ nav.temp =>
                               mouse \in nav'.listed \ nav'.temp)
    <3>1. CASE HasNext(nav)
      BY <1>1, <2>1, <3>1, NextPointSound DEF DoAdvance
    <3>2. CASE ~HasNext(nav) /\ nav' = DeactivateRoute(nav)
      BY <1>1, <3>2, DeactivateSound
    <3>3. CASE ~HasNext(nav) /\ nav.route \in nav.temp
               /\ nav' = DeleteRoutes(DeactivateRoute(nav), {nav.route})
      <4> DEFINE d == DeactivateRoute(nav)
      <4>1. /\ Keeps(nav, d) /\ d.listed = nav.listed /\ d.temp = nav.temp
        BY <1>1, DeactivateSound
      <4>2. {nav.route} \in SUBSET d.listed /\ Sound(d)
        BY <1>1, <3>3, <4>1 DEF Keeps, Sound, Tidy
      <4> HIDE DEF d
      <4>3. /\ Keeps(d, DeleteRoutes(d, {nav.route}))
            /\ DeleteRoutes(d, {nav.route}).listed = d.listed \ {nav.route}
            /\ DeleteRoutes(d, {nav.route}).temp = d.temp \ {nav.route}
        BY <4>2, DeleteRoutesSound
      <4>4. nav' = DeleteRoutes(d, {nav.route})
        BY <3>3 DEF d
      <4> QED
        BY <3>3, <4>1, <4>3, <4>4 DEF Keeps
    <3> QED
      BY <2>1, <3>1, <3>2, <3>3 DEF DoAdvance
  <2>3. leg' \in [away : 0..3, measured : BOOLEAN]
    BY <2>1 DEF Unmeasured
  <2>4. mouse = NONE \/ mouse \in nav.listed \ nav.temp
    BY DEF IInv, TypeOK, OneAtATime
  <2>5. TypeOK'
    BY <1>1, <2>2, <2>3, <2>4 DEF IInv, TypeOK, Keeps, Sound, Typed
  <2> QED
    BY <1>1, <2>2, <2>4, <2>5 DEF Step, Keeps, IInv, DragStands, OneAtATime
<1>3. CASE ~Arrives(fix)
  <2>1. /\ nav' = nav /\ leg'.measured = TRUE
        /\ leg' = [away     |-> IF ~MovesAway(fix) THEN 0
                                ELSE IF leg.away < 3 THEN leg.away + 1 ELSE 3,
                   measured |-> TRUE]
    BY <1>3 DEF UpdateProgress, Counted
  <2>2. leg.away \in 0..3
    BY DEF IInv, TypeOK
  <2>3. leg' \in [away : 0..3, measured : BOOLEAN]
    BY <2>1, <2>2
  <2>4. TypeOK' /\ Sound(nav)' /\ DragStands' /\ OneAtATime'
    BY <1>1, <2>1, <2>3 DEF IInv, TypeOK, DragStands, OneAtATime
  <2> QED
    BY <2>1, <2>4 DEF Step, IInv
<1> QED
  BY <1>2, <1>3

(* Every step of the specification.                                        *)
LEMMA StepKeeps ==
    ASSUME Settled, IInv, [Next]_vars
    PROVE  Step
<1>1. CASE UNCHANGED vars
  <2>1. UNCHANGED <<nav, leg, mouse, asked, wiping>>
    BY <1>1 DEF vars
  <2>2. TypeOK' /\ Sound(nav)' /\ DragStands' /\ OneAtATime'
    BY <2>1 DEF IInv, TypeOK, DragStands, OneAtATime
  <2> QED
    BY <2>1, <2>2 DEF Step, IInv
<1>2. CASE DragAndDrop
  BY <1>2, ReplacePointStep, KeepPointStep, DropPointStep DEF DragAndDrop
<1>3. CASE Sail
  BY <1>3, UpdateProgressStep DEF Sail
<1> QED
  BY <1>1, <1>2, <1>3, EditStep, FollowStep, WipeStep DEF Next

-----------------------------------------------------------------------------
(* Theorems *)

(* IInv is an invariant when the user is settled.                          *)
THEOREM Invariance == ASSUME Settled PROVE Spec => []IInv
PROOF
<1>1. Init => IInv
  BY Initially
<1>2. IInv /\ [Next]_vars => IInv'
  BY StepKeeps DEF Step
<1> QED
  BY <1>1, <1>2, PTL DEF Spec

(* The variables keep their types, and there is an active route exactly    *)
(* while there is an active point.                                         *)
THEOREM TypeCorrectness == ASSUME Settled PROVE Spec => []TypeOK
PROOF
<1>1. IInv => TypeOK
  BY DEF IInv
<1> QED
  BY <1>1, Invariance, PTL

(* Every point of a listed route exists and is in the manager's list       *)
(* (routeman.cpp:894, 2266).                                               *)
THEOREM NoPointFreedInRoute == ASSUME Settled PROVE Spec => []RoutePointsAlive
PROOF
<1>1. IInv => RoutePointsAlive
  BY DEF IInv, Sound, AliveIn, RoutePointsAlive
<1> QED
  BY <1>1, Invariance, PTL

(* m_bIsInRoute of a living point says exactly whether a route has it.     *)
THEOREM FlagOfRoutePoints == ASSUME Settled PROVE Spec => []InRouteFlagExact
PROOF
<1>1. IInv => InRouteFlagExact
  BY DEF IInv, Sound, FlagIn, InRouteFlagExact
<1> QED
  BY <1>1, Invariance, PTL

(* Every living point is saved, as a mark or with a route                  *)
(* (NavObjectCollection.cpp:1311).                                         *)
THEOREM PointsAreSaved == ASSUME Settled PROVE Spec => []NothingUnsaved
PROOF
<1>1. IInv => NothingUnsaved
  BY DEF IInv, Sound, SavedIn, NothingUnsaved
<1> QED
  BY <1>1, Invariance, PTL

(* No command pulls the active route or its active point from under        *)
(* UpdateProgress (routeman.cpp:443), not even the activation of a route   *)
(* over another one.                                                       *)
THEOREM ActiveRouteStands == ASSUME Settled PROVE Spec => []ActiveRouteIntact
PROOF
<1>1. IInv => ActiveRouteIntact
  BY DEF IInv, Sound, ActiveIn, ActiveRouteIntact
<1> QED
  BY <1>1, Invariance, PTL

(* The "active" flags get out of step with Routeman in one way only.       *)
THEOREM FlagsFollowRouteman == ASSUME Settled PROVE Spec => FlagsFollow
PROOF
<1> DEFINE A == FlagsExact =>
                   \/ FlagsExact'
                   \/ nav.route # NONE /\ nav'.route \notin {NONE, nav.route}
<1>1. IInv /\ [Next]_vars => A
  BY StepKeeps DEF Step, ExactIn, FlagsExact
<1>2. Spec => []IInv
  BY Invariance
<1>3. Spec => [][A]_vars
  <2> HIDE DEF A
  <2> QED
    BY <1>1, <1>2, PTL DEF Spec
<1> QED
  BY <1>3 DEF FlagsFollow

(* The deletion of a route deletes no mark (routeman.cpp:920).             *)
THEOREM MarksOutliveRoutes == ASSUME Settled PROVE Spec => MarksSurvive
PROOF
<1> DEFINE A == \A r \in Routes, p \in Marks :
                    DeleteRoute(r) /\ nav.life[p] = "live" => nav'.life[p] = "live"
<1>1. IInv /\ [Next]_vars => A
  BY DeleteRouteStep
<1>2. Spec => []IInv
  BY Invariance
<1>3. Spec => [][A]_vars
  <2> HIDE DEF A
  <2> QED
    BY <1>1, <1>2, PTL DEF Spec
<1> QED
  BY <1>3 DEF MarksSurvive
=============================================================================
