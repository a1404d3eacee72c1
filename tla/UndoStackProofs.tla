--------------------------- MODULE UndoStackProofs ---------------------------
(***************************************************************************)
(* What UndoStack promises for any points, any depth of the stack and any  *)
(* length of the route: its types, that the stack frees nothing in use,    *)
(* that nothing freed is put back, and that undo and redo are each other's *)
(* inverse.  All but the first need that undo and redo wait for the end of *)
(* a drag and that no route crosses itself in a point.                     *)
(***************************************************************************)
EXTENDS UndoStack, SequenceTheorems, WellFoundedInduction, TLAPS

(* No habit of the run is allowed.                                         *)
Plain == Habits = {}

Once(s) == \A i, j \in 1 .. Len(s) : i # j => s[i] # s[j]

(* Where EndDragOnto puts the other point.                                 *)
IndexOf(s, p) == SelectInSeq(s, LAMBDA r : r = p)

Replace(s, p, q) == ReplaceAt(s, SelectInSeq(s, LAMBDA r : r = p), q)

-----------------------------------------------------------------------------
(* Sequences *)

(* Every inhabited set of natural numbers has a least element.             *)
LEMMA LeastNumber ==
  ASSUME NEW K, K \subseteq Nat, K # {}
  PROVE  \E k \in K : \A j \in K : k =< j
<1> DEFINE R == OpToRel(<, Nat)
<1>1. IsWellFoundedOn(R, Nat)
  BY NatLessThanWellFounded
<1>2. \A x, y \in Nat : x < y => <<x, y>> \in R
  BY DEF OpToRel
<1> HIDE DEF R
<1>3. PICK k \in K : \A j \in K : ~(<<j, k>> \in R)
  BY <1>1, WFMin
<1>4. ASSUME NEW j \in K PROVE k =< j
  <2>1. j \in Nat /\ k \in Nat /\ ~(j < k)
    BY <1>2, <1>3
  <2> QED
    BY <2>1
<1> QED
  BY <1>4

(* The elements of a sequence are what its positions hold.                 *)
LEMMA ToSetElements ==
  ASSUME NEW S, NEW s \in Seq(S)
  PROVE  /\ \A x : x \in ToSet(s) <=> \E i \in 1..Len(s) : s[i] = x
         /\ ToSet(s) \subseteq S
<1>1. DOMAIN s = 1..Len(s) /\ \A i \in 1..Len(s) : s[i] \in S
  OBVIOUS
<1> QED
  BY <1>1 DEF ToSet

(* IndexOf finds an element that is there.                                 *)
LEMMA IndexOfElement ==
  ASSUME NEW S, NEW s \in Seq(S), NEW p \in ToSet(s)
  PROVE  IndexOf(s, p) \in 1..Len(s) /\ s[IndexOf(s, p)] = p
<1> DEFINE I == {i \in 1..Len(s) : s[i] = p}
<1>1. I \subseteq Nat /\ I # {}
  BY ToSetElements
<1>2. \E k \in I : \A j \in I : k =< j
  BY <1>1, LeastNumber
<1>3. IndexOf(s, p) = IF I # {} THEN Min(I) ELSE 0
  BY DEF IndexOf, SelectInSeq
<1> HIDE DEF I
<1>4. Min(I) \in I
  BY <1>2 DEF Min
<1>5. IndexOf(s, p) \in I
  BY <1>1, <1>3, <1>4
<1> QED
  BY <1>5 DEF I

(* Append adds one element.                                                *)
LEMMA AppendElements ==
  ASSUME NEW S, NEW s \in Seq(S), NEW e \in S
  PROVE  /\ Append(s, e) \in Seq(S)
         /\ ToSet(Append(s, e)) = ToSet(s) \cup {e}
<1>1. /\ Append(s, e) \in Seq(S) /\ Len(Append(s, e)) = Len(s) + 1
      /\ \A i \in 1..(Len(s) + 1) :
            Append(s, e)[i] = IF i =< Len(s) THEN s[i] ELSE e
  OBVIOUS
<1> DEFINE t == Append(s, e)
<1> HIDE DEF t
<1>2. /\ t \in Seq(S) /\ Len(t) = Len(s) + 1
      /\ \A i \in 1..(Len(s) + 1) : t[i] = IF i =< Len(s) THEN s[i] ELSE e
  BY <1>1 DEF t
<1>3. \A x : x \in ToSet(t) <=> \E i \in 1..Len(t) : t[i] = x
  BY <1>2, ToSetElements
<1>4. \A x : x \in ToSet(s) <=> \E i \in 1..Len(s) : s[i] = x
  BY ToSetElements
<1>5. Len(s) \in Nat
  OBVIOUS
<1>6. ASSUME NEW x \in ToSet(t) PROVE x \in ToSet(s) \cup {e}
  BY <1>2, <1>3, <1>4, <1>5
<1>7. ASSUME NEW x \in ToSet(s) PROVE x \in ToSet(t)
  <2>1. PICK i \in 1..Len(s) : s[i] = x
    BY <1>4
  <2>2. i \in 1..Len(t) /\ t[i] = x
    BY <1>2, <1>5, <2>1
  <2> QED
    BY <1>3, <2>2
<1>8. e \in ToSet(t)
  <2>1. Len(t) \in 1..Len(t) /\ t[Len(t)] = e
    BY <1>2, <1>5
  <2> QED
    BY <1>3, <2>1
<1>9. ToSet(t) = ToSet(s) \cup {e}
  BY <1>6, <1>7, <1>8
<1> QED
  BY <1>2, <1>9 DEF t

(* RemoveFirst keeps the other elements; if none is repeated, the removed  *)
(* one is gone.                                                            *)
LEMMA RemoveFirstElements ==
  ASSUME NEW S, NEW s \in Seq(S), NEW p
  PROVE  /\ RemoveFirst(s, p) \in Seq(S)
         /\ ToSet(RemoveFirst(s, p)) \subseteq ToSet(s)
         /\ ToSet(s) \ {p} \subseteq ToSet(RemoveFirst(s, p))
         /\ Once(s) => /\ Once(RemoveFirst(s, p))
                             /\ p \notin ToSet(RemoveFirst(s, p))
<1>1. CASE p \notin ToSet(s)
  <2>1. RemoveFirst(s, p) = s
    BY <1>1, ToSetElements DEF RemoveFirst
  <2> QED
    BY <1>1, <2>1
<1>2. CASE p \in ToSet(s)
  <2> DEFINE k == IndexOf(s, p)
             t == RemoveFirst(s, p)
             n == Len(s)
  <2>1. k \in 1..n /\ s[k] = p
    BY <1>2, IndexOfElement
  <2>2. t = SubSeq(s, 1, k-1) \o SubSeq(s, k+1, n)
    BY <1>2, ToSetElements DEF RemoveFirst, RemoveAt, IndexOf
  <2> HIDE DEF k, t
  <2>3. /\ SubSeq(s, 1, k-1) \in Seq(S) /\ Len(SubSeq(s, 1, k-1)) = k-1
        /\ \A i \in 1..(k-1) : SubSeq(s, 1, k-1)[i] = s[i]
    BY <2>1
  <2>4. /\ SubSeq(s, k+1, n) \in Seq(S) /\ Len(SubSeq(s, k+1, n)) = n - k
        /\ \A i \in 1..(n - k) : SubSeq(s, k+1, n)[i] = s[k+i]
    BY <2>1
  <2>n. n \in Nat
    OBVIOUS
  <2> DEFINE f == SubSeq(s, 1, k-1)  b == SubSeq(s, k+1, n)
  <2>5. t = f \o b /\ f \in Seq(S) /\ b \in Seq(S) /\ Len(f) = k-1 /\ Len(b) = n-k
    BY <2>2, <2>3, <2>4
  <2>6. \A i \in 1..(k-1) : f[i] = s[i]
    BY <2>3
  <2>7. \A i \in 1..(n-k) : b[i] = s[k+i]
    BY <2>4
  <2> HIDE DEF f, b, n
  <2>8. t \in Seq(S) /\ Len(t) = n - 1
    <3>1. f \o b \in Seq(S) /\ Len(f \o b) = Len(f) + Len(b)
      BY <2>5, ConcatProperties
    <3>2. (k - 1) + (n - k) = n - 1
      BY <2>1, <2>n
    <3> QED
      BY <2>5, <3>1, <3>2
  <2>9. \A i \in 1..(n-1) : t[i] = IF i < k THEN f[i] ELSE b[i - (k-1)]
    BY <2>1, <2>5, <2>n
  <2>10. ASSUME NEW i \in 1..(n-1) PROVE t[i] = IF i < k THEN s[i] ELSE s[i+1]
    <3>1. CASE i < k
      BY <2>1, <2>6, <2>9, <2>n, <3>1
    <3>2. CASE ~(i < k)
      <4>1. i - (k-1) \in 1..(n-k) /\ k + (i - (k-1)) = i + 1
        BY <2>1, <2>n, <3>2
      <4> QED
        BY <2>7, <2>9, <3>2, <4>1
    <3> QED
      BY <3>1, <3>2
  <2>11. \A x : x \in ToSet(t) <=> \E i \in 1..(n-1) : t[i] = x
    BY <2>8, ToSetElements
  <2>12. \A x : x \in ToSet(s) <=> \E i \in 1..n : s[i] = x
    BY ToSetElements DEF n
  <2>13. ASSUME NEW x \in ToSet(t) PROVE x \in ToSet(s)
    <3>1. PICK i \in 1..(n-1) : t[i] = x
      BY <2>11
    <3>2. i \in 1..n /\ i + 1 \in 1..n
      BY <2>n
    <3> QED
      BY <2>10, <2>12, <3>1, <3>2
  <2>14. ASSUME NEW x \in ToSet(s), x # p PROVE x \in ToSet(t)
    <3>1. PICK i \in 1..n : s[i] = x
      BY <2>12
    <3>2. CASE i < k
      <4>1. i \in 1..(n-1)
        BY <2>1, <2>n, <3>2
      <4> QED
        BY <2>10, <2>11, <3>1, <3>2, <4>1
    <3>3. CASE i > k
      <4>1. i-1 \in 1..(n-1) /\ ~(i-1 < k) /\ (i-1)+1 = i
        BY <2>1, <2>n, <3>3
      <4> QED
        BY <2>10, <2>11, <3>1, <4>1
    <3>4. i # k
      BY <2>1, <2>14, <3>1
    <3> QED
      BY <2>1, <2>n, <3>2, <3>3, <3>4
  <2>15. ASSUME Once(s) PROVE Once(t) /\ p \notin ToSet(t)
    <3>1. \A i, j \in 1..n : i # j => s[i] # s[j]
      BY <2>15 DEF Once, n
    <3>2. ASSUME NEW i \in 1..(n-1)
          PROVE  \E a \in 1..n : /\ a = IF i < k THEN i ELSE i+1
                                 /\ a # k /\ t[i] = s[a]
      BY <2>1, <2>10, <2>n
    <3>3. ASSUME NEW i \in 1..(n-1), NEW j \in 1..(n-1), i # j
          PROVE  t[i] # t[j]
      <4>1. PICK a \in 1..n : a = (IF i < k THEN i ELSE i+1) /\ t[i] = s[a]
        BY <3>2
      <4>2. PICK c \in 1..n : c = (IF j < k THEN j ELSE j+1) /\ t[j] = s[c]
        BY <3>2
      <4>3. a # c
        BY <2>1, <2>n, <3>3, <4>1, <4>2
      <4> QED
        BY <3>1, <4>1, <4>2, <4>3
    <3>4. p \notin ToSet(t)
      BY <2>1, <2>11, <3>1, <3>2
    <3> QED
      BY <2>8, <3>3, <3>4 DEF Once
  <2> QED
    BY <2>8, <2>13, <2>14, <2>15 DEF t
<1> QED
  BY <1>1, <1>2

LEMMA AppendOnce ==
  ASSUME NEW S, NEW s \in Seq(S), NEW e \in S, e \notin ToSet(s), Once(s)
  PROVE  Once(Append(s, e))
<1>1. /\ Len(Append(s, e)) = Len(s) + 1 /\ Len(s) \in Nat
      /\ \A i \in 1..(Len(s) + 1) :
            Append(s, e)[i] = IF i =< Len(s) THEN s[i] ELSE e
  OBVIOUS
<1> DEFINE t == Append(s, e)
<1> HIDE DEF t
<1>2. \A i \in 1..Len(s) : s[i] # e
  BY ToSetElements
<1>3. ASSUME NEW i \in 1..Len(t), NEW j \in 1..Len(t), i # j
      PROVE  t[i] # t[j]
  <2>1. /\ Len(t) = Len(s) + 1
        /\ \A k \in 1..(Len(s) + 1) : t[k] = IF k =< Len(s) THEN s[k] ELSE e
    BY <1>1 DEF t
  <2>2. i \in 1..Len(s) \/ i = Len(s) + 1
    BY <1>1, <2>1
  <2>3. j \in 1..Len(s) \/ j = Len(s) + 1
    BY <1>1, <2>1
  <2> QED
    BY <1>1, <1>2, <1>3, <2>1, <2>2, <2>3 DEF Once
<1> QED
  BY <1>3 DEF Once, t

(* ReplaceAt at the place of p puts q for it; if none is repeated, p is    *)
(* gone.                                                                   *)
LEMMA ReplaceElements ==
  ASSUME NEW S, NEW s \in Seq(S), NEW p \in ToSet(s), NEW q \in S
  PROVE  /\ Replace(s, p, q) \in Seq(S)
         /\ Once(s) => ToSet(Replace(s, p, q)) = (ToSet(s) \ {p}) \cup {q}
         /\ Once(s) /\ q \notin ToSet(s) => Once(Replace(s, p, q))
<1> DEFINE k == IndexOf(s, p)
           t == ReplaceAt(s, k, q)
<1>1. k \in 1..Len(s) /\ s[k] = p
  BY IndexOfElement
<1> HIDE DEF k
<1>2. /\ t \in Seq(S) /\ Len(t) = Len(s)
      /\ \A i \in 1..Len(s) : t[i] = IF i = k THEN q ELSE s[i]
  BY <1>1, ExceptSeq DEF ReplaceAt
<1> HIDE DEF t
<1>3. /\ \A x : x \in ToSet(t) <=> \E i \in 1..Len(s) : t[i] = x
      /\ \A x : x \in ToSet(s) <=> \E i \in 1..Len(s) : s[i] = x
  BY <1>2, ToSetElements
<1>4. ASSUME Once(s) PROVE ToSet(t) = (ToSet(s) \ {p}) \cup {q}
  <2>1. \A i \in 1..Len(s) : s[i] = p => i = k
    BY <1>1, <1>4 DEF Once
  <2>2. \A x : x \in ToSet(t) <=> x \in (ToSet(s) \ {p}) \cup {q}
    BY <1>1, <1>2, <1>3, <2>1
  <2> QED
    BY <2>2
<1>5. ASSUME Once(s), q \notin ToSet(s) PROVE Once(t)
  BY <1>2, <1>3, <1>5 DEF Once
<1> QED
  BY <1>2, <1>4, <1>5 DEF t, k, IndexOf, Replace

-----------------------------------------------------------------------------
(* What the calls leave: the types, and the fields they change *)

LEMMA MadeType ==
  ASSUME NEW w \in State, NEW p \in Points
  PROVE  LET v == Made(w, p) IN
         /\ v \in State /\ v.life = [w.life EXCEPT ![p] = "live"]
         /\ v.listed = w.listed \cup {p} /\ v.shown = w.shown \cup {p}
         /\ v.iso = w.iso /\ v.shared = w.shared /\ v.pos = w.pos
         /\ v.route = w.route /\ v.drawing = w.drawing
         /\ v.stack = w.stack /\ v.sp = w.sp /\ v.cand = w.cand
BY DEF Made, State

LEMMA FreeType ==
  ASSUME NEW w \in State, NEW ps
  PROVE  LET v == Free(w, ps) IN
         /\ v \in State
         /\ v.life = [p \in Points |-> IF p \in ps THEN "freed" ELSE w.life[p]]
         /\ v.listed = w.listed \ ps /\ v.shown = w.shown
         /\ v.iso = w.iso /\ v.shared = w.shared /\ v.pos = w.pos
         /\ v.route = w.route /\ v.drawing = w.drawing
         /\ v.stack = w.stack /\ v.sp = w.sp /\ v.cand = w.cand
BY DEF Free, State

LEMMA AddPointType ==
  ASSUME NEW w \in State, NEW p \in Points
  PROVE  LET v == AddPoint(w, p) IN
         /\ v \in State /\ v.life = w.life
         /\ v.listed = w.listed /\ v.shown = w.shown
         /\ v.route = Append(w.route, p) /\ v.drawing = w.drawing
         /\ v.stack = w.stack /\ v.sp = w.sp /\ v.cand = w.cand
<1>1. Append(w.route, p) \in Seq(Points)
  BY DEF State
<1> QED
  BY <1>1 DEF AddPoint, State

LEMMA RemovePointType ==
  ASSUME NEW w \in State, NEW p \in Points
  PROVE  LET v == RemovePoint(w, p) IN
         /\ v \in State /\ v.life = w.life
         /\ v.listed = w.listed
         /\ v.shown = w.shown \cup ToSet(RemoveFirst(w.route, p))
         /\ v.route = RemoveFirst(w.route, p) /\ v.drawing = w.drawing
         /\ v.stack = w.stack /\ v.sp = w.sp /\ v.cand = w.cand
<1> DEFINE rest == RemoveFirst(w.route, p)
<1>1. w.route \in Seq(Points)
  BY DEF State
<1>2. rest \in Seq(Points)
  BY <1>1, RemoveFirstElements
<1>3. ToSet(rest) \subseteq Points
  BY <1>2, ToSetElements
<1>4. RemovePoint(w, p) =
        [w EXCEPT !.route = rest, !.shown = @ \cup ToSet(rest),
                  !.iso = IF Contains(rest, p) THEN @ ELSE @ \cup {p}]
  BY DEF RemovePoint
<1> HIDE DEF rest
<1>5. RemovePoint(w, p) \in State
  <2> DEFINE sh == w.shown \cup ToSet(rest)
             is == IF Contains(rest, p) THEN w.iso ELSE w.iso \cup {p}
  <2>1. sh \in SUBSET Points /\ is \in SUBSET Points
    BY <1>3 DEF State
  <2>2. RemovePoint(w, p) = [w EXCEPT !.route = rest, !.shown = sh, !.iso = is]
    BY <1>4 DEF State
  <2> HIDE DEF sh, is
  <2> QED
    BY <1>2, <2>1, <2>2 DEF State
<1> QED
  BY <1>4, <1>5 DEF State, rest

LEMMA ScrapType ==
  ASSUME NEW w \in State
  PROVE  LET v == Scrap(w)
             gone == ToSet(w.route) \ w.shared IN
         /\ v \in State
         /\ v.life = [p \in Points |-> IF p \in gone THEN "freed" ELSE w.life[p]]
         /\ v.listed = w.listed \ gone /\ v.shown = w.shown \ gone
         /\ v.route = <<>> /\ v.drawing = w.drawing
         /\ v.stack = w.stack /\ v.sp = w.sp /\ v.cand = w.cand
<1> DEFINE ps == ToSet(w.route)
           f  == Free(w, ps \ w.shared)
<1>1. ps \subseteq Points
  BY ToSetElements DEF State
<1>2. /\ f \in State
      /\ f.life = [p \in Points |-> IF p \in ps \ w.shared THEN "freed" ELSE w.life[p]]
      /\ f.listed = w.listed \ (ps \ w.shared) /\ f.shown = w.shown
      /\ f.drawing = w.drawing
      /\ f.stack = w.stack /\ f.sp = w.sp /\ f.cand = w.cand
  BY FreeType
<1>3. Scrap(w) = [f EXCEPT !.shown = @ \ (ps \ w.shared),
                           !.iso = @ \cup (ps \cap w.shared),
                           !.shared = @ \ ps, !.route = <<>>]
  BY DEF Scrap
<1>4. <<>> \in Seq(Points)
  OBVIOUS
<1> HIDE DEF f
<1>5. Scrap(w) \in State
  <2> DEFINE sh == f.shown \ (ps \ w.shared)
             is == f.iso \cup (ps \cap w.shared)
             sd == f.shared \ ps
  <2>1. sh \in SUBSET Points /\ is \in SUBSET Points /\ sd \in SUBSET Points
    BY <1>1, <1>2 DEF State
  <2>2. Scrap(w) = [f EXCEPT !.shown = sh, !.iso = is, !.shared = sd, !.route = <<>>]
    BY <1>2, <1>3 DEF State
  <2> HIDE DEF sh, is, sd
  <2> QED
    BY <1>2, <1>4, <2>1, <2>2 DEF State
<1> QED
  BY <1>2, <1>3, <1>5 DEF State

LEMMA ForgetUndoneType ==
  ASSUME NEW w \in State, w.sp <= Len(w.stack)
  PROVE  LET v == ForgetUndone(w) IN
         /\ v \in State /\ v.life = w.life
         /\ v.listed = w.listed /\ v.shown = w.shown
         /\ v.iso = w.iso /\ v.shared = w.shared /\ v.pos = w.pos
         /\ v.route = w.route /\ v.drawing = w.drawing
         /\ v.sp = 0 /\ v.cand = w.cand
         /\ Len(v.stack) = Len(w.stack) - w.sp
         /\ \A i \in 1 .. Len(v.stack) : v.stack[i] = w.stack[i + w.sp]
<1> DEFINE t == SubSeq(w.stack, w.sp + 1, Len(w.stack))
<1>1. /\ w.stack \in Seq(Action) /\ w.sp \in Nat
      /\ Len(w.stack) \in Nat
      /\ \A i \in 1 .. Len(w.stack) : w.stack[i] \in Action
  BY DEF State
<1>2. \A i \in w.sp + 1 .. Len(w.stack) : w.stack[i] \in Action
  BY <1>1
<1>3. /\ t \in Seq(Action)
      /\ Len(t) = IF w.sp + 1 <= Len(w.stack) THEN Len(w.stack) - (w.sp + 1) + 1 ELSE 0
      /\ \A i \in 1 .. Len(w.stack) - (w.sp + 1) + 1 : t[i] = w.stack[(w.sp + 1) + i - 1]
  BY <1>1, <1>2, SubSeqProperties
<1> HIDE DEF t
<1>4. /\ t \in Seq(Action) /\ Len(t) = Len(w.stack) - w.sp
      /\ \A i \in 1 .. Len(t) : t[i] = w.stack[i + w.sp]
  <2> DEFINE n == Len(w.stack)  k == w.sp
  <2>1. n \in Nat /\ k \in Nat /\ k <= n
    BY <1>1
  <2>2. Len(t) = IF k + 1 <= n THEN n - (k + 1) + 1 ELSE 0
    BY <1>3
  <2>3. \A i \in 1 .. n - (k + 1) + 1 : t[i] = w.stack[(k + 1) + i - 1]
    BY <1>3
  <2> HIDE DEF n, k
  <2>4. Len(t) = n - k /\ n - (k + 1) + 1 = n - k
    BY <2>1, <2>2
  <2>5. ASSUME NEW i \in 1 .. n - k PROVE t[i] = w.stack[i + k]
    <3>1. t[i] = w.stack[(k + 1) + i - 1] /\ (k + 1) + i - 1 = i + k
      BY <2>1, <2>3, <2>4
    <3> QED
      BY <3>1
  <2> QED
    BY <1>3, <2>4, <2>5 DEF n, k
<1>5. ForgetUndone(w) = [w EXCEPT !.stack = t, !.sp = 0]
  BY DEF ForgetUndone, t, State
<1>6. 0 \in Nat
  OBVIOUS
<1>7. ForgetUndone(w) \in State
  BY <1>4, <1>5, <1>6 DEF State
<1>8. /\ ForgetUndone(w).stack = t /\ ForgetUndone(w).sp = 0
  BY <1>5 DEF State
<1>9. \A f \in {"life", "listed", "shown", "iso", "shared", "pos", "route", "drawing", "cand"} :
        ForgetUndone(w)[f] = w[f]
  BY <1>5 DEF State
<1> QED
  BY <1>4, <1>7, <1>8, <1>9

(* The points that go with the undone actions.                             *)
Dropped(w) == Owned({a \in ToSet(Undone(w)) : a.type # "delete"})

(* The append of a point that was made for it: the action owns the point.  *)
NewAppend(a) == a.type = "append" /\ a.own = "orphan"

LEMMA DroppedPoints ==
  ASSUME NEW w \in State, w.sp <= Len(w.stack), NEW p \in Dropped(w)
  PROVE  \E i \in 1 .. w.sp : NewAppend(w.stack[i]) /\ w.stack[i].point = p
<1> DEFINE t == Undone(w)
<1>1. /\ w.stack \in Seq(Action) /\ w.sp \in Nat /\ Len(w.stack) \in Nat
      /\ \A i \in 1 .. Len(w.stack) : w.stack[i] \in Action
  BY DEF State
<1>2. /\ t \in Seq(Action) /\ Len(t) = w.sp
      /\ \A i \in 1 .. w.sp : t[i] = w.stack[i]
  BY <1>1 DEF Undone
<1> HIDE DEF t
<1>3. PICK a \in ToSet(t) : a.type # "delete" /\ a.own = "orphan"
                            /\ a.type \in {"delete", "append"} /\ a.point = p
  BY DEF Dropped, Owned, t
<1>4. PICK i \in 1 .. w.sp : t[i] = a
  BY <1>2, <1>3, ToSetElements
<1> QED
  BY <1>2, <1>3, <1>4 DEF NewAppend

LEMMA InvalidateRedoType ==
  ASSUME NEW w \in State, w.sp <= Len(w.stack)
  PROVE  LET v == InvalidateRedo(w) IN
         /\ v \in State
         /\ v.life = [p \in Points |-> IF p \in Dropped(w) THEN "freed" ELSE w.life[p]]
         /\ v.listed = w.listed \ Dropped(w) /\ v.shown = w.shown
         /\ v.iso = w.iso /\ v.shared = w.shared /\ v.pos = w.pos
         /\ v.route = w.route /\ v.drawing = w.drawing
         /\ v.sp = 0 /\ v.cand = w.cand
         /\ Len(v.stack) = Len(w.stack) - w.sp
         /\ \A i \in 1 .. Len(v.stack) : v.stack[i] = w.stack[i + w.sp]
<1> DEFINE f == Free(w, Dropped(w))
<1>1. InvalidateRedo(w) = ForgetUndone(f)
  BY DEF InvalidateRedo, Dropped
<1>2. /\ f \in State
      /\ f.life = [p \in Points |-> IF p \in Dropped(w) THEN "freed" ELSE w.life[p]]
      /\ f.listed = w.listed \ Dropped(w) /\ f.shown = w.shown
      /\ f.iso = w.iso /\ f.shared = w.shared /\ f.pos = w.pos
      /\ f.route = w.route /\ f.drawing = w.drawing
      /\ f.stack = w.stack /\ f.sp = w.sp /\ f.cand = w.cand
  BY FreeType
<1> HIDE DEF f
<1> QED
  BY <1>1, <1>2, ForgetUndoneType

(* The action recorded, and what a call that records it leaves.            *)
ActionOf(w, type, p, own) == [type |-> type, point |-> p, own |-> own, at |-> w.pos[p]]

Recorded(v, w, a) ==
  /\ a \in Action
  /\ w.cand # NONE => v = [w EXCEPT !.cand = NONE]
  /\ w.cand = NONE =>
       /\ v \in State /\ v.cand # NONE /\ v.cand.act = a
       /\ LET r == InvalidateRedo(w) IN
          /\ v.life = r.life /\ v.listed = r.listed /\ v.shown = r.shown
          /\ v.route = r.route /\ v.drawing = r.drawing /\ v.pos = r.pos
          /\ v.stack = r.stack /\ v.sp = 0

(* Record drops a candidate in the way; else it forgets what is undone.    *)
LEMMA RecordType ==
  ASSUME NEW w \in State, w.sp <= Len(w.stack), NEW p \in Points,
         NEW type \in {"create", "delete", "move", "append"},
         NEW own \in {"orphan", "copy", "parent"}
  PROVE  Recorded(Record(w, type, p, own), w, ActionOf(w, type, p, own))
<1> DEFINE act == [type |-> type, point |-> p, own |-> own, at |-> w.pos[p]]
           r == InvalidateRedo(w)
<1>1. act \in Action
  BY DEF Action, State
<1>2. r \in State /\ r.sp = 0 /\ r.cand = w.cand
  BY InvalidateRedoType
<1>3. Record(w, type, p, own)
        = IF w.cand # NONE THEN [w EXCEPT !.cand = NONE] ELSE [r EXCEPT !.cand = [act |-> act]]
  BY DEF Record, BeforeUndoableAction
<1>4. [act |-> act] \in [act : Action] /\ [act |-> act].act = act
  BY <1>1
<1>5. [act |-> act] # NONE
  BY <1>4, NoneAssumption
<1> DEFINE c == [act |-> act]
           v == Record(w, type, p, own)
<1>6. c \in {NONE} \cup [act : Action] /\ c # NONE /\ c.act = act
  BY <1>4, <1>5
<1>7. v = IF w.cand # NONE THEN [w EXCEPT !.cand = NONE] ELSE [r EXCEPT !.cand = c]
  BY <1>3
<1> HIDE DEF act, r, c, v
<1>8. ASSUME w.cand = NONE
      PROVE  /\ v \in State /\ v.cand = c /\ v.sp = r.sp
             /\ v.life = r.life /\ v.listed = r.listed /\ v.shown = r.shown
             /\ v.route = r.route /\ v.drawing = r.drawing /\ v.pos = r.pos
             /\ v.stack = r.stack
  <2>1. v = [r EXCEPT !.cand = c]
    BY <1>7, <1>8
  <2> QED
    BY <1>2, <1>6, <2>1 DEF State
<1> QED
  BY <1>1, <1>2, <1>6, <1>7, <1>8 DEF act, r, v, Recorded, ActionOf

(* A recorded action goes to the top; the oldest leaves a full stack.      *)
LEMMA AfterType ==
  ASSUME NEW w \in State, Len(w.stack) <= Depth
  PROVE  LET v == AfterUndoableAction(w) IN
         /\ w.cand = NONE => v = w
         /\ w.cand # NONE =>
              /\ v \in State /\ v.cand = NONE /\ v.life = w.life
              /\ v.listed = w.listed /\ v.shown = w.shown
              /\ v.iso = w.iso /\ v.shared = w.shared /\ v.pos = w.pos
              /\ v.route = w.route /\ v.drawing = w.drawing /\ v.sp = w.sp
              /\ w.cand.act \in Action
              /\ Len(v.stack) <= Depth /\ Len(v.stack) >= 1
              /\ Len(w.stack) <= Len(v.stack) /\ Len(v.stack) <= Len(w.stack) + 1
              /\ v.stack[1] = w.cand.act
              /\ \A i \in 2 .. Len(v.stack) : v.stack[i] = w.stack[i - 1]
<1>1. CASE w.cand = NONE
  BY <1>1 DEF AfterUndoableAction
<1>2. CASE w.cand # NONE
  <2> DEFINE n == IF Len(w.stack) >= Depth THEN Depth - 1 ELSE Len(w.stack)
             s == SubSeq(w.stack, 1, n)
             a == w.cand.act
             t == <<a>> \o s
  <2>1. a \in Action
    BY <1>2 DEF State
  <2>2. /\ w.stack \in Seq(Action) /\ Len(w.stack) \in Nat /\ Depth \in Nat \ {0}
        /\ \A i \in 1 .. Len(w.stack) : w.stack[i] \in Action
    BY ConstantsAssumption DEF State
  <2>3. /\ n \in Nat /\ n <= Len(w.stack) /\ n + 1 <= Depth /\ Len(w.stack) <= n + 1
    BY <2>2
  <2> HIDE DEF n
  <2>4. /\ s \in Seq(Action) /\ Len(s) = n
        /\ \A i \in 1 .. n : s[i] = w.stack[i]
    BY <2>2, <2>3
  <2> HIDE DEF s
  <2>5. <<a>> \in Seq(Action) /\ Len(<<a>>) = 1 /\ <<a>>[1] = a
    BY <2>1
  <2>6. /\ t \in Seq(Action) /\ Len(t) = 1 + n
        /\ \A i \in 1 .. 1 + n : t[i] = IF i <= 1 THEN <<a>>[i] ELSE s[i - 1]
    BY <2>4, <2>5, ConcatProperties
  <2>7. /\ t[1] = a
        /\ \A i \in 2 .. 1 + n : t[i] = w.stack[i - 1]
    BY <2>3, <2>4, <2>5, <2>6
  <2> HIDE DEF t
  <2>8. AfterUndoableAction(w) = [w EXCEPT !.stack = t, !.cand = NONE]
    BY <1>2 DEF AfterUndoableAction, Cons, n, s, a, t, State
  <2> HIDE DEF a
  <2>9. AfterUndoableAction(w) \in State
    BY <2>6, <2>8 DEF State
  <2> QED
    BY <1>2, <2>1, <2>3, <2>6, <2>7, <2>8, <2>9 DEF State, a
<1> QED
  BY <1>1, <1>2

(* The actions of two stacks are the same, but for the position kept.      *)
SameActions(v, w) ==
  /\ Len(v.stack) = Len(w.stack)
  /\ \A i \in 1 .. Len(w.stack) :
       /\ v.stack[i].type = w.stack[i].type
       /\ v.stack[i].point = w.stack[i].point
       /\ v.stack[i].own = w.stack[i].own

(* Undo and redo of an action change neither these nor the actions.        *)
Kept(v, w) ==
  /\ v \in State /\ SameActions(v, w)
  /\ v.life = w.life /\ v.drawing = w.drawing /\ v.sp = w.sp /\ v.cand = w.cand

LEMMA OnType ==
  ASSUME NEW w \in State, NEW p \in Points
  PROVE  LET v == On(w, p) IN
         /\ Kept(v, w) /\ v.stack = w.stack /\ v.route = w.route
         /\ v.listed = w.listed \cup {p} /\ v.shown = w.shown \cup {p}
<1>1. On(w, p) \in State
  BY DEF On, State
<1> QED
  BY <1>1 DEF On, Kept, SameActions, State

LEMMA OffType ==
  ASSUME NEW w \in State, NEW p \in Points
  PROVE  LET v == Off(w, p) IN
         /\ Kept(v, w) /\ v.stack = w.stack /\ v.route = w.route
         /\ v.listed = w.listed \ {p} /\ v.shown = w.shown \ {p}
<1>1. Off(w, p) \in State
  BY DEF Off, State
<1> QED
  BY <1>1 DEF Off, Kept, SameActions, State

LEMMA SwapType ==
  ASSUME NEW w \in State, NEW i \in 1 .. Len(w.stack)
  PROVE  LET v == Swap(w, i) IN
         /\ Kept(v, w) /\ v.route = w.route
         /\ v.listed = w.listed /\ v.shown = w.shown
<1> DEFINE a == w.stack[i]
           b == [a EXCEPT !.at = w.pos[a.point]]
           t == [w.stack EXCEPT ![i] = b]
           ps == [w.pos EXCEPT ![a.point] = a.at]
<1>1. w.stack \in Seq(Action) /\ w.pos \in [Points -> 0 .. 1] /\ a \in Action
  BY DEF State
<1> HIDE DEF a
<1>2. b \in Action /\ b.type = a.type /\ b.point = a.point /\ b.own = a.own
  BY <1>1 DEF Action
<1>3. ps \in [Points -> 0 .. 1]
  BY <1>1 DEF Action
<1> HIDE DEF b
<1>4. /\ t \in Seq(Action) /\ Len(t) = Len(w.stack)
      /\ \A j \in 1 .. Len(w.stack) : t[j] = IF j = i THEN b ELSE w.stack[j]
  BY <1>1, <1>2, ExceptSeq
<1>5. Swap(w, i) = [w EXCEPT !.pos = ps, !.stack = t]
  BY DEF Swap, ps, t, a, b, State
<1> HIDE DEF ps, t
<1>6. Swap(w, i) \in State
  BY <1>3, <1>4, <1>5 DEF State
<1>7. /\ Swap(w, i).stack = t
      /\ \A f \in {"life", "listed", "shown", "route", "drawing", "sp", "cand"} :
           Swap(w, i)[f] = w[f]
  BY <1>5 DEF State
<1>8. SameActions(Swap(w, i), w)
  BY <1>2, <1>4, <1>7 DEF SameActions, a
<1> QED
  BY <1>6, <1>7, <1>8 DEF Kept

LEMMA TakeOutType ==
  ASSUME NEW w \in State, NEW a \in Action
  PROVE  LET v == TakeOut(w, a)
             rest == RemoveFirst(w.route, a.point) IN
         /\ Kept(v, w) /\ v.stack = w.stack /\ v.route = rest
         /\ a.own = "orphan" =>
              /\ v.listed = w.listed \ {a.point}
              /\ v.shown = (w.shown \cup ToSet(rest)) \ {a.point}
         /\ a.own # "orphan" =>
              /\ v.listed = w.listed
              /\ v.shown = (w.shown \cup ToSet(rest)) \cup {a.point}
<1> DEFINE r == RemovePoint(w, a.point)
<1>1. a.point \in Points
  BY DEF Action
<1>2. /\ r \in State /\ r.life = w.life
      /\ r.listed = w.listed
      /\ r.shown = w.shown \cup ToSet(RemoveFirst(w.route, a.point))
      /\ r.route = RemoveFirst(w.route, a.point) /\ r.drawing = w.drawing
      /\ r.stack = w.stack /\ r.sp = w.sp /\ r.cand = w.cand
  BY <1>1, RemovePointType
<1>3. TakeOut(w, a) = IF a.own = "orphan" THEN Off(r, a.point)
                      ELSE [r EXCEPT !.shown = @ \cup {a.point}]
  BY DEF TakeOut
<1> HIDE DEF r
<1>4. CASE a.own = "orphan"
  <2>1. TakeOut(w, a) = Off(r, a.point)
    BY <1>3, <1>4
  <2> QED
    BY <1>1, <1>2, <1>4, <2>1, OffType DEF Kept, SameActions
<1>5. CASE a.own # "orphan"
  <2> DEFINE v == [r EXCEPT !.shown = @ \cup {a.point}]
  <2>1. v \in State
    BY <1>1, <1>2 DEF State
  <2>2. /\ v.shown = r.shown \cup {a.point}
        /\ \A f \in {"life", "listed", "route", "drawing", "stack", "sp", "cand"} :
             v[f] = r[f]
    BY <1>2 DEF State
  <2>3. TakeOut(w, a) = v
    BY <1>3, <1>5
  <2> HIDE DEF v
  <2> QED
    BY <1>2, <1>5, <2>1, <2>2, <2>3 DEF Kept, SameActions
<1> QED
  BY <1>4, <1>5

LEMMA RedoAppendType ==
  ASSUME NEW w \in State, NEW a \in Action
  PROVE  LET v == RedoAppend(w, a) IN
         /\ Kept(v, w) /\ v.stack = w.stack
         /\ v.route = Append(w.route, a.point) /\ v.listed = w.listed
         /\ w.shown \subseteq v.shown /\ v.shown \subseteq w.shown \cup {a.point}
<1> DEFINE d == IF a.own = "orphan" THEN [w EXCEPT !.shown = @ \cup {a.point}] ELSE w
<1>1. a.point \in Points
  BY DEF Action
<1>2. d \in State
  BY <1>1 DEF State
<1>3. /\ w.shown \subseteq d.shown /\ d.shown \subseteq w.shown \cup {a.point}
      /\ d.life = w.life /\ d.listed = w.listed /\ d.route = w.route
      /\ d.drawing = w.drawing /\ d.stack = w.stack /\ d.sp = w.sp /\ d.cand = w.cand
  BY DEF State
<1>4. RedoAppend(w, a) = AddPoint(d, a.point)
  BY DEF RedoAppend
<1> HIDE DEF d
<1> QED
  BY <1>1, <1>2, <1>3, <1>4, AddPointType DEF Kept, SameActions

(* The next action to undo and the next to redo are actions of the stack.  *)
LEMMA PlaceType ==
  ASSUME NEW w \in State,
         NEW k, \/ w.sp < Len(w.stack) /\ k = w.sp + 1
                \/ w.sp > 0 /\ w.sp <= Len(w.stack) /\ k = w.sp
  PROVE  /\ k \in 1 .. Len(w.stack)
         /\ w.stack[k] \in Action /\ w.stack[k].point \in Points
         /\ w.stack[k].type \in {"create", "delete", "move", "append"}
<1>1. w.sp \in Nat /\ w.stack \in Seq(Action) /\ Len(w.stack) \in Nat
  BY DEF State
<1>2. k \in 1 .. Len(w.stack)
  BY <1>1
<1>3. w.stack[k] \in Action
  BY <1>1, <1>2
<1> QED
  BY <1>2, <1>3 DEF Action

(* An undone action: what each type leaves, and the place in the stack.    *)
LEMMA UndoType ==
  ASSUME NEW w \in State, w.sp < Len(w.stack)
  PROVE  LET v == UndoLastAction(w)
             a == w.stack[w.sp + 1]
             rest == RemoveFirst(w.route, a.point) IN
         /\ v \in State /\ SameActions(v, w) /\ a \in Action
         /\ v.life = w.life /\ v.drawing = w.drawing /\ v.cand = w.cand
         /\ v.sp = w.sp + 1
         /\ a.type # "append" =>
              /\ v.route = w.route
              /\ v.listed \subseteq w.listed \cup {a.point}
              /\ v.shown \subseteq w.shown \cup {a.point}
         /\ a.type = "append" =>
              /\ v.route = rest
              /\ v.listed \subseteq w.listed
              /\ v.shown \subseteq w.shown \cup ToSet(rest) \cup {a.point}
         /\ a.type = "move" => v.listed = w.listed /\ v.shown = w.shown
         /\ NewAppend(a) => a.point \notin v.listed \cup v.shown
<1> DEFINE k == w.sp + 1
           a == w.stack[k]
           d == CASE a.type = "create" -> Off(w, a.point)
                  [] a.type = "delete" -> On(w, a.point)
                  [] a.type = "move"   -> Swap(w, k)
                  [] OTHER -> TakeOut(w, a)
<1>1. k \in 1 .. Len(w.stack) /\ a \in Action /\ a.point \in Points
      /\ a.type \in {"create", "delete", "move", "append"}
  BY PlaceType
<1>2. UndoLastAction(w) = [d EXCEPT !.sp = @ + 1]
  BY DEF UndoLastAction
<1> DEFINE rest == RemoveFirst(w.route, a.point)
           Left(e) == /\ Kept(e, w)
                      /\ a.type # "append" =>
                           /\ e.route = w.route
                           /\ e.listed \subseteq w.listed \cup {a.point}
                           /\ e.shown \subseteq w.shown \cup {a.point}
                      /\ a.type = "append" =>
                           /\ e.route = rest
                           /\ e.listed \subseteq w.listed
                           /\ e.shown \subseteq w.shown \cup ToSet(rest) \cup {a.point}
                      /\ a.type = "move" => e.listed = w.listed /\ e.shown = w.shown
                      /\ NewAppend(a) => a.point \notin e.listed \cup e.shown
<1> HIDE DEF k, a, rest
<1>3. Left(d)
  <2>1. CASE a.type = "create"
    <3>1. d = Off(w, a.point)
      BY <2>1
    <3> QED
      BY <1>1, <2>1, <3>1, OffType DEF NewAppend
  <2>2. CASE a.type = "delete"
    <3>1. d = On(w, a.point)
      BY <2>2
    <3> QED
      BY <1>1, <2>2, <3>1, OnType DEF NewAppend
  <2>3. CASE a.type = "move"
    <3>1. d = Swap(w, k)
      BY <2>3
    <3> QED
      BY <1>1, <2>3, <3>1, SwapType DEF NewAppend
  <2>4. CASE a.type = "append"
    <3>1. d = TakeOut(w, a)
      BY <2>4
    <3> QED
      BY <1>1, <2>4, <3>1, TakeOutType DEF NewAppend, rest
  <2> QED
    BY <1>1, <2>1, <2>2, <2>3, <2>4
<1> HIDE DEF d
<1> DEFINE v == [d EXCEPT !.sp = @ + 1]
<1>4. v \in State /\ v.sp = w.sp + 1
  <2>1. d \in State /\ d.sp = w.sp /\ d.sp + 1 \in Nat
    BY <1>3 DEF Kept, State
  <2> QED
    BY <2>1 DEF State
<1>5. \A f \in {"life", "listed", "shown", "route", "drawing", "stack", "cand"} : v[f] = d[f]
  BY <1>3 DEF Kept, State
<1>6. v = UndoLastAction(w)
  BY <1>2
<1> HIDE DEF v
<1>7. SameActions(v, w)
  BY <1>3, <1>5 DEF Kept, SameActions
<1> QED
  BY <1>1, <1>3, <1>4, <1>5, <1>6, <1>7 DEF Kept, a, k, rest

LEMMA RedoType ==
  ASSUME NEW w \in State, w.sp > 0, w.sp <= Len(w.stack)
  PROVE  LET v == RedoNextAction(w)
             a == w.stack[w.sp] IN
         /\ v \in State /\ SameActions(v, w) /\ a \in Action
         /\ v.life = w.life /\ v.drawing = w.drawing /\ v.cand = w.cand
         /\ v.sp = w.sp - 1
         /\ v.listed \subseteq w.listed \cup {a.point}
         /\ v.shown \subseteq w.shown \cup {a.point}
         /\ a.type = "move" => v.listed = w.listed /\ v.shown = w.shown
         /\ v.route = IF a.type = "append" THEN Append(w.route, a.point) ELSE w.route
<1> DEFINE k == w.sp
           a == w.stack[k]
           d == CASE a.type = "create" -> On(w, a.point)
                  [] a.type = "delete" -> Off(w, a.point)
                  [] a.type = "move"   -> Swap(w, k)
                  [] OTHER -> RedoAppend(w, a)
<1>1. k \in 1 .. Len(w.stack) /\ a \in Action /\ a.point \in Points
      /\ a.type \in {"create", "delete", "move", "append"}
  BY PlaceType
<1>2. RedoNextAction(w) = [d EXCEPT !.sp = @ - 1]
  BY DEF RedoNextAction
<1> DEFINE Left(e) == /\ Kept(e, w)
                      /\ e.listed \subseteq w.listed \cup {a.point}
                      /\ e.shown \subseteq w.shown \cup {a.point}
                      /\ a.type = "move" => e.listed = w.listed /\ e.shown = w.shown
                      /\ e.route = IF a.type = "append" THEN Append(w.route, a.point)
                                                        ELSE w.route
<1> HIDE DEF k, a
<1>3. Left(d)
  <2>1. CASE a.type = "create"
    <3>1. d = On(w, a.point)
      BY <2>1
    <3> QED
      BY <1>1, <2>1, <3>1, OnType
  <2>2. CASE a.type = "delete"
    <3>1. d = Off(w, a.point)
      BY <2>2
    <3> QED
      BY <1>1, <2>2, <3>1, OffType
  <2>3. CASE a.type = "move"
    <3>1. d = Swap(w, k)
      BY <2>3
    <3> QED
      BY <1>1, <2>3, <3>1, SwapType
  <2>4. CASE a.type = "append"
    <3>1. d = RedoAppend(w, a)
      BY <2>4
    <3> QED
      BY <1>1, <2>4, <3>1, RedoAppendType
  <2> QED
    BY <1>1, <2>1, <2>2, <2>3, <2>4
<1> HIDE DEF d
<1> DEFINE v == [d EXCEPT !.sp = @ - 1]
<1>4. d \in State /\ d.sp = k /\ k - 1 \in Nat
  BY <1>1, <1>3 DEF Kept, State, k
<1>5. v \in State /\ v.sp = k - 1
  BY <1>4 DEF State
<1>6. \A f \in {"life", "listed", "shown", "route", "drawing", "stack", "cand"} : v[f] = d[f]
  BY <1>4 DEF State
<1>7. v = RedoNextAction(w)
  BY <1>2
<1> HIDE DEF v
<1>8. SameActions(v, w)
  BY <1>3, <1>6 DEF Kept, SameActions
<1> QED
  BY <1>1, <1>3, <1>5, <1>6, <1>7, <1>8 DEF Kept, a, k

-----------------------------------------------------------------------------
(* The types *)

Fits(w) == w \in State /\ Len(w.stack) <= Depth /\ w.sp <= Len(w.stack)

LEMMA MarkCallsFit ==
  ASSUME NEW w, Fits(w), NEW p \in Points
  PROVE  /\ Fits(Made(w, p)) /\ Fits(AddPoint(w, p)) /\ Fits(Off(w, p))
         /\ \A ps : Fits(Free(w, ps))
         /\ Fits([w EXCEPT !.iso = @ \cup {p}])
         /\ Fits([w EXCEPT !.shared = @ \cup {p}])
         /\ Fits([w EXCEPT !.pos[p] = 1 - @])
<1>1. Fits(Made(w, p))
  BY MadeType DEF Fits
<1>2. Fits(AddPoint(w, p))
  BY AddPointType DEF Fits
<1>3. Fits(Off(w, p))
  BY OffType DEF Fits, Kept
<1>4. ASSUME NEW ps PROVE Fits(Free(w, ps))
  <2>1. w \in State
    BY DEF Fits
  <2>2. /\ Free(w, ps) \in State
        /\ Free(w, ps).stack = w.stack /\ Free(w, ps).sp = w.sp
    BY <2>1, FreeType
  <2> QED
    BY <2>2 DEF Fits
<1>5. Fits([w EXCEPT !.iso = @ \cup {p}])
  BY DEF Fits, State
<1>6. Fits([w EXCEPT !.shared = @ \cup {p}])
  BY DEF Fits, State
<1>7. Fits([w EXCEPT !.pos[p] = 1 - @])
  <2> DEFINE ps == [w.pos EXCEPT ![p] = 1 - @]
  <2>1. ps \in [Points -> 0 .. 1]
    <3>1. 1 - w.pos[p] \in 0 .. 1
      BY DEF Fits, State
    <3> QED
      BY <3>1 DEF Fits, State
  <2>2. [w EXCEPT !.pos[p] = 1 - @] = [w EXCEPT !.pos = ps]
    BY DEF Fits, State
  <2> HIDE DEF ps
  <2> QED
    BY <2>1, <2>2 DEF Fits, State
<1> QED
  BY <1>1, <1>2, <1>3, <1>4, <1>5, <1>6, <1>7

LEMMA StackCallsFit ==
  ASSUME NEW w, Fits(w)
  PROVE  /\ Fits(AfterUndoableAction(w)) /\ Fits(InvalidateUndo(w)) /\ Fits(Scrap(w))
         /\ AnythingToUndo(w) => Fits(UndoLastAction(w))
         /\ AnythingToRedo(w) => Fits(RedoNextAction(w))
         /\ \A b \in BOOLEAN : Fits([w EXCEPT !.drawing = b])
<1>0. /\ w \in State /\ Len(w.stack) \in Nat /\ w.sp \in Nat /\ Depth \in Nat
      /\ w.sp <= Len(w.stack)
  BY ConstantsAssumption DEF Fits, State
<1>1. Fits(AfterUndoableAction(w))
  <2>1. CASE w.cand = NONE
    BY <2>1, <1>0, AfterType DEF Fits
  <2>2. CASE w.cand # NONE
    <3> DEFINE v == AfterUndoableAction(w)
    <3>1. /\ v \in State /\ v.sp = w.sp /\ Len(v.stack) <= Depth
          /\ Len(w.stack) <= Len(v.stack)
      BY <1>0, <2>2, AfterType DEF Fits
    <3>2. Len(v.stack) \in Nat
      BY <3>1 DEF State
    <3> HIDE DEF v
    <3>3. v.sp <= Len(v.stack)
      BY <1>0, <3>1, <3>2 DEF Fits
    <3> QED
      BY <3>1, <3>3 DEF Fits, v
  <2> QED
    BY <2>1, <2>2
<1>2. Fits(InvalidateUndo(w))
  <2>1. <<>> \in Seq(Action) /\ Len(<<>>) = 0 /\ 0 \in Nat
    OBVIOUS
  <2>2. InvalidateUndo(w) \in State
    BY <1>0, <2>1 DEF InvalidateUndo, State
  <2>3. InvalidateUndo(w).stack = <<>> /\ InvalidateUndo(w).sp = 0
    BY <1>0 DEF InvalidateUndo, State
  <2> QED
    BY <1>0, <2>1, <2>2, <2>3 DEF Fits
<1>3. Fits(Scrap(w))
  BY <1>0, ScrapType DEF Fits
<1>4. ASSUME AnythingToUndo(w) PROVE Fits(UndoLastAction(w))
  <2>1. w.sp < Len(w.stack)
    BY <1>0, <1>4 DEF AnythingToUndo
  <2>2. /\ UndoLastAction(w) \in State /\ UndoLastAction(w).sp = w.sp + 1
        /\ Len(UndoLastAction(w).stack) = Len(w.stack)
    BY <1>0, <2>1, UndoType DEF SameActions
  <2> QED
    BY <1>0, <2>1, <2>2 DEF Fits
<1>5. ASSUME AnythingToRedo(w) PROVE Fits(RedoNextAction(w))
  <2>1. w.sp > 0 /\ w.sp <= Len(w.stack)
    BY <1>5 DEF AnythingToRedo, Fits
  <2>2. /\ RedoNextAction(w) \in State /\ RedoNextAction(w).sp = w.sp - 1
        /\ Len(RedoNextAction(w).stack) = Len(w.stack)
    BY <1>0, <2>1, RedoType DEF SameActions
  <2> QED
    BY <1>0, <2>1, <2>2 DEF Fits
<1>6. ASSUME NEW b \in BOOLEAN PROVE Fits([w EXCEPT !.drawing = b])
  BY DEF Fits, State
<1> QED
  BY <1>1, <1>2, <1>3, <1>4, <1>5, <1>6

LEMMA RecordFits ==
  ASSUME NEW w, Fits(w), NEW p \in Points,
         NEW type \in {"create", "delete", "move", "append"},
         NEW own \in {"orphan", "copy", "parent"}
  PROVE  Fits(Record(w, type, p, own))
<1> DEFINE v == Record(w, type, p, own)
<1>0. /\ w \in State /\ Len(w.stack) \in Nat /\ w.sp \in Nat /\ Depth \in Nat
      /\ w.sp <= Len(w.stack)
  BY ConstantsAssumption DEF Fits, State
<1>1. CASE w.cand # NONE
  <2>1. v = [w EXCEPT !.cand = NONE]
    BY <1>0, <1>1, RecordType DEF Recorded
  <2> QED
    BY <2>1 DEF Fits, State
<1>2. CASE w.cand = NONE
  <2>1. v \in State /\ v.stack = InvalidateRedo(w).stack /\ v.sp = 0
    BY <1>0, <1>2, RecordType DEF Recorded
  <2>2. Len(InvalidateRedo(w).stack) = Len(w.stack) - w.sp
    BY InvalidateRedoType DEF Fits
  <2> HIDE DEF v
  <2>3. Len(v.stack) = Len(w.stack) - w.sp
    BY <2>1, <2>2
  <2>4. v.sp <= Len(v.stack) /\ Len(v.stack) <= Depth
    BY <1>0, <2>1, <2>3 DEF Fits
  <2> QED
    BY <2>1, <2>4 DEF Fits, v
<1> QED
  BY <1>1, <1>2

(* The point q takes the place of p, which is freed.                       *)
Replaced(w, p, q, route) ==
  Free([w EXCEPT !.route = route, !.iso = @ \ {q},
                 !.shared = IF q \in w.iso THEN @ \cup {q} ELSE @,
                 !.shown = (@ \ {p}) \cup ToSet(route)], {p})

(* What that leaves.                                                       *)
Exchanged(v, w, p, route) ==
  /\ v \in State
  /\ v.life = [x \in Points |-> IF x \in {p} THEN "freed" ELSE w.life[x]]
  /\ v.listed = w.listed \ {p}
  /\ v.shown = (w.shown \ {p}) \cup ToSet(route)
  /\ v.route = route /\ v.drawing = w.drawing
  /\ v.stack = w.stack /\ v.sp = w.sp /\ v.cand = w.cand

LEMMA ReplacedType ==
  ASSUME NEW w \in State, NEW p \in Points, NEW q \in Points,
         NEW route \in Seq(Points)
  PROVE  Exchanged(Replaced(w, p, q, route), w, p, route)
<1> DEFINE is == w.iso \ {q}
           sd == IF q \in w.iso THEN w.shared \cup {q} ELSE w.shared
           sh == (w.shown \ {p}) \cup ToSet(route)
           d  == [w EXCEPT !.route = route, !.iso = is, !.shared = sd, !.shown = sh]
<1>1. ToSet(route) \subseteq Points
  BY ToSetElements
<1>2. is \in SUBSET Points /\ sd \in SUBSET Points /\ sh \in SUBSET Points
  BY <1>1 DEF State
<1>3. Replaced(w, p, q, route) = Free(d, {p})
  BY DEF Replaced, State
<1> HIDE DEF is, sd, sh
<1>4. d \in State
  BY <1>2 DEF State
<1>5. /\ d.life = w.life /\ d.listed = w.listed /\ d.shown = sh /\ d.route = route
      /\ d.drawing = w.drawing /\ d.stack = w.stack /\ d.sp = w.sp /\ d.cand = w.cand
  BY DEF State
<1> HIDE DEF d
<1> QED
  BY <1>3, <1>4, <1>5, FreeType DEF sh, Exchanged

(* What EndDragOnto does, and where.                                       *)
LEMMA EndDragOntoMeans ==
  ASSUME TypeOK, NEW q \in Points, EndDragOnto(q)
  PROVE  LET p == u.cand.act.point
             route == Replace(u.route, p, q)
         IN
         /\ u.cand # NONE /\ p \in Points /\ p \in ToSet(u.route) /\ p # q
         /\ q \in u.listed /\ (InRoute(u, q) => "loop" \in Habits)
         /\ route \in Seq(Points)
         /\ u' = InvalidateUndo(AfterUndoableAction(Replaced(u, p, q, route)))
<1> DEFINE p == u.cand.act.point
           route == Replace(u.route, p, q)
<1>1. u.cand # NONE
  BY DEF EndDragOnto
<1>2. p \in Points /\ u.route \in Seq(Points)
  BY <1>1 DEF TypeOK, State, Action
<1>3. InRoute(u, p) /\ q \in u.listed \ {p} /\ (InRoute(u, q) => "loop" \in Habits)
  BY DEF EndDragOnto
<1>4. p \in ToSet(u.route)
  BY <1>2, <1>3, ToSetElements DEF InRoute, Contains
<1>5. route \in Seq(Points)
  BY <1>2, <1>4, ReplaceElements
<1>6. u' = InvalidateUndo(AfterUndoableAction(Replaced(u, p, q, route)))
  BY DEF EndDragOnto, Replaced, Replace
<1> QED
  BY <1>1, <1>2, <1>3, <1>4, <1>5, <1>6

LEMMA TypeStep ==
  ASSUME TypeOK, [Next]_vars
  PROVE  TypeOK'
<1> USE DEF TypeOK
<1>0. Fits(u)
  BY DEF Fits
<1>q. ASSUME NEW v, Fits(v), u' = v PROVE TypeOK'
  BY <1>q DEF Fits
<1>p. Unused \subseteq Points /\ u.listed \subseteq Points
  BY DEF Unused, State
<1>1. ASSUME NEW p \in Points, DropMark(p) PROVE TypeOK'
  <2>1. Fits([Made(u, p) EXCEPT !.iso = @ \cup {p}])
    BY <1>0, MarkCallsFit
  <2> QED
    BY <1>1, <1>q, <2>1, RecordFits, StackCallsFit DEF DropMark
<1>2. ASSUME NEW p \in Points, DeleteMark(p) PROVE TypeOK'
  <2>1. Fits(Off(Record(u, "delete", p, "orphan"), p))
    BY <1>0, RecordFits, MarkCallsFit
  <2> QED
    BY <1>2, <1>q, <2>1, StackCallsFit DEF DeleteMark
<1>3. ASSUME NEW p \in Points, BeginDrag(p) PROVE TypeOK'
  <2>1. Fits(Record(u, "move", p, "copy"))
    BY <1>0, RecordFits
  <2> QED
    BY <1>3, <1>q, <2>1, MarkCallsFit DEF BeginDrag
<1>4. ASSUME NEW q \in Points, EndDragOnto(q) PROVE TypeOK'
  <2> DEFINE p == u.cand.act.point
             route == Replace(u.route, p, q)
  <2>1. /\ p \in Points /\ route \in Seq(Points)
        /\ u' = InvalidateUndo(AfterUndoableAction(Replaced(u, p, q, route)))
    BY <1>4, EndDragOntoMeans
  <2> HIDE DEF p, route
  <2>2. u \in State /\ p \in Points /\ route \in Seq(Points)
    BY <2>1
  <2>3. Exchanged(Replaced(u, p, q, route), u, p, route)
    BY <2>2, ReplacedType
  <2>4. /\ Replaced(u, p, q, route) \in State
        /\ Replaced(u, p, q, route).stack = u.stack
        /\ Replaced(u, p, q, route).sp = u.sp
    BY <2>3 DEF Exchanged
  <2>5. Fits(Replaced(u, p, q, route))
    BY <2>4 DEF Fits
  <2> QED
    BY <1>q, <2>1, <2>5, StackCallsFit
<1>5. ASSUME EndDrag PROVE TypeOK'
  BY <1>0, <1>5, <1>q, StackCallsFit DEF EndDrag
<1>6. ASSUME Undo PROVE TypeOK'
  BY <1>0, <1>6, <1>q, StackCallsFit DEF Undo
<1>7. ASSUME Redo PROVE TypeOK'
  BY <1>0, <1>7, <1>q, StackCallsFit DEF Redo
<1>8. ASSUME NEW p \in Points, StartRoute(p) PROVE TypeOK'
  <2> DEFINE d == IF p \in Unused THEN Made(u, p) ELSE [u EXCEPT !.shared = @ \cup {p}]
  <2>1. Fits(d)
    BY <1>0, MarkCallsFit
  <2>2. Fits(AddPoint(d, p))
    BY <2>1, MarkCallsFit
  <2>3. u' = [AddPoint(d, p) EXCEPT !.drawing = TRUE]
    BY <1>8 DEF StartRoute
  <2> HIDE DEF d
  <2> QED
    BY <1>q, <2>2, <2>3, StackCallsFit
<1>9. ASSUME NEW p \in Points, AppendNew(p) PROVE TypeOK'
  <2>1. Fits(Record(Made(u, p), "append", p, "orphan"))
    BY <1>0, MarkCallsFit, RecordFits
  <2> QED
    BY <1>9, <1>q, <2>1, MarkCallsFit, StackCallsFit DEF AppendNew
<1>10. ASSUME NEW p \in Points, AppendExisting(p) PROVE TypeOK'
  <2> DEFINE d == [u EXCEPT !.shared = IF InRoute(u, p) THEN @ ELSE @ \cup {p}]
  <2>1. Fits(d)
    BY <1>0 DEF Fits, State
  <2>2. u' = AfterUndoableAction(AddPoint(Record(d, "append", p, "parent"), p))
    BY <1>10 DEF AppendExisting
  <2> HIDE DEF d
  <2> QED
    BY <1>q, <2>1, <2>2, RecordFits, MarkCallsFit, StackCallsFit
<1>11. ASSUME ContinueRoute PROVE TypeOK'
  BY <1>0, <1>11, <1>q, StackCallsFit DEF ContinueRoute
<1>12. ASSUME FinishRoute PROVE TypeOK'
  <2> DEFINE d == IF Len(u.route) < 2 THEN Scrap(u) ELSE u
  <2>1. Fits(d)
    BY <1>0, StackCallsFit
  <2>2. u' = InvalidateUndo([d EXCEPT !.drawing = FALSE])
    BY <1>12 DEF FinishRoute
  <2> HIDE DEF d
  <2> QED
    BY <1>q, <2>1, <2>2, StackCallsFit
<1>13. ASSUME DeleteRoute PROVE TypeOK'
  BY <1>0, <1>13, <1>q, StackCallsFit DEF DeleteRoute
<1>14. ASSUME UNCHANGED vars PROVE TypeOK'
  BY <1>14 DEF vars
<1>15. ASSUME NEW p \in Points, RemovePointFromRoute(p) \/ DestroyWaypoint(p)
       PROVE  TypeOK'
  <2> DEFINE v == RemovePoint(u, p)
             d == IF Len(v.route) < 2 THEN Scrap(v) ELSE v
  <2>1. Fits(v) /\ v.shown \in SUBSET Points
    BY <1>0, RemovePointType DEF Fits, State
  <2>2. u' = [v EXCEPT !.shown = @ \cup {p}] \/ u' = Off(d, p)
    BY <1>15 DEF RemovePointFromRoute, DestroyWaypoint
  <2> HIDE DEF v
  <2>3. Fits([v EXCEPT !.shown = @ \cup {p}])
    BY <2>1 DEF Fits, State
  <2>4. Fits(d)
    BY <2>1, StackCallsFit
  <2> HIDE DEF d
  <2>5. Fits(Off(d, p))
    BY <2>4, MarkCallsFit
  <2> QED
    BY <1>q, <2>2, <2>3, <2>5
<1> QED
  BY <1>1, <1>2, <1>3, <1>4, <1>5, <1>6, <1>7, <1>8, <1>9, <1>10, <1>11, <1>12,
     <1>13, <1>14, <1>15 DEF Next

(* The types, for any points, any depth and any habits.                    *)
THEOREM TypeCorrectness == Spec => []TypeOK
<1>1. Init => TypeOK
  <2>1. <<>> \in Seq(Points) /\ <<>> \in Seq(Action) /\ Len(<<>>) = 0
    OBVIOUS
  <2> QED
    BY <2>1, ConstantsAssumption DEF Init, TypeOK, State
<1>2. TypeOK /\ [Next]_vars => TypeOK'
  BY TypeStep
<1> QED
  BY <1>1, <1>2, PTL DEF Spec

-----------------------------------------------------------------------------
(* The invariant *)

Live(w) == {p \in Points : w.life[p] = "live"}

(* NoShownPointFreed of w, and the route has no point twice.               *)
ShownSound(w) ==
  /\ w.listed \cup w.shown \cup ToSet(w.route) \subseteq Live(w)
  /\ Once(w.route)

(* The points that have been made.                                         *)
Named(w) == {p \in Points : w.life[p] # "none"}

(* Of the points of the stack none is still to be made, and those of other *)
(* actions than moves are alive.                                           *)
Sure(w, a) == a.point \in Named(w) /\ (a.type # "move" => a.point \in Live(w))

(* An action on a point is newer than the append that made the point.      *)
PointsSound(w) ==
  /\ \A i \in 1 .. Len(w.stack) : Sure(w, w.stack[i])
  /\ \A i, j \in 1 .. Len(w.stack) :
       i < j /\ NewAppend(w.stack[i]) => w.stack[j].point # w.stack[i].point

(* A route is being drawn while its appends are on the stack; each is of a *)
(* point of its own, which is in the route unless the append is undone.    *)
AppendsSound(w) ==
  \A i \in 1 .. Len(w.stack) : w.stack[i].type = "append" =>
    /\ w.drawing
    /\ w.stack[i].point \in ToSet(w.route) <=> i > w.sp
    /\ \A j \in 1 .. Len(w.stack) : j # i /\ w.stack[j].type = "append" =>
         w.stack[j].point # w.stack[i].point

(* What goes with an undone action is nowhere to be found.                 *)
UndoneSound(w) ==
  \A i \in 1 .. Len(w.stack) : i <= w.sp /\ NewAppend(w.stack[i]) =>
    w.stack[i].point \notin w.listed \cup w.shown

Tidy(w) ==
  /\ Fits(w) /\ ShownSound(w) /\ PointsSound(w) /\ AppendsSound(w) /\ UndoneSound(w)

(* Only a drag has a candidate between two handlers.                       *)
DragSound(w) ==
  w.cand # NONE =>
    w.sp = 0 /\ ~w.drawing /\ w.cand.act.type = "move" /\ w.cand.act.point \in Live(w)

IInv == Tidy(u) /\ DragSound(u)

(* A call that changes neither the stack nor the route, and takes no live  *)
(* point that the stack is about to free.                                  *)
LEMMA StackUntouched ==
  ASSUME NEW w, Tidy(w), NEW v, Fits(v), v.stack = w.stack, v.sp = w.sp,
         v.route = w.route, v.drawing = w.drawing,
         Live(w) \subseteq Live(v), Named(w) \subseteq Named(v), v.listed \cup v.shown \subseteq Live(v),
         \A i \in 1 .. Len(w.stack) : i <= w.sp /\ NewAppend(w.stack[i]) =>
           w.stack[i].point \notin v.listed \cup v.shown
  PROVE  Tidy(v)
<1>1. ShownSound(v)
  BY DEF Tidy, ShownSound
<1>2. PointsSound(v)
  BY DEF Tidy, PointsSound, Sure
<1>3. AppendsSound(v)
  BY DEF Tidy, AppendsSound
<1>4. UndoneSound(v)
  BY DEF UndoneSound
<1> QED
  BY <1>1, <1>2, <1>3, <1>4 DEF Tidy

(* A new point is on no stack.                                             *)
LEMMA MadeSound ==
  ASSUME NEW w, Tidy(w), NEW p \in Points, w.life[p] = "none"
  PROVE  /\ Tidy(Made(w, p))
         /\ \A i \in 1 .. Len(w.stack) : w.stack[i].point # p
         /\ p \notin ToSet(w.route)
<1> DEFINE v == Made(w, p)
<1>1. w \in State /\ Fits(v)
  BY MarkCallsFit DEF Tidy, Fits
<1>2. /\ v.life = [w.life EXCEPT ![p] = "live"]
      /\ v.listed = w.listed \cup {p} /\ v.shown = w.shown \cup {p}
      /\ v.route = w.route /\ v.drawing = w.drawing
      /\ v.stack = w.stack /\ v.sp = w.sp
  BY <1>1, MadeType
<1>3. /\ p \notin Live(w) /\ Live(v) = Live(w) \cup {p}
      /\ p \notin Named(w) /\ Named(v) = Named(w) \cup {p}
  BY <1>1, <1>2 DEF Live, Named, State
<1>4. \A i \in 1 .. Len(w.stack) : w.stack[i].point # p
  BY <1>3 DEF Tidy, PointsSound, Sure
<1>5. p \notin ToSet(w.route) /\ v.listed \cup v.shown \subseteq Live(v)
  BY <1>2, <1>3 DEF Tidy, ShownSound
<1>6. \A i \in 1 .. Len(w.stack) : i <= w.sp /\ NewAppend(w.stack[i]) =>
        w.stack[i].point \notin v.listed \cup v.shown
  BY <1>2, <1>4 DEF Tidy, UndoneSound
<1> HIDE DEF v
<1>7. Tidy(v)
  BY <1>1, <1>2, <1>3, <1>5, <1>6, StackUntouched
<1> QED
  BY <1>4, <1>5, <1>7 DEF v

(* What is freed with the undone actions is in use nowhere.                *)
LEMMA DroppedUnused ==
  ASSUME NEW w, Tidy(w), NEW p \in Dropped(w)
  PROVE  /\ p \in Live(w) /\ p \notin w.listed \cup w.shown \cup ToSet(w.route)
         /\ \A j \in 1 .. Len(w.stack) : j > w.sp => w.stack[j].point # p
<1>1. w \in State /\ w.sp <= Len(w.stack) /\ w.sp \in Nat /\ Len(w.stack) \in Nat
  BY DEF Tidy, Fits, State
<1>2. PICK i \in 1 .. w.sp : NewAppend(w.stack[i]) /\ w.stack[i].point = p
  BY <1>1, DroppedPoints
<1>3. i \in 1 .. Len(w.stack) /\ i <= w.sp /\ ~(i > w.sp)
  BY <1>1
<1>4. p \in Live(w) /\ \A j \in 1 .. Len(w.stack) : i < j => w.stack[j].point # p
  BY <1>2, <1>3 DEF Tidy, PointsSound, Sure, NewAppend
<1>5. p \notin ToSet(w.route)
  BY <1>2, <1>3 DEF Tidy, AppendsSound, NewAppend
<1>6. p \notin w.listed \cup w.shown
  BY <1>2, <1>3 DEF Tidy, UndoneSound
<1>7. ASSUME NEW j \in 1 .. Len(w.stack), j > w.sp PROVE w.stack[j].point # p
  <2>1. i < j
    BY <1>1, <1>7
  <2> QED
    BY <1>4, <2>1
<1> QED
  BY <1>4, <1>5, <1>6, <1>7

LEMMA InvalidateRedoSound ==
  ASSUME NEW w, Tidy(w)
  PROVE  LET v == InvalidateRedo(w) IN
         /\ ShownSound(v) /\ PointsSound(v) /\ AppendsSound(v)
         /\ \A p \in Points : w.life[p] # "live" => v.life[p] = w.life[p]
         /\ w.listed \cup w.shown \cup ToSet(w.route) \subseteq Live(v)
<1> DEFINE v == InvalidateRedo(w)
<1>1. w \in State /\ w.sp <= Len(w.stack) /\ w.sp \in Nat /\ Len(w.stack) \in Nat
  BY DEF Tidy, Fits, State
<1>2. /\ v \in State
      /\ v.life = [p \in Points |-> IF p \in Dropped(w) THEN "freed" ELSE w.life[p]]
      /\ v.listed = w.listed \ Dropped(w) /\ v.shown = w.shown
      /\ v.route = w.route /\ v.drawing = w.drawing /\ v.sp = 0
      /\ Len(v.stack) = Len(w.stack) - w.sp
      /\ \A i \in 1 .. Len(v.stack) : v.stack[i] = w.stack[i + w.sp]
  BY <1>1, InvalidateRedoType
<1> HIDE DEF v
<1>3. \A p \in Points : /\ (p \in Live(v) <=> p \in Live(w) /\ p \notin Dropped(w))
                       /\ (p \in Named(w) => p \in Named(v))
  BY <1>2 DEF Live, Named
<1>4. w.listed \cup w.shown \cup ToSet(w.route) \subseteq Live(v)
  <2>1. \A p \in w.listed \cup w.shown \cup ToSet(w.route) :
          p \in Points /\ p \in Live(w) /\ p \notin Dropped(w)
    BY DroppedUnused DEF Tidy, ShownSound, Live
  <2> QED
    BY <1>3, <2>1
<1>5. ShownSound(v)
  BY <1>2, <1>4 DEF Tidy, ShownSound
<1>6. \A i \in 1 .. Len(v.stack) :
        i + w.sp \in 1 .. Len(w.stack) /\ i + w.sp > w.sp /\ i > 0
  BY <1>1, <1>2
<1>7. PointsSound(v)
  <2>1. ASSUME NEW i \in 1 .. Len(v.stack) PROVE Sure(v, v.stack[i])
    <3>1. /\ v.stack[i] = w.stack[i + w.sp] /\ i + w.sp \in 1 .. Len(w.stack)
          /\ i + w.sp > w.sp
      BY <1>2, <1>6
    <3>2. Sure(w, w.stack[i + w.sp])
      BY <3>1 DEF Tidy, PointsSound
    <3>3. w.stack[i + w.sp].point \notin Dropped(w)
      BY <3>1, DroppedUnused
    <3>4. w.stack[i + w.sp].point \in Points
      BY <3>2 DEF Sure, Named
    <3> QED
      BY <1>3, <3>1, <3>2, <3>3, <3>4 DEF Sure
  <2>2. ASSUME NEW i \in 1 .. Len(v.stack), NEW j \in 1 .. Len(v.stack),
               i < j, NewAppend(v.stack[i])
        PROVE  v.stack[j].point # v.stack[i].point
    <3>1. /\ v.stack[i] = w.stack[i + w.sp] /\ i + w.sp \in 1 .. Len(w.stack)
          /\ v.stack[j] = w.stack[j + w.sp] /\ j + w.sp \in 1 .. Len(w.stack)
      BY <1>2, <1>6
    <3>2. i + w.sp < j + w.sp
      BY <1>1, <2>2
    <3> QED
      BY <2>2, <3>1, <3>2 DEF Tidy, PointsSound
  <2> QED
    BY <2>1, <2>2 DEF PointsSound
<1>8. AppendsSound(v)
  <2>1. ASSUME NEW i \in 1 .. Len(v.stack), v.stack[i].type = "append"
        PROVE  /\ v.drawing
               /\ v.stack[i].point \in ToSet(v.route) <=> i > v.sp
               /\ \A j \in 1 .. Len(v.stack) : j # i /\ v.stack[j].type = "append" =>
                    v.stack[j].point # v.stack[i].point
    <3>1. /\ v.stack[i] = w.stack[i + w.sp] /\ i + w.sp \in 1 .. Len(w.stack)
          /\ i + w.sp > w.sp /\ i > 0
      BY <1>2, <1>6
    <3>2. /\ w.drawing /\ w.stack[i + w.sp].point \in ToSet(w.route)
          /\ \A j \in 1 .. Len(w.stack) : j # i + w.sp /\ w.stack[j].type = "append" =>
               w.stack[j].point # w.stack[i + w.sp].point
      BY <2>1, <3>1 DEF Tidy, AppendsSound
    <3>3. ASSUME NEW j \in 1 .. Len(v.stack), j # i, v.stack[j].type = "append"
          PROVE  v.stack[j].point # v.stack[i].point
      <4>1. v.stack[j] = w.stack[j + w.sp] /\ j + w.sp \in 1 .. Len(w.stack)
        BY <1>2, <1>6
      <4>2. j + w.sp # i + w.sp
        BY <1>1, <3>3
      <4> QED
        BY <3>1, <3>2, <3>3, <4>1, <4>2
    <3> QED
      BY <1>2, <3>1, <3>2, <3>3
  <2> QED
    BY <2>1 DEF AppendsSound
<1>9. \A p \in Points : w.life[p] # "live" => v.life[p] = w.life[p]
  BY <1>2, DroppedUnused DEF Live
<1> QED
  BY <1>4, <1>5, <1>7, <1>8, <1>9 DEF v

(* The parts of Tidy that follow from the actions, where only the position *)
(* kept by one of them changes.                                            *)
LEMMA PointsFollow ==
  ASSUME NEW v, NEW w, SameActions(v, w), v.life = w.life, PointsSound(w)
  PROVE  PointsSound(v)
<1>1. ASSUME NEW i \in 1 .. Len(v.stack) PROVE Sure(v, v.stack[i])
  <2>1. Live(v) = Live(w) /\ Named(v) = Named(w)
    BY DEF Live, Named
  <2> QED
    BY <2>1 DEF SameActions, PointsSound, Sure
<1>2. ASSUME NEW i \in 1 .. Len(v.stack), NEW j \in 1 .. Len(v.stack),
             i < j, NewAppend(v.stack[i])
      PROVE  v.stack[j].point # v.stack[i].point
  BY <1>2 DEF SameActions, PointsSound, NewAppend
<1> QED
  BY <1>1, <1>2 DEF PointsSound

LEMMA AppendsFollow ==
  ASSUME NEW v, NEW w, SameActions(v, w), AppendsSound(w), v.drawing = w.drawing,
         \A i \in 1 .. Len(w.stack) : w.stack[i].type = "append" =>
           (w.stack[i].point \in ToSet(v.route) <=> i > v.sp)
  PROVE  AppendsSound(v)
BY DEF SameActions, AppendsSound

LEMMA UndoneFollow ==
  ASSUME NEW v, NEW w, SameActions(v, w),
         \A i \in 1 .. Len(w.stack) : i <= v.sp /\ NewAppend(w.stack[i]) =>
           w.stack[i].point \notin v.listed \cup v.shown
  PROVE  UndoneSound(v)
BY DEF SameActions, UndoneSound, NewAppend

(* What a call that records action a leaves, if no candidate is in the way. *)
Noted(v, w, a) ==
  /\ Tidy(v) /\ v.sp = 0 /\ v.cand # NONE /\ v.cand.act = a
  /\ v.listed = w.listed \ Dropped(w) /\ v.shown = w.shown
  /\ v.route = w.route /\ v.drawing = w.drawing
  /\ w.listed \cup w.shown \cup ToSet(w.route) \subseteq Live(v)
  /\ Len(v.stack) = Len(w.stack) - w.sp
  /\ \A i \in 1 .. Len(v.stack) : v.stack[i] = w.stack[i + w.sp]

(* Record leaves nothing undone, and names the points it was given.        *)
LEMMA RecordSound ==
  ASSUME NEW w, Tidy(w), w.cand = NONE, NEW p \in Points,
         NEW type \in {"create", "delete", "move", "append"},
         NEW own \in {"orphan", "copy", "parent"}
  PROVE  Noted(Record(w, type, p, own), w, ActionOf(w, type, p, own))
<1> DEFINE v == Record(w, type, p, own)
           r == InvalidateRedo(w)
<1>1. w \in State /\ w.sp <= Len(w.stack)
  BY DEF Tidy, Fits
<1>2. Recorded(v, w, ActionOf(w, type, p, own))
  BY <1>1, RecordType
<1>3. /\ v.cand # NONE /\ v.cand.act = ActionOf(w, type, p, own)
      /\ v.life = r.life /\ v.listed = r.listed /\ v.shown = r.shown
      /\ v.route = r.route /\ v.drawing = r.drawing
      /\ v.stack = r.stack /\ v.sp = 0
  BY <1>2 DEF Recorded
<1>4. /\ ShownSound(r) /\ PointsSound(r) /\ AppendsSound(r)
      /\ w.listed \cup w.shown \cup ToSet(w.route) \subseteq Live(r)
  BY InvalidateRedoSound
<1>5. /\ r.listed = w.listed \ Dropped(w) /\ r.shown = w.shown
      /\ r.route = w.route /\ r.drawing = w.drawing /\ r.sp = 0
      /\ Len(r.stack) = Len(w.stack) - w.sp
      /\ \A i \in 1 .. Len(r.stack) : r.stack[i] = w.stack[i + w.sp]
  BY <1>1, InvalidateRedoType
<1>6. Fits(v)
  BY RecordFits DEF Tidy
<1> HIDE DEF v, r
<1>7. Live(v) = Live(r) /\ Named(v) = Named(r)
  BY <1>3 DEF Live, Named
<1>8. ShownSound(v) /\ PointsSound(v) /\ AppendsSound(v)
  BY <1>3, <1>4, <1>5, <1>7 DEF ShownSound, PointsSound, Sure, AppendsSound
<1>9. UndoneSound(v)
  BY <1>3 DEF UndoneSound
<1> QED
  BY <1>3, <1>4, <1>5, <1>6, <1>7, <1>8, <1>9 DEF Tidy, Noted, v

(* A recorded action takes the top of a stack with nothing undone.         *)
LEMMA PushSound ==
  ASSUME NEW w, Tidy(w), w.sp = 0, w.cand # NONE,
         w.cand.act.point \in Live(w),
         NewAppend(w.cand.act) =>
           \A j \in 1 .. Len(w.stack) : w.stack[j].point # w.cand.act.point,
         w.cand.act.type = "append" =>
           /\ w.drawing /\ w.cand.act.point \in ToSet(w.route)
           /\ \A j \in 1 .. Len(w.stack) : w.stack[j].type = "append" =>
                w.stack[j].point # w.cand.act.point
  PROVE  Tidy(AfterUndoableAction(w)) /\ AfterUndoableAction(w).cand = NONE
<1> DEFINE v == AfterUndoableAction(w)
           a == w.cand.act
<1>0. Fits(w) /\ Fits(v)
  BY StackCallsFit DEF Tidy
<1>1. w \in State /\ Len(w.stack) <= Depth /\ Fits(v) /\ Len(w.stack) \in Nat
  BY <1>0 DEF Fits, State
<1>2. /\ v \in State /\ v.cand = NONE /\ v.life = w.life
      /\ v.listed = w.listed /\ v.shown = w.shown
      /\ v.route = w.route /\ v.drawing = w.drawing /\ v.sp = 0
      /\ Len(v.stack) >= 1 /\ Len(v.stack) <= Len(w.stack) + 1
      /\ v.stack[1] = a
      /\ \A i \in 2 .. Len(v.stack) : v.stack[i] = w.stack[i - 1]
  BY <1>1, AfterType
<1>3. Len(v.stack) \in Nat
  BY <1>2 DEF State
<1> HIDE DEF v, a
<1>4. Live(v) = Live(w) /\ Named(v) = Named(w) /\ Live(w) \subseteq Named(w)
  BY <1>2 DEF Live, Named
<1>5. ASSUME NEW i \in 1 .. Len(v.stack)
      PROVE  \/ i = 1 /\ v.stack[i] = a
             \/ i # 1 /\ i - 1 \in 1 .. Len(w.stack) /\ v.stack[i] = w.stack[i - 1]
  BY <1>1, <1>2, <1>3
<1>6. PointsSound(v)
  <2>1. ASSUME NEW i \in 1 .. Len(v.stack) PROVE Sure(v, v.stack[i])
    BY <1>4, <1>5 DEF Tidy, PointsSound, Sure, a
  <2>2. ASSUME NEW i \in 1 .. Len(v.stack), NEW j \in 1 .. Len(v.stack),
               i < j, NewAppend(v.stack[i])
        PROVE  v.stack[j].point # v.stack[i].point
    <3>1. j # 1
      BY <2>2
    <3>2. j - 1 \in 1 .. Len(w.stack) /\ v.stack[j] = w.stack[j - 1]
      BY <1>5, <3>1
    <3>3. CASE i = 1
      <4>1. v.stack[i] = a
        BY <1>5, <3>3
      <4> QED
        BY <2>2, <3>2, <4>1 DEF a
    <3>4. CASE i # 1
      <4>1. i - 1 \in 1 .. Len(w.stack) /\ v.stack[i] = w.stack[i - 1] /\ i - 1 < j - 1
        BY <1>5, <2>2, <3>4
      <4> QED
        BY <2>2, <3>2, <4>1 DEF Tidy, PointsSound
    <3> QED
      BY <3>3, <3>4
  <2> QED
    BY <2>1, <2>2 DEF PointsSound
<1>7. AppendsSound(v)
  <2>1. ASSUME NEW i \in 1 .. Len(v.stack), v.stack[i].type = "append"
        PROVE  v.drawing /\ v.stack[i].point \in ToSet(v.route)
    <3>1. CASE i = 1
      BY <1>2, <1>5, <2>1, <3>1 DEF a
    <3>2. CASE i # 1
      <4>1. i - 1 \in 1 .. Len(w.stack) /\ v.stack[i] = w.stack[i - 1] /\ i - 1 > w.sp
        BY <1>5, <3>2
      <4> QED
        BY <1>2, <2>1, <4>1 DEF Tidy, AppendsSound
    <3> QED
      BY <3>1, <3>2
  <2>2. ASSUME NEW i \in 1 .. Len(v.stack), NEW j \in 1 .. Len(v.stack), j # i,
               v.stack[i].type = "append", v.stack[j].type = "append"
        PROVE  v.stack[j].point # v.stack[i].point
    <3>1. CASE i = 1
      <4>1. /\ v.stack[i] = a
            /\ j - 1 \in 1 .. Len(w.stack) /\ v.stack[j] = w.stack[j - 1]
        BY <1>5, <2>2, <3>1
      <4> QED
        BY <2>2, <4>1 DEF a
    <3>2. CASE j = 1
      <4>1. /\ v.stack[j] = a
            /\ i - 1 \in 1 .. Len(w.stack) /\ v.stack[i] = w.stack[i - 1]
        BY <1>5, <2>2, <3>2
      <4> QED
        BY <2>2, <4>1 DEF a
    <3>3. CASE i # 1 /\ j # 1
      <4>1. /\ i - 1 \in 1 .. Len(w.stack) /\ v.stack[i] = w.stack[i - 1]
            /\ j - 1 \in 1 .. Len(w.stack) /\ v.stack[j] = w.stack[j - 1]
            /\ i - 1 # j - 1
        BY <1>5, <2>2, <3>3
      <4> QED
        BY <2>2, <4>1 DEF Tidy, AppendsSound
    <3> QED
      BY <3>1, <3>2, <3>3
  <2>3. \A i \in 1 .. Len(v.stack) : i > v.sp
    BY <1>2
  <2> QED
    BY <2>1, <2>2, <2>3 DEF AppendsSound
<1>8. ShownSound(v) /\ UndoneSound(v)
  BY <1>2, <1>4 DEF Tidy, ShownSound, UndoneSound
<1> QED
  BY <1>1, <1>2, <1>6, <1>7, <1>8 DEF Tidy, v

(* An undo.  The points of the newer actions, already undone, stay away.   *)
LEMMA UndoSound ==
  ASSUME NEW w, Tidy(w), AnythingToUndo(w)
  PROVE  Tidy(UndoLastAction(w))
<1> DEFINE v == UndoLastAction(w)
           k == w.sp + 1
           a == w.stack[k]
           rest == RemoveFirst(w.route, a.point)
<1>1. /\ w \in State /\ w.sp \in Nat /\ Len(w.stack) \in Nat /\ w.sp < Len(w.stack)
      /\ w.route \in Seq(Points)
  BY DEF Tidy, Fits, State, AnythingToUndo
<1>2. /\ v \in State /\ SameActions(v, w) /\ a \in Action
      /\ v.life = w.life /\ v.drawing = w.drawing /\ v.sp = k
      /\ a.type # "append" =>
           /\ v.route = w.route
           /\ v.listed \subseteq w.listed \cup {a.point}
           /\ v.shown \subseteq w.shown \cup {a.point}
      /\ a.type = "append" =>
           /\ v.route = rest
           /\ v.listed \subseteq w.listed
           /\ v.shown \subseteq w.shown \cup ToSet(rest) \cup {a.point}
      /\ a.type = "move" => v.listed = w.listed /\ v.shown = w.shown
      /\ NewAppend(a) => a.point \notin v.listed \cup v.shown
  BY <1>1, UndoType
<1>3. /\ ToSet(rest) = ToSet(w.route) \ {a.point} /\ Once(rest)
  BY <1>1, RemoveFirstElements DEF Tidy, ShownSound
<1>4. k \in 1 .. Len(w.stack) /\ k > w.sp
  BY <1>1
<1>5. Fits(v)
  BY StackCallsFit DEF Tidy
<1>6. a.type # "move" => a.point \in Live(w)
  BY <1>4 DEF Tidy, PointsSound, Sure
<1> HIDE DEF v, rest
<1>7. Live(v) = Live(w)
  BY <1>2 DEF Live
<1>8. ShownSound(v)
  BY <1>2, <1>3, <1>6, <1>7 DEF Tidy, ShownSound
<1>10. PointsSound(v)
  BY <1>2, PointsFollow DEF Tidy
<1>11. AppendsSound(v)
  <2>1. ASSUME NEW i \in 1 .. Len(w.stack), w.stack[i].type = "append"
        PROVE  w.stack[i].point \in ToSet(v.route) <=> i > k
    <3>1. w.stack[i].point \in ToSet(w.route) <=> i > w.sp
      BY <2>1 DEF Tidy, AppendsSound
    <3>2. CASE a.type = "append"
      <4>1. i # k => w.stack[i].point # a.point
        BY <1>4, <2>1, <3>2 DEF Tidy, AppendsSound
      <4>2. w.stack[i].point \in ToSet(v.route)
              <=> w.stack[i].point \in ToSet(w.route) /\ i # k
        BY <1>2, <1>3, <3>2, <4>1
      <4> QED
        BY <1>1, <3>1, <4>2
    <3>3. CASE a.type # "append"
      <4>1. i # k
        BY <2>1, <3>3
      <4> QED
        BY <1>1, <1>2, <3>1, <3>3, <4>1
    <3> QED
      BY <3>2, <3>3
  <2>2. \A i \in 1 .. Len(w.stack) : w.stack[i].type = "append" =>
          (w.stack[i].point \in ToSet(v.route) <=> i > v.sp)
    BY <1>2, <2>1
  <2> QED
    BY <1>2, <2>2, AppendsFollow DEF Tidy
<1>12. UndoneSound(v)
  <2>1. ASSUME NEW i \in 1 .. Len(w.stack), i <= k, NewAppend(w.stack[i])
        PROVE  w.stack[i].point \notin v.listed \cup v.shown
    <3>1. CASE i = k
      BY <1>2, <2>1, <3>1
    <3>2. CASE i # k
      <4>1. i <= w.sp /\ i < k /\ ~(i > w.sp)
        BY <1>1, <2>1, <3>2
      <4>2. w.stack[i].point # a.point
        BY <1>4, <2>1, <4>1 DEF Tidy, PointsSound
      <4>3. w.stack[i].point \notin w.listed \cup w.shown
        BY <2>1, <4>1 DEF Tidy, UndoneSound
      <4>4. w.stack[i].point \notin ToSet(w.route)
        BY <2>1, <4>1 DEF Tidy, AppendsSound, NewAppend
      <4> QED
        BY <1>2, <1>3, <4>2, <4>3, <4>4
    <3> QED
      BY <3>1, <3>2
  <2>2. \A i \in 1 .. Len(w.stack) : i <= v.sp /\ NewAppend(w.stack[i]) =>
          w.stack[i].point \notin v.listed \cup v.shown
    BY <1>2, <2>1
  <2> QED
    BY <1>2, <2>2, UndoneFollow
<1> QED
  BY <1>5, <1>8, <1>10, <1>11, <1>12 DEF Tidy, v

(* A redo.                                                                 *)
LEMMA RedoSound ==
  ASSUME NEW w, Tidy(w), AnythingToRedo(w)
  PROVE  Tidy(RedoNextAction(w))
<1> DEFINE v == RedoNextAction(w)
           k == w.sp
           a == w.stack[k]
<1>1. /\ w \in State /\ w.sp \in Nat /\ Len(w.stack) \in Nat
      /\ w.sp > 0 /\ w.sp <= Len(w.stack) /\ w.route \in Seq(Points)
  BY DEF Tidy, Fits, State, AnythingToRedo
<1>2. /\ v \in State /\ SameActions(v, w) /\ a \in Action
      /\ v.life = w.life /\ v.drawing = w.drawing /\ v.sp = k - 1
      /\ v.listed \subseteq w.listed \cup {a.point}
      /\ v.shown \subseteq w.shown \cup {a.point}
      /\ a.type = "move" => v.listed = w.listed /\ v.shown = w.shown
      /\ v.route = IF a.type = "append" THEN Append(w.route, a.point) ELSE w.route
  BY <1>1, RedoType
<1>3. k \in 1 .. Len(w.stack) /\ k <= w.sp /\ ~(k > w.sp)
  BY <1>1
<1>4. (a.type # "move" => a.point \in Live(w)) /\ a.point \in Points
  BY <1>2, <1>3 DEF Tidy, PointsSound, Sure, Action
<1>5. a.type = "append" => a.point \notin ToSet(w.route)
  BY <1>3 DEF Tidy, AppendsSound
<1>6. /\ ToSet(v.route) = IF a.type = "append" THEN ToSet(w.route) \cup {a.point}
                                              ELSE ToSet(w.route)
      /\ Once(v.route)
  <2>1. Once(w.route)
    BY DEF Tidy, ShownSound
  <2>2. CASE a.type = "append"
    <3>1. ToSet(Append(w.route, a.point)) = ToSet(w.route) \cup {a.point}
      BY <1>1, <1>4, AppendElements
    <3>2. Once(Append(w.route, a.point))
      BY <1>1, <1>4, <1>5, <2>1, <2>2, AppendOnce
    <3> HIDE DEF v, a
    <3> QED
      BY <1>2, <2>2, <3>1, <3>2
  <2>3. CASE a.type # "append"
    BY <1>2, <2>1, <2>3
  <2> QED
    BY <2>2, <2>3
<1>7. Fits(v)
  BY StackCallsFit DEF Tidy
<1> HIDE DEF v
<1>8. Live(v) = Live(w)
  BY <1>2 DEF Live
<1>9. ShownSound(v)
  BY <1>2, <1>4, <1>6, <1>8 DEF Tidy, ShownSound
<1>11. PointsSound(v)
  BY <1>2, PointsFollow DEF Tidy
<1>12. AppendsSound(v)
  <2>1. ASSUME NEW i \in 1 .. Len(w.stack), w.stack[i].type = "append"
        PROVE  w.stack[i].point \in ToSet(v.route) <=> i > k - 1
    <3>1. w.stack[i].point \in ToSet(w.route) <=> i > k
      BY <2>1 DEF Tidy, AppendsSound
    <3>2. i > k - 1 <=> i > k \/ i = k
      BY <1>1
    <3>3. CASE a.type = "append"
      <4>1. i # k => w.stack[i].point # a.point
        BY <1>3, <2>1, <3>3 DEF Tidy, AppendsSound
      <4> QED
        BY <1>6, <3>1, <3>2, <3>3, <4>1
    <3>4. CASE a.type # "append"
      <4>1. i # k
        BY <2>1, <3>4
      <4> QED
        BY <1>6, <3>1, <3>2, <3>4, <4>1
    <3> QED
      BY <3>3, <3>4
  <2>2. \A i \in 1 .. Len(w.stack) : w.stack[i].type = "append" =>
          (w.stack[i].point \in ToSet(v.route) <=> i > v.sp)
    BY <1>2, <2>1
  <2> QED
    BY <1>2, <2>2, AppendsFollow DEF Tidy
<1>13. UndoneSound(v)
  <2>1. ASSUME NEW i \in 1 .. Len(w.stack), i <= k - 1, NewAppend(w.stack[i])
        PROVE  w.stack[i].point \notin v.listed \cup v.shown
    <3>1. i <= w.sp /\ i < k
      BY <1>1, <2>1
    <3>2. w.stack[i].point # a.point
      BY <1>3, <2>1, <3>1 DEF Tidy, PointsSound
    <3>3. w.stack[i].point \notin w.listed \cup w.shown
      BY <2>1, <3>1 DEF Tidy, UndoneSound
    <3> QED
      BY <1>2, <3>2, <3>3
  <2>2. \A i \in 1 .. Len(w.stack) : i <= v.sp /\ NewAppend(w.stack[i]) =>
          w.stack[i].point \notin v.listed \cup v.shown
    BY <1>2, <2>1
  <2> QED
    BY <1>2, <2>2, UndoneFollow
<1> QED
  BY <1>7, <1>9, <1>11, <1>12, <1>13 DEF Tidy, v

-----------------------------------------------------------------------------
(* The handlers *)

(* Tidy says nothing of the fields left out here.                          *)
LEMMA OtherFields ==
  ASSUME NEW w, Tidy(w), NEW v, Fits(v), v.life = w.life,
         v.listed = w.listed, v.shown = w.shown, v.route = w.route,
         v.drawing = w.drawing, v.stack = w.stack, v.sp = w.sp
  PROVE  Tidy(v) /\ Live(v) = Live(w)
<1>1. Live(v) = Live(w) /\ Named(v) = Named(w)
  BY DEF Live, Named
<1>2. ShownSound(v) /\ PointsSound(v) /\ AppendsSound(v) /\ UndoneSound(v)
  BY <1>1 DEF Tidy, ShownSound, PointsSound, Sure, AppendsSound, UndoneSound
<1> QED
  BY <1>1, <1>2 DEF Tidy

(* An emptied stack frees and names nothing.                               *)
LEMMA EmptiedSound ==
  ASSUME NEW w, Fits(w), ShownSound(w)
  PROVE  Tidy(InvalidateUndo(w)) /\ InvalidateUndo(w).cand = w.cand
<1> DEFINE v == InvalidateUndo(w)
<1>1. Fits(v) /\ w \in State
  BY StackCallsFit DEF Fits
<1>2. /\ v.stack = <<>> /\ v.life = w.life /\ v.listed = w.listed
      /\ v.shown = w.shown /\ v.route = w.route /\ v.cand = w.cand
  BY <1>1 DEF InvalidateUndo, State
<1> HIDE DEF v
<1>3. Live(v) = Live(w)
  BY <1>2 DEF Live
<1>4. \A i \in 1 .. Len(v.stack) : FALSE
  BY <1>2
<1>5. ShownSound(v) /\ PointsSound(v) /\ AppendsSound(v) /\ UndoneSound(v)
  BY <1>2, <1>3, <1>4 DEF ShownSound, PointsSound, AppendsSound, UndoneSound
<1> QED
  BY <1>1, <1>2, <1>5 DEF Tidy, v

(* A mark that is recorded as made.                                        *)
LEMMA DropMarkStep ==
  ASSUME IInv, NEW p \in Points, DropMark(p)
  PROVE  IInv'
<1> DEFINE m == Made(u, p)
           d == [m EXCEPT !.iso = @ \cup {p}]
           r == Record(d, "create", p, "parent")
<1>1. Tidy(u) /\ Fits(u) /\ u \in State /\ u.life[p] = "none"
  BY DEF IInv, Tidy, Fits, DropMark, Unused
<1>2. Tidy(m) /\ m \in State /\ p \in m.shown /\ m.cand = u.cand
  <2>1. Tidy(m)
    BY <1>1, MadeSound
  <2>2. m \in State /\ m.shown = u.shown \cup {p} /\ m.cand = u.cand
    BY <1>1, MadeType
  <2> QED
    BY <2>1, <2>2
<1>3. Fits(d)
  BY <1>2, MarkCallsFit DEF Tidy
<1>4. /\ d.life = m.life /\ d.listed = m.listed /\ d.shown = m.shown
      /\ d.route = m.route /\ d.drawing = m.drawing /\ d.stack = m.stack
      /\ d.sp = m.sp /\ d.cand = m.cand
  BY <1>2 DEF State
<1> HIDE DEF m, d
<1>5. Tidy(d) /\ d \in State /\ d.sp <= Len(d.stack)
  BY <1>2, <1>3, <1>4, OtherFields DEF Fits
<1>6. u' = AfterUndoableAction(r)
  BY DEF DropMark, m, d
<1>7. CASE u.cand # NONE
  <2>1. r = [d EXCEPT !.cand = NONE]
    <3>1. Recorded(r, d, ActionOf(d, "create", p, "parent"))
      BY <1>5, RecordType
    <3> QED
      BY <1>2, <1>4, <1>7, <3>1 DEF Recorded
  <2>2. Fits(r)
    BY <1>3, RecordFits
  <2>3. /\ r.life = d.life /\ r.listed = d.listed /\ r.shown = d.shown
        /\ r.route = d.route /\ r.drawing = d.drawing /\ r.stack = d.stack
        /\ r.sp = d.sp /\ r.cand = NONE
    BY <1>5, <2>1 DEF State
  <2> HIDE DEF r
  <2>4. Tidy(r)
    BY <1>5, <2>2, <2>3, OtherFields
  <2>5. u' = r
    BY <1>6, <2>3 DEF AfterUndoableAction
  <2> QED
    BY <2>3, <2>4, <2>5 DEF IInv, DragSound
<1>8. CASE u.cand = NONE
  <2>1. /\ Tidy(r) /\ r.sp = 0 /\ r.cand # NONE
        /\ r.cand.act = ActionOf(d, "create", p, "parent")
        /\ d.shown \subseteq Live(r)
    <3>1. Noted(r, d, ActionOf(d, "create", p, "parent"))
      BY <1>2, <1>4, <1>5, <1>8, RecordSound
    <3> QED
      BY <3>1 DEF Noted
  <2>2. r.cand.act.point \in Live(r) /\ r.cand.act.type = "create"
    BY <1>2, <1>4, <2>1 DEF ActionOf
  <2> HIDE DEF r
  <2>3. Tidy(AfterUndoableAction(r)) /\ AfterUndoableAction(r).cand = NONE
    BY <2>1, <2>2, PushSound DEF NewAppend
  <2> QED
    BY <1>6, <2>3 DEF IInv, DragSound
<1> QED
  BY <1>7, <1>8

(* The point of a recorded deletion leaves the lists.                      *)
LEMMA DeleteMarkStep ==
  ASSUME IInv, NEW p \in Points, DeleteMark(p)
  PROVE  IInv'
<1> DEFINE r == Record(u, "delete", p, "orphan")
           v == Off(r, p)
<1>1. /\ Tidy(u) /\ u.cand = NONE /\ p \in u.shown
      /\ u' = AfterUndoableAction(v)
  BY DEF IInv, DeleteMark
<1>2. /\ Tidy(r) /\ r.sp = 0 /\ r.cand # NONE
      /\ r.cand.act = ActionOf(u, "delete", p, "orphan")
      /\ u.shown \subseteq Live(r)
  <2>1. Noted(r, u, ActionOf(u, "delete", p, "orphan"))
    BY <1>1, RecordSound
  <2> QED
    BY <2>1 DEF Noted
<1>3. r.cand.act.point \in Live(r) /\ r.cand.act.type = "delete" /\ r \in State
  BY <1>1, <1>2 DEF ActionOf, Tidy, Fits
<1> HIDE DEF r
<1>4. /\ v.life = r.life /\ v.drawing = r.drawing /\ v.sp = r.sp /\ v.cand = r.cand
      /\ v.stack = r.stack /\ v.route = r.route
      /\ v.listed = r.listed \ {p} /\ v.shown = r.shown \ {p}
  BY <1>3, OffType DEF Kept
<1>5. Fits(v)
  BY <1>2, MarkCallsFit DEF Tidy
<1> HIDE DEF v
<1>6. Live(v) = Live(r) /\ Named(v) = Named(r)
  BY <1>4 DEF Live, Named
<1>7. Tidy(v)
  <2>1. v.listed \cup v.shown \subseteq Live(v)
    BY <1>2, <1>4, <1>6 DEF Tidy, ShownSound
  <2>2. \A i \in 1 .. Len(r.stack) : i <= r.sp /\ NewAppend(r.stack[i]) =>
          r.stack[i].point \notin v.listed \cup v.shown
    BY <1>2, <1>4 DEF Tidy, UndoneSound
  <2> QED
    BY <1>2, <1>4, <1>5, <1>6, <2>1, <2>2, StackUntouched
<1>8. Tidy(AfterUndoableAction(v)) /\ AfterUndoableAction(v).cand = NONE
  BY <1>2, <1>3, <1>4, <1>6, <1>7, PushSound DEF NewAppend
<1> QED
  BY <1>1, <1>8 DEF IInv, DragSound

LEMMA BeginDragStep ==
  ASSUME IInv, NEW p \in Points, BeginDrag(p)
  PROVE  IInv'
<1> DEFINE r == Record(u, "move", p, "copy")
           v == [r EXCEPT !.pos[p] = 1 - @]
<1>1. Tidy(u) /\ u.cand = NONE /\ p \in u.shown /\ ~u.drawing /\ u' = v
  BY DEF IInv, BeginDrag
<1>2. /\ Tidy(r) /\ r.sp = 0 /\ r.cand # NONE /\ r.drawing = u.drawing
      /\ r.cand.act = ActionOf(u, "move", p, "copy")
      /\ u.shown \subseteq Live(r)
  <2>1. Noted(r, u, ActionOf(u, "move", p, "copy"))
    BY <1>1, RecordSound
  <2> QED
    BY <2>1 DEF Noted
<1>3. r.cand.act.point \in Live(r) /\ r.cand.act.type = "move" /\ r \in State
  BY <1>1, <1>2 DEF ActionOf, Tidy, Fits
<1> HIDE DEF r
<1>4. Fits(v)
  BY <1>2, MarkCallsFit DEF Tidy
<1>5. /\ v.life = r.life /\ v.listed = r.listed /\ v.shown = r.shown
      /\ v.route = r.route /\ v.drawing = r.drawing /\ v.stack = r.stack
      /\ v.sp = r.sp /\ v.cand = r.cand
  BY <1>3 DEF State
<1> HIDE DEF v
<1>6. Tidy(v) /\ Live(v) = Live(r)
  BY <1>2, <1>4, <1>5, OtherFields
<1>7. DragSound(v)
  BY <1>1, <1>2, <1>3, <1>5, <1>6 DEF DragSound
<1> QED
  BY <1>1, <1>6, <1>7 DEF IInv

LEMMA EndDragStep ==
  ASSUME IInv, EndDrag
  PROVE  IInv'
<1>1. Tidy(u) /\ DragSound(u) /\ u.cand # NONE /\ u' = AfterUndoableAction(u)
  BY DEF IInv, EndDrag
<1>2. /\ u.sp = 0 /\ u.cand.act.type = "move" /\ u.cand.act.point \in Live(u)
  BY <1>1 DEF DragSound
<1>3. Tidy(AfterUndoableAction(u)) /\ AfterUndoableAction(u).cand = NONE
  BY <1>1, <1>2, PushSound DEF NewAppend
<1> QED
  BY <1>1, <1>3 DEF IInv, DragSound

(* The point dropped is in the route once, so the route is rid of it.      *)
LEMMA EndDragOntoStep ==
  ASSUME Plain, IInv, NEW q \in Points, EndDragOnto(q)
  PROVE  IInv'
<1> DEFINE p == u.cand.act.point
           route == Replace(u.route, p, q)
           d == Replaced(u, p, q, route)
           v == AfterUndoableAction(d)
<1>1. /\ Tidy(u) /\ TypeOK /\ u \in State /\ Fits(u) /\ u.route \in Seq(Points)
  BY DEF IInv, Tidy, Fits, TypeOK, State
<1>2. /\ u.cand # NONE /\ p \in Points /\ p \in ToSet(u.route) /\ p # q
      /\ q \in u.listed /\ ~InRoute(u, q)
      /\ route \in Seq(Points) /\ u' = InvalidateUndo(v)
  BY <1>1, EndDragOntoMeans DEF Plain
<1>3. q \notin ToSet(u.route)
  BY <1>1, <1>2, ToSetElements DEF InRoute, Contains
<1>4. Once(u.route) /\ u.listed \cup u.shown \cup ToSet(u.route) \subseteq Live(u)
  BY <1>1 DEF Tidy, ShownSound
<1>5. ToSet(route) = (ToSet(u.route) \ {p}) \cup {q} /\ Once(route)
  <2>1. u.route \in Seq(Points) /\ p \in ToSet(u.route) /\ q \in Points
    BY <1>1, <1>2
  <2> HIDE DEF p
  <2>2. Once(u.route) => ToSet(route) = (ToSet(u.route) \ {p}) \cup {q}
    BY <2>1, ReplaceElements
  <2>3. Once(u.route) /\ q \notin ToSet(u.route) => Once(route)
    BY <2>1, ReplaceElements
  <2> QED
    BY <1>3, <1>4, <2>2, <2>3
<1> HIDE DEF p, route
<1>6. Exchanged(d, u, p, route)
  BY <1>1, <1>2, ReplacedType
<1> HIDE DEF d
<1>7. Fits(d) /\ d.cand # NONE
  BY <1>1, <1>2, <1>6 DEF Exchanged, Fits
<1>8. ShownSound(d)
  <2>1. \A x \in Points : x \in Live(d) <=> x \in Live(u) /\ x # p
    BY <1>6 DEF Exchanged, Live
  <2>2. d.listed \cup d.shown \cup ToSet(d.route) \subseteq Live(d)
    <3>1. \A x \in d.listed \cup d.shown \cup ToSet(d.route) :
            x # p /\ x \in u.listed \cup u.shown \cup ToSet(u.route)
      BY <1>2, <1>5, <1>6 DEF Exchanged
    <3>2. Live(u) \subseteq Points
      BY DEF Live
    <3> QED
      BY <1>4, <2>1, <3>1, <3>2
  <2> QED
    BY <1>5, <1>6, <2>2 DEF Exchanged, ShownSound
<1>9. /\ Fits(v) /\ v.cand = NONE /\ v.life = d.life
      /\ v.listed = d.listed /\ v.shown = d.shown /\ v.route = d.route
  <2>1. d \in State /\ Len(d.stack) <= Depth
    BY <1>7 DEF Fits
  <2> QED
    BY <1>7, <2>1, AfterType, StackCallsFit
<1> HIDE DEF v
<1>10. ShownSound(v)
  BY <1>8, <1>9 DEF ShownSound, Live
<1>11. Tidy(InvalidateUndo(v)) /\ InvalidateUndo(v).cand = NONE
  BY <1>9, <1>10, EmptiedSound
<1> QED
  BY <1>2, <1>11 DEF IInv, DragSound

LEMMA UndoRedoStep ==
  ASSUME Plain, IInv, Undo \/ Redo
  PROVE  IInv'
<1>1. Tidy(u) /\ u \in State /\ u.cand = NONE /\ u.sp \in Nat /\ Len(u.stack) \in Nat
      /\ u.sp <= Len(u.stack)
  BY DEF IInv, Tidy, Fits, State, Undo, Redo, Plain
<1>2. CASE Undo
  <2>1. AnythingToUndo(u) /\ u' = UndoLastAction(u)
    BY <1>2 DEF Undo
  <2>2. u.sp < Len(u.stack)
    BY <1>1, <2>1 DEF AnythingToUndo
  <2>3. UndoLastAction(u).cand = NONE
    BY <1>1, <2>2, UndoType
  <2> QED
    BY <1>1, <2>1, <2>3, UndoSound DEF IInv, DragSound
<1>3. CASE Redo
  <2>1. AnythingToRedo(u) /\ u' = RedoNextAction(u)
    BY <1>3 DEF Redo
  <2>2. u.sp > 0
    BY <2>1 DEF AnythingToRedo
  <2>3. RedoNextAction(u).cand = NONE
    BY <1>1, <2>2, RedoType
  <2> QED
    BY <1>1, <2>1, <2>3, RedoSound DEF IInv, DragSound
<1> QED
  BY <1>2, <1>3

(* A point enters the route, and its recorded append the stack.            *)
LEMMA AppendSound ==
  ASSUME NEW w, Tidy(w), w.sp = 0, w.drawing, w.cand # NONE,
         NEW p \in Points, p \in Live(w), p \notin ToSet(w.route),
         w.cand.act.point = p, w.cand.act.type = "append",
         NewAppend(w.cand.act) => \A j \in 1 .. Len(w.stack) : w.stack[j].point # p
  PROVE  LET v == AfterUndoableAction(AddPoint(w, p)) IN
         Tidy(v) /\ v.cand = NONE
<1> DEFINE d == AddPoint(w, p)
<1>1. w \in State /\ w.route \in Seq(Points) /\ Fits(d)
  BY MarkCallsFit DEF Tidy, Fits, State
<1>2. /\ d.life = w.life /\ d.listed = w.listed /\ d.shown = w.shown
      /\ d.route = Append(w.route, p) /\ d.drawing = w.drawing
      /\ d.stack = w.stack /\ d.sp = w.sp /\ d.cand = w.cand
  BY <1>1, AddPointType
<1>3. ToSet(d.route) = ToSet(w.route) \cup {p}
  BY <1>1, <1>2, AppendElements
<1>4. Once(d.route)
  BY <1>1, <1>2, AppendOnce DEF Tidy, ShownSound
<1> HIDE DEF d
<1>5. Live(d) = Live(w) /\ Named(d) = Named(w)
  BY <1>2 DEF Live, Named
<1>6. ShownSound(d)
  BY <1>2, <1>3, <1>4, <1>5 DEF Tidy, ShownSound
<1>7. PointsSound(d) /\ UndoneSound(d)
  BY <1>2, <1>5 DEF Tidy, PointsSound, Sure, UndoneSound
<1>8. \A i \in 1 .. Len(w.stack) : w.stack[i].type = "append" =>
        w.stack[i].point \in ToSet(w.route)
  <2>1. \A i \in 1 .. Len(w.stack) : i > w.sp
    OBVIOUS
  <2> QED
    BY <2>1 DEF Tidy, AppendsSound
<1>9. AppendsSound(d)
  <2>1. \A i \in 1 .. Len(d.stack) : i > d.sp
    BY <1>2
  <2> QED
    BY <1>2, <1>3, <1>8, <2>1 DEF Tidy, AppendsSound
<1>10. Tidy(d)
  BY <1>1, <1>6, <1>7, <1>9 DEF Tidy
<1>11. \A j \in 1 .. Len(d.stack) : d.stack[j].type = "append" => d.stack[j].point # p
  BY <1>2, <1>8
<1>12. Tidy(AfterUndoableAction(d)) /\ AfterUndoableAction(d).cand = NONE
  BY <1>2, <1>3, <1>5, <1>10, <1>11, PushSound
<1> QED
  BY <1>12 DEF d

LEMMA AppendNewStep ==
  ASSUME IInv, NEW p \in Points, AppendNew(p)
  PROVE  IInv'
<1> DEFINE m == Made(u, p)
           r == Record(m, "append", p, "orphan")
<1>1. /\ Tidy(u) /\ u \in State /\ u.life[p] = "none" /\ u.drawing /\ u.cand = NONE
      /\ u' = AfterUndoableAction(AddPoint(r, p))
  BY DEF IInv, Tidy, Fits, AppendNew, Unused
<1>2. /\ Tidy(m) /\ p \notin ToSet(u.route)
      /\ \A i \in 1 .. Len(u.stack) : u.stack[i].point # p
  BY <1>1, MadeSound
<1>3. /\ m \in State /\ m.shown = u.shown \cup {p} /\ m.cand = NONE /\ m.drawing
      /\ m.route = u.route /\ m.stack = u.stack /\ m.sp = u.sp
  BY <1>1, MadeType
<1> HIDE DEF m
<1>4. /\ Tidy(r) /\ r.sp = 0 /\ r.cand # NONE
      /\ r.cand.act = ActionOf(m, "append", p, "orphan")
      /\ r.route = m.route /\ r.drawing = m.drawing
      /\ m.listed \cup m.shown \cup ToSet(m.route) \subseteq Live(r)
      /\ Len(r.stack) = Len(m.stack) - m.sp
      /\ \A i \in 1 .. Len(r.stack) : r.stack[i] = m.stack[i + m.sp]
  <2>1. Noted(r, m, ActionOf(m, "append", p, "orphan"))
    BY <1>2, <1>3, RecordSound
  <2> QED
    BY <2>1 DEF Noted
<1>5. \A i \in 1 .. Len(r.stack) : r.stack[i].point # p
  <2>1. Len(m.stack) \in Nat /\ m.sp \in Nat
    BY <1>3 DEF State
  <2>2. \A i \in 1 .. Len(r.stack) : i + m.sp \in 1 .. Len(m.stack)
    BY <1>4, <2>1
  <2> QED
    BY <1>2, <1>3, <1>4, <2>2
<1> HIDE DEF r
<1>6. /\ p \in Live(r) /\ p \notin ToSet(r.route) /\ r.drawing
      /\ r.cand.act.point = p /\ r.cand.act.type = "append"
  BY <1>2, <1>3, <1>4 DEF ActionOf
<1>7. /\ Tidy(AfterUndoableAction(AddPoint(r, p)))
      /\ AfterUndoableAction(AddPoint(r, p)).cand = NONE
  BY <1>4, <1>5, <1>6, AppendSound
<1> QED
  BY <1>1, <1>7 DEF IInv, DragSound

LEMMA AppendExistingStep ==
  ASSUME Plain, IInv, NEW p \in Points, AppendExisting(p)
  PROVE  IInv'
<1> DEFINE d == [u EXCEPT !.shared = IF InRoute(u, p) THEN @ ELSE @ \cup {p}]
           r == Record(d, "append", p, "parent")
<1>1. /\ Tidy(u) /\ Fits(u) /\ u \in State /\ u.drawing /\ u.cand = NONE
      /\ p \in u.listed /\ ~InRoute(u, p) /\ u.route \in Seq(Points)
      /\ u' = AfterUndoableAction(AddPoint(r, p))
  BY DEF IInv, Tidy, Fits, State, AppendExisting, Plain
<1>2. p \notin ToSet(u.route)
  BY <1>1, ToSetElements DEF InRoute, Contains
<1>3. Fits(d)
  BY <1>1 DEF Fits, State
<1>4. /\ d.life = u.life /\ d.listed = u.listed /\ d.shown = u.shown
      /\ d.route = u.route /\ d.drawing = u.drawing /\ d.stack = u.stack
      /\ d.sp = u.sp /\ d.cand = u.cand
  BY <1>1 DEF State
<1> HIDE DEF d
<1>5. Tidy(d)
  BY <1>1, <1>3, <1>4, OtherFields
<1>6. /\ Tidy(r) /\ r.sp = 0 /\ r.cand # NONE
      /\ r.cand.act = ActionOf(d, "append", p, "parent")
      /\ r.route = d.route /\ r.drawing = d.drawing
      /\ d.listed \cup d.shown \cup ToSet(d.route) \subseteq Live(r)
  <2>1. Noted(r, d, ActionOf(d, "append", p, "parent"))
    BY <1>1, <1>4, <1>5, RecordSound
  <2> QED
    BY <2>1 DEF Noted
<1> HIDE DEF r
<1>7. /\ p \in Live(r) /\ p \notin ToSet(r.route) /\ r.drawing
      /\ r.cand.act.point = p /\ r.cand.act.type = "append"
      /\ ~NewAppend(r.cand.act)
  BY <1>1, <1>2, <1>4, <1>6 DEF ActionOf, NewAppend
<1>8. /\ Tidy(AfterUndoableAction(AddPoint(r, p)))
      /\ AfterUndoableAction(AddPoint(r, p)).cand = NONE
  BY <1>6, <1>7, AppendSound
<1> QED
  BY <1>1, <1>8 DEF IInv, DragSound

(* Drawing starts on a stack without appends.                              *)
LEMMA DrawingStarts ==
  ASSUME NEW w, Tidy(w), ~w.drawing, NEW v, Fits(v),
         v.life = w.life, v.listed = w.listed, v.shown = w.shown,
         v.stack = w.stack, v.sp = w.sp, ShownSound(v)
  PROVE  Tidy(v)
<1>1. Live(v) = Live(w) /\ Named(v) = Named(w)
  BY DEF Live, Named
<1>2. PointsSound(v)
  BY <1>1 DEF Tidy, PointsSound, Sure
<1>3. \A i \in 1 .. Len(w.stack) : w.stack[i].type # "append"
  BY DEF Tidy, AppendsSound
<1>4. AppendsSound(v) /\ UndoneSound(v)
  BY <1>3 DEF AppendsSound, UndoneSound, NewAppend
<1> QED
  BY <1>2, <1>4 DEF Tidy

LEMMA StartRouteStep ==
  ASSUME IInv, NEW p \in Points, StartRoute(p)
  PROVE  IInv'
<1> DEFINE d == IF p \in Unused THEN Made(u, p) ELSE [u EXCEPT !.shared = @ \cup {p}]
           a == AddPoint(d, p)
           v == [a EXCEPT !.drawing = TRUE]
<1>1. /\ Tidy(u) /\ Fits(u) /\ u \in State /\ ~u.drawing /\ u.cand = NONE
      /\ u.route = <<>> /\ p \in Unused \cup u.listed /\ u' = v
  BY DEF IInv, Tidy, Fits, StartRoute
<1>2. Tidy(d) /\ p \in d.listed /\ d.route = <<>> /\ ~d.drawing /\ d.cand = NONE
  <2>1. CASE p \in Unused
    <3>1. u.life[p] = "none" /\ d = Made(u, p)
      BY <2>1 DEF Unused
    <3>2. Tidy(Made(u, p))
      BY <1>1, <3>1, MadeSound
    <3>3. /\ Made(u, p).listed = u.listed \cup {p} /\ Made(u, p).route = u.route
          /\ Made(u, p).drawing = u.drawing /\ Made(u, p).cand = u.cand
      BY <1>1, MadeType
    <3> QED
      BY <1>1, <3>1, <3>2, <3>3
  <2>2. CASE p \notin Unused
    <3> DEFINE e == [u EXCEPT !.shared = @ \cup {p}]
    <3>1. Fits(e)
      BY <1>1, MarkCallsFit
    <3>2. /\ e.life = u.life /\ e.listed = u.listed /\ e.shown = u.shown
          /\ e.route = u.route /\ e.drawing = u.drawing /\ e.stack = u.stack
          /\ e.sp = u.sp /\ e.cand = u.cand
      BY <1>1 DEF State
    <3>3. d = e
      BY <2>2
    <3> HIDE DEF d, e
    <3>4. Tidy(e)
      BY <1>1, <3>1, <3>2, OtherFields
    <3> QED
      BY <1>1, <2>2, <3>2, <3>3, <3>4
  <2> QED
    BY <2>1, <2>2
<1> HIDE DEF d
<1>3. d \in State /\ Fits(a) /\ a \in State
  BY <1>2, MarkCallsFit DEF Tidy, Fits
<1>4. /\ a.life = d.life /\ a.listed = d.listed /\ a.shown = d.shown
      /\ a.route = Append(<<>>, p) /\ a.stack = d.stack /\ a.sp = d.sp
      /\ a.cand = d.cand
  BY <1>2, <1>3, AddPointType
<1> HIDE DEF a
<1>5. Fits(v)
  BY <1>3, StackCallsFit
<1>6. /\ v.life = d.life /\ v.listed = d.listed /\ v.shown = d.shown
      /\ v.route = Append(<<>>, p) /\ v.stack = d.stack /\ v.sp = d.sp
      /\ v.cand = NONE
  BY <1>2, <1>3, <1>4 DEF State
<1> HIDE DEF v
<1>7. ToSet(Append(<<>>, p)) = {p} /\ Once(Append(<<>>, p))
  <2>1. <<>> \in Seq(Points) /\ ToSet(<<>>) = {} /\ Once(<<>>)
    BY DEF ToSet, Once
  <2>2. ToSet(Append(<<>>, p)) = ToSet(<<>>) \cup {p}
    BY <2>1, AppendElements
  <2>3. Once(Append(<<>>, p))
    BY <2>1, AppendOnce
  <2> QED
    BY <2>1, <2>2, <2>3
<1>8. ShownSound(v)
  BY <1>2, <1>6, <1>7 DEF Tidy, ShownSound, Live
<1>9. Tidy(v)
  BY <1>2, <1>5, <1>6, <1>8, DrawingStarts
<1> QED
  BY <1>1, <1>6, <1>9 DEF IInv, DragSound

LEMMA ContinueRouteStep ==
  ASSUME IInv, ContinueRoute
  PROVE  IInv'
<1> DEFINE v == [u EXCEPT !.drawing = TRUE]
<1>1. /\ Tidy(u) /\ Fits(u) /\ u \in State /\ ~u.drawing /\ u.cand = NONE /\ u' = v
  BY DEF IInv, Tidy, Fits, ContinueRoute
<1>2. Fits(v)
  BY <1>1, StackCallsFit
<1>3. /\ v.life = u.life /\ v.listed = u.listed /\ v.shown = u.shown
      /\ v.route = u.route /\ v.stack = u.stack /\ v.sp = u.sp /\ v.cand = u.cand
  BY <1>1 DEF State
<1> HIDE DEF v
<1>4. ShownSound(v)
  BY <1>1, <1>3 DEF Tidy, ShownSound, Live
<1>5. Tidy(v)
  BY <1>1, <1>2, <1>3, <1>4, DrawingStarts
<1> QED
  BY <1>1, <1>3, <1>5 DEF IInv, DragSound

LEMMA ScrapSound ==
  ASSUME NEW w, Fits(w), ShownSound(w)
  PROVE  ShownSound(Scrap(w)) /\ Fits(Scrap(w)) /\ Scrap(w).cand = w.cand
<1> DEFINE v == Scrap(w)
           gone == ToSet(w.route) \ w.shared
<1>1. w \in State /\ Fits(v)
  BY StackCallsFit DEF Fits
<1>2. /\ v.life = [p \in Points |-> IF p \in gone THEN "freed" ELSE w.life[p]]
      /\ v.listed = w.listed \ gone /\ v.shown = w.shown \ gone
      /\ v.route = <<>> /\ v.cand = w.cand
  BY <1>1, ScrapType
<1> HIDE DEF v, gone
<1>3. ToSet(v.route) = {} /\ Once(v.route)
  BY <1>2 DEF ToSet, Once
<1>4. \A p \in Points : p \in Live(v) <=> p \in Live(w) /\ p \notin gone
  BY <1>2 DEF Live
<1>5. Live(w) \subseteq Points
  BY DEF Live
<1>6. ShownSound(v)
  BY <1>2, <1>3, <1>4, <1>5 DEF ShownSound
<1> QED
  BY <1>1, <1>2, <1>6 DEF v

LEMMA EndRouteStep ==
  ASSUME IInv, FinishRoute \/ DeleteRoute
  PROVE  IInv'
<1>1. Tidy(u) /\ Fits(u) /\ ShownSound(u) /\ u.cand = NONE
  BY DEF IInv, Tidy, DragSound, FinishRoute, DeleteRoute
<1>2. CASE FinishRoute
  <2> DEFINE d == IF Len(u.route) < 2 THEN Scrap(u) ELSE u
             v == [d EXCEPT !.drawing = FALSE]
  <2>1. u' = InvalidateUndo(v)
    BY <1>2 DEF FinishRoute
  <2>2. ShownSound(d) /\ Fits(d) /\ d.cand = NONE
    BY <1>1, ScrapSound
  <2> HIDE DEF d
  <2>3. Fits(v)
    BY <2>2, StackCallsFit
  <2>4. /\ v.life = d.life /\ v.listed = d.listed /\ v.shown = d.shown
        /\ v.route = d.route /\ v.cand = d.cand
    BY <2>2 DEF Fits, State
  <2> HIDE DEF v
  <2>5. ShownSound(v)
    BY <2>2, <2>4 DEF ShownSound, Live
  <2> QED
    BY <2>1, <2>2, <2>3, <2>4, <2>5, EmptiedSound DEF IInv, DragSound
<1>3. CASE DeleteRoute
  <2>1. u' = InvalidateUndo(Scrap(u))
    BY <1>3 DEF DeleteRoute
  <2> QED
    BY <1>1, <2>1, ScrapSound, EmptiedSound DEF IInv, DragSound
<1> QED
  BY <1>2, <1>3

-----------------------------------------------------------------------------
(* Points that leave the route by its menu, which tells the stack nothing *)

(* While no route is drawn, the stack knows the points of the route from   *)
(* moves only.                                                             *)
RestSound(w) ==
  ~w.drawing =>
    \A i \in 1 .. Len(w.stack) :
      w.stack[i].type # "move" => w.stack[i].point \notin ToSet(w.route)

(* What such a step leaves: a shorter route, and of all other points what  *)
(* was known of them.                                                      *)
Shrunk(v, w) ==
  /\ Fits(v) /\ ShownSound(v) /\ v.cand = NONE
  /\ ~w.drawing /\ ~v.drawing /\ v.stack = w.stack /\ v.sp = w.sp
  /\ ToSet(v.route) \subseteq ToSet(w.route) /\ Named(w) \subseteq Named(v)
  /\ \A q \in Points : q \notin ToSet(w.route) =>
       /\ q \in Live(w) => q \in Live(v)
       /\ q \in v.listed <=> q \in w.listed
       /\ q \in v.shown <=> q \in w.shown

LEMMA RemoveFromRouteShrinks ==
  ASSUME IInv, NEW p \in Points, RemovePointFromRoute(p)
  PROVE  Shrunk(u', u)
<1> DEFINE rest == RemoveFirst(u.route, p)
           d == RemovePoint(u, p)
           v == [d EXCEPT !.shown = @ \cup {p}]
<1>1. /\ u \in State /\ Fits(u) /\ ShownSound(u) /\ u.route \in Seq(Points)
      /\ u.cand = NONE /\ ~u.drawing /\ InRoute(u, p) /\ u' = v
  BY DEF IInv, Tidy, Fits, State, RemovePointFromRoute
<1>2. p \in ToSet(u.route)
  BY <1>1, ToSetElements DEF InRoute, Contains
<1>3. ToSet(rest) \subseteq ToSet(u.route) /\ Once(rest)
  BY <1>1, RemoveFirstElements DEF ShownSound
<1>4. /\ d \in State /\ d.life = u.life /\ d.listed = u.listed
      /\ d.shown = u.shown \cup ToSet(rest) /\ d.route = rest
      /\ d.drawing = u.drawing /\ d.stack = u.stack /\ d.sp = u.sp /\ d.cand = u.cand
  BY <1>1, RemovePointType
<1> HIDE DEF d, rest
<1>5. /\ v \in State /\ v.life = u.life /\ v.listed = u.listed
      /\ v.shown = u.shown \cup ToSet(rest) \cup {p} /\ v.route = rest
      /\ ~v.drawing /\ v.stack = u.stack /\ v.sp = u.sp /\ v.cand = NONE
  BY <1>1, <1>4 DEF State
<1> HIDE DEF v
<1>6. Fits(v) /\ Live(v) = Live(u) /\ Named(v) = Named(u)
  BY <1>1, <1>5 DEF Fits, Live, Named
<1>7. ShownSound(v)
  BY <1>1, <1>2, <1>3, <1>5, <1>6 DEF ShownSound
<1>8. \A q \in Points : q \notin ToSet(u.route) =>
        (q \in v.listed <=> q \in u.listed) /\ (q \in v.shown <=> q \in u.shown)
  BY <1>2, <1>3, <1>5
<1> QED
  BY <1>1, <1>3, <1>5, <1>6, <1>7, <1>8 DEF Shrunk

(* A scrapped route takes its last point along, and the point itself is    *)
(* off the lists.                                                          *)
LEMMA DestroyShrinks ==
  ASSUME IInv, NEW p \in Points, DestroyWaypoint(p)
  PROVE  Shrunk(u', u)
<1> DEFINE rest == RemoveFirst(u.route, p)
           d == RemovePoint(u, p)
           gone == ToSet(rest) \ d.shared
           e == IF Len(d.route) < 2 THEN Scrap(d) ELSE d
           v == Off(e, p)
<1>1. /\ u \in State /\ Fits(u) /\ ShownSound(u) /\ u.route \in Seq(Points)
      /\ u.cand = NONE /\ ~u.drawing /\ InRoute(u, p) /\ u' = v
  BY DEF IInv, Tidy, Fits, State, DestroyWaypoint
<1>2. p \in ToSet(u.route)
  BY <1>1, ToSetElements DEF InRoute, Contains
<1>3. ToSet(rest) \subseteq ToSet(u.route) /\ Once(rest)
  BY <1>1, RemoveFirstElements DEF ShownSound
<1>4. /\ d \in State /\ d.life = u.life /\ d.listed = u.listed
      /\ d.shown = u.shown \cup ToSet(rest) /\ d.route = rest
      /\ d.drawing = u.drawing /\ d.stack = u.stack /\ d.sp = u.sp /\ d.cand = u.cand
  BY <1>1, RemovePointType
<1> HIDE DEF d, rest
<1>5. Fits(d) /\ Live(d) = Live(u) /\ Named(d) = Named(u)
  BY <1>1, <1>4 DEF Fits, Live, Named
<1>6. ShownSound(d)
  BY <1>1, <1>3, <1>4, <1>5 DEF ShownSound
<1>7. /\ ShownSound(e) /\ Fits(e) /\ e \in State /\ e.cand = NONE
      /\ ~e.drawing /\ e.stack = u.stack /\ e.sp = u.sp
      /\ ToSet(e.route) \subseteq ToSet(u.route) /\ Named(u) \subseteq Named(e)
      /\ \A q \in Points : q \notin ToSet(u.route) =>
           /\ q \in Live(u) => q \in Live(e)
           /\ q \in e.listed <=> q \in u.listed
           /\ q \in e.shown <=> q \in u.shown
  <2>1. CASE Len(d.route) < 2
    <3>1. e = Scrap(d) /\ ShownSound(e) /\ Fits(e) /\ e.cand = NONE
      BY <1>1, <1>4, <1>5, <1>6, <2>1, ScrapSound
    <3>2. /\ e \in State
          /\ e.life = [x \in Points |-> IF x \in gone THEN "freed" ELSE d.life[x]]
          /\ e.listed = d.listed \ gone /\ e.shown = d.shown \ gone
          /\ e.route = <<>> /\ e.drawing = d.drawing
          /\ e.stack = d.stack /\ e.sp = d.sp
      BY <1>4, <3>1, ScrapType
    <3> HIDE DEF e
    <3>3. ToSet(e.route) = {} /\ gone \subseteq ToSet(u.route)
      BY <1>3, <3>2 DEF ToSet
    <3>4. Named(u) \subseteq Named(e)
      BY <1>4, <3>2 DEF Named
    <3>5. \A q \in Points : q \notin ToSet(u.route) =>
             /\ q \in Live(u) => q \in Live(e)
             /\ q \in e.listed <=> q \in u.listed
             /\ q \in e.shown <=> q \in u.shown
      BY <1>3, <1>4, <3>2, <3>3 DEF Live
    <3> QED
      BY <1>1, <1>4, <3>1, <3>2, <3>3, <3>4, <3>5
  <2>2. CASE ~(Len(d.route) < 2)
    <3>1. e = d
      BY <2>2
    <3> HIDE DEF e
    <3> QED
      BY <1>1, <1>3, <1>4, <1>5, <1>6, <3>1
  <2> QED
    BY <2>1, <2>2
<1> HIDE DEF e
<1>8. /\ v \in State /\ v.life = e.life /\ v.drawing = e.drawing /\ v.sp = e.sp
      /\ v.cand = e.cand /\ v.stack = e.stack /\ v.route = e.route
      /\ v.listed = e.listed \ {p} /\ v.shown = e.shown \ {p}
  BY <1>7, OffType DEF Kept
<1>9. Fits(v)
  BY <1>7, MarkCallsFit
<1> HIDE DEF v
<1>10. Live(v) = Live(e) /\ Named(v) = Named(e)
  BY <1>8 DEF Live, Named
<1>11. ShownSound(v)
  BY <1>7, <1>8, <1>10 DEF ShownSound
<1> QED
  BY <1>1, <1>2, <1>7, <1>8, <1>9, <1>10, <1>11 DEF Shrunk

LEMMA ShrunkSound ==
  ASSUME NEW w, Tidy(w), RestSound(w), NEW v, Shrunk(v, w)
  PROVE  Tidy(v) /\ RestSound(v)
<1>1. \A i \in 1 .. Len(w.stack) : /\ w.stack[i].type # "append"
                                   /\ Sure(w, w.stack[i])
  BY DEF Tidy, AppendsSound, PointsSound, Shrunk
<1>2. \A i \in 1 .. Len(w.stack) : Sure(v, w.stack[i])
  BY <1>1 DEF Shrunk, RestSound, Sure, Named
<1>3. PointsSound(v) /\ AppendsSound(v) /\ UndoneSound(v)
  BY <1>1, <1>2 DEF Shrunk, PointsSound, AppendsSound, UndoneSound, NewAppend
<1> QED
  BY <1>3 DEF Tidy, Shrunk, RestSound

LEMMA MenuStep ==
  ASSUME IInv, RestSound(u), NEW p \in Points,
         RemovePointFromRoute(p) \/ DestroyWaypoint(p)
  PROVE  IInv' /\ RestSound(u')
<1>1. Shrunk(u', u)
  BY RemoveFromRouteShrinks, DestroyShrinks
<1>2. Tidy(u') /\ RestSound(u')
  BY <1>1, ShrunkSound DEF IInv
<1> QED
  BY <1>1, <1>2 DEF IInv, DragSound, Shrunk

(* The other handlers: what is recorded while no route is drawn is a move, *)
(* or of a point outside the route.                                        *)
LEMMA RestFollows ==
  ASSUME NEW w, RestSound(w), NEW v, v.drawing = w.drawing, v.route = w.route,
         \A i \in 1 .. Len(v.stack) : \E j \in 1 .. Len(w.stack) :
           /\ v.stack[i].type = w.stack[j].type
           /\ v.stack[i].point = w.stack[j].point
  PROVE  RestSound(v)
BY DEF RestSound

LEMMA RestRecorded ==
  ASSUME NEW w, Tidy(w), RestSound(w), NEW v, NEW a, Noted(v, w, a)
  PROVE  RestSound(v)
<1>1. w.sp \in Nat /\ Len(w.stack) \in Nat /\ w.sp <= Len(w.stack)
  BY DEF Tidy, Fits, State
<1>2. \A i \in 1 .. Len(v.stack) :
        i + w.sp \in 1 .. Len(w.stack) /\ v.stack[i] = w.stack[i + w.sp]
  BY <1>1 DEF Noted
<1> QED
  BY <1>2, RestFollows DEF Noted

LEMMA RestPushed ==
  ASSUME NEW w, Tidy(w), RestSound(w), w.cand # NONE,
         \/ w.drawing \/ w.cand.act.type = "move"
         \/ w.cand.act.point \notin ToSet(w.route)
  PROVE  RestSound(AfterUndoableAction(w))
<1> DEFINE v == AfterUndoableAction(w)
<1>1. w \in State /\ Len(w.stack) <= Depth /\ Len(w.stack) \in Nat
  BY DEF Tidy, Fits, State
<1>2. /\ v.route = w.route /\ v.drawing = w.drawing /\ v.stack[1] = w.cand.act
      /\ Len(v.stack) <= Len(w.stack) + 1 /\ v \in State
      /\ \A i \in 2 .. Len(v.stack) : v.stack[i] = w.stack[i - 1]
  BY <1>1, AfterType
<1>3. Len(v.stack) \in Nat
  BY <1>2 DEF State
<1> HIDE DEF v
<1>4. ASSUME NEW i \in 1 .. Len(v.stack), ~v.drawing, v.stack[i].type # "move"
      PROVE  v.stack[i].point \notin ToSet(v.route)
  <2>1. CASE i = 1
    BY <1>2, <1>4, <2>1
  <2>2. CASE i # 1
    <3>1. i \in 2 .. Len(v.stack) /\ i - 1 \in 1 .. Len(w.stack)
      BY <1>1, <1>2, <1>3, <2>2
    <3> QED
      BY <1>2, <1>4, <3>1 DEF RestSound
  <2> QED
    BY <2>1, <2>2
<1>5. RestSound(v)
  BY <1>4 DEF RestSound
<1> QED
  BY <1>5 DEF v

(* The end of a route, and a point dropped on another, empty the stack.    *)
LEMMA EmptyingMeans ==
  ASSUME IInv, FinishRoute \/ DeleteRoute \/ \E q \in Points : EndDragOnto(q)
  PROVE  \E w \in State : u' = InvalidateUndo(w)
<1>1. Tidy(u) /\ Fits(u) /\ u \in State /\ TypeOK /\ u.route \in Seq(Points)
  BY DEF IInv, Tidy, Fits, TypeOK, State
<1>2. CASE FinishRoute
  <2> DEFINE d == IF Len(u.route) < 2 THEN Scrap(u) ELSE u
             v == [d EXCEPT !.drawing = FALSE]
  <2>1. u' = InvalidateUndo(v)
    BY <1>2 DEF FinishRoute
  <2>2. d \in State
    BY <1>1, ScrapType
  <2> HIDE DEF d
  <2>3. v \in State
    BY <2>2 DEF State
  <2> QED
    BY <2>1, <2>3
<1>3. CASE DeleteRoute
  <2>1. u' = InvalidateUndo(Scrap(u)) /\ Scrap(u) \in State
    BY <1>1, <1>3, ScrapType DEF DeleteRoute
  <2> QED
    BY <2>1
<1>4. ASSUME NEW q \in Points, EndDragOnto(q)
      PROVE  \E w \in State : u' = InvalidateUndo(w)
  <2> DEFINE p == u.cand.act.point
             route == Replace(u.route, p, q)
             d == Replaced(u, p, q, route)
             v == AfterUndoableAction(d)
  <2>1. p \in Points /\ route \in Seq(Points) /\ u' = InvalidateUndo(v)
    BY <1>1, <1>4, EndDragOntoMeans
  <2> HIDE DEF p, route
  <2>2. Exchanged(d, u, p, route)
    BY <1>1, <1>4, <2>1, ReplacedType
  <2> HIDE DEF d
  <2>3. d \in State /\ Len(d.stack) <= Depth
    BY <1>1, <2>2 DEF Exchanged, Fits
  <2>4. v \in State
    BY <2>3, AfterType
  <2> QED
    BY <2>1, <2>4
<1> QED
  BY <1>2, <1>3, <1>4

LEMMA DropMarkRest ==
  ASSUME IInv, RestSound(u), NEW p \in Points, DropMark(p)
  PROVE  RestSound(u')
<1> DEFINE m == Made(u, p)
           d == [m EXCEPT !.iso = @ \cup {p}]
           r == Record(d, "create", p, "parent")
<1>1. Tidy(u) /\ u \in State /\ u.life[p] = "none" /\ u' = AfterUndoableAction(r)
  BY DEF IInv, Tidy, Fits, DropMark, Unused
<1>2. Tidy(m) /\ m \in State /\ p \notin ToSet(u.route)
  BY <1>1, MadeSound DEF Tidy, Fits
<1>3. /\ m.route = u.route /\ m.drawing = u.drawing /\ m.stack = u.stack
      /\ m.cand = u.cand
  BY <1>1, MadeType
<1>4. Fits(d)
  BY <1>2, MarkCallsFit DEF Tidy
<1>5. /\ d.life = m.life /\ d.listed = m.listed /\ d.shown = m.shown
      /\ d.route = m.route /\ d.drawing = m.drawing /\ d.stack = m.stack
      /\ d.sp = m.sp /\ d.cand = m.cand
  BY <1>2 DEF State
<1> HIDE DEF m, d
<1>6. Tidy(d) /\ d \in State /\ d.sp <= Len(d.stack)
  BY <1>2, <1>4, <1>5, OtherFields DEF Fits
<1>7. RestSound(d)
  BY <1>3, <1>5 DEF RestSound
<1>8. CASE u.cand # NONE
  <2>1. r = [d EXCEPT !.cand = NONE]
    <3>1. Recorded(r, d, ActionOf(d, "create", p, "parent"))
      BY <1>6, RecordType
    <3> QED
      BY <1>3, <1>5, <1>8, <3>1 DEF Recorded
  <2>2. /\ r.route = d.route /\ r.drawing = d.drawing /\ r.stack = d.stack
        /\ r.cand = NONE
    BY <1>6, <2>1 DEF State
  <2> HIDE DEF r
  <2> QED
    BY <1>1, <1>7, <2>2 DEF AfterUndoableAction, RestSound
<1>9. CASE u.cand = NONE
  <2>1. Noted(r, d, ActionOf(d, "create", p, "parent"))
    BY <1>3, <1>5, <1>6, <1>9, RecordSound
  <2>2. RestSound(r) /\ Tidy(r) /\ r.cand # NONE /\ r.cand.act.point = p
        /\ p \notin ToSet(r.route)
    BY <1>2, <1>3, <1>5, <1>6, <1>7, <2>1, RestRecorded DEF Noted, ActionOf
  <2> HIDE DEF r
  <2> QED
    BY <1>1, <2>2, RestPushed
<1> QED
  BY <1>8, <1>9

LEMMA DeleteMarkRest ==
  ASSUME IInv, RestSound(u), NEW p \in Points, DeleteMark(p)
  PROVE  RestSound(u')
<1> DEFINE r == Record(u, "delete", p, "orphan")
           v == Off(r, p)
<1>1. /\ Tidy(u) /\ u.cand = NONE /\ ~InRoute(u, p) /\ p \in u.shown
      /\ u' = AfterUndoableAction(v) /\ u.route \in Seq(Points)
  BY DEF IInv, DeleteMark, Tidy, Fits, State
<1>2. Noted(r, u, ActionOf(u, "delete", p, "orphan"))
  BY <1>1, RecordSound
<1>3. /\ RestSound(r) /\ Tidy(r) /\ r \in State /\ r.cand # NONE /\ r.sp = 0
      /\ r.cand.act = ActionOf(u, "delete", p, "orphan") /\ r.route = u.route
  BY <1>1, <1>2, RestRecorded DEF Noted, Tidy, Fits
<1>4. p \notin ToSet(u.route)
  BY <1>1, ToSetElements DEF InRoute, Contains
<1> HIDE DEF r
<1>5. /\ v.life = r.life /\ v.drawing = r.drawing /\ v.cand = r.cand
      /\ v.stack = r.stack /\ v.route = r.route /\ v \in State
  BY <1>3, OffType DEF Kept
<1>6. Len(v.stack) <= Depth /\ RestSound(v)
  BY <1>3, <1>5 DEF RestSound, Tidy, Fits
<1> HIDE DEF v
<1> DEFINE z == AfterUndoableAction(v)
<1>7. /\ z.route = v.route /\ z.drawing = v.drawing /\ z.stack[1] = v.cand.act
      /\ Len(z.stack) <= Len(v.stack) + 1 /\ z \in State
      /\ \A i \in 2 .. Len(z.stack) : z.stack[i] = v.stack[i - 1]
  BY <1>3, <1>5, <1>6, AfterType
<1>8. Len(z.stack) \in Nat /\ Len(v.stack) \in Nat
  BY <1>5, <1>7 DEF State
<1> HIDE DEF z
<1>9. ASSUME NEW i \in 1 .. Len(z.stack), ~z.drawing, z.stack[i].type # "move"
      PROVE  z.stack[i].point \notin ToSet(z.route)
  <2>1. CASE i = 1
    BY <1>3, <1>4, <1>5, <1>7, <2>1 DEF ActionOf
  <2>2. CASE i # 1
    <3>1. i \in 2 .. Len(z.stack) /\ i - 1 \in 1 .. Len(v.stack)
      BY <1>7, <1>8, <2>2
    <3> QED
      BY <1>6, <1>7, <1>9, <3>1 DEF RestSound
  <2> QED
    BY <2>1, <2>2
<1> QED
  BY <1>1, <1>9 DEF RestSound, z

LEMMA DragRest ==
  ASSUME IInv, RestSound(u), EndDrag \/ \E p \in Points : BeginDrag(p)
  PROVE  RestSound(u')
<1>1. CASE EndDrag
  BY <1>1, RestPushed DEF EndDrag, IInv, DragSound
<1>2. ASSUME NEW p \in Points, BeginDrag(p) PROVE RestSound(u')
  <2> DEFINE r == Record(u, "move", p, "copy")
  <2>1. Tidy(u) /\ u.cand = NONE /\ u' = [r EXCEPT !.pos[p] = 1 - @]
    BY <1>2 DEF IInv, BeginDrag
  <2>2. Noted(r, u, ActionOf(u, "move", p, "copy"))
    BY <2>1, RecordSound
  <2>3. RestSound(r) /\ r \in State
    BY <2>1, <2>2, RestRecorded DEF Noted, Tidy, Fits
  <2> HIDE DEF r
  <2>4. u'.stack = r.stack /\ u'.route = r.route /\ u'.drawing = r.drawing
    BY <2>1, <2>3 DEF State
  <2> QED
    BY <2>3, <2>4 DEF RestSound
<1> QED
  BY <1>1, <1>2

(* Undo and redo change the route only while it is drawn.                  *)
LEMMA UndoRedoRest ==
  ASSUME IInv, RestSound(u), Undo \/ Redo
  PROVE  RestSound(u')
<1>1. /\ u \in State /\ u.sp \in Nat /\ Len(u.stack) \in Nat /\ u.sp <= Len(u.stack)
      /\ AppendsSound(u)
  BY DEF IInv, Tidy, Fits, State
<1>2. CASE Undo
  <2> DEFINE a == u.stack[u.sp + 1]
  <2>1. u.sp < Len(u.stack) /\ u.sp + 1 \in 1 .. Len(u.stack) /\ u' = UndoLastAction(u)
    BY <1>1, <1>2 DEF Undo, AnythingToUndo
  <2>2. /\ SameActions(u', u) /\ u'.drawing = u.drawing
        /\ a.type # "append" => u'.route = u.route
    BY <1>1, <2>1, UndoType
  <2>3. ~u.drawing => a.type # "append"
    BY <1>1, <2>1 DEF AppendsSound
  <2> QED
    BY <2>2, <2>3 DEF SameActions, RestSound
<1>3. CASE Redo
  <2> DEFINE a == u.stack[u.sp]
  <2>1. u.sp > 0 /\ u.sp \in 1 .. Len(u.stack) /\ u' = RedoNextAction(u)
    BY <1>1, <1>3 DEF Redo, AnythingToRedo
  <2>2. /\ SameActions(u', u) /\ u'.drawing = u.drawing
        /\ a.type # "append" => u'.route = u.route
    BY <1>1, <2>1, RedoType
  <2>3. ~u.drawing => a.type # "append"
    BY <1>1, <2>1 DEF AppendsSound
  <2> QED
    BY <2>2, <2>3 DEF SameActions, RestSound
<1> QED
  BY <1>2, <1>3

LEMMA DrawingRest ==
  ASSUME IInv, NEW p \in Points,
         StartRoute(p) \/ AppendNew(p) \/ AppendExisting(p) \/ ContinueRoute
  PROVE  RestSound(u')
<1>1. u \in State /\ Fits(u)
  BY DEF IInv, Tidy, Fits
<1>2. CASE ContinueRoute
  BY <1>1, <1>2 DEF ContinueRoute, RestSound, State
<1>3. CASE StartRoute(p)
  <2> DEFINE d == IF p \in Unused THEN Made(u, p) ELSE [u EXCEPT !.shared = @ \cup {p}]
             v == AddPoint(d, p)
  <2>1. Fits(d)
    BY <1>1, MarkCallsFit
  <2>2. u' = [v EXCEPT !.drawing = TRUE]
    BY <1>3 DEF StartRoute
  <2> HIDE DEF d
  <2>3. v \in State
    BY <2>1, MarkCallsFit DEF Fits
  <2> HIDE DEF v
  <2>4. u'.drawing
    BY <2>2, <2>3 DEF State
  <2> QED
    BY <2>4 DEF RestSound
<1>4. ASSUME NEW w, Fits(w), w.drawing, w.cand = NONE,
             NEW own \in {"orphan", "copy", "parent"},
             u' = AfterUndoableAction(AddPoint(Record(w, "append", p, own), p))
      PROVE  RestSound(u')
  <2> DEFINE r == Record(w, "append", p, own)
             a == AddPoint(r, p)
  <2>1. Fits(r) /\ w \in State /\ w.sp <= Len(w.stack)
    BY <1>4, RecordFits DEF Fits
  <2>2. r.drawing
    <3>1. Recorded(r, w, ActionOf(w, "append", p, own))
      BY <2>1, RecordType
    <3>2. InvalidateRedo(w).drawing = w.drawing
      BY <2>1, InvalidateRedoType
    <3> QED
      BY <1>4, <3>1, <3>2 DEF Recorded
  <2> HIDE DEF r
  <2>3. Fits(a) /\ a.drawing
    BY <2>1, <2>2, MarkCallsFit, AddPointType DEF Fits
  <2> HIDE DEF a
  <2>4. AfterUndoableAction(a).drawing
    BY <2>3, AfterType DEF Fits
  <2> QED
    BY <1>4, <2>4 DEF RestSound, a, r
<1>5. CASE AppendNew(p)
  <2>1. Fits(Made(u, p)) /\ Made(u, p).drawing /\ Made(u, p).cand = NONE
    BY <1>1, <1>5, MarkCallsFit, MadeType DEF AppendNew
  <2> QED
    BY <1>4, <1>5, <2>1 DEF AppendNew
<1>6. CASE AppendExisting(p)
  <2> DEFINE d == [u EXCEPT !.shared = IF InRoute(u, p) THEN @ ELSE @ \cup {p}]
  <2>1. /\ Fits(d) /\ d.drawing /\ d.cand = NONE
    BY <1>1, <1>6 DEF AppendExisting, Fits, State
  <2>2. u' = AfterUndoableAction(AddPoint(Record(d, "append", p, "parent"), p))
    BY <1>6 DEF AppendExisting
  <2> HIDE DEF d
  <2> QED
    BY <1>4, <2>1, <2>2
<1> QED
  BY <1>2, <1>3, <1>5, <1>6

LEMMA RestStep ==
  ASSUME IInv, RestSound(u), Next
  PROVE  RestSound(u')
<1>1. ASSUME FinishRoute \/ DeleteRoute \/ \E q \in Points : EndDragOnto(q)
      PROVE  RestSound(u')
  <2>1. PICK w \in State : u' = InvalidateUndo(w)
    BY <1>1, EmptyingMeans
  <2>2. u'.stack = <<>>
    BY <2>1 DEF InvalidateUndo, State
  <2>3. \A i \in 1 .. Len(u'.stack) : FALSE
    BY <2>2
  <2> QED
    BY <2>3 DEF RestSound
<1>2. ASSUME ContinueRoute PROVE RestSound(u')
  BY <1>2 DEF ContinueRoute, RestSound, IInv, Tidy, Fits, State
<1> QED
  BY <1>1, <1>2, DropMarkRest, DeleteMarkRest, DragRest, UndoRedoRest, DrawingRest,
     MenuStep DEF Next

-----------------------------------------------------------------------------
(* The theorems *)

SInv == IInv /\ RestSound(u)

LEMMA Invariance ==
  ASSUME Plain
  PROVE  Spec => []SInv
<1>1. Init => SInv
  <2> SUFFICES ASSUME Init PROVE SInv
    OBVIOUS
  <2>1. /\ u.listed = {} /\ u.shown = {} /\ u.route = <<>> /\ u.stack = <<>>
        /\ u.sp = 0 /\ u.cand = NONE
    BY DEF Init
  <2>2. TypeOK
    <3>1. <<>> \in Seq(Points) /\ <<>> \in Seq(Action) /\ Len(<<>>) = 0
      OBVIOUS
    <3> QED
      BY <3>1, ConstantsAssumption DEF Init, TypeOK, State
  <2>3. Fits(u)
    BY <2>2 DEF Fits, TypeOK
  <2>4. ToSet(u.route) = {} /\ Once(u.route) /\ \A i \in 1 .. Len(u.stack) : FALSE
    BY <2>1 DEF ToSet, Once
  <2>5. ShownSound(u) /\ PointsSound(u) /\ AppendsSound(u) /\ UndoneSound(u)
    BY <2>1, <2>4 DEF ShownSound, PointsSound, AppendsSound, UndoneSound
  <2>6. RestSound(u)
    BY <2>4 DEF RestSound
  <2> QED
    BY <2>1, <2>3, <2>5, <2>6 DEF SInv, IInv, Tidy, DragSound
<1>2. ASSUME SInv, [Next]_vars PROVE SInv'
  <2>1. CASE UNCHANGED vars
    <3>1. u' = u
      BY <2>1 DEF vars
    <3> QED
      BY <1>2, <3>1 DEF SInv, IInv
  <2>2. CASE Next
    <3>1. IInv /\ RestSound(u)
      BY <1>2 DEF SInv
    <3>2. IInv'
      BY <2>2, <3>1, DropMarkStep, DeleteMarkStep, BeginDragStep, EndDragStep,
         EndDragOntoStep, UndoRedoStep, StartRouteStep, AppendNewStep,
         AppendExistingStep, ContinueRouteStep, EndRouteStep, MenuStep DEF Next
    <3>3. RestSound(u')
      BY <2>2, <3>1, RestStep
    <3> QED
      BY <3>2, <3>3 DEF SInv
  <2> QED
    BY <1>2, <2>1, <2>2
<1> QED
  BY <1>1, <1>2, PTL DEF Spec

(* What the stack frees is in use nowhere, for any points, any depth of    *)
(* the stack and any length of the route.                                  *)
THEOREM NothingShownIsFreed ==
  ASSUME Plain
  PROVE  Spec => []NoShownPointFreed
<1>1. SInv => NoShownPointFreed
  BY DEF SInv, IInv, Tidy, ShownSound, Live, NoShownPointFreed
<1> QED
  BY <1>1, Invariance, PTL

(* No point that undo or redo would put back, or the stack would free, has *)
(* been freed under it, whatever handler frees points: the only record     *)
(* that may name a freed point is that of a move.  For the same parameters,*)
(* with points deleted by the menu of a route, which tells the stack       *)
(* nothing.                                                                *)
THEOREM NothingFreedIsPutBack ==
  ASSUME Plain
  PROVE  Spec => []PutBackAlive
<1>1. ASSUME SInv PROVE PutBackAlive
  <2>1. \A i \in 1 .. Len(u.stack) : u.stack[i].type # "move" =>
          u.life[u.stack[i].point] = "live"
    BY <1>1 DEF SInv, IInv, Tidy, PointsSound, Sure, Live
  <2>2. u.cand # NONE => u.life[u.cand.act.point] = "live"
    BY <1>1 DEF SInv, IInv, DragSound, Live
  <2> QED
    BY <2>1, <2>2 DEF PutBackAlive
<1> QED
  BY <1>1, Invariance, PTL

-----------------------------------------------------------------------------
(* Undo and redo, each the inverse of the other *)

Places(w) == 1 .. Len(w.stack)

(* The creation of a point is the oldest action on it that the stack       *)
(* holds, its deletion the newest, and a point appended is not deleted.    *)
Ages(w) ==
  \A i, j \in Places(w) : i # j /\ w.stack[i].point = w.stack[j].point =>
    /\ w.stack[i].type = "create" => j < i
    /\ w.stack[i].type = "delete" => i < j /\ w.stack[j].type # "append"

IsOf(w, j, type, p) == w.stack[j].type = type /\ w.stack[j].point = p

Found(w, p)  == p \in w.listed /\ p \in w.shown
Hidden(w, p) == p \notin w.listed /\ (p \in w.shown => p \in ToSet(w.route))

Among(w, m, n, type, p) == \E j \in m .. n : IsOf(w, j, type, p)

(* A mark is there from its creation to its deletion, whichever of the two *)
(* have been undone.                                                       *)
CreateAt(w, i, p) ==
  /\ i <= w.sp => Hidden(w, p)
  /\ i > w.sp  => Found(w, p) \/ Among(w, w.sp + 1, i - 1, "delete", p)

DeleteAt(w, i, p) ==
  /\ ~w.drawing => p \notin ToSet(w.route)
  /\ i > w.sp  => Hidden(w, p)
  /\ i <= w.sp => Found(w, p) \/ Among(w, i + 1, w.sp, "create", p)

(* The end of the route is what has been appended, in the order of the     *)
(* stack.                                                                  *)
Behind(w, i, p) ==
  \E m \in 1 .. Len(w.route) :
    /\ w.route[m] = p
    /\ \A n \in m + 1 .. Len(w.route) :
         Among(w, w.sp + 1, i - 1, "append", w.route[n])

(* A point that an append put into the route is no isolated mark; one that *)
(* was there before is shared, and stays shown when it leaves the route.   *)
AppendAt(w, i, p) ==
  /\ ~NewAppend(w.stack[i]) => p \in w.shared
  /\ i > w.sp  => p \notin w.iso /\ Behind(w, i, p)
  /\ i <= w.sp =>
       /\ p \in w.iso
       /\ NewAppend(w.stack[i]) \/ p \in w.shown
            \/ Among(w, i + 1, w.sp, "create", p)

CreatesSound(w) ==
  \A i \in Places(w) : w.stack[i].type = "create" => CreateAt(w, i, w.stack[i].point)
DeletesSound(w) ==
  \A i \in Places(w) : w.stack[i].type = "delete" => DeleteAt(w, i, w.stack[i].point)
RouteSound(w) ==
  \A i \in Places(w) : w.stack[i].type = "append" => AppendAt(w, i, w.stack[i].point)

Reversible(w) == Ages(w) /\ CreatesSound(w) /\ DeletesSound(w) /\ RouteSound(w)

-----------------------------------------------------------------------------
(* What undo and redo leave, field by field *)

LEMMA StateEqual ==
  ASSUME NEW v \in State, NEW w \in State,
         v.life = w.life, v.listed = w.listed, v.shown = w.shown,
         v.iso = w.iso, v.shared = w.shared, v.pos = w.pos, v.route = w.route,
         v.drawing = w.drawing, v.stack = w.stack, v.sp = w.sp, v.cand = w.cand
  PROVE  v = w
BY DEF State

Common(v, w) == v \in State /\ v.life = w.life /\ v.drawing = w.drawing /\ v.cand = w.cand

Marked(v, w) ==
  /\ v.iso = w.iso /\ v.shared = w.shared /\ v.pos = w.pos
  /\ v.route = w.route /\ v.stack = w.stack

Hides(v, w, p) == v.listed = w.listed \ {p} /\ v.shown = w.shown \ {p}
Shows(v, w, p) == v.listed = w.listed \cup {p} /\ v.shown = w.shown \cup {p}

Swapped(v, w, k) ==
  LET p == w.stack[k].point IN
  /\ v.listed = w.listed /\ v.shown = w.shown /\ v.iso = w.iso
  /\ v.shared = w.shared /\ v.route = w.route
  /\ v.pos = [w.pos EXCEPT ![p] = w.stack[k].at]
  /\ v.stack = [w.stack EXCEPT ![k] = [w.stack[k] EXCEPT !.at = w.pos[p]]]

TakenOut(v, w, a) ==
  LET p == a.point
      rest == RemoveFirst(w.route, p) IN
  /\ v.stack = w.stack /\ v.pos = w.pos /\ v.shared = w.shared
  /\ v.route = rest
  /\ v.iso = IF p \in ToSet(rest) THEN w.iso ELSE w.iso \cup {p}
  /\ v.listed = IF a.own = "orphan" THEN w.listed \ {p} ELSE w.listed
  /\ v.shown = IF a.own = "orphan" THEN (w.shown \cup ToSet(rest)) \ {p}
                                   ELSE (w.shown \cup ToSet(rest)) \cup {p}

PutBack(v, w, a) ==
  LET p == a.point IN
  /\ v.stack = w.stack /\ v.pos = w.pos /\ v.listed = w.listed
  /\ v.route = Append(w.route, p) /\ v.iso = w.iso \ {p}
  /\ v.shared = IF p \in w.iso THEN w.shared \cup {p} ELSE w.shared
  /\ v.shown = IF a.own = "orphan" THEN w.shown \cup {p} ELSE w.shown

LEMMA MarkCallsLeave ==
  ASSUME NEW w \in State, NEW p \in Points
  PROVE  /\ Common(On(w, p), w) /\ Marked(On(w, p), w) /\ Shows(On(w, p), w, p)
         /\ On(w, p).sp = w.sp
         /\ Common(Off(w, p), w) /\ Marked(Off(w, p), w) /\ Hides(Off(w, p), w, p)
         /\ Off(w, p).sp = w.sp
<1>1. On(w, p) \in State /\ Off(w, p) \in State
  BY DEF On, Off, State
<1>2. Common(On(w, p), w) /\ Marked(On(w, p), w) /\ Shows(On(w, p), w, p)
      /\ On(w, p).sp = w.sp
  BY <1>1 DEF On, Common, Marked, Shows, State
<1>3. Common(Off(w, p), w) /\ Marked(Off(w, p), w) /\ Hides(Off(w, p), w, p)
      /\ Off(w, p).sp = w.sp
  BY <1>1 DEF Off, Common, Marked, Hides, State
<1> QED
  BY <1>2, <1>3

LEMMA SwapLeaves ==
  ASSUME NEW w \in State, NEW k \in Places(w)
  PROVE  LET v == Swap(w, k) IN Common(v, w) /\ Swapped(v, w, k) /\ v.sp = w.sp
<1>1. Common(Swap(w, k), w) /\ Swap(w, k).sp = w.sp
  BY SwapType DEF Places, Common, Kept
<1> DEFINE p  == w.stack[k].point
           ps == [w.pos EXCEPT ![p] = w.stack[k].at]
           t  == [w.stack EXCEPT ![k] = [w.stack[k] EXCEPT !.at = w.pos[p]]]
<1>2. Swap(w, k) = [w EXCEPT !.pos = ps, !.stack = t]
  BY DEF Swap, State
<1> HIDE DEF ps, t
<1>3. /\ Swap(w, k).pos = ps /\ Swap(w, k).stack = t
      /\ \A f \in {"listed", "shown", "iso", "shared", "route"} : Swap(w, k)[f] = w[f]
  BY <1>2 DEF State
<1> QED
  BY <1>1, <1>3 DEF Swapped, ps, t

LEMMA TakeOutLeaves ==
  ASSUME NEW w \in State, NEW a \in Action
  PROVE  LET v == TakeOut(w, a) IN Common(v, w) /\ TakenOut(v, w, a) /\ v.sp = w.sp
<1> DEFINE p == a.point
           rest == RemoveFirst(w.route, p)
           is == IF Contains(rest, p) THEN w.iso ELSE w.iso \cup {p}
           sh == w.shown \cup ToSet(rest)
           r == RemovePoint(w, p)
<1>1. p \in Points /\ w.route \in Seq(Points)
  BY DEF Action, State
<1>2. rest \in Seq(Points) /\ ToSet(rest) \subseteq Points
  BY <1>1, RemoveFirstElements, ToSetElements
<1>3. is \in SUBSET Points /\ sh \in SUBSET Points
  BY <1>1, <1>2 DEF State
<1>4. Contains(rest, p) <=> p \in ToSet(rest)
  BY <1>2, ToSetElements DEF Contains
<1>5. r = [w EXCEPT !.route = rest, !.shown = sh, !.iso = is]
  BY DEF RemovePoint, State
<1> HIDE DEF is, sh, rest
<1>6. /\ r \in State /\ r.route = rest /\ r.shown = sh /\ r.iso = is
      /\ \A f \in {"life", "listed", "shared", "pos", "drawing", "stack", "sp", "cand"} :
           r[f] = w[f]
  BY <1>2, <1>3, <1>5 DEF State
<1> HIDE DEF r
<1>7. TakeOut(w, a) = IF a.own = "orphan" THEN Off(r, p)
                      ELSE [r EXCEPT !.shown = @ \cup {p}]
  BY DEF TakeOut, r
<1>8. CASE a.own = "orphan"
  <2>1. TakeOut(w, a) = Off(r, p)
    BY <1>7, <1>8
  <2> DEFINE v == Off(r, p)
  <2>2. Common(v, r) /\ Marked(v, r) /\ Hides(v, r, p) /\ v.sp = r.sp
    BY <1>1, <1>6, MarkCallsLeave
  <2> HIDE DEF v
  <2>3. Common(v, w) /\ TakenOut(v, w, a) /\ v.sp = w.sp
    BY <1>4, <1>6, <1>8, <2>2 DEF Common, Marked, Hides, TakenOut, is, sh, rest
  <2> QED
    BY <2>1, <2>3 DEF v
<1>9. CASE a.own # "orphan"
  <2> DEFINE v == [r EXCEPT !.shown = @ \cup {p}]
  <2>1. TakeOut(w, a) = v
    BY <1>7, <1>9
  <2>2. /\ v \in State /\ v.shown = r.shown \cup {p}
        /\ \A f \in {"life", "listed", "iso", "shared", "pos", "route", "drawing",
                     "stack", "sp", "cand"} : v[f] = r[f]
    BY <1>1, <1>6 DEF State
  <2> HIDE DEF v
  <2>3. Common(v, w) /\ TakenOut(v, w, a) /\ v.sp = w.sp
    BY <1>4, <1>6, <1>9, <2>2 DEF Common, TakenOut, is, sh, rest
  <2> QED
    BY <2>1, <2>3 DEF v
<1> QED
  BY <1>8, <1>9

LEMMA RedoAppendLeaves ==
  ASSUME NEW w \in State, NEW a \in Action
  PROVE  LET v == RedoAppend(w, a) IN Common(v, w) /\ PutBack(v, w, a) /\ v.sp = w.sp
<1> DEFINE p == a.point
           sh == IF a.own = "orphan" THEN w.shown \cup {p} ELSE w.shown
           d == IF a.own = "orphan" THEN [w EXCEPT !.shown = @ \cup {p}] ELSE w
           sd == IF p \in w.iso THEN w.shared \cup {p} ELSE w.shared
           t == Append(w.route, p)
<1>1. p \in Points /\ t \in Seq(Points) /\ sd \in SUBSET Points
  BY DEF Action, State
<1>2. /\ d \in State /\ d.shown = sh
      /\ \A f \in {"life", "listed", "iso", "shared", "pos", "route", "drawing",
                   "stack", "sp", "cand"} : d[f] = w[f]
  BY <1>1 DEF State
<1> HIDE DEF d
<1>3. RedoAppend(w, a) = AddPoint(d, p)
  BY DEF RedoAppend, d
<1> DEFINE is == w.iso \ {p}
           v == [d EXCEPT !.route = t, !.iso = is, !.shared = sd]
<1>4. AddPoint(d, p) = v
  BY <1>2 DEF AddPoint, State
<1>5. is \in SUBSET Points
  BY DEF State
<1> HIDE DEF t, sd, is
<1>6. /\ v \in State /\ v.route = t /\ v.iso = is /\ v.shared = sd
      /\ \A f \in {"life", "listed", "shown", "pos", "drawing", "stack", "sp", "cand"} :
           v[f] = d[f]
  BY <1>1, <1>2, <1>5 DEF State
<1> HIDE DEF v
<1>7. Common(v, w) /\ PutBack(v, w, a) /\ v.sp = w.sp
  BY <1>2, <1>6 DEF Common, PutBack, t, sd, sh, is
<1> QED
  BY <1>3, <1>4, <1>7

(* What UndoLastAction leaves of w, for the action a at place k.           *)
UndoLeaves(v, w, k) ==
  LET a == w.stack[k] IN
  /\ Common(v, w) /\ v.sp = k
  /\ a.type = "create" => Marked(v, w) /\ Hides(v, w, a.point)
  /\ a.type = "delete" => Marked(v, w) /\ Shows(v, w, a.point)
  /\ a.type = "move"   => Swapped(v, w, k)
  /\ a.type = "append" => TakenOut(v, w, a)

RedoLeaves(v, w, k) ==
  LET a == w.stack[k] IN
  /\ Common(v, w) /\ v.sp = k - 1
  /\ a.type = "create" => Marked(v, w) /\ Shows(v, w, a.point)
  /\ a.type = "delete" => Marked(v, w) /\ Hides(v, w, a.point)
  /\ a.type = "move"   => Swapped(v, w, k)
  /\ a.type = "append" => PutBack(v, w, a)

(* The place of an action in the stack changes nothing else.               *)
LEMMA PlaceLeaves ==
  ASSUME NEW d \in State, NEW n \in Nat
  PROVE  LET v == [d EXCEPT !.sp = n] IN Common(v, d) /\ v.sp = n /\ Marked(v, d)
                                          /\ v.listed = d.listed /\ v.shown = d.shown
BY DEF State, Common, Marked

LEMMA UndoMeans ==
  ASSUME NEW w \in State, w.sp < Len(w.stack)
  PROVE  UndoLeaves(UndoLastAction(w), w, w.sp + 1)
<1> DEFINE k == w.sp + 1
           a == w.stack[k]
           d == CASE a.type = "create" -> Off(w, a.point)
                  [] a.type = "delete" -> On(w, a.point)
                  [] a.type = "move"   -> Swap(w, k)
                  [] OTHER -> TakeOut(w, a)
           v == [d EXCEPT !.sp = @ + 1]
<1>1. k \in Places(w) /\ a \in Action /\ a.point \in Points
      /\ a.type \in {"create", "delete", "move", "append"} /\ k \in Nat
  BY PlaceType DEF Places
<1>2. UndoLastAction(w) = v
  BY DEF UndoLastAction
<1> DEFINE Left(e) == /\ Common(e, w) /\ e.sp = w.sp
                      /\ a.type = "create" => Marked(e, w) /\ Hides(e, w, a.point)
                      /\ a.type = "delete" => Marked(e, w) /\ Shows(e, w, a.point)
                      /\ a.type = "move"   => Swapped(e, w, k)
                      /\ a.type = "append" => TakenOut(e, w, a)
<1>0. k = w.sp + 1
  OBVIOUS
<1> HIDE DEF k, a
<1>3. Left(d)
  <2>1. CASE a.type = "create"
    BY <1>1, <2>1, MarkCallsLeave
  <2>2. CASE a.type = "delete"
    BY <1>1, <2>2, MarkCallsLeave
  <2>3. CASE a.type = "move"
    BY <1>1, <2>3, SwapLeaves
  <2>4. CASE a.type = "append"
    BY <1>1, <2>4, TakeOutLeaves
  <2> QED
    BY <1>1, <2>1, <2>2, <2>3, <2>4
<1> HIDE DEF d
<1>4. d \in State /\ v = [d EXCEPT !.sp = k]
  BY <1>0, <1>3 DEF Common
<1>5. Common(v, d) /\ v.sp = k /\ Marked(v, d) /\ v.listed = d.listed /\ v.shown = d.shown
  BY <1>1, <1>4, PlaceLeaves
<1> HIDE DEF v
<1>6. UndoLeaves(v, w, k)
  BY <1>3, <1>5 DEF UndoLeaves, Common, Marked, Hides, Shows, Swapped, TakenOut, a
<1> QED
  BY <1>2, <1>6 DEF k

LEMMA RedoMeans ==
  ASSUME NEW w \in State, w.sp > 0, w.sp <= Len(w.stack)
  PROVE  RedoLeaves(RedoNextAction(w), w, w.sp)
<1> DEFINE k == w.sp
           a == w.stack[k]
           d == CASE a.type = "create" -> On(w, a.point)
                  [] a.type = "delete" -> Off(w, a.point)
                  [] a.type = "move"   -> Swap(w, k)
                  [] OTHER -> RedoAppend(w, a)
           v == [d EXCEPT !.sp = @ - 1]
<1>1. k \in Places(w) /\ a \in Action /\ a.point \in Points
      /\ a.type \in {"create", "delete", "move", "append"} /\ k - 1 \in Nat
  BY PlaceType DEF Places, State
<1>2. RedoNextAction(w) = v
  BY DEF RedoNextAction
<1> DEFINE Left(e) == /\ Common(e, w) /\ e.sp = w.sp
                      /\ a.type = "create" => Marked(e, w) /\ Shows(e, w, a.point)
                      /\ a.type = "delete" => Marked(e, w) /\ Hides(e, w, a.point)
                      /\ a.type = "move"   => Swapped(e, w, k)
                      /\ a.type = "append" => PutBack(e, w, a)
<1>0. k = w.sp
  OBVIOUS
<1> HIDE DEF k, a
<1>3. Left(d)
  <2>1. CASE a.type = "create"
    BY <1>1, <2>1, MarkCallsLeave
  <2>2. CASE a.type = "delete"
    BY <1>1, <2>2, MarkCallsLeave
  <2>3. CASE a.type = "move"
    BY <1>1, <2>3, SwapLeaves
  <2>4. CASE a.type = "append"
    BY <1>1, <2>4, RedoAppendLeaves
  <2> QED
    BY <1>1, <2>1, <2>2, <2>3, <2>4
<1> HIDE DEF d
<1>4. d \in State /\ v = [d EXCEPT !.sp = k - 1]
  BY <1>0, <1>3 DEF Common
<1>5. Common(v, d) /\ v.sp = k - 1 /\ Marked(v, d) /\ v.listed = d.listed /\ v.shown = d.shown
  BY <1>1, <1>4, PlaceLeaves
<1> HIDE DEF v
<1>6. RedoLeaves(v, w, k)
  BY <1>3, <1>5 DEF RedoLeaves, Common, Marked, Hides, Shows, Swapped, PutBack, a
<1> QED
  BY <1>2, <1>6 DEF k

-----------------------------------------------------------------------------
(* One is the other's inverse *)

LEMMA FirstRemoved ==
  ASSUME NEW S, NEW s \in Seq(S), NEW p \in ToSet(s)
  PROVE  RemoveFirst(s, p) = SubSeq(s, 1, IndexOf(s, p) - 1)
                               \o SubSeq(s, IndexOf(s, p) + 1, Len(s))
BY ToSetElements DEF RemoveFirst, RemoveAt, IndexOf

(* Removing the last element of a sequence that has it once.               *)
LEMMA RemoveLast ==
  ASSUME NEW S, NEW s \in Seq(S), Once(s), NEW n \in Nat, Len(s) = n + 1
  PROVE  LET t == RemoveFirst(s, s[n + 1]) IN
         /\ t \in Seq(S) /\ Len(t) = n
         /\ \A i \in 1 .. n : t[i] = s[i]
<1> DEFINE p == s[n + 1]
           k == IndexOf(s, p)
           t == RemoveFirst(s, p)
<1>1. p \in ToSet(s)
  <2>1. n + 1 \in 1 .. Len(s)
    OBVIOUS
  <2> QED
    BY <2>1, ToSetElements
<1>2. k = n + 1
  <2>1. k \in 1 .. Len(s) /\ s[k] = s[n + 1]
    BY <1>1, IndexOfElement
  <2>2. n + 1 \in 1 .. Len(s)
    OBVIOUS
  <2> HIDE DEF k
  <2> QED
    BY <2>1, <2>2 DEF Once
<1>3. t = SubSeq(s, 1, k - 1) \o SubSeq(s, k + 1, Len(s))
  BY <1>1, FirstRemoved
<1>4. t = SubSeq(s, 1, n) \o SubSeq(s, n + 2, n + 1)
  <2>1. k - 1 = n /\ k + 1 = n + 2
    BY <1>2
  <2> QED
    BY <1>3, <2>1
<1>5. SubSeq(s, n + 2, n + 1) = <<>>
  OBVIOUS
<1> DEFINE f == SubSeq(s, 1, n)
<1>6. f \in Seq(S) /\ Len(f) = n /\ \A i \in 1 .. n : f[i] = s[i]
  OBVIOUS
<1> HIDE DEF f, t, k
<1>7. t = f
  BY <1>4, <1>5, <1>6 DEF f
<1> QED
  BY <1>6, <1>7 DEF t

(* What Append adds is what RemoveFirst takes away, and the reverse.       *)
LEMMA RemoveAppended ==
  ASSUME NEW S, NEW s \in Seq(S), NEW p \in S, Once(s), p \notin ToSet(s)
  PROVE  RemoveFirst(Append(s, p), p) = s
<1> DEFINE t == Append(s, p)
           n == Len(s)
           r == RemoveFirst(t, t[n + 1])
<1>1. /\ n \in Nat /\ t \in Seq(S) /\ Len(t) = n + 1 /\ t[n + 1] = p
      /\ \A i \in 1 .. n : t[i] = s[i]
  OBVIOUS
<1>2. Once(t)
  BY AppendOnce
<1> HIDE DEF t
<1>3. r \in Seq(S) /\ Len(r) = n /\ \A i \in 1 .. n : r[i] = t[i]
  BY <1>1, <1>2, RemoveLast
<1>4. r = RemoveFirst(t, p)
  BY <1>1
<1> HIDE DEF r
<1>5. r = s
  BY <1>1, <1>3, SeqEqual
<1> QED
  BY <1>4, <1>5 DEF t

LEMMA AppendRemoved ==
  ASSUME NEW S, NEW s \in Seq(S), Once(s), NEW n \in Nat, Len(s) = n + 1
  PROVE  /\ Append(RemoveFirst(s, s[n + 1]), s[n + 1]) = s
         /\ ToSet(RemoveFirst(s, s[n + 1])) = ToSet(s) \ {s[n + 1]}
<1> DEFINE p == s[n + 1]
           r == RemoveFirst(s, p)
           t == Append(r, p)
<1>1. p \in S
  OBVIOUS
<1>2. r \in Seq(S) /\ Len(r) = n /\ \A i \in 1 .. n : r[i] = s[i]
  BY RemoveLast
<1>3. ToSet(r) = ToSet(s) \ {p}
  <2>1. /\ ToSet(r) \subseteq ToSet(s) /\ ToSet(s) \ {p} \subseteq ToSet(r)
        /\ p \notin ToSet(r)
    BY RemoveFirstElements
  <2> QED
    BY <2>1
<1> HIDE DEF r
<1>4. /\ t \in Seq(S) /\ Len(t) = n + 1
      /\ \A i \in 1 .. n + 1 : t[i] = IF i <= n THEN r[i] ELSE p
  BY <1>1, <1>2
<1> HIDE DEF t
<1>5. \A i \in 1 .. n + 1 : t[i] = s[i]
  <2> SUFFICES ASSUME NEW i \in 1 .. n + 1 PROVE t[i] = s[i]
    OBVIOUS
  <2>1. CASE i <= n
    BY <1>2, <1>4, <2>1
  <2>2. CASE ~(i <= n)
    <3>1. i = n + 1
      BY <2>2
    <3> QED
      BY <1>4, <2>2, <3>1
  <2> QED
    BY <2>1, <2>2
<1>6. t = s
  BY <1>4, <1>5, SeqEqual
<1> QED
  BY <1>3, <1>6 DEF t, r

LEMMA ButEqual ==
  ASSUME NEW v \in State, NEW w \in State, NEW ps,
         v.life = w.life, v.iso = w.iso, v.pos = w.pos, v.route = w.route,
         v.drawing = w.drawing, v.stack = w.stack, v.sp = w.sp, v.cand = w.cand,
         v.listed \ ps = w.listed \ ps, v.shared \ ps = w.shared \ ps,
         v.shown \cup ToSet(v.route) = w.shown \cup ToSet(w.route)
  PROVE  But(v, ps) = But(w, ps)
<1>1. ASSUME NEW x \in State
      PROVE  /\ But(x, ps) \in State
             /\ But(x, ps).listed = x.listed \ ps
             /\ But(x, ps).shared = x.shared \ ps
             /\ But(x, ps).shown = x.shown \cup ToSet(x.route)
             /\ \A f \in {"life", "iso", "pos", "route", "drawing", "stack", "sp",
                          "cand"} : But(x, ps)[f] = x[f]
  <2> DEFINE li == x.listed \ ps
             sd == x.shared \ ps
             sh == x.shown \cup ToSet(x.route)
  <2>1. x.route \in Seq(Points)
    BY DEF State
  <2>2. ToSet(x.route) \subseteq Points
    BY <2>1, ToSetElements
  <2>3. li \in SUBSET Points /\ sd \in SUBSET Points /\ sh \in SUBSET Points
    BY <2>2 DEF State
  <2>4. But(x, ps) = [x EXCEPT !.listed = li, !.shared = sd, !.shown = sh]
    BY DEF But, State
  <2> HIDE DEF li, sd, sh
  <2>5. /\ But(x, ps) \in State /\ But(x, ps).listed = li
        /\ But(x, ps).shared = sd /\ But(x, ps).shown = sh
        /\ \A f \in {"life", "iso", "pos", "route", "drawing", "stack", "sp",
                     "cand"} : But(x, ps)[f] = x[f]
    BY <2>3, <2>4 DEF State
  <2> QED
    BY <2>5 DEF li, sd, sh
<1> DEFINE a == But(v, ps)  b == But(w, ps)
<1>2. a \in State /\ b \in State
  BY <1>1
<1>3. /\ a.life = b.life /\ a.listed = b.listed /\ a.shown = b.shown
      /\ a.iso = b.iso /\ a.shared = b.shared /\ a.pos = b.pos
      /\ a.route = b.route /\ a.drawing = b.drawing /\ a.stack = b.stack
      /\ a.sp = b.sp /\ a.cand = b.cand
  <2>1. /\ a.listed = b.listed /\ a.shared = b.shared /\ a.shown = b.shown
    BY <1>1
  <2>2. \A f \in {"life", "iso", "pos", "route", "drawing", "stack", "sp", "cand"} :
          a[f] = v[f] /\ b[f] = w[f]
    BY <1>1
  <2> HIDE DEF a, b
  <2> QED
    BY <2>1, <2>2
<1> HIDE DEF a, b
<1>4. a = b
  BY <1>2, <1>3, StateEqual
<1> QED
  BY <1>4 DEF a, b

(* Swapping twice puts back the position and the action.                   *)
LEMMA SwappedBack ==
  ASSUME NEW w \in State, NEW v \in State, NEW z, NEW k \in Places(w),
         Swapped(v, w, k), Swapped(z, v, k)
  PROVE  z.pos = w.pos /\ z.stack = w.stack
<1> DEFINE a == w.stack[k]
           p == a.point
           b == [a EXCEPT !.at = w.pos[p]]
<1>1. /\ w.stack \in Seq(Action) /\ w.pos \in [Points -> 0 .. 1]
      /\ a \in Action /\ p \in Points
  <2>1. w.stack \in Seq(Action) /\ w.pos \in [Points -> 0 .. 1]
    BY DEF State
  <2>2. a \in Action
    BY <2>1 DEF Places
  <2> QED
    BY <2>1, <2>2 DEF Action
<1> HIDE DEF a
<1>2. b \in Action /\ b.point = p /\ b.at = w.pos[p] /\ [b EXCEPT !.at = a.at] = a
  BY <1>1 DEF Action
<1> HIDE DEF b
<1>3. v.pos = [w.pos EXCEPT ![p] = a.at] /\ v.stack = [w.stack EXCEPT ![k] = b]
  BY DEF Swapped, a, b
<1>4. v.stack[k] = b /\ v.pos[p] = a.at
  BY <1>1, <1>3 DEF Places
<1>5. z.pos = [v.pos EXCEPT ![p] = w.pos[p]] /\ z.stack = [v.stack EXCEPT ![k] = a]
  BY <1>2, <1>4 DEF Swapped
<1>6. z.pos = w.pos
  BY <1>1, <1>3, <1>5
<1>7. z.stack = w.stack
  BY <1>1, <1>3, <1>5 DEF a, Places
<1> QED
  BY <1>6, <1>7

(* In a tidy state whose stack is reversible, the next action to undo is   *)
(* undone and redone, and the next to redo redone and undone, for nothing. *)
LEMMA UndoneAndRedone ==
  ASSUME NEW w, Tidy(w), Reversible(w), AnythingToUndo(w)
  PROVE  LET ps == NewIn(w.stack[w.sp + 1]) IN
         But(RedoNextAction(UndoLastAction(w)), ps) = But(w, ps)
<1> DEFINE k == w.sp + 1
           a == w.stack[k]
           p == a.point
           ps == NewIn(a)
           v == UndoLastAction(w)
           z == RedoNextAction(v)
<1>1. /\ w \in State /\ w.sp \in Nat /\ Len(w.stack) \in Nat /\ w.sp < Len(w.stack)
      /\ k \in Places(w) /\ k > w.sp /\ k \in Nat /\ k - 1 = w.sp
      /\ a.type \in {"create", "delete", "move", "append"}
  <2>1. w \in State /\ w.sp \in Nat /\ Len(w.stack) \in Nat /\ w.sp < Len(w.stack)
    BY DEF Tidy, Fits, State, AnythingToUndo
  <2> QED
    BY <2>1, PlaceType DEF Places
<1>2. UndoLeaves(v, w, k)
  BY <1>1, UndoMeans
<1>0. k = w.sp + 1
  OBVIOUS
<1> HIDE DEF k, v
<1>3. v \in State /\ v.sp = k /\ Len(v.stack) = Len(w.stack)
  <2>1. v.sp = k /\ Common(v, w)
    BY <1>2 DEF UndoLeaves
  <2>2. SameActions(v, w)
    BY <1>1, UndoType DEF v
  <2> QED
    BY <2>1, <2>2 DEF Common, SameActions
<1>4. RedoLeaves(z, v, k)
  BY <1>1, <1>3, RedoMeans DEF Places
<1> HIDE DEF z
<1>5. /\ z \in State /\ z.life = w.life /\ z.drawing = w.drawing /\ z.cand = w.cand
      /\ z.sp = w.sp
  BY <1>1, <1>2, <1>4 DEF UndoLeaves, RedoLeaves, Common
<1>6. w.route \in Seq(Points) /\ Once(w.route)
  BY <1>1 DEF State, Tidy, ShownSound
<1>7. CASE a.type = "create"
  <2>1. /\ Marked(v, w) /\ Hides(v, w, p) /\ v.stack[k] = a
        /\ Marked(z, v) /\ Shows(z, v, p)
    BY <1>2, <1>4, <1>7 DEF UndoLeaves, RedoLeaves, Marked
  <2>2. Found(w, p)
    <3>1. \A j : j \notin w.sp + 1 .. k - 1
      BY <1>1
    <3> QED
      BY <1>1, <1>7, <3>1 DEF Reversible, CreatesSound, CreateAt, Among
  <2>3. z.listed = w.listed /\ z.shown = w.shown
    BY <2>1, <2>2 DEF Hides, Shows, Found
  <2> QED
    BY <1>1, <1>5, <2>1, <2>3, ButEqual DEF Marked, k, z, v
<1>8. CASE a.type = "delete"
  <2>1. /\ Marked(v, w) /\ Shows(v, w, p) /\ v.stack[k] = a
        /\ Marked(z, v) /\ Hides(z, v, p)
    BY <1>2, <1>4, <1>8 DEF UndoLeaves, RedoLeaves, Marked
  <2>2. Hidden(w, p)
    BY <1>1, <1>8 DEF Reversible, DeletesSound, DeleteAt, Among
  <2>3. /\ z.listed = w.listed
        /\ z.shown \cup ToSet(w.route) = w.shown \cup ToSet(w.route)
    BY <2>1, <2>2 DEF Hides, Shows, Hidden
  <2>4. z.route = w.route /\ Marked(z, w)
    BY <2>1 DEF Marked
  <2> QED
    BY <1>1, <1>5, <2>3, <2>4, ButEqual DEF Marked, k, z, v
<1>9. CASE a.type = "move"
  <2>1. Swapped(v, w, k)
    BY <1>2, <1>9 DEF UndoLeaves
  <2>2. v.stack[k].type = "move"
    <3>1. SameActions(v, w)
      BY <1>1, UndoType DEF v
    <3> QED
      BY <1>1, <1>9, <3>1 DEF SameActions, Places
  <2>3. Swapped(z, v, k)
    BY <1>4, <2>2 DEF RedoLeaves
  <2>4. z.pos = w.pos /\ z.stack = w.stack
    BY <1>1, <1>3, <2>1, <2>3, SwappedBack
  <2>5. /\ z.listed = w.listed /\ z.shown = w.shown /\ z.iso = w.iso
        /\ z.shared = w.shared /\ z.route = w.route
    BY <2>1, <2>3 DEF Swapped
  <2> QED
    BY <1>1, <1>5, <2>4, <2>5, ButEqual DEF k, z, v
<1>10. CASE a.type = "append"
  <2> DEFINE rest == RemoveFirst(w.route, p)
  <2>1. TakenOut(v, w, a) /\ v.stack[k] = a /\ PutBack(z, v, a)
    BY <1>2, <1>4, <1>10 DEF UndoLeaves, RedoLeaves, TakenOut
  <2>2. PICK m \in 1 .. Len(w.route) :
          /\ w.route[m] = p
          /\ \A n \in m + 1 .. Len(w.route) :
               Among(w, w.sp + 1, k - 1, "append", w.route[n])
    BY <1>1, <1>10 DEF Reversible, RouteSound, AppendAt, Behind
  <2>3. p \notin w.iso /\ (~NewAppend(a) => p \in w.shared)
    BY <1>1, <1>10 DEF Reversible, RouteSound, AppendAt, Among
  <2>4. m = Len(w.route)
    <3>1. \A j : j \notin w.sp + 1 .. k - 1
      BY <1>1
    <3>2. Len(w.route) \notin m + 1 .. Len(w.route)
      BY <2>2, <3>1 DEF Among
    <3> QED
      BY <1>6, <3>2
  <2>5. Append(rest, p) = w.route /\ ToSet(rest) = ToSet(w.route) \ {p}
    <3> DEFINE n == m - 1
    <3>1. n \in Nat /\ Len(w.route) = n + 1 /\ w.route[n + 1] = p
      BY <2>2, <2>4
    <3> HIDE DEF n, p
    <3>2. /\ Append(RemoveFirst(w.route, w.route[n + 1]), w.route[n + 1]) = w.route
          /\ ToSet(RemoveFirst(w.route, w.route[n + 1])) = ToSet(w.route) \ {w.route[n + 1]}
      BY <1>6, <3>1, AppendRemoved
    <3> QED
      BY <3>1, <3>2
  <2>6. p \in ToSet(w.route)
    BY <1>6, <2>2, ToSetElements
  <2> HIDE DEF rest
  <2>7. z.route = w.route /\ z.pos = w.pos /\ z.stack = w.stack
    BY <2>1, <2>5 DEF TakenOut, PutBack, rest
  <2>8. v.iso = w.iso \cup {p} /\ z.iso = w.iso
    BY <2>1, <2>3, <2>5 DEF TakenOut, PutBack, rest
  <2>9. z.shared \ ps = w.shared \ ps
    BY <2>1, <2>3, <2>8, <1>10 DEF TakenOut, PutBack, NewIn, NewAppend
  <2>10. z.listed \ ps = w.listed \ ps
    BY <2>1, <1>10 DEF TakenOut, PutBack, NewIn
  <2>11. z.shown \cup ToSet(w.route) = w.shown \cup ToSet(w.route)
    <3>1. CASE a.own = "orphan"
      <4>1. /\ v.shown = (w.shown \cup ToSet(rest)) \ {p}
            /\ z.shown = v.shown \cup {p}
        BY <2>1, <3>1 DEF TakenOut, PutBack, rest
      <4> QED
        BY <2>5, <2>6, <4>1
    <3>2. CASE a.own # "orphan"
      <4>1. /\ v.shown = (w.shown \cup ToSet(rest)) \cup {p} /\ z.shown = v.shown
        BY <2>1, <3>2 DEF TakenOut, PutBack, rest
      <4> QED
        BY <2>5, <2>6, <4>1
    <3> QED
      BY <3>1, <3>2
  <2> HIDE DEF ps
  <2>12. But(z, ps) = But(w, ps)
    BY <1>1, <1>5, <2>7, <2>8, <2>9, <2>10, <2>11, ButEqual
  <2> QED
    BY <2>12 DEF ps, k, z, v
<1> QED
  BY <1>1, <1>7, <1>8, <1>9, <1>10

LEMMA RedoneAndUndone ==
  ASSUME NEW w, Tidy(w), Reversible(w), AnythingToRedo(w)
  PROVE  LET ps == NewIn(w.stack[w.sp]) IN
         But(UndoLastAction(RedoNextAction(w)), ps) = But(w, ps)
<1> DEFINE k == w.sp
           a == w.stack[k]
           p == a.point
           ps == NewIn(a)
           v == RedoNextAction(w)
           z == UndoLastAction(v)
<1>1. /\ w \in State /\ w.sp \in Nat /\ Len(w.stack) \in Nat
      /\ w.sp > 0 /\ w.sp <= Len(w.stack)
      /\ k \in Places(w) /\ ~(k > w.sp) /\ k <= w.sp /\ (k - 1) + 1 = k /\ k - 1 < Len(w.stack)
      /\ a.type \in {"create", "delete", "move", "append"}
  <2>1. /\ w \in State /\ w.sp \in Nat /\ Len(w.stack) \in Nat
        /\ w.sp > 0 /\ w.sp <= Len(w.stack)
    BY DEF Tidy, Fits, State, AnythingToRedo
  <2> QED
    BY <2>1, PlaceType DEF Places
<1>2. RedoLeaves(v, w, k)
  BY <1>1, RedoMeans
<1>0. k = w.sp
  OBVIOUS
<1> HIDE DEF k, v
<1>3. v \in State /\ v.sp = k - 1 /\ Len(v.stack) = Len(w.stack)
  <2>1. v.sp = k - 1 /\ Common(v, w)
    BY <1>2 DEF RedoLeaves
  <2>2. SameActions(v, w)
    BY <1>1, RedoType DEF v
  <2> QED
    BY <2>1, <2>2 DEF Common, SameActions
<1>4. UndoLeaves(z, v, k)
  <2>1. UndoLeaves(z, v, v.sp + 1)
    BY <1>1, <1>3, UndoMeans
  <2> QED
    BY <1>1, <1>3, <2>1
<1> HIDE DEF z
<1>5. /\ z \in State /\ z.life = w.life /\ z.drawing = w.drawing /\ z.cand = w.cand
      /\ z.sp = w.sp
  BY <1>0, <1>2, <1>4 DEF UndoLeaves, RedoLeaves, Common
<1>6. w.route \in Seq(Points) /\ Once(w.route)
  BY <1>1 DEF State, Tidy, ShownSound
<1>7. CASE a.type = "create"
  <2>1. /\ Marked(v, w) /\ Shows(v, w, p) /\ v.stack[k] = a
        /\ Marked(z, v) /\ Hides(z, v, p)
    BY <1>2, <1>4, <1>7 DEF UndoLeaves, RedoLeaves, Marked
  <2>2. Hidden(w, p)
    BY <1>1, <1>7 DEF Reversible, CreatesSound, CreateAt, Among
  <2>3. /\ z.listed = w.listed
        /\ z.shown \cup ToSet(w.route) = w.shown \cup ToSet(w.route)
    BY <2>1, <2>2 DEF Hides, Shows, Hidden
  <2>4. z.route = w.route /\ Marked(z, w)
    BY <2>1 DEF Marked
  <2> QED
    BY <1>1, <1>5, <2>3, <2>4, ButEqual DEF Marked, k, z, v
<1>8. CASE a.type = "delete"
  <2>1. /\ Marked(v, w) /\ Hides(v, w, p) /\ v.stack[k] = a
        /\ Marked(z, v) /\ Shows(z, v, p)
    BY <1>2, <1>4, <1>8 DEF UndoLeaves, RedoLeaves, Marked
  <2>2. Found(w, p)
    <3>1. \A j : j \notin k + 1 .. w.sp
      BY <1>0, <1>1
    <3> QED
      BY <1>1, <1>8, <3>1 DEF Reversible, DeletesSound, DeleteAt, Among
  <2>3. z.listed = w.listed /\ z.shown = w.shown
    BY <2>1, <2>2 DEF Hides, Shows, Found
  <2> QED
    BY <1>1, <1>5, <2>1, <2>3, ButEqual DEF Marked, k, z, v
<1>9. CASE a.type = "move"
  <2>1. Swapped(v, w, k)
    BY <1>2, <1>9 DEF RedoLeaves
  <2>2. v.stack[k].type = "move"
    <3>1. SameActions(v, w)
      BY <1>1, RedoType DEF v
    <3> QED
      BY <1>1, <1>9, <3>1 DEF SameActions, Places
  <2>3. Swapped(z, v, k)
    BY <1>4, <2>2 DEF UndoLeaves
  <2>4. z.pos = w.pos /\ z.stack = w.stack
    BY <1>1, <1>3, <2>1, <2>3, SwappedBack
  <2>5. /\ z.listed = w.listed /\ z.shown = w.shown /\ z.iso = w.iso
        /\ z.shared = w.shared /\ z.route = w.route
    BY <2>1, <2>3 DEF Swapped
  <2> QED
    BY <1>1, <1>5, <2>4, <2>5, ButEqual DEF k, z, v
<1>10. CASE a.type = "append"
  <2> DEFINE rest == RemoveFirst(v.route, p)
  <2>1. PutBack(v, w, a) /\ v.stack[k] = a /\ TakenOut(z, v, a)
    BY <1>2, <1>4, <1>10 DEF UndoLeaves, RedoLeaves, PutBack
  <2>2. p \notin ToSet(w.route) /\ p \in Points
    <3>1. p \notin ToSet(w.route)
      BY <1>1, <1>10 DEF Tidy, AppendsSound, Places
    <3>2. p \in Points
      BY <1>1 DEF Tidy, PointsSound, Sure, Named, Places
    <3> QED
      BY <3>1, <3>2
  <2>3. p \in w.iso /\ (~NewAppend(a) => p \in w.shared /\ p \in w.shown)
    <3>1. \A j : j \notin k + 1 .. w.sp
      BY <1>0, <1>1
    <3> QED
      BY <1>1, <1>10, <3>1 DEF Reversible, RouteSound, AppendAt, Among
  <2>4. NewAppend(a) => p \notin w.shown
    BY <1>1 DEF Tidy, UndoneSound, Places
  <2>5. rest = w.route
    <3>1. v.route = Append(w.route, p)
      BY <2>1 DEF PutBack
    <3> QED
      BY <1>6, <2>2, <3>1, RemoveAppended
  <2> HIDE DEF rest
  <2>6. z.route = w.route /\ z.pos = w.pos /\ z.stack = w.stack
    BY <2>1, <2>5 DEF TakenOut, PutBack, rest
  <2>7. z.iso = w.iso
    <3>1. z.iso = v.iso \cup {p} /\ v.iso = w.iso \ {p}
      BY <2>1, <2>2, <2>5 DEF TakenOut, PutBack, rest
    <3> QED
      BY <2>3, <3>1
  <2>8. z.shared \ ps = w.shared \ ps
    BY <2>1, <2>3, <1>10 DEF TakenOut, PutBack, NewIn, NewAppend
  <2>9. z.listed \ ps = w.listed \ ps
    BY <2>1, <1>10 DEF TakenOut, PutBack, NewIn
  <2>10. z.shown \cup ToSet(w.route) = w.shown \cup ToSet(w.route)
    <3>1. CASE a.own = "orphan"
      <4>1. /\ v.shown = w.shown \cup {p}
            /\ z.shown = (v.shown \cup ToSet(rest)) \ {p} /\ p \notin w.shown
        BY <2>1, <2>4, <3>1, <1>10 DEF TakenOut, PutBack, rest, NewAppend
      <4> QED
        BY <2>2, <2>5, <4>1
    <3>2. CASE a.own # "orphan"
      <4>1. /\ v.shown = w.shown /\ p \in w.shown
            /\ z.shown = (v.shown \cup ToSet(rest)) \cup {p}
        BY <2>1, <2>3, <3>2 DEF TakenOut, PutBack, rest, NewAppend
      <4> QED
        BY <2>5, <4>1
    <3> QED
      BY <3>1, <3>2
  <2> HIDE DEF ps
  <2>11. But(z, ps) = But(w, ps)
    BY <1>1, <1>5, <2>6, <2>7, <2>8, <2>9, <2>10, ButEqual
  <2> QED
    BY <2>11 DEF ps, k, z, v
<1> QED
  BY <1>1, <1>7, <1>8, <1>9, <1>10

LEMMA ReversibleInverts ==
  ASSUME Tidy(u), Reversible(u)
  PROVE  UndoRedoInverse
<1>1. ASSUME AnythingToUndo(u)
      PROVE  But(RedoNextAction(UndoLastAction(u)), NewIn(u.stack[u.sp + 1]))
               = But(u, NewIn(u.stack[u.sp + 1]))
  BY <1>1, UndoneAndRedone
<1>2. ASSUME AnythingToRedo(u)
      PROVE  But(UndoLastAction(RedoNextAction(u)), NewIn(u.stack[u.sp]))
               = But(u, NewIn(u.stack[u.sp]))
  BY <1>2, RedoneAndUndone
<1> QED
  BY <1>1, <1>2 DEF UndoRedoInverse

-----------------------------------------------------------------------------
(* The stack stays reversible under what the handlers call *)

LEMMA AgesFollow ==
  ASSUME NEW v, NEW w, SameActions(v, w), Ages(w)
  PROVE  Ages(v)
BY DEF SameActions, Ages, Places

LEMMA PlacesType ==
  ASSUME NEW w, Tidy(w)
  PROVE  /\ w \in State /\ w.sp \in Nat /\ Len(w.stack) \in Nat /\ w.sp <= Len(w.stack)
         /\ w.route \in Seq(Points) /\ Len(w.route) \in Nat
BY DEF Tidy, Fits, State

(* Nothing happens to the points of the stack, but for their positions.    *)
LEMMA OthersChange ==
  ASSUME NEW w, Tidy(w), Reversible(w), NEW v, SameActions(v, w), v.sp = w.sp,
         v.route = w.route, v.drawing = w.drawing, w.shared \subseteq v.shared,
         \A i \in Places(w) : LET p == w.stack[i].point IN
           /\ p \in v.listed <=> p \in w.listed
           /\ p \in v.shown <=> p \in w.shown
           /\ p \in v.iso <=> p \in w.iso
  PROVE  Reversible(v)
<1>1. Ages(v)
  BY AgesFollow DEF Reversible
<1>2. Places(v) = Places(w)
  BY DEF SameActions, Places
<1>3. w.sp \in Nat /\ Len(w.stack) \in Nat /\ w.sp <= Len(w.stack)
  BY PlacesType
<1>4. \A j \in Places(w) : \A type, p : IsOf(v, j, type, p) <=> IsOf(w, j, type, p)
  BY DEF SameActions, IsOf, Places
<1>5. \A i \in Places(w) : \A type, p :
        /\ Among(w, w.sp + 1, i - 1, type, p) => Among(v, v.sp + 1, i - 1, type, p)
        /\ Among(w, i + 1, w.sp, type, p) => Among(v, i + 1, v.sp, type, p)
  <2> SUFFICES ASSUME NEW i \in Places(w), NEW type, NEW p
               PROVE  /\ Among(w, w.sp + 1, i - 1, type, p)
                           => Among(v, v.sp + 1, i - 1, type, p)
                      /\ Among(w, i + 1, w.sp, type, p) => Among(v, i + 1, v.sp, type, p)
    OBVIOUS
  <2>1. w.sp + 1 .. i - 1 \subseteq Places(w) /\ i + 1 .. w.sp \subseteq Places(w)
    BY <1>3 DEF Places
  <2> QED
    BY <1>4, <2>1 DEF Among
<1>6. ASSUME NEW i \in Places(v)
      PROVE  LET p == w.stack[i].point IN
             /\ v.stack[i].point = p /\ v.stack[i].type = w.stack[i].type
             /\ NewAppend(v.stack[i]) <=> NewAppend(w.stack[i])
             /\ Found(w, p) <=> Found(v, p)
             /\ Hidden(w, p) <=> Hidden(v, p)
  BY <1>2 DEF SameActions, Places, NewAppend, Found, Hidden
<1>7. CreatesSound(v) /\ DeletesSound(v)
  BY <1>2, <1>5, <1>6 DEF Reversible, CreatesSound, CreateAt, DeletesSound, DeleteAt
<1>8. RouteSound(v)
  <2> SUFFICES ASSUME NEW i \in Places(v), v.stack[i].type = "append"
               PROVE  AppendAt(v, i, v.stack[i].point)
    BY DEF RouteSound
  <2> DEFINE p == w.stack[i].point
  <2>1. AppendAt(w, i, p)
    BY <1>2, <1>6 DEF Reversible, RouteSound
  <2>2. Behind(w, i, p) => Behind(v, i, p)
    BY <1>2, <1>5 DEF Behind
  <2> QED
    BY <1>2, <1>5, <1>6, <2>1, <2>2 DEF AppendAt
<1> QED
  BY <1>1, <1>7, <1>8 DEF Reversible

-----------------------------------------------------------------------------
(* Undo and redo keep the stack reversible *)

LEMMA AmongSame ==
  ASSUME NEW w, Tidy(w), NEW v, SameActions(v, w), NEW m \in Nat, NEW n \in Int,
         m > 0, n <= Len(w.stack), NEW type, NEW p
  PROVE  Among(v, m, n, type, p) <=> Among(w, m, n, type, p)
<1>1. Len(w.stack) \in Nat
  BY PlacesType
<1>2. m .. n \subseteq 1 .. Len(w.stack)
  BY <1>1
<1>3. \A j \in m .. n : IsOf(v, j, type, p) <=> IsOf(w, j, type, p)
  BY <1>2 DEF SameActions, IsOf
<1> QED
  BY <1>3 DEF Among

(* What is between the next action and another one, when it is undone.     *)
UndoneFrom(v, w, k) ==
  SameActions(v, w) /\ k \in Places(w) /\ k = w.sp + 1 /\ v.sp = k

LEMMA UndoneAmong ==
  ASSUME NEW w, Tidy(w), NEW v, NEW k, UndoneFrom(v, w, k),
         NEW i \in Places(w), NEW type, NEW p
  PROVE  /\ Among(w, w.sp + 1, i - 1, type, p)
              => IsOf(w, k, type, p) \/ Among(v, v.sp + 1, i - 1, type, p)
         /\ Among(w, i + 1, w.sp, type, p) => Among(v, i + 1, v.sp, type, p)
         /\ i < k /\ IsOf(w, k, type, p) => Among(v, i + 1, v.sp, type, p)
<1>1. /\ w.sp \in Nat /\ Len(w.stack) \in Nat /\ k = w.sp + 1 /\ v.sp = k
      /\ i \in Nat /\ i >= 1 /\ i <= Len(w.stack) /\ k <= Len(w.stack) /\ k \in Nat
      /\ SameActions(v, w)
  BY PlacesType DEF UndoneFrom, Places
<1>2. /\ Among(v, v.sp + 1, i - 1, type, p) <=> Among(w, v.sp + 1, i - 1, type, p)
      /\ Among(v, i + 1, v.sp, type, p) <=> Among(w, i + 1, v.sp, type, p)
  BY <1>1, AmongSame
<1>3. /\ Among(w, w.sp + 1, i - 1, type, p)
           => IsOf(w, k, type, p) \/ Among(w, k + 1, i - 1, type, p)
      /\ Among(w, i + 1, w.sp, type, p) => Among(w, i + 1, k, type, p)
      /\ i < k /\ IsOf(w, k, type, p) => Among(w, i + 1, k, type, p)
  BY <1>1 DEF Among
<1> QED
  BY <1>1, <1>2, <1>3

RedoneFrom(v, w, k) ==
  SameActions(v, w) /\ k \in Places(w) /\ k = w.sp /\ v.sp = k - 1

LEMMA RedoneAmong ==
  ASSUME NEW w, Tidy(w), NEW v, NEW k, RedoneFrom(v, w, k),
         NEW i \in Places(w), NEW type, NEW p
  PROVE  /\ Among(w, w.sp + 1, i - 1, type, p) => Among(v, v.sp + 1, i - 1, type, p)
         /\ k < i /\ IsOf(w, k, type, p) => Among(v, v.sp + 1, i - 1, type, p)
         /\ Among(w, i + 1, w.sp, type, p)
              => IsOf(w, k, type, p) \/ Among(v, i + 1, v.sp, type, p)
<1>1. /\ w.sp \in Nat /\ Len(w.stack) \in Nat /\ k = w.sp /\ v.sp = k - 1
      /\ i \in Nat /\ i >= 1 /\ i <= Len(w.stack) /\ k <= Len(w.stack) /\ k \in Nat
      /\ k >= 1 /\ v.sp + 1 = k /\ SameActions(v, w)
  BY PlacesType DEF RedoneFrom, Places
<1>2. /\ Among(v, k, i - 1, type, p) <=> Among(w, k, i - 1, type, p)
      /\ Among(v, i + 1, k - 1, type, p) <=> Among(w, i + 1, k - 1, type, p)
  BY <1>1, AmongSame
<1>3. /\ Among(w, k + 1, i - 1, type, p) => Among(w, k, i - 1, type, p)
      /\ k < i /\ IsOf(w, k, type, p) => Among(w, k, i - 1, type, p)
      /\ Among(w, i + 1, k, type, p)
           => IsOf(w, k, type, p) \/ Among(w, i + 1, k - 1, type, p)
  BY <1>1 DEF Among
<1> QED
  BY <1>1, <1>2, <1>3

(* Reversible, told of the actions before undo or redo.                    *)
LEMMA ReversibleBy ==
  ASSUME NEW v, NEW w, SameActions(v, w), Ages(w),
         \A i \in Places(w) : LET p == w.stack[i].point IN
           /\ w.stack[i].type = "create" => CreateAt(v, i, p)
           /\ w.stack[i].type = "delete" => DeleteAt(v, i, p)
           /\ w.stack[i].type = "append" => AppendAt(v, i, p)
  PROVE  Reversible(v)
<1>1. \A i \in Places(v) : i \in Places(w) /\ v.stack[i].type = w.stack[i].type
                           /\ v.stack[i].point = w.stack[i].point
  BY DEF SameActions, Places
<1>2. Ages(v)
  BY AgesFollow
<1> QED
  BY <1>1, <1>2 DEF Reversible, CreatesSound, DeletesSound, RouteSound

(* A mark is hidden again.  Whatever else names it is newer, and undone.   *)
LEMMA UndoCreateReversible ==
  ASSUME NEW w, Tidy(w), Reversible(w), NEW v, NEW k, UndoneFrom(v, w, k),
         v.drawing = w.drawing, w.stack[k].type = "create", Marked(v, w),
         Hides(v, w, w.stack[k].point)
  PROVE  Reversible(v)
<1> DEFINE p == w.stack[k].point
<1>1. /\ w.sp \in Nat /\ k = w.sp + 1 /\ v.sp = k /\ SameActions(v, w) /\ k \in Places(w)
  BY PlacesType DEF UndoneFrom
<1>2. /\ v.route = w.route /\ v.iso = w.iso /\ v.shared = w.shared
      /\ v.stack = w.stack /\ v.listed = w.listed \ {p} /\ v.shown = w.shown \ {p}
  BY DEF Marked, Hides
<1>3. \A i \in Places(w) : /\ i \in Nat /\ (i <= k <=> i = k \/ i <= w.sp)
                           /\ (i > k => i > w.sp) /\ (i # k /\ i <= k => i < k)
  BY <1>1 DEF Places
<1>4. \A i \in Places(w) : i # k /\ w.stack[i].point = p => i < k /\ w.stack[i].type # "create"
  BY <1>1, <1>3 DEF Reversible, Ages
<1>5. ASSUME NEW i \in Places(w), w.stack[i].type = "create"
      PROVE  CreateAt(v, i, w.stack[i].point)
  <2> DEFINE q == w.stack[i].point
  <2>1. CreateAt(w, i, q)
    BY <1>5 DEF Reversible, CreatesSound
  <2>2. Among(w, w.sp + 1, i - 1, "delete", q) => Among(v, v.sp + 1, i - 1, "delete", q)
    BY UndoneAmong DEF IsOf
  <2>3. Hidden(w, q) => Hidden(v, q)
    BY <1>2 DEF Hidden
  <2>4. i = k => Hidden(v, q)
    BY <1>2 DEF Hidden
  <2>5. i # k /\ Found(w, q) => Found(v, q)
    BY <1>2, <1>4, <1>5 DEF Found
  <2> QED
    BY <1>1, <1>3, <2>1, <2>2, <2>3, <2>4, <2>5 DEF CreateAt
<1>6. ASSUME NEW i \in Places(w), w.stack[i].type = "delete"
      PROVE  DeleteAt(v, i, w.stack[i].point)
  <2> DEFINE q == w.stack[i].point
  <2>1. DeleteAt(w, i, q) /\ i # k
    BY <1>6 DEF Reversible, DeletesSound
  <2>2. Among(w, i + 1, w.sp, "create", q) => Among(v, i + 1, v.sp, "create", q)
    BY UndoneAmong
  <2>3. Hidden(w, q) => Hidden(v, q)
    BY <1>2 DEF Hidden
  <2>4. i < k /\ q = p => Among(v, i + 1, v.sp, "create", q)
    BY UndoneAmong DEF IsOf
  <2>5. q # p /\ Found(w, q) => Found(v, q)
    BY <1>2 DEF Found
  <2> QED
    BY <1>1, <1>2, <1>3, <2>1, <2>2, <2>3, <2>4, <2>5 DEF DeleteAt
<1>7. ASSUME NEW i \in Places(w), w.stack[i].type = "append"
      PROVE  AppendAt(v, i, w.stack[i].point)
  <2> DEFINE q == w.stack[i].point
  <2>1. AppendAt(w, i, q) /\ i # k
    BY <1>7 DEF Reversible, RouteSound
  <2>2. Among(w, i + 1, w.sp, "create", q) => Among(v, i + 1, v.sp, "create", q)
    BY UndoneAmong
  <2>3. i < k /\ q = p => Among(v, i + 1, v.sp, "create", q)
    BY UndoneAmong DEF IsOf
  <2>4. Behind(w, i, q) => Behind(v, i, q)
    <3>1. \A x : Among(w, w.sp + 1, i - 1, "append", x) => Among(v, v.sp + 1, i - 1, "append", x)
      BY UndoneAmong DEF IsOf
    <3> QED
      BY <1>2, <3>1 DEF Behind
  <2> QED
    BY <1>1, <1>2, <1>3, <2>1, <2>2, <2>3, <2>4 DEF AppendAt
<1> QED
  BY <1>1, <1>5, <1>6, <1>7, ReversibleBy DEF Reversible

(* A mark is back.  Whatever else names it is older, and no append.        *)
LEMMA UndoDeleteReversible ==
  ASSUME NEW w, Tidy(w), Reversible(w), NEW v, NEW k, UndoneFrom(v, w, k),
         v.drawing = w.drawing, w.stack[k].type = "delete", Marked(v, w),
         Shows(v, w, w.stack[k].point)
  PROVE  Reversible(v)
<1> DEFINE p == w.stack[k].point
<1>1. /\ w.sp \in Nat /\ k = w.sp + 1 /\ v.sp = k /\ SameActions(v, w) /\ k \in Places(w)
  BY PlacesType DEF UndoneFrom
<1>2. /\ v.route = w.route /\ v.iso = w.iso /\ v.shared = w.shared
      /\ v.stack = w.stack /\ v.listed = w.listed \cup {p} /\ v.shown = w.shown \cup {p}
  BY DEF Marked, Shows
<1>3. \A i \in Places(w) : /\ i \in Nat /\ (i <= k <=> i = k \/ i <= w.sp)
                           /\ (i > k => i > w.sp) /\ (i # k /\ i <= k => i < k)
  BY <1>1 DEF Places
<1>4. \A i \in Places(w) : i # k /\ w.stack[i].point = p =>
        k < i /\ w.stack[i].type \notin {"append", "delete"}
  BY <1>1, <1>3 DEF Reversible, Ages
<1>5. \A q : /\ Found(w, q) => Found(v, q)
             /\ Hidden(w, q) /\ q # p => Hidden(v, q)
  BY <1>2 DEF Found, Hidden
<1>6. ASSUME NEW i \in Places(w), w.stack[i].type = "create"
      PROVE  CreateAt(v, i, w.stack[i].point)
  <2> DEFINE q == w.stack[i].point
  <2>1. CreateAt(w, i, q) /\ i # k
    BY <1>6 DEF Reversible, CreatesSound
  <2>2. Among(w, w.sp + 1, i - 1, "delete", q)
          => q = p \/ Among(v, v.sp + 1, i - 1, "delete", q)
    BY UndoneAmong DEF IsOf
  <2>3. q = p => k < i /\ Found(v, q)
    BY <1>2, <1>4, <2>1 DEF Found
  <2>4. /\ Found(w, q) => Found(v, q)
        /\ Hidden(w, q) /\ q # p => Hidden(v, q)
    BY <1>5
  <2>5. (i <= v.sp => i <= w.sp /\ q # p) /\ (i > v.sp => i > w.sp)
    <3>1. v.sp = k
      BY <1>1
    <3>2. i \in Nat /\ k \in Nat
      BY <1>1, <1>3
    <3>3. ~(k < i /\ i <= k)
      BY <3>2
    <3>4. (i <= k => i <= w.sp) /\ (i > k => i > w.sp)
      BY <1>3, <2>1
    <3> QED
      BY <2>3, <3>1, <3>3, <3>4
  <2> QED
    BY <2>1, <2>2, <2>3, <2>4, <2>5 DEF CreateAt
<1>7. ASSUME NEW i \in Places(w), w.stack[i].type = "delete"
      PROVE  DeleteAt(v, i, w.stack[i].point)
  <2> DEFINE q == w.stack[i].point
  <2>1. DeleteAt(w, i, q) /\ (i # k => q # p)
    BY <1>4, <1>7 DEF Reversible, DeletesSound
  <2>2. Among(w, i + 1, w.sp, "create", q) => Among(v, i + 1, v.sp, "create", q)
    BY UndoneAmong
  <2>3. i = k => Found(v, q)
    BY <1>2 DEF Found
  <2>4. /\ Found(w, q) => Found(v, q)
        /\ Hidden(w, q) /\ q # p => Hidden(v, q)
    BY <1>5
  <2>5. (i <= v.sp => i = k \/ i <= w.sp) /\ (i > v.sp => i > w.sp /\ i # k)
    <3>1. v.sp = k /\ k \in Nat
      BY <1>1, <1>3
    <3>2. /\ i <= k => i = k \/ i <= w.sp
          /\ i > k => i > w.sp
      BY <1>3
    <3>3. i > k => i # k
      BY <1>3, <3>1
    <3> QED
      BY <3>1, <3>2, <3>3
  <2> QED
    BY <1>2, <2>1, <2>2, <2>3, <2>4, <2>5 DEF DeleteAt
<1>8. ASSUME NEW i \in Places(w), w.stack[i].type = "append"
      PROVE  AppendAt(v, i, w.stack[i].point)
  <2> DEFINE q == w.stack[i].point
  <2>1. AppendAt(w, i, q) /\ i # k
    BY <1>8 DEF Reversible, RouteSound
  <2>2. Among(w, i + 1, w.sp, "create", q) => Among(v, i + 1, v.sp, "create", q)
    BY UndoneAmong
  <2>3. Behind(w, i, q) => Behind(v, i, q)
    <3>1. \A x : Among(w, w.sp + 1, i - 1, "append", x) => Among(v, v.sp + 1, i - 1, "append", x)
      BY UndoneAmong DEF IsOf
    <3> QED
      BY <1>2, <3>1 DEF Behind
  <2> QED
    BY <1>1, <1>2, <1>3, <2>1, <2>2, <2>3 DEF AppendAt
<1> QED
  BY <1>1, <1>6, <1>7, <1>8, ReversibleBy DEF Reversible

(* A move is undone, or redone: nothing but positions changes.             *)
LEMMA MoveReversible ==
  ASSUME NEW w, Tidy(w), Reversible(w), NEW v, NEW k,
         UndoneFrom(v, w, k) \/ RedoneFrom(v, w, k),
         v.drawing = w.drawing, w.stack[k].type = "move", Swapped(v, w, k)
  PROVE  Reversible(v)
<1>1. /\ w.sp \in Nat /\ SameActions(v, w) /\ k \in Places(w)
      /\ (k = w.sp + 1 /\ v.sp = k) \/ (k = w.sp /\ v.sp = k - 1)
  BY PlacesType DEF UndoneFrom, RedoneFrom
<1>2. /\ v.route = w.route /\ v.iso = w.iso /\ v.shared = w.shared
      /\ v.listed = w.listed /\ v.shown = w.shown
  BY DEF Swapped
<1>3. \A i \in Places(w) : w.stack[i].type # "move" =>
        (i <= v.sp <=> i <= w.sp) /\ (i > v.sp <=> i > w.sp)
  BY <1>1 DEF Places
<1>4. ASSUME NEW i \in Places(w), NEW type, NEW p, type # "move"
      PROVE  /\ Among(w, w.sp + 1, i - 1, type, p) => Among(v, v.sp + 1, i - 1, type, p)
             /\ Among(w, i + 1, w.sp, type, p) => Among(v, i + 1, v.sp, type, p)
  <2>1. ~IsOf(w, k, type, p)
    BY <1>4 DEF IsOf
  <2> QED
    BY <2>1, UndoneAmong, RedoneAmong
<1>5. \A q : (Found(w, q) <=> Found(v, q)) /\ (Hidden(w, q) <=> Hidden(v, q))
  BY <1>2 DEF Found, Hidden
<1>6. ASSUME NEW i \in Places(w)
      PROVE  LET p == w.stack[i].point IN
             /\ w.stack[i].type = "create" => CreateAt(v, i, p)
             /\ w.stack[i].type = "delete" => DeleteAt(v, i, p)
  BY <1>2, <1>3, <1>4, <1>5 DEF Reversible, CreatesSound, DeletesSound, CreateAt, DeleteAt
<1>7. ASSUME NEW i \in Places(w), w.stack[i].type = "append"
      PROVE  AppendAt(v, i, w.stack[i].point)
  <2> DEFINE q == w.stack[i].point
  <2>1. AppendAt(w, i, q)
    BY <1>7 DEF Reversible, RouteSound
  <2>2. Behind(w, i, q) => Behind(v, i, q)
    BY <1>2, <1>4 DEF Behind
  <2>3. NewAppend(v.stack[i]) <=> NewAppend(w.stack[i])
    BY <1>1 DEF SameActions, NewAppend, Places
  <2> QED
    BY <1>2, <1>3, <1>4, <1>7, <2>1, <2>2, <2>3 DEF AppendAt
<1> QED
  BY <1>1, <1>6, <1>7, ReversibleBy DEF Reversible

(* The last point of the route is the next that an undo takes out.         *)
LEMMA LastAppended ==
  ASSUME NEW w, Tidy(w), Reversible(w), NEW k \in Places(w), k = w.sp + 1,
         w.stack[k].type = "append"
  PROVE  LET p == w.stack[k].point
             rest == RemoveFirst(w.route, p) IN
         /\ Append(rest, p) = w.route /\ ToSet(rest) = ToSet(w.route) \ {p}
         /\ rest \in Seq(Points) /\ p \in ToSet(w.route) /\ p \notin w.iso
         /\ ~NewAppend(w.stack[k]) => p \in w.shared
<1> DEFINE p == w.stack[k].point
<1>1. /\ w.sp \in Nat /\ k > w.sp /\ w.route \in Seq(Points) /\ Once(w.route)
      /\ Len(w.route) \in Nat
  BY PlacesType DEF Tidy, ShownSound
<1>2. AppendAt(w, k, p)
  BY DEF Reversible, RouteSound
<1>3. p \notin w.iso /\ (~NewAppend(w.stack[k]) => p \in w.shared)
  BY <1>1, <1>2 DEF AppendAt
<1>4. PICK m \in 1 .. Len(w.route) :
        /\ w.route[m] = p
        /\ \A n \in m + 1 .. Len(w.route) :
             Among(w, w.sp + 1, k - 1, "append", w.route[n])
  BY <1>1, <1>2 DEF AppendAt, Behind
<1>5. m = Len(w.route)
  <2>1. \A j : j \notin w.sp + 1 .. k - 1
    BY <1>1
  <2>2. Len(w.route) \notin m + 1 .. Len(w.route)
    BY <1>4, <2>1 DEF Among
  <2> QED
    BY <1>1, <2>2
<1>6. p \in ToSet(w.route)
  BY <1>1, <1>4, ToSetElements
<1> DEFINE n == m - 1
<1>7. n \in Nat /\ Len(w.route) = n + 1 /\ w.route[n + 1] = p
  BY <1>4, <1>5
<1> HIDE DEF n, p
<1>8. /\ Append(RemoveFirst(w.route, w.route[n + 1]), w.route[n + 1]) = w.route
      /\ ToSet(RemoveFirst(w.route, w.route[n + 1])) = ToSet(w.route) \ {w.route[n + 1]}
  BY <1>1, <1>7, AppendRemoved
<1>9. RemoveFirst(w.route, p) \in Seq(Points)
  BY <1>1, RemoveFirstElements
<1> QED
  BY <1>3, <1>6, <1>7, <1>8, <1>9 DEF p

(* A point leaves the route.  No other append names it, no deletion does,  *)
(* and its creation is older, unless the append made it.                   *)
LEMMA UndoAppendReversible ==
  ASSUME NEW w, Tidy(w), Reversible(w), NEW v, NEW k, UndoneFrom(v, w, k),
         v.drawing = w.drawing, w.stack[k].type = "append",
         TakenOut(v, w, w.stack[k])
  PROVE  Reversible(v)
<1> DEFINE p == w.stack[k].point
           rest == RemoveFirst(w.route, p)
<1>1. /\ w.sp \in Nat /\ k = w.sp + 1 /\ v.sp = k /\ SameActions(v, w) /\ k \in Places(w)
  BY PlacesType DEF UndoneFrom
<1>2. /\ Append(rest, p) = w.route /\ ToSet(rest) = ToSet(w.route) \ {p}
      /\ rest \in Seq(Points) /\ p \in ToSet(w.route)
      /\ ~NewAppend(w.stack[k]) => p \in w.shared
  BY <1>1, LastAppended
<1>3. /\ v.route = rest /\ v.iso = w.iso \cup {p} /\ v.shared = w.shared
      /\ v.stack = w.stack /\ v.listed \subseteq w.listed
      /\ w.listed \ {p} \subseteq v.listed /\ w.shown \ {p} \subseteq v.shown
      /\ v.shown \ {p} \subseteq w.shown \cup ToSet(rest)
      /\ ~NewAppend(w.stack[k]) => v.listed = w.listed /\ p \in v.shown /\ w.shown \subseteq v.shown
  BY <1>2 DEF TakenOut, NewAppend
<1> HIDE DEF rest
<1>4. \A i \in Places(w) : /\ i \in Nat /\ (i <= k <=> i = k \/ i <= w.sp)
                           /\ (i > k => i > w.sp) /\ (i # k /\ i <= k => i < k)
  BY <1>1 DEF Places
<1>5. \A i \in Places(w) : i # k /\ w.stack[i].point = p =>
        /\ w.stack[i].type \notin {"append", "delete"}
        /\ w.stack[i].type = "create" => k < i
  BY <1>1 DEF Reversible, Ages, Tidy, AppendsSound, Places
<1>6. ASSUME NEW i \in Places(w), k < i, NewAppend(w.stack[k])
      PROVE  w.stack[i].point # p
  BY <1>1, <1>6 DEF Tidy, PointsSound, Places
<1>7. w.drawing
  BY <1>1 DEF Tidy, AppendsSound, Places
<1>8. \A q : q # p => /\ Found(w, q) => Found(v, q)
                      /\ Hidden(w, q) => Hidden(v, q)
  BY <1>2, <1>3 DEF Found, Hidden
<1>9. ASSUME NEW i \in Places(w), w.stack[i].type = "create"
      PROVE  CreateAt(v, i, w.stack[i].point)
  <2> DEFINE q == w.stack[i].point
  <2>1. CreateAt(w, i, q) /\ i # k
    BY <1>9 DEF Reversible, CreatesSound
  <2>2. Among(w, w.sp + 1, i - 1, "delete", q) => Among(v, v.sp + 1, i - 1, "delete", q)
    BY UndoneAmong DEF IsOf
  <2>3. q = p => k < i /\ ~NewAppend(w.stack[k])
    BY <1>5, <1>6, <1>9, <2>1
  <2>4. Found(w, q) => Found(v, q)
    BY <1>3, <1>8, <2>3 DEF Found
  <2>5. (i <= v.sp => i <= w.sp /\ q # p) /\ (i > v.sp => i > w.sp)
    BY <1>1, <1>4, <2>1, <2>3
  <2> QED
    BY <1>8, <2>1, <2>2, <2>4, <2>5 DEF CreateAt
<1>10. ASSUME NEW i \in Places(w), w.stack[i].type = "delete"
       PROVE  DeleteAt(v, i, w.stack[i].point)
  <2> DEFINE q == w.stack[i].point
  <2>1. DeleteAt(w, i, q) /\ i # k /\ q # p
    BY <1>5, <1>10 DEF Reversible, DeletesSound
  <2>2. Among(w, i + 1, w.sp, "create", q) => Among(v, i + 1, v.sp, "create", q)
    BY UndoneAmong
  <2>3. (i <= v.sp => i <= w.sp) /\ (i > v.sp => i > w.sp)
    BY <1>1, <1>4, <2>1
  <2> QED
    BY <1>7, <1>8, <2>1, <2>2, <2>3 DEF DeleteAt
<1>11. ASSUME NEW i \in Places(w), w.stack[i].type = "append"
       PROVE  AppendAt(v, i, w.stack[i].point)
  <2> DEFINE q == w.stack[i].point
  <2>1. AppendAt(w, i, q) /\ (i # k => q # p)
    BY <1>5, <1>11 DEF Reversible, RouteSound
  <2>2. Among(w, i + 1, w.sp, "create", q) => Among(v, i + 1, v.sp, "create", q)
    BY UndoneAmong
  <2>3. q # p /\ Behind(w, i, q) => Behind(v, i, q)
    <3> SUFFICES ASSUME q # p, Behind(w, i, q) PROVE Behind(v, i, q)
      OBVIOUS
    <3>1. /\ Len(w.route) = Len(rest) + 1 /\ w.route[Len(rest) + 1] = p
          /\ Len(rest) \in Nat /\ \A n \in 1 .. Len(rest) : rest[n] = w.route[n]
      <4>1. /\ Len(Append(rest, p)) = Len(rest) + 1 /\ Len(rest) \in Nat
            /\ Append(rest, p)[Len(rest) + 1] = p
            /\ \A n \in 1 .. Len(rest) : Append(rest, p)[n] = rest[n]
        BY <1>2
      <4> QED
        BY <1>2, <4>1
    <3>2. PICK m \in 1 .. Len(w.route) :
            /\ w.route[m] = q
            /\ \A n \in m + 1 .. Len(w.route) :
                 Among(w, w.sp + 1, i - 1, "append", w.route[n])
      BY DEF Behind
    <3>3. m \in 1 .. Len(rest) /\ rest[m] = q
      BY <3>1, <3>2
    <3>4. ASSUME NEW n \in m + 1 .. Len(rest)
          PROVE  Among(v, v.sp + 1, i - 1, "append", rest[n])
      <4>1. n \in m + 1 .. Len(w.route) /\ rest[n] = w.route[n] /\ n \in 1 .. Len(rest)
        BY <3>1, <3>3
      <4>2. rest[n] # p
        <5>1. rest[n] \in ToSet(rest)
          BY <1>2, <4>1, ToSetElements
        <5> QED
          BY <1>2, <5>1
      <4> QED
        BY <3>2, <4>1, <4>2, UndoneAmong DEF IsOf
    <3> QED
      BY <1>3, <3>3, <3>4 DEF Behind
  <2>4. (i <= v.sp => i = k \/ i <= w.sp) /\ (i > v.sp => i > w.sp /\ i # k)
    <3>1. i \in Nat
      BY <1>4
    <3> QED
      BY <1>1, <3>1
  <2>5. q # p /\ q \in w.shown => q \in v.shown
    BY <1>3
  <2> QED
    BY <1>2, <1>3, <2>1, <2>2, <2>3, <2>4, <2>5 DEF AppendAt
<1> QED
  BY <1>1, <1>9, <1>10, <1>11, ReversibleBy DEF Reversible

(* A creation or a deletion is redone: it is the newest of those undone.   *)
LEMMA RedoCreateReversible ==
  ASSUME NEW w, Tidy(w), Reversible(w), NEW v, NEW k, RedoneFrom(v, w, k),
         v.drawing = w.drawing, w.stack[k].type = "create", Marked(v, w),
         Shows(v, w, w.stack[k].point)
  PROVE  Reversible(v)
<1> DEFINE p == w.stack[k].point
<1>1. /\ w.sp \in Nat /\ k = w.sp /\ v.sp = k - 1 /\ SameActions(v, w) /\ k \in Places(w)
  BY PlacesType DEF RedoneFrom
<1>2. /\ v.route = w.route /\ v.iso = w.iso /\ v.shared = w.shared
      /\ v.stack = w.stack /\ v.listed = w.listed \cup {p} /\ v.shown = w.shown \cup {p}
  BY DEF Marked, Shows
<1>3. \A i \in Places(w) : /\ i \in Nat /\ (i <= v.sp => i <= w.sp /\ i < k)
                           /\ (i > v.sp /\ i # k => i > w.sp)
  BY <1>1 DEF Places
<1>4. \A i \in Places(w) : i # k /\ w.stack[i].point = p => i < k /\ w.stack[i].type # "create"
  BY <1>1, <1>3 DEF Reversible, Ages
<1>5. \A q : /\ Found(w, q) => Found(v, q)
             /\ Hidden(w, q) /\ q # p => Hidden(v, q)
  BY <1>2 DEF Found, Hidden
<1>6. Found(v, p)
  BY <1>2 DEF Found
<1>7. ASSUME NEW i \in Places(w), w.stack[i].type = "create"
      PROVE  CreateAt(v, i, w.stack[i].point)
  <2> DEFINE q == w.stack[i].point
  <2>1. CreateAt(w, i, q) /\ (i # k => q # p)
    BY <1>4, <1>7 DEF Reversible, CreatesSound
  <2>2. Among(w, w.sp + 1, i - 1, "delete", q) => Among(v, v.sp + 1, i - 1, "delete", q)
    BY RedoneAmong
  <2>3. (i <= v.sp => i <= w.sp /\ i # k) /\ (i > v.sp => i = k \/ i > w.sp)
    BY <1>1, <1>3
  <2> QED
    BY <1>5, <1>6, <2>1, <2>2, <2>3 DEF CreateAt
<1>8. ASSUME NEW i \in Places(w), w.stack[i].type = "delete"
      PROVE  DeleteAt(v, i, w.stack[i].point)
  <2> DEFINE q == w.stack[i].point
  <2>1. DeleteAt(w, i, q) /\ i # k
    BY <1>8 DEF Reversible, DeletesSound
  <2>2. Among(w, i + 1, w.sp, "create", q) => q = p \/ Among(v, i + 1, v.sp, "create", q)
    BY RedoneAmong DEF IsOf
  <2>3. (i <= v.sp => i <= w.sp) /\ (i > v.sp => i > w.sp)
    BY <1>1, <1>3, <2>1
  <2>4. i > w.sp => q # p
    BY <1>1, <1>3, <1>4, <2>1
  <2> QED
    BY <1>2, <1>5, <1>6, <2>1, <2>2, <2>3, <2>4 DEF DeleteAt
<1>9. ASSUME NEW i \in Places(w), w.stack[i].type = "append"
      PROVE  AppendAt(v, i, w.stack[i].point)
  <2> DEFINE q == w.stack[i].point
  <2>1. AppendAt(w, i, q) /\ i # k
    BY <1>9 DEF Reversible, RouteSound
  <2>2. Among(w, i + 1, w.sp, "create", q) => q = p \/ Among(v, i + 1, v.sp, "create", q)
    BY RedoneAmong DEF IsOf
  <2>3. (i <= v.sp => i <= w.sp) /\ (i > v.sp => i > w.sp)
    BY <1>1, <1>3, <2>1
  <2>4. Behind(w, i, q) => Behind(v, i, q)
    <3>1. \A x : Among(w, w.sp + 1, i - 1, "append", x) => Among(v, v.sp + 1, i - 1, "append", x)
      BY RedoneAmong
    <3> QED
      BY <1>2, <3>1 DEF Behind
  <2>5. q \in w.shown \/ q = p => q \in v.shown
    BY <1>2
  <2> QED
    BY <1>2, <2>1, <2>2, <2>3, <2>4, <2>5 DEF AppendAt
<1> QED
  BY <1>1, <1>7, <1>8, <1>9, ReversibleBy DEF Reversible

LEMMA RedoDeleteReversible ==
  ASSUME NEW w, Tidy(w), Reversible(w), NEW v, NEW k, RedoneFrom(v, w, k),
         v.drawing = w.drawing, w.stack[k].type = "delete", Marked(v, w),
         Hides(v, w, w.stack[k].point)
  PROVE  Reversible(v)
<1> DEFINE p == w.stack[k].point
<1>1. /\ w.sp \in Nat /\ k = w.sp /\ v.sp = k - 1 /\ SameActions(v, w) /\ k \in Places(w)
  BY PlacesType DEF RedoneFrom
<1>2. /\ v.route = w.route /\ v.iso = w.iso /\ v.shared = w.shared
      /\ v.stack = w.stack /\ v.listed = w.listed \ {p} /\ v.shown = w.shown \ {p}
  BY DEF Marked, Hides
<1>3. \A i \in Places(w) : /\ i \in Nat /\ (i <= v.sp => i <= w.sp /\ i < k)
                           /\ (i > v.sp /\ i # k => i > w.sp /\ k < i)
  BY <1>1 DEF Places
<1>4. \A i \in Places(w) : i # k /\ w.stack[i].point = p =>
        k < i /\ w.stack[i].type \notin {"append", "delete"}
  BY <1>1, <1>3 DEF Reversible, Ages
<1>5. \A q : /\ Hidden(w, q) => Hidden(v, q)
             /\ Found(w, q) /\ q # p => Found(v, q)
  BY <1>2 DEF Found, Hidden
<1>6. Hidden(v, p)
  BY <1>2 DEF Hidden
<1>7. ASSUME NEW i \in Places(w), w.stack[i].type = "create"
      PROVE  CreateAt(v, i, w.stack[i].point)
  <2> DEFINE q == w.stack[i].point
  <2>1. CreateAt(w, i, q) /\ i # k
    BY <1>7 DEF Reversible, CreatesSound
  <2>2. /\ Among(w, w.sp + 1, i - 1, "delete", q) => Among(v, v.sp + 1, i - 1, "delete", q)
        /\ k < i /\ q = p => Among(v, v.sp + 1, i - 1, "delete", q)
    BY RedoneAmong DEF IsOf
  <2>3. (i <= v.sp => i <= w.sp) /\ (i > v.sp => i > w.sp /\ k < i)
    BY <1>1, <1>3, <2>1
  <2> QED
    BY <1>5, <2>1, <2>2, <2>3 DEF CreateAt
<1>8. ASSUME NEW i \in Places(w), w.stack[i].type = "delete"
      PROVE  DeleteAt(v, i, w.stack[i].point)
  <2> DEFINE q == w.stack[i].point
  <2>1. DeleteAt(w, i, q) /\ (i # k => q # p)
    BY <1>4, <1>8 DEF Reversible, DeletesSound
  <2>2. Among(w, i + 1, w.sp, "create", q) => Among(v, i + 1, v.sp, "create", q)
    BY RedoneAmong DEF IsOf
  <2>3. (i <= v.sp => i <= w.sp /\ i # k) /\ (i > v.sp => i = k \/ i > w.sp)
    BY <1>1, <1>3
  <2> QED
    BY <1>2, <1>5, <1>6, <2>1, <2>2, <2>3 DEF DeleteAt
<1>9. ASSUME NEW i \in Places(w), w.stack[i].type = "append"
      PROVE  AppendAt(v, i, w.stack[i].point)
  <2> DEFINE q == w.stack[i].point
  <2>1. AppendAt(w, i, q) /\ i # k /\ q # p
    BY <1>4, <1>9 DEF Reversible, RouteSound
  <2>2. Among(w, i + 1, w.sp, "create", q) => Among(v, i + 1, v.sp, "create", q)
    BY RedoneAmong DEF IsOf
  <2>3. (i <= v.sp => i <= w.sp) /\ (i > v.sp => i > w.sp)
    BY <1>1, <1>3, <2>1
  <2>4. Behind(w, i, q) => Behind(v, i, q)
    <3>1. \A x : Among(w, w.sp + 1, i - 1, "append", x) => Among(v, v.sp + 1, i - 1, "append", x)
      BY RedoneAmong
    <3> QED
      BY <1>2, <3>1 DEF Behind
  <2>5. q \in w.shown => q \in v.shown
    BY <1>2, <2>1
  <2> QED
    BY <1>2, <2>1, <2>2, <2>3, <2>4, <2>5 DEF AppendAt
<1> QED
  BY <1>1, <1>7, <1>8, <1>9, ReversibleBy DEF Reversible

(* A point is at the end of the route again.                               *)
LEMMA RedoAppendReversible ==
  ASSUME NEW w, Tidy(w), Reversible(w), NEW v, NEW k, RedoneFrom(v, w, k),
         v.drawing = w.drawing, w.stack[k].type = "append",
         PutBack(v, w, w.stack[k])
  PROVE  Reversible(v)
<1> DEFINE p == w.stack[k].point
<1>1. /\ w.sp \in Nat /\ k = w.sp /\ v.sp = k - 1 /\ SameActions(v, w) /\ k \in Places(w)
      /\ w.route \in Seq(Points) /\ p \in Points
  BY PlacesType DEF RedoneFrom, Tidy, PointsSound, Sure, Named, Places
<1>2. /\ v.route = Append(w.route, p) /\ v.iso = w.iso \ {p} /\ w.shared \subseteq v.shared
      /\ v.stack = w.stack /\ v.listed = w.listed /\ w.shown \subseteq v.shown
      /\ v.shown \subseteq w.shown \cup {p}
  BY DEF PutBack
<1>3. ToSet(v.route) = ToSet(w.route) \cup {p}
  BY <1>1, <1>2, AppendElements
<1>4. /\ Len(v.route) = Len(w.route) + 1 /\ Len(w.route) \in Nat
      /\ v.route[Len(w.route) + 1] = p
      /\ \A n \in 1 .. Len(w.route) : v.route[n] = w.route[n]
  BY <1>1, <1>2
<1>5. \A i \in Places(w) : /\ i \in Nat /\ (i <= v.sp => i <= w.sp /\ i < k)
                           /\ (i > v.sp /\ i # k => i > w.sp /\ k < i)
  BY <1>1 DEF Places
<1>6. \A i \in Places(w) : i # k /\ w.stack[i].point = p => w.stack[i].type # "append"
  BY <1>1 DEF Tidy, AppendsSound, Places
<1>7. w.drawing
  BY <1>1 DEF Tidy, AppendsSound, Places
<1>8. \A q : /\ Found(w, q) => Found(v, q)
             /\ Hidden(w, q) => Hidden(v, q)
  BY <1>2, <1>3 DEF Found, Hidden
<1>9. ASSUME NEW i \in Places(w), w.stack[i].type = "create"
      PROVE  CreateAt(v, i, w.stack[i].point)
  <2> DEFINE q == w.stack[i].point
  <2>1. CreateAt(w, i, q) /\ i # k
    BY <1>9 DEF Reversible, CreatesSound
  <2>2. Among(w, w.sp + 1, i - 1, "delete", q) => Among(v, v.sp + 1, i - 1, "delete", q)
    BY RedoneAmong
  <2>3. (i <= v.sp => i <= w.sp) /\ (i > v.sp => i > w.sp)
    BY <1>1, <1>5, <2>1
  <2> QED
    BY <1>8, <2>1, <2>2, <2>3 DEF CreateAt
<1>10. ASSUME NEW i \in Places(w), w.stack[i].type = "delete"
       PROVE  DeleteAt(v, i, w.stack[i].point)
  <2> DEFINE q == w.stack[i].point
  <2>1. DeleteAt(w, i, q) /\ i # k
    BY <1>10 DEF Reversible, DeletesSound
  <2>2. Among(w, i + 1, w.sp, "create", q) => Among(v, i + 1, v.sp, "create", q)
    BY RedoneAmong DEF IsOf
  <2>3. (i <= v.sp => i <= w.sp) /\ (i > v.sp => i > w.sp)
    BY <1>1, <1>5, <2>1
  <2> QED
    BY <1>7, <1>8, <2>1, <2>2, <2>3 DEF DeleteAt
<1>11. ASSUME NEW i \in Places(w), w.stack[i].type = "append"
       PROVE  AppendAt(v, i, w.stack[i].point)
  <2> DEFINE q == w.stack[i].point
  <2>1. AppendAt(w, i, q) /\ (i # k => q # p)
    BY <1>6, <1>11 DEF Reversible, RouteSound
  <2>2. Among(w, i + 1, w.sp, "create", q) => Among(v, i + 1, v.sp, "create", q)
    BY RedoneAmong DEF IsOf
  <2>3. i = k => Behind(v, i, q)
    BY <1>4 DEF Behind
  <2>4. k < i /\ Behind(w, i, q) => Behind(v, i, q)
    <3> SUFFICES ASSUME k < i, Behind(w, i, q) PROVE Behind(v, i, q)
      OBVIOUS
    <3>1. PICK m \in 1 .. Len(w.route) :
            /\ w.route[m] = q
            /\ \A n \in m + 1 .. Len(w.route) :
                 Among(w, w.sp + 1, i - 1, "append", w.route[n])
      BY DEF Behind
    <3>2. m \in 1 .. Len(v.route) /\ v.route[m] = q
      BY <1>4, <3>1
    <3>3. ASSUME NEW n \in m + 1 .. Len(v.route)
          PROVE  Among(v, v.sp + 1, i - 1, "append", v.route[n])
      <4>1. CASE n = Len(w.route) + 1
        <5>1. IsOf(w, k, "append", v.route[n])
          BY <1>4, <4>1 DEF IsOf
        <5> QED
          BY <5>1, RedoneAmong
      <4>2. CASE n # Len(w.route) + 1
        <5>1. n \in m + 1 .. Len(w.route) /\ v.route[n] = w.route[n]
          BY <1>4, <4>2
        <5> QED
          BY <3>1, <5>1, RedoneAmong
      <4> QED
        BY <4>1, <4>2
    <3> QED
      BY <3>2, <3>3 DEF Behind
  <2>5. (i <= v.sp => i <= w.sp /\ i # k) /\ (i > v.sp => i = k \/ (i > w.sp /\ k < i))
    BY <1>1, <1>5
  <2>6. /\ q \in w.shown => q \in v.shown
        /\ q \in w.shared => q \in v.shared
        /\ q # p => (q \in v.iso <=> q \in w.iso)
        /\ p \notin v.iso
    BY <1>2
  <2> QED
    BY <1>2, <2>1, <2>2, <2>3, <2>4, <2>5, <2>6 DEF AppendAt
<1> QED
  BY <1>1, <1>9, <1>10, <1>11, ReversibleBy DEF Reversible

LEMMA UndoReversible ==
  ASSUME NEW w, Tidy(w), Reversible(w), AnythingToUndo(w)
  PROVE  Reversible(UndoLastAction(w))
<1> DEFINE v == UndoLastAction(w)
           k == w.sp + 1
<1>1. w \in State /\ w.sp \in Nat /\ Len(w.stack) \in Nat /\ w.sp < Len(w.stack)
  BY PlacesType DEF AnythingToUndo
<1>2. k \in Places(w) /\ w.stack[k].type \in {"create", "delete", "move", "append"}
  BY <1>1, PlaceType DEF Places
<1>3. UndoLeaves(v, w, k)
  BY <1>1, UndoMeans
<1>4. SameActions(v, w) /\ v.sp = k
  BY <1>1, UndoType
<1> HIDE DEF v
<1>5. UndoneFrom(v, w, k)
  BY <1>2, <1>4 DEF UndoneFrom
<1> HIDE DEF k
<1>6. v.drawing = w.drawing
  BY <1>3 DEF UndoLeaves, Common
<1>7. CASE w.stack[k].type = "create"
  BY <1>3, <1>5, <1>6, <1>7, UndoCreateReversible DEF UndoLeaves, v
<1>8. CASE w.stack[k].type = "delete"
  BY <1>3, <1>5, <1>6, <1>8, UndoDeleteReversible DEF UndoLeaves, v
<1>9. CASE w.stack[k].type = "move"
  BY <1>3, <1>5, <1>6, <1>9, MoveReversible DEF UndoLeaves, v
<1>10. CASE w.stack[k].type = "append"
  BY <1>3, <1>5, <1>6, <1>10, UndoAppendReversible DEF UndoLeaves, v
<1> QED
  BY <1>2, <1>7, <1>8, <1>9, <1>10

LEMMA RedoReversible ==
  ASSUME NEW w, Tidy(w), Reversible(w), AnythingToRedo(w)
  PROVE  Reversible(RedoNextAction(w))
<1> DEFINE v == RedoNextAction(w)
           k == w.sp
<1>1. /\ w \in State /\ w.sp \in Nat /\ Len(w.stack) \in Nat
      /\ w.sp > 0 /\ w.sp <= Len(w.stack)
  BY PlacesType DEF AnythingToRedo
<1>2. k \in Places(w) /\ w.stack[k].type \in {"create", "delete", "move", "append"}
  BY <1>1, PlaceType DEF Places
<1>3. RedoLeaves(v, w, k)
  BY <1>1, RedoMeans
<1>4. SameActions(v, w) /\ v.sp = k - 1
  BY <1>1, RedoType
<1> HIDE DEF v
<1>5. RedoneFrom(v, w, k)
  BY <1>2, <1>4 DEF RedoneFrom
<1> HIDE DEF k
<1>6. v.drawing = w.drawing
  BY <1>3 DEF RedoLeaves, Common
<1>7. CASE w.stack[k].type = "create"
  BY <1>3, <1>5, <1>6, <1>7, RedoCreateReversible DEF RedoLeaves, v
<1>8. CASE w.stack[k].type = "delete"
  BY <1>3, <1>5, <1>6, <1>8, RedoDeleteReversible DEF RedoLeaves, v
<1>9. CASE w.stack[k].type = "move"
  BY <1>3, <1>5, <1>6, <1>9, MoveReversible DEF RedoLeaves, v
<1>10. CASE w.stack[k].type = "append"
  BY <1>3, <1>5, <1>6, <1>10, RedoAppendReversible DEF RedoLeaves, v
<1> QED
  BY <1>2, <1>7, <1>8, <1>9, <1>10

-----------------------------------------------------------------------------
(* Recording keeps the stack reversible *)

LEMMA RecordLeaves ==
  ASSUME NEW w, Fits(w), NEW p \in Points,
         NEW type \in {"create", "delete", "move", "append"},
         NEW own \in {"orphan", "copy", "parent"}
  PROVE  LET v == Record(w, type, p, own) IN
         v.iso = w.iso /\ v.shared = w.shared
<1> DEFINE r == InvalidateRedo(w)
           c == [act |-> [type |-> type, point |-> p, own |-> own, at |-> w.pos[p]]]
           v == Record(w, type, p, own)
<1>1. w \in State /\ r \in State /\ r.iso = w.iso /\ r.shared = w.shared
  BY InvalidateRedoType DEF Fits
<1>2. v = IF w.cand # NONE THEN [w EXCEPT !.cand = NONE] ELSE [r EXCEPT !.cand = c]
  BY DEF Record, BeforeUndoableAction
<1> HIDE DEF r, c, v
<1>3. v.iso = w.iso /\ v.shared = w.shared
  BY <1>1, <1>2 DEF State
<1> QED
  BY <1>3 DEF v

(* What is undone leaves the stack; the rest is not touched.               *)
LEMMA NotedReversible ==
  ASSUME NEW w, Tidy(w), Reversible(w), NEW v, NEW a, Noted(v, w, a),
         v.iso = w.iso, v.shared = w.shared
  PROVE  Reversible(v)
<1>1. /\ w.sp \in Nat /\ Len(w.stack) \in Nat /\ w.sp <= Len(w.stack) /\ v.sp = 0
      /\ Len(v.stack) = Len(w.stack) - w.sp
      /\ \A i \in 1 .. Len(v.stack) : v.stack[i] = w.stack[i + w.sp]
      /\ v.listed = w.listed \ Dropped(w) /\ v.shown = w.shown
      /\ v.route = w.route /\ v.drawing = w.drawing
  BY PlacesType DEF Noted
<1>2. \A i \in Places(v) : /\ i \in Nat /\ i > 0 /\ ~(i <= v.sp) /\ i > v.sp
                           /\ i + w.sp \in Places(w) /\ i + w.sp > w.sp
                           /\ v.stack[i] = w.stack[i + w.sp]
  BY <1>1 DEF Places
<1>3. ASSUME NEW i \in Places(v), NEW type, NEW x,
             Among(w, w.sp + 1, (i + w.sp) - 1, type, x)
      PROVE  Among(v, v.sp + 1, i - 1, type, x)
  <2>1. PICK j \in w.sp + 1 .. (i + w.sp) - 1 : IsOf(w, j, type, x)
    BY <1>3 DEF Among
  <2> DEFINE n == j - w.sp
  <2>2. i \in 1 .. Len(v.stack)
    BY DEF Places
  <2>3. n \in v.sp + 1 .. i - 1 /\ n + w.sp = j /\ n \in 1 .. Len(v.stack)
    BY <1>1, <2>1, <2>2
  <2> HIDE DEF n
  <2>4. IsOf(v, n, type, x)
    BY <1>1, <2>1, <2>3 DEF IsOf
  <2> QED
    BY <2>3, <2>4 DEF Among
<1>4. Ages(v)
  <2> SUFFICES ASSUME NEW i \in Places(v), NEW j \in Places(v), i # j,
                      v.stack[i].point = v.stack[j].point
               PROVE  /\ v.stack[i].type = "create" => j < i
                      /\ v.stack[i].type = "delete" => i < j /\ v.stack[j].type # "append"
    BY DEF Ages
  <2>1. /\ i \in Nat /\ j \in Nat
        /\ i + w.sp \in Places(w) /\ j + w.sp \in Places(w)
        /\ v.stack[i] = w.stack[i + w.sp] /\ v.stack[j] = w.stack[j + w.sp]
    BY <1>2
  <2>2. i + w.sp # j + w.sp
    BY <1>1, <2>1
  <2>3. /\ v.stack[i].type = "create" => j + w.sp < i + w.sp
        /\ v.stack[i].type = "delete" => i + w.sp < j + w.sp /\ v.stack[j].type # "append"
    BY <2>1, <2>2 DEF Reversible, Ages
  <2> QED
    BY <1>1, <2>1, <2>3
<1>5. ASSUME NEW i \in Places(v)
      PROVE  LET q == v.stack[i].point IN
             /\ Found(w, q) => Found(v, q)
             /\ Hidden(w, q) => Hidden(v, q)
  <2>1. i + w.sp \in 1 .. Len(w.stack) /\ i + w.sp > w.sp /\ v.stack[i] = w.stack[i + w.sp]
    BY <1>2 DEF Places
  <2>2. v.stack[i].point \notin Dropped(w)
    BY <2>1, DroppedUnused
  <2> QED
    BY <1>1, <2>2 DEF Found, Hidden
<1>6. CreatesSound(v)
  <2> SUFFICES ASSUME NEW i \in Places(v), v.stack[i].type = "create"
               PROVE  CreateAt(v, i, v.stack[i].point)
    BY DEF CreatesSound
  <2>1. CreateAt(w, i + w.sp, v.stack[i].point)
    BY <1>2 DEF Reversible, CreatesSound
  <2> QED
    BY <1>2, <1>3, <1>5, <2>1 DEF CreateAt
<1>7. DeletesSound(v)
  <2> SUFFICES ASSUME NEW i \in Places(v), v.stack[i].type = "delete"
               PROVE  DeleteAt(v, i, v.stack[i].point)
    BY DEF DeletesSound
  <2>1. DeleteAt(w, i + w.sp, v.stack[i].point)
    BY <1>2 DEF Reversible, DeletesSound
  <2> QED
    BY <1>1, <1>2, <1>5, <2>1 DEF DeleteAt
<1>8. RouteSound(v)
  <2> SUFFICES ASSUME NEW i \in Places(v), v.stack[i].type = "append"
               PROVE  AppendAt(v, i, v.stack[i].point)
    BY DEF RouteSound
  <2>1. AppendAt(w, i + w.sp, v.stack[i].point)
    BY <1>2 DEF Reversible, RouteSound
  <2>2. Behind(w, i + w.sp, v.stack[i].point) => Behind(v, i, v.stack[i].point)
    BY <1>1, <1>3 DEF Behind
  <2> QED
    BY <1>2, <2>1, <2>2 DEF AppendAt
<1> QED
  BY <1>4, <1>6, <1>7, <1>8 DEF Reversible

(* The new action a fits the actions of r, and what d has made of r.       *)
Fitting(d, r, a) ==
  /\ \A i \in Places(r) : r.stack[i].point = a.point =>
       /\ a.type # "create" /\ r.stack[i].type # "delete"
       /\ a.type = "delete" => r.stack[i].type # "append"
  /\ a.type = "create" => Found(d, a.point)
  /\ a.type = "delete" =>
       Hidden(d, a.point) /\ (~d.drawing => a.point \notin ToSet(d.route))
  /\ a.type # "append" => d.route = r.route
  /\ a.type = "append" =>
       /\ d.drawing /\ a.point \in Points /\ a.point \notin d.iso
       /\ d.route = Append(r.route, a.point)
       /\ ~NewAppend(a) => a.point \in d.shared

LEMMA PushReversible ==
  ASSUME NEW r, Tidy(r), Reversible(r), r.sp = 0,
         NEW d \in State, d.stack = r.stack, d.sp = 0, d.drawing = r.drawing,
         d.cand # NONE, Fitting(d, r, d.cand.act),
         d.iso \subseteq r.iso, r.shared \subseteq d.shared,
         \A q : Hidden(r, q) => Hidden(d, q),
         \A q : Found(r, q) => \/ Found(d, q)
                               \/ d.cand.act.type = "delete" /\ d.cand.act.point = q
  PROVE  Reversible(AfterUndoableAction(d))
<1> DEFINE v == AfterUndoableAction(d)
           a == d.cand.act
<1>1. Len(r.stack) \in Nat /\ Len(r.stack) <= Depth /\ r.route \in Seq(Points)
      /\ Len(r.route) \in Nat
  BY PlacesType DEF Tidy, Fits
<1>2. /\ v.listed = d.listed /\ v.shown = d.shown /\ v.iso = d.iso
      /\ v.shared = d.shared /\ v.route = d.route /\ v.drawing = d.drawing
      /\ v.sp = 0 /\ Len(v.stack) <= Len(r.stack) + 1 /\ v.stack[1] = a
      /\ v \in State /\ \A i \in 2 .. Len(v.stack) : v.stack[i] = r.stack[i - 1]
  BY <1>1, AfterType
<1>3. Len(v.stack) \in Nat
  BY <1>2 DEF State
<1>4. /\ Fitting(d, r, a) /\ \A q : Hidden(r, q) => Hidden(d, q)
      /\ \A q : Found(r, q) => Found(d, q) \/ (a.type = "delete" /\ a.point = q)
  OBVIOUS
<1> HIDE DEF v, a
<1>5. ASSUME NEW i \in Places(v)
      PROVE  /\ i \in Nat /\ i > v.sp /\ ~(i <= v.sp) /\ i >= 1
             /\ \/ i = 1 /\ v.stack[i] = a
                \/ /\ i > 1 /\ i - 1 \in Places(r) /\ i - 1 > r.sp
                   /\ v.stack[i] = r.stack[i - 1]
  BY <1>1, <1>2, <1>3 DEF Places
<1>6. Ages(v)
  <2> SUFFICES ASSUME NEW i \in Places(v), NEW j \in Places(v), i # j,
                      v.stack[i].point = v.stack[j].point
               PROVE  /\ v.stack[i].type = "create" => j < i
                      /\ v.stack[i].type = "delete" => i < j /\ v.stack[j].type # "append"
    BY DEF Ages
  <2>1. i \in Nat /\ j \in Nat /\ i >= 1 /\ j >= 1
    BY <1>5
  <2>2. CASE i = 1
    <3>1. /\ v.stack[i] = a /\ j > 1 /\ j - 1 \in Places(r) /\ v.stack[j] = r.stack[j - 1]
      BY <1>5, <2>1, <2>2
    <3> QED
      BY <1>4, <2>2, <3>1 DEF Fitting
  <2>3. CASE j = 1
    <3>1. /\ v.stack[j] = a /\ i > 1 /\ i - 1 \in Places(r) /\ v.stack[i] = r.stack[i - 1]
      BY <1>5, <2>1, <2>3
    <3> QED
      BY <1>4, <2>3, <3>1 DEF Fitting
  <2>4. CASE i # 1 /\ j # 1
    <3>1. /\ i - 1 \in Places(r) /\ v.stack[i] = r.stack[i - 1]
          /\ j - 1 \in Places(r) /\ v.stack[j] = r.stack[j - 1] /\ i - 1 # j - 1
      BY <1>5, <2>1, <2>4
    <3>2. /\ v.stack[i].type = "create" => j - 1 < i - 1
          /\ v.stack[i].type = "delete" => i - 1 < j - 1 /\ v.stack[j].type # "append"
      BY <3>1 DEF Reversible, Ages
    <3> QED
      BY <2>1, <3>2
  <2> QED
    BY <2>2, <2>3, <2>4
<1>7. ASSUME NEW i \in Places(v), i > 1, NEW type, NEW x
      PROVE  /\ Among(r, r.sp + 1, (i - 1) - 1, type, x) => Among(v, v.sp + 1, i - 1, type, x)
             /\ IsOf(v, 1, type, x) => Among(v, v.sp + 1, i - 1, type, x)
  <2>1. i \in Nat /\ i \in 1 .. Len(v.stack) /\ v.sp = 0 /\ r.sp = 0
    BY <1>2, <1>5 DEF Places
  <2>2. ASSUME Among(r, r.sp + 1, (i - 1) - 1, type, x)
        PROVE  Among(v, v.sp + 1, i - 1, type, x)
    <3>1. PICK j \in r.sp + 1 .. (i - 1) - 1 : IsOf(r, j, type, x)
      BY <2>2 DEF Among
    <3> DEFINE n == j + 1
    <3>2. n \in v.sp + 1 .. i - 1 /\ n \in 2 .. Len(v.stack) /\ n - 1 = j
      BY <1>3, <2>1, <3>1
    <3> HIDE DEF n
    <3>3. IsOf(v, n, type, x)
      BY <1>2, <3>1, <3>2 DEF IsOf
    <3> QED
      BY <3>2, <3>3 DEF Among
  <2>3. ASSUME IsOf(v, 1, type, x) PROVE Among(v, v.sp + 1, i - 1, type, x)
    <3>1. 1 \in v.sp + 1 .. i - 1
      BY <1>7, <2>1
    <3> QED
      BY <2>3, <3>1 DEF Among
  <2> QED
    BY <2>2, <2>3
<1>8. CreatesSound(v)
  <2> SUFFICES ASSUME NEW i \in Places(v), v.stack[i].type = "create"
               PROVE  CreateAt(v, i, v.stack[i].point)
    BY DEF CreatesSound
  <2>1. CASE v.stack[i] = a
    <3>1. Found(v, a.point)
      BY <1>2, <1>4, <2>1 DEF Fitting, Found
    <3> QED
      BY <1>5, <2>1, <3>1 DEF CreateAt
  <2>2. CASE i > 1 /\ i - 1 \in Places(r) /\ i - 1 > r.sp /\ v.stack[i] = r.stack[i - 1]
    <3> DEFINE q == v.stack[i].point
    <3>1. Found(r, q) \/ Among(r, r.sp + 1, (i - 1) - 1, "delete", q)
      BY <2>2 DEF Reversible, CreatesSound, CreateAt
    <3>2. CASE Among(r, r.sp + 1, (i - 1) - 1, "delete", q)
      BY <1>5, <1>7, <2>2, <3>2 DEF CreateAt
    <3>3. CASE a.type = "delete" /\ a.point = q
      <4>1. IsOf(v, 1, "delete", q)
        BY <1>2, <3>3 DEF IsOf
      <4> QED
        BY <1>5, <1>7, <2>2, <4>1 DEF CreateAt
    <3>4. CASE Found(d, q)
      BY <1>2, <1>5, <3>4 DEF CreateAt, Found
    <3> QED
      BY <1>4, <3>1, <3>2, <3>3, <3>4
  <2> QED
    BY <1>5, <2>1, <2>2
<1>9. DeletesSound(v)
  <2> SUFFICES ASSUME NEW i \in Places(v), v.stack[i].type = "delete"
               PROVE  DeleteAt(v, i, v.stack[i].point)
    BY DEF DeletesSound
  <2> DEFINE q == v.stack[i].point
  <2>1. CASE v.stack[i] = a
    BY <1>2, <1>4, <1>5, <2>1 DEF Fitting, Hidden, DeleteAt
  <2>2. CASE i > 1 /\ i - 1 \in Places(r) /\ i - 1 > r.sp /\ v.stack[i] = r.stack[i - 1]
    <3>1. Hidden(r, q) /\ (~r.drawing => q \notin ToSet(r.route))
      BY <2>2 DEF Reversible, DeletesSound, DeleteAt
    <3>2. Hidden(d, q)
      BY <1>4, <3>1
    <3>3. ~d.drawing => d.route = r.route
      BY <1>4 DEF Fitting
    <3> QED
      BY <1>2, <1>5, <3>1, <3>2, <3>3 DEF DeleteAt, Hidden
  <2> QED
    BY <1>5, <2>1, <2>2
<1>10. RouteSound(v)
  <2> SUFFICES ASSUME NEW i \in Places(v), v.stack[i].type = "append"
               PROVE  AppendAt(v, i, v.stack[i].point)
    BY DEF RouteSound
  <2> DEFINE q == v.stack[i].point
  <2>0. a.type = "append" =>
          /\ Len(v.route) = Len(r.route) + 1 /\ v.route[Len(r.route) + 1] = a.point
          /\ \A n \in 1 .. Len(r.route) : v.route[n] = r.route[n]
    <3>1. a.type = "append" => v.route = Append(r.route, a.point) /\ a.point \in Points
      BY <1>2, <1>4 DEF Fitting
    <3>2. ASSUME NEW x \in Points
          PROVE  LET s == Append(r.route, x) IN
                 /\ Len(s) = Len(r.route) + 1 /\ s[Len(r.route) + 1] = x
                 /\ \A n \in 1 .. Len(r.route) : s[n] = r.route[n]
      BY <1>1
    <3> QED
      BY <3>1, <3>2
  <2>1. CASE v.stack[i] = a
    <3>1. Behind(v, i, a.point)
      BY <1>1, <2>0, <2>1 DEF Behind
    <3> QED
      BY <1>2, <1>4, <1>5, <2>1, <3>1 DEF Fitting, AppendAt
  <2>2. CASE i > 1 /\ i - 1 \in Places(r) /\ i - 1 > r.sp /\ v.stack[i] = r.stack[i - 1]
    <3>1. AppendAt(r, i - 1, q)
      BY <2>2 DEF Reversible, RouteSound
    <3>2. PICK m \in 1 .. Len(r.route) :
            /\ r.route[m] = q
            /\ \A n \in m + 1 .. Len(r.route) :
                 Among(r, r.sp + 1, (i - 1) - 1, "append", r.route[n])
      BY <2>2, <3>1 DEF AppendAt, Behind
    <3>3. Behind(v, i, q)
      <4>1. CASE a.type # "append"
        <5>1. v.route = r.route
          BY <1>2, <1>4, <4>1 DEF Fitting
        <5> QED
          BY <1>7, <2>2, <3>2, <5>1 DEF Behind
      <4>2. CASE a.type = "append"
        <5>1. m \in 1 .. Len(v.route) /\ v.route[m] = q
          BY <1>1, <2>0, <3>2, <4>2
        <5>2. ASSUME NEW n \in m + 1 .. Len(v.route)
              PROVE  Among(v, v.sp + 1, i - 1, "append", v.route[n])
          <6>1. CASE n = Len(r.route) + 1
            <7>1. IsOf(v, 1, "append", v.route[n])
              BY <1>2, <2>0, <4>2, <6>1 DEF IsOf
            <7> QED
              BY <1>7, <2>2, <7>1
          <6>2. CASE n # Len(r.route) + 1
            <7>1. n \in m + 1 .. Len(r.route) /\ v.route[n] = r.route[n]
              BY <1>1, <2>0, <4>2, <6>2
            <7> QED
              BY <1>7, <2>2, <3>2, <7>1
          <6> QED
            BY <6>1, <6>2
        <5> QED
          BY <5>1, <5>2 DEF Behind
      <4> QED
        BY <4>1, <4>2
    <3> QED
      BY <1>2, <1>5, <2>2, <3>1, <3>3 DEF AppendAt
  <2> QED
    BY <1>5, <2>1, <2>2
<1> QED
  BY <1>6, <1>8, <1>9, <1>10 DEF Reversible, v

(* Record leaves a stack with nothing undone, and what is shown as it was. *)
Started(r, w, type, p, own) ==
  /\ Tidy(r) /\ Reversible(r) /\ r \in State /\ r.sp = 0
  /\ r.cand # NONE /\ r.cand.act.type = type /\ r.cand.act.point = p
  /\ r.cand.act.own = own
  /\ r.listed = w.listed /\ r.shown = w.shown /\ r.iso = w.iso
  /\ r.shared = w.shared /\ r.route = w.route /\ r.drawing = w.drawing
  /\ \A i \in Places(r) : \E j \in Places(w) : r.stack[i] = w.stack[j]

LEMMA RecordReversible ==
  ASSUME NEW w, Tidy(w), Reversible(w), w.cand = NONE, NEW p \in Points,
         NEW type \in {"create", "delete", "move", "append"},
         NEW own \in {"orphan", "copy", "parent"}
  PROVE  Started(Record(w, type, p, own), w, type, p, own)
<1> DEFINE r == Record(w, type, p, own)
           a == ActionOf(w, type, p, own)
<1>1. Noted(r, w, a)
  BY RecordSound
<1>2. r.iso = w.iso /\ r.shared = w.shared
  BY RecordLeaves DEF Tidy
<1> HIDE DEF r
<1>3. Reversible(r)
  BY <1>1, <1>2, NotedReversible
<1>4. a.type = type /\ a.point = p /\ a.own = own
  BY DEF ActionOf
<1>5. r.listed = w.listed
  <2>1. \A x \in Dropped(w) : x \notin w.listed
    BY DroppedUnused
  <2> QED
    BY <1>1, <2>1 DEF Noted
<1>6. ASSUME NEW i \in Places(r) PROVE \E j \in Places(w) : r.stack[i] = w.stack[j]
  <2>1. /\ w.sp \in Nat /\ Len(w.stack) \in Nat /\ Len(r.stack) = Len(w.stack) - w.sp
        /\ r.stack[i] = w.stack[i + w.sp]
    BY <1>1, PlacesType DEF Noted, Places
  <2>2. i + w.sp \in Places(w)
    BY <2>1 DEF Places
  <2> QED
    BY <2>1, <2>2
<1> QED
  BY <1>1, <1>2, <1>3, <1>4, <1>5, <1>6 DEF Noted, Tidy, Fits, Started, r

LEMMA AddPointLeaves ==
  ASSUME NEW w \in State, NEW p \in Points
  PROVE  LET v == AddPoint(w, p) IN
         /\ v \in State /\ v.listed = w.listed /\ v.shown = w.shown
         /\ v.route = Append(w.route, p) /\ v.drawing = w.drawing
         /\ v.stack = w.stack /\ v.sp = w.sp /\ v.cand = w.cand
         /\ v.iso = w.iso \ {p} /\ w.shared \subseteq v.shared
<1>1. Append(w.route, p) \in Seq(Points)
  BY DEF State
<1> QED
  BY <1>1 DEF AddPoint, State

-----------------------------------------------------------------------------
(* The handlers keep it reversible *)

(* A point is not dragged while the stack holds its deletion.              *)
DragReversible(w) ==
  w.cand # NONE =>
    \A i \in Places(w) : w.stack[i].point = w.cand.act.point =>
      w.stack[i].type # "delete"

RInv == IInv /\ Reversible(u) /\ DragReversible(u)

(* Nothing but the candidate changes.                                      *)
LEMMA SameReversible ==
  ASSUME NEW w, Tidy(w), Reversible(w), NEW v, v.stack = w.stack, v.sp = w.sp,
         v.listed = w.listed, v.shown = w.shown, v.iso = w.iso,
         w.shared \subseteq v.shared, v.route = w.route, v.drawing = w.drawing
  PROVE  Reversible(v)
<1>1. SameActions(v, w)
  BY DEF SameActions
<1> QED
  BY <1>1, OthersChange

(* A new point is on no stack.                                             *)
LEMMA MadeReversible ==
  ASSUME NEW w, Tidy(w), Reversible(w), NEW p \in Points, w.life[p] = "none",
         NEW v, v.stack = w.stack, v.sp = w.sp, v.listed = w.listed \cup {p},
         v.shown = w.shown \cup {p}, w.iso \subseteq v.iso, v.iso \subseteq w.iso \cup {p},
         v.shared = w.shared, v.route = w.route, v.drawing = w.drawing
  PROVE  Reversible(v) /\ \A i \in Places(w) : w.stack[i].point # p
<1>1. SameActions(v, w)
  BY DEF SameActions
<1>2. \A i \in Places(w) : w.stack[i].point # p
  BY MadeSound DEF Places
<1>3. \A i \in Places(w) : LET q == w.stack[i].point IN
        /\ q \in v.listed <=> q \in w.listed
        /\ q \in v.shown <=> q \in w.shown
        /\ q \in v.iso <=> q \in w.iso
  BY <1>2
<1> QED
  BY <1>1, <1>2, <1>3, OthersChange

LEMMA DropMarkReversible ==
  ASSUME RInv, NEW p \in Points, DropMark(p)
  PROVE  Reversible(u') /\ DragReversible(u')
<1> DEFINE m == Made(u, p)
           d == [m EXCEPT !.iso = @ \cup {p}]
           r == Record(d, "create", p, "parent")
<1>1. Tidy(u) /\ Fits(u) /\ u \in State /\ u.life[p] = "none" /\ Reversible(u)
  BY DEF RInv, IInv, Tidy, Fits, DropMark, Unused
<1>2. /\ Tidy(m) /\ m \in State /\ m.listed = u.listed \cup {p}
      /\ m.shown = u.shown \cup {p} /\ m.iso = u.iso /\ m.shared = u.shared
      /\ m.route = u.route /\ m.drawing = u.drawing
      /\ m.stack = u.stack /\ m.sp = u.sp /\ m.cand = u.cand
  BY <1>1, MadeSound, MadeType
<1>3. Fits(d)
  BY <1>2, MarkCallsFit DEF Tidy
<1>4. /\ d.life = m.life /\ d.listed = m.listed /\ d.shown = m.shown
      /\ d.iso = m.iso \cup {p} /\ d.shared = m.shared
      /\ d.route = m.route /\ d.drawing = m.drawing /\ d.stack = m.stack
      /\ d.sp = m.sp /\ d.cand = m.cand
  BY <1>2 DEF State
<1> HIDE DEF m, d
<1>5. Tidy(d) /\ d \in State /\ d.sp <= Len(d.stack)
  BY <1>2, <1>3, <1>4, OtherFields DEF Fits
<1>6. u' = AfterUndoableAction(r)
  BY DEF DropMark, m, d
<1>7. Reversible(d) /\ \A i \in Places(d) : d.stack[i].point # p
  BY <1>1, <1>2, <1>4, MadeReversible DEF Places
<1>8. CASE u.cand # NONE
  <2>1. r = [d EXCEPT !.cand = NONE]
    <3>1. Recorded(r, d, ActionOf(d, "create", p, "parent"))
      BY <1>5, RecordType
    <3> QED
      BY <1>2, <1>4, <1>8, <3>1 DEF Recorded
  <2>2. /\ r.listed = d.listed /\ r.shown = d.shown /\ r.iso = d.iso
        /\ r.shared = d.shared /\ r.route = d.route /\ r.drawing = d.drawing
        /\ r.stack = d.stack /\ r.sp = d.sp /\ r.cand = NONE
    BY <1>5, <2>1 DEF State
  <2> HIDE DEF r
  <2>3. Reversible(r)
    BY <1>5, <1>7, <2>2, SameReversible
  <2>4. u' = r
    BY <1>6, <2>2 DEF AfterUndoableAction
  <2> QED
    BY <2>2, <2>3, <2>4 DEF DragReversible
<1>9. CASE u.cand = NONE
  <2>1. Started(r, d, "create", p, "parent")
    BY <1>2, <1>4, <1>5, <1>7, <1>9, RecordReversible
  <2> HIDE DEF r
  <2>2. Fitting(r, r, r.cand.act)
    BY <1>2, <1>4, <1>7, <2>1 DEF Started, Fitting, Found
  <2>3. Reversible(AfterUndoableAction(r))
    BY <2>1, <2>2, PushReversible DEF Started
  <2>4. AfterUndoableAction(r).cand = NONE
    BY <2>1, AfterType DEF Started, Tidy, Fits
  <2> QED
    BY <1>6, <2>3, <2>4 DEF DragReversible
<1> QED
  BY <1>8, <1>9

(* The deletion of a point is not on the stack while the point is found,   *)
(* or is shown outside the route.                                          *)
LEMMA NotDeleted ==
  ASSUME NEW r, Reversible(r), r.sp = 0, NEW p,
         p \in r.listed \/ (p \in r.shown /\ p \notin ToSet(r.route))
  PROVE  \A i \in Places(r) : r.stack[i].point = p => r.stack[i].type # "delete"
<1> SUFFICES ASSUME NEW i \in Places(r), r.stack[i].point = p, r.stack[i].type = "delete"
             PROVE  FALSE
  OBVIOUS
<1>1. DeleteAt(r, i, p) /\ i > r.sp
  BY DEF Reversible, DeletesSound, Places
<1> QED
  BY <1>1 DEF DeleteAt, Hidden

LEMMA DeleteMarkReversible ==
  ASSUME RInv, NEW p \in Points, DeleteMark(p)
  PROVE  Reversible(u') /\ DragReversible(u')
<1> DEFINE r == Record(u, "delete", p, "orphan")
           d == Off(r, p)
<1>1. /\ Tidy(u) /\ Reversible(u) /\ u.cand = NONE /\ p \in u.shown /\ ~u.drawing
      /\ ~InRoute(u, p) /\ u' = AfterUndoableAction(d)
  BY DEF RInv, IInv, DeleteMark
<1>2. Started(r, u, "delete", p, "orphan")
  BY <1>1, RecordReversible
<1>3. p \notin ToSet(u.route)
  BY <1>1, PlacesType, ToSetElements DEF InRoute, Contains
<1> HIDE DEF r
<1>4. /\ d \in State /\ d.listed = r.listed \ {p} /\ d.shown = r.shown \ {p}
      /\ d.iso = r.iso /\ d.shared = r.shared /\ d.route = r.route
      /\ d.drawing = r.drawing /\ d.stack = r.stack /\ d.sp = r.sp /\ d.cand = r.cand
  BY <1>2, MarkCallsLeave DEF Started, Common, Marked, Hides
<1> HIDE DEF d
<1>5. \A i \in Places(r) : r.stack[i].point = p => r.stack[i].type \notin {"delete", "append"}
  <2>1. \A i \in Places(r) : r.stack[i].point = p => r.stack[i].type # "delete"
    BY <1>1, <1>2, <1>3, NotDeleted DEF Started
  <2>2. \A i \in Places(r) : r.stack[i].type # "append"
    BY <1>1, <1>2 DEF Started, Tidy, AppendsSound, Places
  <2> QED
    BY <2>1, <2>2
<1>6. Fitting(d, r, d.cand.act)
  BY <1>2, <1>3, <1>4, <1>5 DEF Started, Fitting, Hidden
<1>7. /\ \A q : Hidden(r, q) => Hidden(d, q)
      /\ \A q : Found(r, q) => Found(d, q) \/ q = p
  BY <1>4 DEF Hidden, Found
<1>8. Reversible(AfterUndoableAction(d))
  BY <1>2, <1>4, <1>6, <1>7, PushReversible DEF Started
<1>9. AfterUndoableAction(d).cand = NONE
  BY <1>2, <1>4, AfterType DEF Started, Tidy, Fits
<1> QED
  BY <1>1, <1>8, <1>9 DEF DragReversible

LEMMA BeginDragReversible ==
  ASSUME RInv, NEW p \in Points, BeginDrag(p)
  PROVE  Reversible(u') /\ DragReversible(u')
<1> DEFINE r == Record(u, "move", p, "copy")
           v == [r EXCEPT !.pos[p] = 1 - @]
<1>1. Tidy(u) /\ Reversible(u) /\ u.cand = NONE /\ p \in u.shown /\ ~u.drawing /\ u' = v
  BY DEF RInv, IInv, BeginDrag
<1>2. Started(r, u, "move", p, "copy")
  BY <1>1, RecordReversible
<1> HIDE DEF r
<1>3. /\ v.listed = r.listed /\ v.shown = r.shown /\ v.iso = r.iso
      /\ v.shared = r.shared /\ v.route = r.route /\ v.drawing = r.drawing
      /\ v.stack = r.stack /\ v.sp = r.sp /\ v.cand = r.cand
  BY <1>2 DEF Started, State
<1> HIDE DEF v
<1>4. Reversible(v)
  BY <1>2, <1>3, SameReversible DEF Started
<1>5. ASSUME NEW i \in Places(r), r.stack[i].point = p, r.stack[i].type = "delete"
      PROVE  FALSE
  <2>1. DeleteAt(r, i, p) /\ i > r.sp
    BY <1>2, <1>5 DEF Started, Reversible, DeletesSound, Places
  <2>2. p \in r.shown /\ ~r.drawing
    BY <1>1, <1>2 DEF Started
  <2> QED
    BY <2>1, <2>2 DEF DeleteAt, Hidden
<1>6. DragReversible(v)
  BY <1>2, <1>3, <1>5 DEF Started, DragReversible, Places
<1> QED
  BY <1>1, <1>4, <1>6

LEMMA EndDragReversible ==
  ASSUME RInv, EndDrag
  PROVE  Reversible(u') /\ DragReversible(u')
<1>1. /\ Tidy(u) /\ Fits(u) /\ u \in State /\ Reversible(u) /\ u.cand # NONE
      /\ u' = AfterUndoableAction(u) /\ u.sp = 0 /\ u.cand.act.type = "move"
  BY DEF RInv, IInv, Tidy, Fits, DragSound, EndDrag
<1>2. Fitting(u, u, u.cand.act)
  BY <1>1 DEF RInv, DragReversible, Fitting
<1>3. Reversible(AfterUndoableAction(u))
  BY <1>1, <1>2, PushReversible
<1>4. AfterUndoableAction(u).cand = NONE
  BY <1>1, AfterType DEF Fits
<1> QED
  BY <1>1, <1>3, <1>4 DEF DragReversible

(* Nothing is left to undo or redo.                                        *)
LEMMA EmptiedReversible ==
  ASSUME NEW w \in State
  PROVE  Reversible(InvalidateUndo(w)) /\ DragReversible(InvalidateUndo(w))
<1> DEFINE v == InvalidateUndo(w)
<1>1. v.stack = <<>>
  BY DEF InvalidateUndo, State
<1> HIDE DEF v
<1>2. \A i \in Places(v) : FALSE
  BY <1>1 DEF Places
<1>3. Reversible(v) /\ DragReversible(v)
  BY <1>2 DEF Reversible, DragReversible, Ages, CreatesSound, DeletesSound, RouteSound
<1> QED
  BY <1>3 DEF v

LEMMA EmptyingReversible ==
  ASSUME RInv, FinishRoute \/ DeleteRoute \/ \E q \in Points : EndDragOnto(q)
  PROVE  Reversible(u') /\ DragReversible(u')
<1>1. PICK w \in State : u' = InvalidateUndo(w)
  BY EmptyingMeans DEF RInv
<1> QED
  BY <1>1, EmptiedReversible

(* Drawing starts on a stack without appends, and the route only grows.    *)
LEMMA DrawingReversible ==
  ASSUME NEW w, Tidy(w), Reversible(w), ~w.drawing, NEW v, v.drawing,
         v.stack = w.stack, v.sp = w.sp, ToSet(w.route) \subseteq ToSet(v.route),
         \A i \in Places(w) : LET p == w.stack[i].point IN
           /\ p \in v.listed <=> p \in w.listed
           /\ p \in v.shown <=> p \in w.shown
  PROVE  Reversible(v)
<1>1. \A i \in Places(w) : w.stack[i].type # "append"
  BY DEF Tidy, AppendsSound, Places
<1>2. SameActions(v, w) /\ Places(v) = Places(w)
  BY DEF SameActions, Places
<1>3. \A m, n, type, p : Among(v, m, n, type, p) <=> Among(w, m, n, type, p)
  BY DEF Among, IsOf
<1>4. \A i \in Places(w) : LET p == w.stack[i].point IN
        (Found(w, p) <=> Found(v, p)) /\ (Hidden(w, p) => Hidden(v, p))
  BY DEF Found, Hidden
<1>5. ASSUME NEW i \in Places(w)
      PROVE  LET p == w.stack[i].point IN
             /\ w.stack[i].type = "create" => CreateAt(v, i, p)
             /\ w.stack[i].type = "delete" => DeleteAt(v, i, p)
  BY <1>3, <1>4 DEF Reversible, CreatesSound, CreateAt, DeletesSound, DeleteAt
<1> QED
  BY <1>1, <1>2, <1>5, ReversibleBy DEF Reversible

(* A point leaves a route that the stack knows from moves only.            *)
LEMMA MenuReversible ==
  ASSUME RInv, RestSound(u), NEW p \in Points,
         RemovePointFromRoute(p) \/ DestroyWaypoint(p)
  PROVE  Reversible(u') /\ DragReversible(u')
<1> DEFINE v == u'
<1>1. Tidy(u) /\ Reversible(u) /\ Shrunk(v, u)
  BY RemoveFromRouteShrinks, DestroyShrinks DEF RInv, IInv
<1> HIDE DEF v
<1>2. \A i \in Places(u) : /\ u.stack[i].type # "append"
                           /\ u.stack[i].point \in Points
  BY <1>1 DEF Tidy, AppendsSound, PointsSound, Sure, Named, Places, Shrunk
<1>3. SameActions(v, u) /\ Places(v) = Places(u) /\ v.sp = u.sp
  BY <1>1 DEF SameActions, Places, Shrunk
<1>4. \A m, n, type, q : Among(v, m, n, type, q) <=> Among(u, m, n, type, q)
  BY <1>1 DEF Among, IsOf, Shrunk
<1>5. \A i \in Places(u) : u.stack[i].type # "move" =>
        LET q == u.stack[i].point IN
        /\ q \notin ToSet(u.route) /\ q \notin ToSet(v.route)
        /\ (Found(u, q) <=> Found(v, q)) /\ (Hidden(u, q) => Hidden(v, q))
  BY <1>1, <1>2 DEF Shrunk, RestSound, Found, Hidden, Places
<1>6. ASSUME NEW i \in Places(u)
      PROVE  LET q == u.stack[i].point IN
             /\ u.stack[i].type = "create" => CreateAt(v, i, q)
             /\ u.stack[i].type = "delete" => DeleteAt(v, i, q)
  BY <1>1, <1>3, <1>4, <1>5 DEF Reversible, CreatesSound, CreateAt, DeletesSound, DeleteAt
<1>7. Reversible(v)
  BY <1>1, <1>2, <1>3, <1>6, ReversibleBy DEF Reversible
<1> QED
  BY <1>1, <1>7 DEF DragReversible, Shrunk, v

LEMMA ContinueRouteReversible ==
  ASSUME RInv, ContinueRoute
  PROVE  Reversible(u') /\ DragReversible(u')
<1> DEFINE v == [u EXCEPT !.drawing = TRUE]
<1>1. /\ Tidy(u) /\ u \in State /\ Reversible(u) /\ ~u.drawing /\ u.cand = NONE /\ u' = v
  BY DEF RInv, IInv, Tidy, Fits, ContinueRoute
<1>2. /\ v.drawing /\ v.listed = u.listed /\ v.shown = u.shown
      /\ v.route = u.route /\ v.stack = u.stack /\ v.sp = u.sp /\ v.cand = NONE
  BY <1>1 DEF State
<1> HIDE DEF v
<1>3. Reversible(v)
  BY <1>1, <1>2, DrawingReversible
<1> QED
  BY <1>1, <1>2, <1>3 DEF DragReversible

LEMMA StartRouteReversible ==
  ASSUME RInv, NEW p \in Points, StartRoute(p)
  PROVE  Reversible(u') /\ DragReversible(u')
<1> DEFINE d == IF p \in Unused THEN Made(u, p) ELSE [u EXCEPT !.shared = @ \cup {p}]
           a == AddPoint(d, p)
           v == [a EXCEPT !.drawing = TRUE]
<1>1. /\ Tidy(u) /\ u \in State /\ Reversible(u) /\ ~u.drawing /\ u.cand = NONE
      /\ u.route = <<>> /\ u' = v
  BY DEF RInv, IInv, Tidy, Fits, StartRoute
<1>2. /\ d \in State /\ d.stack = u.stack /\ d.sp = u.sp /\ d.cand = NONE
      /\ \A i \in Places(u) : LET q == u.stack[i].point IN
           /\ q \in d.listed <=> q \in u.listed
           /\ q \in d.shown <=> q \in u.shown
  <2>1. CASE p \in Unused
    <3>1. u.life[p] = "none" /\ d = Made(u, p)
      BY <2>1 DEF Unused
    <3>2. \A i \in Places(u) : u.stack[i].point # p
      BY <1>1, <3>1, MadeSound DEF Places
    <3>3. /\ Made(u, p) \in State /\ Made(u, p).stack = u.stack /\ Made(u, p).sp = u.sp
          /\ Made(u, p).cand = u.cand
          /\ Made(u, p).listed = u.listed \cup {p} /\ Made(u, p).shown = u.shown \cup {p}
      BY <1>1, MadeType
    <3> QED
      BY <1>1, <3>1, <3>2, <3>3
  <2>2. CASE p \notin Unused
    <3> DEFINE e == [u EXCEPT !.shared = @ \cup {p}]
    <3>1. /\ e \in State /\ e.stack = u.stack /\ e.sp = u.sp /\ e.cand = u.cand
          /\ e.listed = u.listed /\ e.shown = u.shown
      BY <1>1 DEF State
    <3>2. d = e
      BY <2>2
    <3> HIDE DEF d, e
    <3> QED
      BY <1>1, <3>1, <3>2
  <2> QED
    BY <2>1, <2>2
<1> HIDE DEF d
<1>3. /\ a \in State /\ a.listed = d.listed /\ a.shown = d.shown /\ a.stack = d.stack
      /\ a.sp = d.sp /\ a.cand = d.cand
  BY <1>2, AddPointLeaves
<1> HIDE DEF a
<1>4. /\ v.drawing /\ v.listed = a.listed /\ v.shown = a.shown
      /\ v.stack = a.stack /\ v.sp = a.sp /\ v.cand = a.cand
  BY <1>3 DEF State
<1> HIDE DEF v
<1>5. ToSet(u.route) \subseteq ToSet(v.route)
  BY <1>1 DEF ToSet
<1>6. Reversible(v)
  BY <1>1, <1>2, <1>3, <1>4, <1>5, DrawingReversible
<1> QED
  BY <1>1, <1>2, <1>3, <1>4, <1>6 DEF DragReversible

(* A point enters the route, and its recorded append the stack.            *)
LEMMA AppendReversible ==
  ASSUME NEW r, Tidy(r), Reversible(r), r.sp = 0, r.drawing, r.cand # NONE,
         NEW p \in Points, r.cand.act.type = "append", r.cand.act.point = p,
         \A i \in Places(r) : r.stack[i].point = p => r.stack[i].type # "delete",
         ~NewAppend(r.cand.act) => p \in r.shared
  PROVE  LET v == AfterUndoableAction(AddPoint(r, p)) IN
         Reversible(v) /\ v.cand = NONE
<1> DEFINE d == AddPoint(r, p)
<1>1. r \in State /\ r.route \in Seq(Points) /\ Len(r.stack) <= Depth
  BY DEF Tidy, Fits, State
<1>2. /\ d \in State /\ d.listed = r.listed /\ d.shown = r.shown
      /\ d.route = Append(r.route, p) /\ d.drawing = r.drawing
      /\ d.stack = r.stack /\ d.sp = r.sp /\ d.cand = r.cand
      /\ d.iso = r.iso \ {p} /\ r.shared \subseteq d.shared
  BY <1>1, AddPointLeaves
<1>3. ToSet(d.route) = ToSet(r.route) \cup {p}
  BY <1>1, <1>2, AppendElements
<1> HIDE DEF d
<1>4. Fitting(d, r, d.cand.act)
  BY <1>2 DEF Fitting
<1>5. /\ \A q : Hidden(r, q) => Hidden(d, q)
      /\ \A q : Found(r, q) => Found(d, q)
  BY <1>2, <1>3 DEF Hidden, Found
<1>6. Reversible(AfterUndoableAction(d))
  BY <1>2, <1>4, <1>5, PushReversible
<1>7. AfterUndoableAction(d).cand = NONE
  BY <1>1, <1>2, AfterType
<1> QED
  BY <1>6, <1>7 DEF d

LEMMA AppendNewReversible ==
  ASSUME RInv, NEW p \in Points, AppendNew(p)
  PROVE  Reversible(u') /\ DragReversible(u')
<1> DEFINE m == Made(u, p)
           r == Record(m, "append", p, "orphan")
<1>1. /\ Tidy(u) /\ u \in State /\ Reversible(u) /\ u.life[p] = "none" /\ u.drawing
      /\ u.cand = NONE /\ u' = AfterUndoableAction(AddPoint(r, p))
  BY DEF RInv, IInv, Tidy, Fits, AppendNew, Unused
<1>2. /\ Tidy(m) /\ m.listed = u.listed \cup {p} /\ m.shown = u.shown \cup {p}
      /\ m.iso = u.iso /\ m.shared = u.shared /\ m.route = u.route
      /\ m.drawing = u.drawing /\ m.stack = u.stack /\ m.sp = u.sp /\ m.cand = NONE
  BY <1>1, MadeSound, MadeType
<1> HIDE DEF m
<1>3. Reversible(m) /\ \A i \in Places(m) : m.stack[i].point # p
  <2>1. u.iso \subseteq m.iso /\ m.iso \subseteq u.iso \cup {p}
    BY <1>2
  <2>2. Reversible(m) /\ \A i \in Places(u) : u.stack[i].point # p
    BY <1>1, <1>2, <2>1, MadeReversible
  <2> QED
    BY <1>2, <2>2 DEF Places
<1>4. Started(r, m, "append", p, "orphan")
  BY <1>2, <1>3, RecordReversible
<1> HIDE DEF r
<1>5. /\ \A i \in Places(r) : r.stack[i].point # p
      /\ NewAppend(r.cand.act)
  BY <1>3, <1>4 DEF Started, NewAppend
<1>6. Reversible(u') /\ u'.cand = NONE
  BY <1>1, <1>2, <1>4, <1>5, AppendReversible DEF Started
<1> QED
  BY <1>6 DEF DragReversible

LEMMA AppendExistingReversible ==
  ASSUME Plain, RInv, NEW p \in Points, AppendExisting(p)
  PROVE  Reversible(u') /\ DragReversible(u')
<1> DEFINE d == [u EXCEPT !.shared = IF InRoute(u, p) THEN @ ELSE @ \cup {p}]
           r == Record(d, "append", p, "parent")
<1>1. /\ Tidy(u) /\ Fits(u) /\ u \in State /\ Reversible(u) /\ u.drawing /\ u.cand = NONE
      /\ p \in u.listed /\ ~InRoute(u, p)
      /\ u' = AfterUndoableAction(AddPoint(r, p))
  BY DEF RInv, IInv, Tidy, Fits, AppendExisting, Plain
<1>2. Fits(d)
  BY <1>1 DEF Fits, State
<1>3. /\ d.life = u.life /\ d.listed = u.listed /\ d.shown = u.shown
      /\ d.iso = u.iso /\ d.shared = u.shared \cup {p}
      /\ d.route = u.route /\ d.drawing = u.drawing /\ d.stack = u.stack
      /\ d.sp = u.sp /\ d.cand = u.cand
  BY <1>1 DEF State
<1> HIDE DEF d
<1>4. Tidy(d)
  BY <1>1, <1>2, <1>3, OtherFields
<1>5. Reversible(d)
  BY <1>1, <1>3, SameReversible
<1>6. Started(r, d, "append", p, "parent")
  BY <1>1, <1>3, <1>4, <1>5, RecordReversible
<1> HIDE DEF r
<1>7. /\ Tidy(r) /\ Reversible(r) /\ r.sp = 0 /\ r.drawing /\ r.cand # NONE
      /\ r.cand.act.type = "append" /\ r.cand.act.point = p
      /\ p \in r.listed /\ p \in r.shared
  BY <1>1, <1>3, <1>6 DEF Started
<1>8. \A i \in Places(r) : r.stack[i].point = p => r.stack[i].type # "delete"
  BY <1>7, NotDeleted
<1>9. Reversible(u') /\ u'.cand = NONE
  BY <1>1, <1>7, <1>8, AppendReversible
<1> QED
  BY <1>9 DEF DragReversible

LEMMA UndoRedoReversible ==
  ASSUME Plain, RInv, Undo \/ Redo
  PROVE  Reversible(u') /\ DragReversible(u')
<1>1. /\ Tidy(u) /\ u \in State /\ Reversible(u) /\ u.cand = NONE
      /\ u.sp \in Nat /\ Len(u.stack) \in Nat /\ u.sp <= Len(u.stack)
  BY PlacesType DEF RInv, IInv, Undo, Redo, Plain
<1>2. CASE Undo
  <2>1. AnythingToUndo(u) /\ u' = UndoLastAction(u)
    BY <1>2 DEF Undo
  <2>2. UndoLastAction(u).cand = NONE
    BY <1>1, <2>1, UndoType DEF AnythingToUndo
  <2> QED
    BY <1>1, <2>1, <2>2, UndoReversible DEF DragReversible
<1>3. CASE Redo
  <2>1. AnythingToRedo(u) /\ u' = RedoNextAction(u)
    BY <1>3 DEF Redo
  <2>2. RedoNextAction(u).cand = NONE
    BY <1>1, <2>1, RedoType DEF AnythingToRedo
  <2> QED
    BY <1>1, <2>1, <2>2, RedoReversible DEF DragReversible
<1> QED
  BY <1>2, <1>3

-----------------------------------------------------------------------------
(* Undoing what has just been redone, and redoing what has just been       *)
(* undone, changes nothing, whatever marks and route points the other      *)
(* actions of the stack are about, for any points, any depth of the stack  *)
(* and any length of the route.                                            *)
THEOREM UndoRedoAreInverse ==
  ASSUME Plain
  PROVE  Spec => []UndoRedoInverse
<1> DEFINE Sound == Reversible(u) /\ DragReversible(u)
<1>1. Init => Sound
  <2> SUFFICES ASSUME Init PROVE Sound
    OBVIOUS
  <2>1. u.stack = <<>>
    BY DEF Init
  <2>2. \A i \in Places(u) : FALSE
    BY <2>1 DEF Places
  <2> QED
    BY <2>2 DEF Reversible, DragReversible, Ages, CreatesSound, DeletesSound, RouteSound
<1>2. ASSUME SInv, Sound, [Next]_vars PROVE Sound'
  <2>1. RInv /\ RestSound(u)
    BY <1>2 DEF RInv, SInv
  <2>2. CASE UNCHANGED vars
    <3>1. u' = u
      BY <2>2 DEF vars
    <3> QED
      BY <1>2, <3>1
  <2>3. CASE Next
    BY <2>1, <2>3, DropMarkReversible, DeleteMarkReversible, BeginDragReversible,
       EndDragReversible, EmptyingReversible, UndoRedoReversible,
       StartRouteReversible, AppendNewReversible, AppendExistingReversible,
       ContinueRouteReversible, MenuReversible DEF Next
  <2> QED
    BY <1>2, <2>2, <2>3
<1>3. SInv /\ Sound => UndoRedoInverse
  BY ReversibleInverts DEF SInv, IInv
<1> HIDE DEF Sound
<1> QED
  BY <1>1, <1>2, <1>3, Invariance, PTL DEF Spec
=============================================================================
