-------------------------- MODULE NavPictureProofs ---------------------------
(***************************************************************************)
(* What a world of NavObjectStore shows, abstracted to a "picture": by     *)
(* GUIDs, which points are there and where, which of them only their       *)
(* routes keep, and the points and the look of each route.  Proved here:   *)
(*                                                                         *)
(*   - what every helper that edits, loads or replays does to the picture; *)
(*   - that the document tells the whole picture of a world that is not    *)
(*     damaged, and a start makes the same picture of it;                  *)
(*   - that the records an edit writes, applied one after the other to     *)
(*     what was saved before the edit, or to what is saved after it, lead  *)
(*     from the picture before the edit to the picture after it.  During   *)
(*     such a replay (Core) part of the routes are still, or already, as   *)
(*     in the document.                                                    *)
(***************************************************************************)
EXTENDS NavObjectStoreProofs

-----------------------------------------------------------------------------
(* What a world shows *)

(* A picture says, by GUIDs, which points are there ("here"), where they    *)
(* are ("pos"), which of them only their routes keep ("own"), and what the  *)
(* points ("names") and the look of each route are.  The rest of it is only *)
(* of use during a replay: "known" are the routes that lead through listed  *)
(* objects only, "left" the GUIDs of which records may have left objects    *)
(* that nothing holds, "behind" those of which such an object may come      *)
(* before the one that counts, and "flagged" those whose left objects count *)
(* as shared exactly if the one that counts does.                           *)

(* An object of the list that the user can see.                             *)
Live(w, i) == w.obj[i].listed /\ (w.obj[i].isolated \/ In(w, i))

(* The routes; those not known yet may pass through objects that left the list. *)
RoutesFit(w, a) ==
    \A r \in Routes :
        /\ Len(w.pts[r]) = Len(a.names[r])
        /\ \A m \in 1..Len(w.pts[r]) :
              LET o == w.obj[w.pts[r][m]]
              IN  /\ o.guid = a.names[r][m]
                  /\ o.listed \/ (r \notin a.known /\ o.guid \notin a.own)

(* The objects that can be seen, where they are, and who keeps them.        *)
PointsFit(w, a) ==
    /\ \A i \in 1..Len(w.obj) : Live(w, i) =>
          /\ w.obj[i].guid \in a.here /\ w.obj[i].pos = a.pos[w.obj[i].guid]
          /\ w.obj[i].isolated => w.obj[i].guid \notin a.own
          /\ ~w.obj[i].isolated => w.obj[i].shared = (w.obj[i].guid \notin a.own)
    /\ \A g \in a.here : \E i \in 1..Len(w.obj) : Live(w, i) /\ w.obj[i].guid = g

(* No two of them have one GUID, and a search by GUID finds the one.        *)
OneOfEach(w, a) ==
    \A i, j \in 1..Len(w.obj) :
        Live(w, i) /\ w.obj[j].listed /\ w.obj[i].guid = w.obj[j].guid =>
          /\ Live(w, j) => i = j
          /\ w.obj[i].guid \notin a.behind => i <= j

(* The objects that the records of routes left in the list.                *)
OthersFit(w, a) ==
    \A j \in 1..Len(w.obj) : w.obj[j].listed /\ ~Live(w, j) =>
        /\ w.obj[j].guid \in a.left
        /\ w.obj[j].guid \in a.flagged => w.obj[j].shared = (w.obj[j].guid \notin a.own)

(* The picture "a" is of the world w.                                       *)
Depicts(w, a) ==
    Sound(w) /\ w.look = a.look /\ RoutesFit(w, a) /\ PointsFit(w, a) /\ OneOfEach(w, a) /\ OthersFit(w, a)

(* A point is where its routes are.                                        *)
LEMMA LiveWhere ==
    ASSUME NEW w, NEW a, Depicts(w, a), NEW i \in 1..Len(w.obj), Live(w, i)
    PROVE  LET g == w.obj[i].guid IN
           /\ \A r \in Routes : On(w.pts, r, i) => Has(a.names[r], g)
           /\ \A r \in Routes : (r \in a.known \/ g \in a.own) /\ Has(a.names[r], g) => On(w.pts, r, i)
           /\ In(w, i) => \E r \in Routes : Has(a.names[r], g)
<1> DEFINE g == w.obj[i].guid
<1>1. w \in Worlds /\ \A r \in Routes : \A m \in 1..Len(w.pts[r]) : w.pts[r][m] \in 1..Len(w.obj)
  BY DEF Depicts, Sound, Fits
<1>2. ASSUME NEW r \in Routes, On(w.pts, r, i) PROVE Has(a.names[r], g)
  <2>1. PICK m \in 1..Len(w.pts[r]) : w.pts[r][m] = i
    BY <1>2 DEF On, Has
  <2>2. m \in 1..Len(a.names[r]) /\ a.names[r][m] = g
    BY <2>1 DEF Depicts, RoutesFit
  <2> QED
    BY <2>2 DEF Has
<1>3. ASSUME NEW r \in Routes, r \in a.known \/ g \in a.own, Has(a.names[r], g) PROVE On(w.pts, r, i)
  <2>1. PICK m \in 1..Len(a.names[r]) : a.names[r][m] = g
    BY <1>3 DEF Has
  <2>2. m \in 1..Len(w.pts[r]) /\ w.obj[w.pts[r][m]].guid = g /\ w.obj[w.pts[r][m]].listed
    BY <1>3, <2>1 DEF Depicts, RoutesFit
  <2>3. PICK j \in 1..Len(w.obj) : j = w.pts[r][m]
    BY <1>1, <2>2
  <2>4. On(w.pts, r, j)
    BY <2>2, <2>3 DEF On, Has
  <2>5. Live(w, j)
    BY <2>2, <2>3, <2>4 DEF Live, In
  <2>6. i = j
    BY <2>2, <2>3, <2>5 DEF Depicts, OneOfEach, Live
  <2> QED
    BY <2>4, <2>6
<1> QED
  BY <1>2, <1>3 DEF In

(* A route that is known passes through points that are there.             *)
LEMMA RouteThrough ==
    ASSUME NEW w, NEW a, Depicts(w, a), NEW r \in Routes, NEW g, Has(a.names[r], g),
           r \in a.known \/ g \in a.own
    PROVE  \E i \in 1..Len(w.obj) : Live(w, i) /\ w.obj[i].guid = g /\ On(w.pts, r, i)
<1>1. w \in Worlds /\ \A q \in Routes : \A m \in 1..Len(w.pts[q]) : w.pts[q][m] \in 1..Len(w.obj)
  BY DEF Depicts, Sound, Fits
<1>2. PICK m \in 1..Len(a.names[r]) : a.names[r][m] = g
  BY DEF Has
<1>3. m \in 1..Len(w.pts[r]) /\ w.obj[w.pts[r][m]].guid = g /\ w.obj[w.pts[r][m]].listed
  BY <1>2 DEF Depicts, RoutesFit
<1>4. PICK j \in 1..Len(w.obj) : j = w.pts[r][m]
  BY <1>1, <1>3
<1>5. On(w.pts, r, j)
  BY <1>3, <1>4 DEF On, Has
<1> QED
  BY <1>3, <1>4, <1>5 DEF Live, In

(* Of the points of deleted routes, those that only their routes keep go.  *)
Gone(a, rs) == {g \in a.own : /\ \E r \in Routes : r \in rs /\ Has(a.names[r], g)
                              /\ \A r \in Routes : Has(a.names[r], g) => r \in rs}

(* What is left of a picture when routes are deleted.                      *)
Drops(a, rs, b) ==
    /\ \A r \in Routes : b.names[r] = IF r \in rs THEN <<>> ELSE a.names[r]
    /\ b.here = a.here \ Gone(a, rs)
    /\ b.pos = a.pos
    /\ b.own = a.own
    /\ b.look = Bare(a, rs)
    /\ b.known \subseteq a.known \cup rs
    /\ b.flagged = a.flagged
    /\ b.behind = a.behind
    /\ b.left = a.left

(* Routes that are dropped take the points with them that nothing else keeps. *)
LEMMA DropDepicted ==
    ASSUME NEW w, NEW a, Depicts(w, a), NEW rs, NEW b,
           Drops(a, rs, b)
    PROVE  Depicts(DropRoutes(w, rs), b)
<1> USE DEF Drops
<1> DEFINE v == DropRoutes(w, rs)
           n == Len(w.obj)
<1>1. Sound(w) /\ w.look = a.look /\ RoutesFit(w, a) /\ PointsFit(w, a) /\ OneOfEach(w, a) /\ OthersFit(w, a)
  BY DEF Depicts
<1>2. /\ Sound(v) /\ Len(v.obj) = n
      /\ \A q \in Routes : v.pts[q] = IF q \in rs THEN <<>> ELSE w.pts[q]
      /\ \A j \in 1..n : v.obj[j].guid = w.obj[j].guid
  BY <1>1, RoutesDropped
<1>3. /\ v.look = Bare(w, rs)
      /\ \A j : \A q \in Routes : On(v.pts, q, j) <=> On(w.pts, q, j) /\ q \notin rs
      /\ \A j \in 1..n :
           IF In(w, j) /\ ~In(v, j)
           THEN /\ v.obj[j].guid = w.obj[j].guid /\ v.obj[j].pos = w.obj[j].pos
                /\ v.obj[j].listed <=> w.obj[j].listed /\ w.obj[j].shared
                /\ v.obj[j].isolated <=> w.obj[j].shared
           ELSE v.obj[j] = w.obj[j]
  BY <1>1, RoutesDropped
<1> HIDE DEF v
<1>4. \A j : In(v, j) => In(w, j)
  BY <1>3 DEF In
<1>5. \A j \in 1..n : /\ v.obj[j].pos = w.obj[j].pos
                      /\ v.obj[j].listed => w.obj[j].listed
  BY <1>3
<1>6. \A j \in 1..n : In(w, j) => ~w.obj[j].isolated
  BY <1>1 DEF Sound, FlagsOK
<1>7. ASSUME NEW j \in 1..n PROVE Live(v, j) => Live(w, j)
  BY <1>3, <1>4 DEF Live
<1>8. ASSUME NEW j \in 1..n, Live(w, j)
      PROVE  Live(v, j) <=> w.obj[j].guid \notin Gone(a, rs)
  <2> DEFINE g == w.obj[j].guid
  <2>1. /\ \A r \in Routes : On(w.pts, r, j) => Has(a.names[r], g)
        /\ \A r \in Routes : (r \in a.known \/ g \in a.own) /\ Has(a.names[r], g) => On(w.pts, r, j)
    BY <1>8, LiveWhere
  <2>2. w.obj[j].isolated => g \notin a.own
    BY <1>1, <1>8 DEF PointsFit
  <2>3. ~w.obj[j].isolated => w.obj[j].shared = (g \notin a.own)
    BY <1>1, <1>8 DEF PointsFit
  <2> HIDE DEF g
  <2>4. g \in Gone(a, rs) <=> g \in a.own /\ In(w, j) /\ ~In(v, j)
    <3>1. g \in a.own => /\ In(w, j) <=> \E r \in Routes : Has(a.names[r], g)
                         /\ In(v, j) <=> \E r \in Routes : r \notin rs /\ Has(a.names[r], g)
      BY <1>3, <2>1 DEF In
    <3> QED
      BY <3>1 DEF Gone
  <2>5. CASE In(w, j) /\ ~In(v, j)
    <3>1. v.obj[j].listed <=> w.obj[j].listed /\ w.obj[j].shared
      BY <1>3, <2>5
    <3>2. v.obj[j].isolated <=> w.obj[j].shared
      BY <1>3, <2>5
    <3>3. w.obj[j].shared = (g \notin a.own)
      BY <1>6, <2>3, <2>5
    <3> QED
      BY <1>8, <2>4, <2>5, <3>1, <3>2, <3>3 DEF Live, g
  <2>6. CASE ~(In(w, j) /\ ~In(v, j))
    <3>1. v.obj[j] = w.obj[j]
      BY <1>3, <2>6
    <3> QED
      BY <1>8, <2>4, <2>6, <3>1 DEF Live, g
  <2> QED
    BY <2>5, <2>6
<1>9. v.look = b.look
  BY <1>1, <1>3 DEF Bare
<1>10. RoutesFit(v, b)
  <2> SUFFICES ASSUME NEW q \in Routes
               PROVE  /\ Len(v.pts[q]) = Len(b.names[q])
                      /\ \A m \in 1..Len(v.pts[q]) :
                            /\ v.obj[v.pts[q][m]].guid = b.names[q][m]
                            /\ v.obj[v.pts[q][m]].listed
                               \/ (q \notin b.known /\ v.obj[v.pts[q][m]].guid \notin b.own)
    BY DEF RoutesFit
  <2>1. CASE q \in rs
    BY <1>2, <2>1
  <2>2. CASE q \notin rs
    <3>1. v.pts[q] = w.pts[q] /\ b.names[q] = a.names[q]
      BY <1>2, <2>2
    <3> SUFFICES ASSUME NEW m \in 1..Len(w.pts[q])
                 PROVE  /\ v.obj[w.pts[q][m]].guid = a.names[q][m]
                        /\ v.obj[w.pts[q][m]].listed
                           \/ (q \notin b.known /\ v.obj[w.pts[q][m]].guid \notin b.own)
      BY <1>1, <3>1 DEF RoutesFit
    <3>2. PICK j \in 1..n : j = w.pts[q][m]
      BY <1>1 DEF Sound, Fits
    <3>3. On(v.pts, q, j)
      BY <3>1, <3>2 DEF On, Has
    <3>4. v.obj[j] = w.obj[j]
      BY <1>3, <3>3 DEF In
    <3>5. /\ w.obj[j].guid = a.names[q][m]
          /\ w.obj[j].listed \/ (q \notin a.known /\ w.obj[j].guid \notin a.own)
      BY <1>1, <3>2 DEF RoutesFit
    <3> QED
      BY <2>2, <3>2, <3>4, <3>5
  <2> QED
    BY <2>1, <2>2
<1>11. PointsFit(v, b)
  <2>1. ASSUME NEW i \in 1..n, Live(v, i)
        PROVE  /\ v.obj[i].guid \in b.here /\ v.obj[i].pos = b.pos[v.obj[i].guid]
               /\ v.obj[i].isolated => v.obj[i].guid \notin b.own
               /\ ~v.obj[i].isolated => v.obj[i].shared = (v.obj[i].guid \notin b.own)
    <3>1. Live(w, i)
      BY <1>7, <2>1
    <3>2. w.obj[i].guid \notin Gone(a, rs)
      BY <1>8, <2>1, <3>1
    <3>3. /\ w.obj[i].guid \in a.here /\ w.obj[i].pos = a.pos[w.obj[i].guid]
          /\ w.obj[i].isolated => w.obj[i].guid \notin a.own
          /\ ~w.obj[i].isolated => w.obj[i].shared = (w.obj[i].guid \notin a.own)
      BY <1>1, <3>1 DEF PointsFit
    <3>4. v.obj[i].guid = w.obj[i].guid /\ v.obj[i].pos = w.obj[i].pos
      BY <1>2, <1>5
    <3>5. CASE In(w, i) /\ ~In(v, i)
      <4>1. v.obj[i].isolated /\ w.obj[i].shared
        BY <1>3, <2>1, <3>5 DEF Live
      <4>2. ~w.obj[i].isolated
        BY <1>6, <3>5
      <4> QED
        BY <3>2, <3>3, <3>4, <4>1, <4>2
    <3>6. CASE ~(In(w, i) /\ ~In(v, i))
      <4>1. v.obj[i] = w.obj[i]
        BY <1>3, <3>6
      <4> QED
        BY <3>2, <3>3, <3>4, <4>1
    <3> QED
      BY <3>5, <3>6
  <2>2. ASSUME NEW g \in b.here PROVE \E i \in 1..n : Live(v, i) /\ v.obj[i].guid = g
    <3>1. g \in a.here /\ g \notin Gone(a, rs)
      BY <2>2
    <3>2. PICK i \in 1..n : Live(w, i) /\ w.obj[i].guid = g
      BY <1>1, <3>1 DEF PointsFit
    <3> QED
      BY <1>2, <1>8, <3>1, <3>2
  <2> QED
    BY <1>2, <2>1, <2>2 DEF PointsFit
<1>12. OneOfEach(v, b)
  <2>1. ASSUME NEW i \in 1..n, NEW j \in 1..n, Live(v, i), v.obj[j].listed, v.obj[i].guid = v.obj[j].guid
        PROVE  /\ Live(v, j) => i = j
               /\ v.obj[i].guid \notin b.behind => i <= j
    <3>1. Live(w, i) /\ w.obj[j].listed /\ w.obj[i].guid = w.obj[j].guid
      BY <1>2, <1>5, <1>7, <2>1
    <3>2. /\ Live(w, j) => i = j
          /\ w.obj[i].guid \notin a.behind => i <= j
      BY <1>1, <3>1 DEF OneOfEach
    <3> QED
      BY <1>2, <1>7, <3>2
  <2> QED
    BY <1>2, <2>1 DEF OneOfEach
<1>13. OthersFit(v, b)
  <2>1. ASSUME NEW j \in 1..n, v.obj[j].listed, ~Live(v, j)
        PROVE  /\ v.obj[j].guid \in b.left
               /\ v.obj[j].guid \in b.flagged => v.obj[j].shared = (v.obj[j].guid \notin b.own)
    <3>1. v.obj[j] = w.obj[j]
      BY <1>3, <2>1 DEF Live
    <3>2. w.obj[j].listed /\ ~Live(w, j)
      <4>1. ~In(v, j) /\ ~w.obj[j].isolated
        BY <2>1, <3>1 DEF Live
      <4>2. ~In(w, j)
        BY <1>3, <2>1, <4>1 DEF Live
      <4> QED
        BY <2>1, <3>1, <4>1, <4>2 DEF Live
    <3> QED
      BY <1>1, <3>1, <3>2 DEF OthersFit
  <2> QED
    BY <1>2, <2>1 DEF OthersFit
<1> QED
  BY <1>2, <1>9, <1>10, <1>11, <1>12, <1>13 DEF Depicts, v

-----------------------------------------------------------------------------
(* Objects that come and go *)

(* A picture with one mark more.                                         *)
WithMark(a, o, b) ==
    /\ o.listed
    /\ o.isolated
    /\ ~o.inRoute
    /\ o.guid \notin a.here
    /\ o.guid \notin a.own
    /\ b.names = a.names
    /\ b.here = a.here \cup {o.guid}
    /\ b.own = a.own
    /\ b.look = a.look
    /\ b.pos[o.guid] = o.pos
    /\ \A g \in a.here : b.pos[g] = a.pos[g]
    /\ b.known = a.known
    /\ b.flagged \subseteq a.flagged
    /\ a.behind \subseteq b.behind
    /\ a.left \subseteq b.left
    /\ o.guid \in a.left => o.guid \in b.behind

(* An object is added to the list as a mark.                               *)
LEMMA MarkDepicted ==
    ASSUME NEW w, NEW a, Depicts(w, a), NEW o \in Objects, NEW b,
           WithMark(a, o, b)
    PROVE  Depicts(AddRoutePoint(w, o), b)
<1> USE DEF WithMark
<1> DEFINE v == AddRoutePoint(w, o)
           n == Len(w.obj)
<1>1. Sound(w) /\ w.look = a.look /\ RoutesFit(w, a) /\ PointsFit(w, a) /\ OneOfEach(w, a) /\ OthersFit(w, a)
  BY DEF Depicts
<1>2. /\ Sound(v) /\ Len(v.obj) = n + 1 /\ v.pts = w.pts /\ v.look = w.look
      /\ v.obj[n + 1] = o /\ \A j \in 1..n : v.obj[j] = w.obj[j]
  BY <1>1, ObjectAdded
<1> HIDE DEF v
<1>3. n \in Nat /\ \A j \in 1..n + 1 : j \in 1..n \/ j = n + 1
  BY <1>1, WorldTypes DEF Sound, Fits
<1>4. \A j : In(v, j) <=> In(w, j)
  BY <1>2 DEF In
<1>5. \A j \in 1..n : j \in 1..n + 1 /\ j < n + 1 /\ j # n + 1
  BY <1>3
<1>6. \A j \in 1..n : Live(v, j) <=> Live(w, j)
  BY <1>2, <1>4 DEF Live
<1>7. Live(v, n + 1) /\ n + 1 \in 1..n + 1
  BY <1>2, <1>3 DEF Live
<1>8. RoutesFit(v, b)
  <2> SUFFICES ASSUME NEW q \in Routes, NEW m \in 1..Len(w.pts[q])
               PROVE  /\ v.obj[w.pts[q][m]].guid = a.names[q][m]
                      /\ v.obj[w.pts[q][m]].listed
                         \/ (q \notin b.known /\ v.obj[w.pts[q][m]].guid \notin b.own)
    BY <1>1, <1>2 DEF RoutesFit
  <2>1. w.pts[q][m] \in 1..n
    BY <1>1 DEF Sound, Fits
  <2>2. v.obj[w.pts[q][m]] = w.obj[w.pts[q][m]]
    BY <1>2, <2>1
  <2> QED
    BY <1>1, <2>2 DEF RoutesFit
<1>9. PointsFit(v, b)
  <2>1. ASSUME NEW i \in 1..n + 1, Live(v, i)
        PROVE  /\ v.obj[i].guid \in b.here /\ v.obj[i].pos = b.pos[v.obj[i].guid]
               /\ v.obj[i].isolated => v.obj[i].guid \notin b.own
               /\ ~v.obj[i].isolated => v.obj[i].shared = (v.obj[i].guid \notin b.own)
    <3>1. CASE i = n + 1
      BY <1>2, <3>1
    <3>2. CASE i \in 1..n
      <4>1. Live(w, i) /\ v.obj[i] = w.obj[i]
        BY <1>2, <1>6, <2>1, <3>2
      <4> QED
        BY <1>1, <3>2, <4>1 DEF PointsFit
    <3> QED
      BY <1>3, <3>1, <3>2
  <2>2. ASSUME NEW g \in b.here PROVE \E i \in 1..n + 1 : Live(v, i) /\ v.obj[i].guid = g
    <3>1. CASE g = o.guid
      BY <1>2, <1>7, <3>1
    <3>2. CASE g \in a.here
      <4>1. PICK i \in 1..n : Live(w, i) /\ w.obj[i].guid = g
        BY <1>1, <3>2 DEF PointsFit
      <4> QED
        BY <1>2, <1>5, <1>6, <4>1
    <3> QED
      BY <3>1, <3>2
  <2> QED
    BY <1>2, <2>1, <2>2 DEF PointsFit
<1>10. OneOfEach(v, b)
  <2>1. ASSUME NEW i \in 1..n + 1, NEW j \in 1..n + 1, Live(v, i), v.obj[j].listed, v.obj[i].guid = v.obj[j].guid
        PROVE  /\ Live(v, j) => i = j
               /\ v.obj[i].guid \notin b.behind => i <= j
    <3>1. CASE i \in 1..n /\ j \in 1..n
      BY <1>1, <1>2, <1>6, <2>1, <3>1 DEF OneOfEach
    <3>2. CASE i = n + 1 /\ j = n + 1
      BY <1>3, <3>2
    <3>3. CASE i = n + 1 /\ j \in 1..n
      <4>1. w.obj[j].listed /\ w.obj[j].guid = o.guid
        BY <1>2, <2>1, <3>3
      <4>2. ~Live(w, j)
        BY <1>1, <4>1, <3>3 DEF PointsFit
      <4>3. o.guid \in a.left
        BY <1>1, <3>3, <4>1, <4>2 DEF OthersFit
      <4> QED
        BY <1>2, <1>6, <3>3, <4>2, <4>3
    <3>4. CASE i \in 1..n /\ j = n + 1
      <4>1. Live(w, i) /\ w.obj[i].guid = o.guid
        BY <1>2, <1>6, <2>1, <3>4
      <4> QED
        BY <1>1, <3>4, <4>1 DEF PointsFit
    <3> QED
      BY <1>3, <3>1, <3>2, <3>3, <3>4
  <2> QED
    BY <1>2, <2>1 DEF OneOfEach
<1>11. OthersFit(v, b)
  <2>1. ASSUME NEW j \in 1..n + 1, v.obj[j].listed, ~Live(v, j)
        PROVE  /\ v.obj[j].guid \in b.left
               /\ v.obj[j].guid \in b.flagged => v.obj[j].shared = (v.obj[j].guid \notin b.own)
    <3>1. j \in 1..n
      BY <1>3, <1>7, <2>1
    <3> QED
      BY <1>1, <1>2, <1>6, <2>1, <3>1 DEF OthersFit
  <2> QED
    BY <1>2, <2>1 DEF OthersFit
<1> QED
  BY <1>1, <1>2, <1>8, <1>9, <1>10, <1>11 DEF Depicts, v

(* The objects of a route record are added to the list.                    *)
LEMMA RecordDepicted ==
    ASSUME NEW w, NEW a, Depicts(w, a), NEW recs \in Seq(Recs), NEW b,
           b.names = a.names, b.here = a.here, b.own = a.own, b.look = a.look, b.pos = a.pos,
           b.known = a.known, b.flagged \subseteq a.flagged, b.behind = a.behind,
           a.left \subseteq b.left, \A k \in 1..Len(recs) : recs[k].guid \in b.left,
           \A k \in 1..Len(recs) : recs[k].guid \in b.flagged =>
               recs[k].shared = (recs[k].guid \notin b.own)
    PROVE  Depicts(WithRecord(w, recs), b)
<1> DEFINE v == WithRecord(w, recs)
           n == Len(w.obj)
           c == Len(recs)
<1>1. Sound(w) /\ w.look = a.look /\ RoutesFit(w, a) /\ PointsFit(w, a) /\ OneOfEach(w, a) /\ OthersFit(w, a)
  BY DEF Depicts
<1>2. /\ Sound(v) /\ Len(v.obj) = n + c /\ v.pts = w.pts /\ v.look = w.look
      /\ \A j \in 1..n : v.obj[j] = w.obj[j]
      /\ \A j \in 1..Len(v.obj) : j \in 1..n \/ \E k \in 1..c : j = n + k
      /\ \A j : In(v, j) <=> In(w, j)
      /\ \A k \in 1..c : /\ ~In(v, n + k) /\ v.obj[n + k].guid = recs[k].guid
                         /\ v.obj[n + k].shared = recs[k].shared /\ ~v.obj[n + k].isolated
  BY <1>1, RecordLoaded
<1> HIDE DEF v
<1>3. n \in Nat /\ c \in Nat
  BY <1>1, WorldTypes DEF Sound, Fits
<1>4. \A j \in 1..n : /\ j \in 1..n + c /\ Live(v, j) <=> Live(w, j)
                      /\ \A k \in 1..c : j <= n + k
  BY <1>2, <1>3 DEF Live
<1>5. \A k \in 1..c : ~Live(v, n + k)
  BY <1>2 DEF Live
<1>6. \A j \in 1..Len(v.obj) : Live(v, j) => j \in 1..n /\ Live(w, j)
  BY <1>2, <1>4, <1>5
<1>7. RoutesFit(v, b)
  <2> SUFFICES ASSUME NEW q \in Routes, NEW m \in 1..Len(w.pts[q])
               PROVE  /\ v.obj[w.pts[q][m]].guid = a.names[q][m]
                      /\ v.obj[w.pts[q][m]].listed
                         \/ (q \notin b.known /\ v.obj[w.pts[q][m]].guid \notin b.own)
    BY <1>1, <1>2 DEF RoutesFit
  <2>1. w.pts[q][m] \in 1..n
    BY <1>1 DEF Sound, Fits
  <2>2. v.obj[w.pts[q][m]] = w.obj[w.pts[q][m]]
    BY <1>2, <2>1
  <2> QED
    BY <1>1, <2>2 DEF RoutesFit
<1>8. PointsFit(v, b)
  <2>1. ASSUME NEW i \in 1..Len(v.obj), Live(v, i)
        PROVE  /\ v.obj[i].guid \in b.here /\ v.obj[i].pos = b.pos[v.obj[i].guid]
               /\ v.obj[i].isolated => v.obj[i].guid \notin b.own
               /\ ~v.obj[i].isolated => v.obj[i].shared = (v.obj[i].guid \notin b.own)
    <3>1. i \in 1..n /\ Live(w, i) /\ v.obj[i] = w.obj[i]
      BY <1>2, <1>6, <2>1
    <3> QED
      BY <1>1, <3>1 DEF PointsFit
  <2>2. ASSUME NEW g \in b.here PROVE \E i \in 1..Len(v.obj) : Live(v, i) /\ v.obj[i].guid = g
    <3>1. PICK i \in 1..n : Live(w, i) /\ w.obj[i].guid = g
      BY <1>1, <2>2 DEF PointsFit
    <3> QED
      BY <1>2, <1>4, <3>1
  <2> QED
    BY <2>1, <2>2 DEF PointsFit
<1>9. OneOfEach(v, b)
  <2>1. ASSUME NEW i \in 1..Len(v.obj), NEW j \in 1..Len(v.obj), Live(v, i), v.obj[j].listed,
               v.obj[i].guid = v.obj[j].guid
        PROVE  /\ Live(v, j) => i = j
               /\ v.obj[i].guid \notin b.behind => i <= j
    <3>1. i \in 1..n /\ Live(w, i)
      BY <1>6, <2>1
    <3>2. CASE j \in 1..n
      BY <1>1, <1>2, <1>4, <2>1, <3>1, <3>2 DEF OneOfEach
    <3>3. CASE j \notin 1..n
      BY <1>2, <1>4, <1>6, <3>1, <3>3
    <3> QED
      BY <3>2, <3>3
  <2> QED
    BY <2>1 DEF OneOfEach
<1>10. OthersFit(v, b)
  <2>1. ASSUME NEW j \in 1..Len(v.obj), v.obj[j].listed, ~Live(v, j)
        PROVE  /\ v.obj[j].guid \in b.left
               /\ v.obj[j].guid \in b.flagged => v.obj[j].shared = (v.obj[j].guid \notin b.own)
    <3>1. CASE j \in 1..n
      BY <1>1, <1>2, <1>4, <2>1, <3>1 DEF OthersFit
    <3>2. CASE j \notin 1..n
      <4>1. PICK k \in 1..c : j = n + k
        BY <1>2, <3>2
      <4>2. v.obj[j].guid = recs[k].guid /\ v.obj[j].shared = recs[k].shared
        BY <1>2, <4>1
      <4> QED
        BY <4>2
    <3> QED
      BY <3>1, <3>2
  <2> QED
    BY <2>1 DEF OthersFit
<1> QED
  BY <1>1, <1>2, <1>7, <1>8, <1>9, <1>10 DEF Depicts, v

-----------------------------------------------------------------------------
(* Points that move or join a route *)

(* An object at another place, and a route with another look.              *)
At(w, i, p) == [w EXCEPT !.obj[i].pos = p]
Looking(w, r, l) == [w EXCEPT !.look[r] = l]

(* A picture with the point of an object at another place.                *)
Places(w, a, i, p, b) ==
    /\ Live(w, i) \/ w.obj[i].guid \notin a.here
    /\ b.names = a.names
    /\ b.here = a.here
    /\ b.own = a.own
    /\ b.look = a.look
    /\ b.pos[w.obj[i].guid] = p
    /\ \A g \in a.here : g # w.obj[i].guid => b.pos[g] = a.pos[g]
    /\ b.known = a.known
    /\ b.flagged = a.flagged
    /\ b.behind = a.behind
    /\ b.left = a.left

(* An object that shows its point, or that no object shows, gets a position. *)
LEMMA PositionDepicted ==
    ASSUME NEW w, NEW a, Depicts(w, a), NEW i \in 1..Len(w.obj), NEW p \in 1..MaxVersion,
           NEW b, Places(w, a, i, p, b)
    PROVE  Depicts(At(w, i, p), b)
<1> USE DEF Places
<1> DEFINE v == At(w, i, p)
           o == [w.obj[i] EXCEPT !.pos = p]
           n == Len(w.obj)
<1>1. Sound(w) /\ w.look = a.look /\ RoutesFit(w, a) /\ PointsFit(w, a) /\ OneOfEach(w, a) /\ OthersFit(w, a)
  BY DEF Depicts
<1>2. v = Changed(w, i, o)
  BY DEF At, Changed
<1>3. /\ o \in Objects /\ o.guid = w.obj[i].guid /\ o.listed = w.obj[i].listed
      /\ o.isolated = w.obj[i].isolated /\ o.inRoute = w.obj[i].inRoute
      /\ o.shared = w.obj[i].shared /\ o.pos = p
  <2>1. w.obj[i] \in Objects
    BY <1>1, WorldTypes DEF Sound, Fits
  <2> QED
    BY <2>1 DEF Objects
<1> HIDE DEF v, o
<1>4. /\ Sound(v) /\ Len(v.obj) = n /\ v.pts = w.pts /\ v.look = w.look /\ v.obj[i] = o
      /\ \A j \in 1..n : j # i => v.obj[j] = w.obj[j]
  BY <1>1, <1>2, <1>3, ObjectChanged
<1>5. \A j : In(v, j) <=> In(w, j)
  BY <1>4 DEF In
<1>6. \A j \in 1..n : /\ v.obj[j].guid = w.obj[j].guid /\ v.obj[j].listed = w.obj[j].listed
                      /\ v.obj[j].isolated = w.obj[j].isolated /\ v.obj[j].shared = w.obj[j].shared
                      /\ v.obj[j].pos = IF j = i THEN p ELSE w.obj[j].pos
                      /\ Live(v, j) <=> Live(w, j)
  BY <1>3, <1>4, <1>5 DEF Live
<1>7. RoutesFit(v, b)
  <2> SUFFICES ASSUME NEW q \in Routes, NEW m \in 1..Len(w.pts[q])
               PROVE  /\ v.obj[w.pts[q][m]].guid = a.names[q][m]
                      /\ v.obj[w.pts[q][m]].listed
                         \/ (q \notin b.known /\ v.obj[w.pts[q][m]].guid \notin b.own)
    BY <1>1, <1>4 DEF RoutesFit
  <2>1. PICK j \in 1..n : j = w.pts[q][m]
    BY <1>1 DEF Sound, Fits
  <2> QED
    BY <1>1, <1>6, <2>1 DEF RoutesFit
<1>8. PointsFit(v, b)
  <2>1. ASSUME NEW j \in 1..n, Live(v, j)
        PROVE  /\ v.obj[j].guid \in b.here /\ v.obj[j].pos = b.pos[v.obj[j].guid]
               /\ v.obj[j].isolated => v.obj[j].guid \notin b.own
               /\ ~v.obj[j].isolated => v.obj[j].shared = (v.obj[j].guid \notin b.own)
    <3>1. /\ w.obj[j].guid \in a.here /\ w.obj[j].pos = a.pos[w.obj[j].guid]
          /\ w.obj[j].isolated => w.obj[j].guid \notin a.own
          /\ ~w.obj[j].isolated => w.obj[j].shared = (w.obj[j].guid \notin a.own)
      BY <1>1, <1>6, <2>1 DEF PointsFit
    <3>2. w.obj[j].guid = w.obj[i].guid => j = i
      BY <1>1, <1>6, <2>1, <3>1 DEF OneOfEach, Live
    <3>3. v.obj[j].pos = b.pos[v.obj[j].guid]
      BY <1>6, <3>1, <3>2
    <3> QED
      BY <1>6, <3>1, <3>3
  <2>2. ASSUME NEW g \in b.here PROVE \E j \in 1..n : Live(v, j) /\ v.obj[j].guid = g
    <3>1. PICK j \in 1..n : Live(w, j) /\ w.obj[j].guid = g
      BY <1>1, <2>2 DEF PointsFit
    <3> QED
      BY <1>6, <3>1
  <2> QED
    BY <1>4, <2>1, <2>2 DEF PointsFit
<1>9. OneOfEach(v, b)
  BY <1>1, <1>4, <1>6 DEF OneOfEach
<1>10. OthersFit(v, b)
  BY <1>1, <1>4, <1>6 DEF OthersFit
<1> QED
  BY <1>1, <1>4, <1>7, <1>8, <1>9, <1>10 DEF Depicts, v

(* A picture in which a route got one point more at its end.               *)
Joins(w, a, r, i, b) ==
    /\ w.obj[i].listed
    /\ \A j \in 1..Len(w.obj) : w.obj[j].listed /\ w.obj[j].guid = w.obj[i].guid => i <= j
    /\ Live(w, i) \/ w.obj[i].guid \notin a.here
    /\ w.obj[i].guid \notin a.here => w.obj[i].shared = (w.obj[i].guid \notin a.own)
    /\ \A q \in Routes : q # r => b.names[q] = a.names[q]
    /\ Len(b.names[r]) = Len(a.names[r]) + 1
    /\ b.names[r][Len(a.names[r]) + 1] = w.obj[i].guid
    /\ \A m \in 1..Len(a.names[r]) : b.names[r][m] = a.names[r][m]
    /\ b.here = a.here \cup {w.obj[i].guid}
    /\ b.own = a.own
    /\ b.look = a.look
    /\ \A g \in a.here : b.pos[g] = a.pos[g]
    /\ w.obj[i].guid \notin a.here => b.pos[w.obj[i].guid] = w.obj[i].pos
    /\ b.known = a.known
    /\ b.flagged = a.flagged
    /\ b.behind = a.behind
    /\ \A g \in a.left : g = w.obj[i].guid \/ g \in b.left
    /\ w.obj[i].guid \in b.left \/
          \A j \in 1..Len(w.obj) : w.obj[j].listed /\ w.obj[j].guid = w.obj[i].guid => j = i

(* The first object of its GUID joins a route.                             *)
LEMMA JoinDepicted ==
    ASSUME NEW w, NEW a, Depicts(w, a), NEW r \in Routes, NEW i \in 1..Len(w.obj), NEW b,
           Joins(w, a, r, i, b)
    PROVE  Depicts(AddPoint(w, r, i), b)
<1> USE DEF Joins
<1> DEFINE v == AddPoint(w, r, i)
           n == Len(w.obj)
           k == Len(w.pts[r])
           g == w.obj[i].guid
<1>1. Sound(w) /\ w.look = a.look /\ RoutesFit(w, a) /\ PointsFit(w, a) /\ OneOfEach(w, a) /\ OthersFit(w, a)
  BY DEF Depicts
<1>2. /\ Sound(v) /\ Len(v.obj) = n /\ v.look = w.look
      /\ Len(v.pts[r]) = k + 1 /\ v.pts[r][k + 1] = i
      /\ \A m \in 1..k : v.pts[r][m] = w.pts[r][m]
      /\ \A j : In(v, j) <=> In(w, j) \/ j = i
      /\ \A j \in 1..n : j # i => v.obj[j] = w.obj[j]
      /\ v.obj[i].pos = w.obj[i].pos /\ ~v.obj[i].isolated
      /\ v.obj[i].shared <=> w.obj[i].shared \/ w.obj[i].isolated
      /\ \A q \in Routes : q # r => v.pts[q] = w.pts[q]
      /\ \A j \in 1..n : v.obj[j].guid = w.obj[j].guid /\ v.obj[j].listed = w.obj[j].listed
  BY <1>1, PointAdded
<1>3. w.obj[i] \in Objects /\ v.obj[i] \in Objects /\ k \in Nat
  BY <1>1, <1>2, WorldTypes DEF Sound, Fits
<1> HIDE DEF v
<1>4. w.obj[i].shared \in BOOLEAN /\ v.obj[i].shared \in BOOLEAN /\ w.obj[i].isolated \in BOOLEAN
  BY <1>3 DEF Objects
<1>5. \A j \in 1..n : /\ j # i => (Live(v, j) <=> Live(w, j))
                      /\ Live(v, j) => j = i \/ Live(w, j)
  BY <1>2 DEF Live
<1>6. Live(v, i)
  BY <1>2 DEF Live
<1>7. \A j \in 1..n : Live(w, j) /\ w.obj[j].guid = g => j = i
  BY <1>1 DEF PointsFit, OneOfEach, Live
<1>8. RoutesFit(v, b)
  <2>1. ASSUME NEW q \in Routes, NEW m \in 1..Len(w.pts[q])
        PROVE  /\ v.obj[w.pts[q][m]].guid = a.names[q][m]
               /\ v.obj[w.pts[q][m]].listed
                  \/ (q \notin b.known /\ v.obj[w.pts[q][m]].guid \notin b.own)
    <3>1. w.pts[q][m] \in 1..n
      BY <1>1 DEF Sound, Fits
    <3>2. /\ v.obj[w.pts[q][m]].guid = w.obj[w.pts[q][m]].guid
          /\ v.obj[w.pts[q][m]].listed = w.obj[w.pts[q][m]].listed
      BY <1>2, <3>1
    <3> QED
      BY <1>1, <3>2 DEF RoutesFit
  <2>2. k = Len(a.names[r]) /\ Len(b.names[r]) = k + 1 /\ b.names[r][k + 1] = g
    BY <1>1 DEF RoutesFit
  <2>3. \A m \in 1..k + 1 : m \in 1..k \/ m = k + 1
    <3> HIDE DEF Joins
    <3> QED
      BY <1>3
  <2> SUFFICES ASSUME NEW q \in Routes
               PROVE  /\ Len(v.pts[q]) = Len(b.names[q])
                      /\ \A m \in 1..Len(v.pts[q]) :
                            /\ v.obj[v.pts[q][m]].guid = b.names[q][m]
                            /\ v.obj[v.pts[q][m]].listed
                               \/ (q \notin b.known /\ v.obj[v.pts[q][m]].guid \notin b.own)
    BY DEF RoutesFit
  <2>4. CASE q # r
    <3>1. v.pts[q] = w.pts[q] /\ b.names[q] = a.names[q] /\ Len(w.pts[q]) = Len(a.names[q])
      BY <1>1, <1>2, <2>4 DEF RoutesFit
    <3> QED
      BY <2>1, <3>1
  <2>5. CASE q = r
    <3>1. Len(v.pts[r]) = Len(b.names[r])
      BY <1>2, <2>2
    <3> SUFFICES ASSUME NEW m \in 1..k + 1
                 PROVE  /\ v.obj[v.pts[r][m]].guid = b.names[r][m]
                        /\ v.obj[v.pts[r][m]].listed
                           \/ (r \notin b.known /\ v.obj[v.pts[r][m]].guid \notin b.own)
      BY <1>2, <2>5, <3>1
    <3>2. CASE m \in 1..k
      <4>1. v.pts[r][m] = w.pts[r][m] /\ b.names[r][m] = a.names[r][m]
        BY <1>2, <2>2, <3>2
      <4> QED
        BY <2>1, <3>2, <4>1
    <3>3. CASE m = k + 1
      BY <1>2, <2>2, <3>3
    <3> QED
      BY <2>3, <3>2, <3>3
  <2> QED
    BY <2>4, <2>5
<1>9. PointsFit(v, b)
  <2>1. ASSUME NEW j \in 1..n, Live(v, j)
        PROVE  /\ v.obj[j].guid \in b.here /\ v.obj[j].pos = b.pos[v.obj[j].guid]
               /\ v.obj[j].isolated => v.obj[j].guid \notin b.own
               /\ ~v.obj[j].isolated => v.obj[j].shared = (v.obj[j].guid \notin b.own)
    <3>1. CASE j = i
      <4>1. v.obj[i].guid = g /\ g \in b.here /\ ~v.obj[i].isolated
        BY <1>2
      <4>2. CASE Live(w, i)
        <5>1. /\ g \in a.here /\ w.obj[i].pos = a.pos[g]
              /\ w.obj[i].isolated => g \notin a.own
              /\ ~w.obj[i].isolated => w.obj[i].shared = (g \notin a.own)
          BY <1>1, <4>2 DEF PointsFit
        <5>2. v.obj[i].shared = (g \notin a.own)
          BY <1>2, <1>4, <5>1
        <5> QED
          BY <1>2, <3>1, <4>1, <5>1, <5>2
      <4>3. CASE ~Live(w, i)
        <5>1. g \notin a.here /\ b.pos[g] = w.obj[i].pos /\ w.obj[i].shared = (g \notin a.own)
          BY <4>3
        <5>2. ~w.obj[i].isolated
          BY <4>3 DEF Live
        <5>3. v.obj[i].shared = (g \notin a.own)
          BY <1>2, <1>4, <5>1, <5>2
        <5> QED
          BY <1>2, <3>1, <4>1, <5>1, <5>3
      <4> QED
        BY <4>2, <4>3
    <3>2. CASE j # i
      <4>1. Live(w, j) /\ v.obj[j] = w.obj[j]
        BY <1>2, <1>5, <2>1, <3>2
      <4> QED
        BY <1>1, <4>1 DEF PointsFit
    <3> QED
      BY <3>1, <3>2
  <2>2. ASSUME NEW h \in b.here PROVE \E j \in 1..n : Live(v, j) /\ v.obj[j].guid = h
    <3>1. CASE h = g
      BY <1>2, <1>6, <3>1
    <3>2. CASE h # g
      <4>1. PICK j \in 1..n : Live(w, j) /\ w.obj[j].guid = h
        BY <1>1, <3>2 DEF PointsFit
      <4> QED
        BY <1>2, <1>5, <3>2, <4>1
    <3> QED
      BY <3>1, <3>2
  <2> QED
    BY <1>2, <2>1, <2>2 DEF PointsFit
<1>10. OneOfEach(v, b)
  <2>1. ASSUME NEW x \in 1..n, NEW j \in 1..n, Live(v, x), v.obj[j].listed, v.obj[x].guid = v.obj[j].guid
        PROVE  /\ Live(v, j) => x = j
               /\ v.obj[x].guid \notin b.behind => x <= j
    <3>1. w.obj[j].listed /\ w.obj[x].guid = w.obj[j].guid
      BY <1>2, <2>1
    <3>2. CASE x = i
      BY <1>2, <1>5, <1>7, <2>1, <3>1, <3>2
    <3>3. CASE x # i
      <4>1. Live(w, x)
        BY <1>5, <2>1, <3>3
      <4>2. w.obj[x].guid # g
        BY <1>7, <3>3, <4>1
      <4>3. j # i
        BY <3>1, <4>2
      <4>4. /\ Live(w, j) => x = j
            /\ w.obj[x].guid \notin a.behind => x <= j
        BY <1>1, <3>1, <4>1 DEF OneOfEach
      <4> QED
        BY <1>2, <1>5, <4>3, <4>4
    <3> QED
      BY <3>2, <3>3
  <2> QED
    BY <1>2, <2>1 DEF OneOfEach
<1>11. OthersFit(v, b)
  <2>1. ASSUME NEW j \in 1..n, v.obj[j].listed, ~Live(v, j)
        PROVE  /\ v.obj[j].guid \in b.left
               /\ v.obj[j].guid \in b.flagged => v.obj[j].shared = (v.obj[j].guid \notin b.own)
    <3>1. j # i /\ v.obj[j] = w.obj[j] /\ ~Live(w, j)
      BY <1>2, <1>5, <1>6, <2>1
    <3>2. /\ w.obj[j].guid \in a.left
          /\ w.obj[j].guid \in a.flagged => w.obj[j].shared = (w.obj[j].guid \notin a.own)
      BY <1>1, <2>1, <3>1 DEF OthersFit
    <3> QED
      BY <2>1, <3>1, <3>2
  <2> QED
    BY <1>2, <2>1 DEF OthersFit
<1> QED
  BY <1>1, <1>2, <1>8, <1>9, <1>10, <1>11 DEF Depicts, v

-----------------------------------------------------------------------------
(* Sequences of steps; the points of a route record *)

(* What holds at the start and is kept by each of n steps holds all along. *)
LEMMA AllSteps ==
    ASSUME NEW n \in Nat, NEW K, 0 \in K, \A k \in 1..n : k - 1 \in K => k \in K
    PROVE  0..n \subseteq K
<1> DEFINE V == [k \in 0..n |-> K]
           f == [k \in 0..n |-> k]
<1>1. f[0] \in V[0] /\ \A k \in 1..n : f[k - 1] \in V[k - 1] => f[k] \in V[k]
  OBVIOUS
<1>2. \A k \in 0..n : f[k] = k /\ V[k] = K
  OBVIOUS
<1> HIDE DEF V, f
<1>3. Within(f, V, n)
  BY <1>1, StaysWithin
<1> QED
  BY <1>2, <1>3 DEF Within

(* What a picture says where it matters is all that it says.               *)
LEMMA Redepicted ==
    ASSUME NEW w, NEW a, Depicts(w, a), NEW b,
           \A r \in Routes : /\ Len(b.names[r]) = Len(a.names[r])
                             /\ \A m \in 1..Len(a.names[r]) : b.names[r][m] = a.names[r][m]
                             /\ r \in b.known => r \in a.known
                             /\ \A m \in 1..Len(a.names[r]) :
                                  r \notin a.known /\ a.names[r][m] \in b.own => a.names[r][m] \in a.own,
           b.here = a.here, b.look = a.look,
           \A g \in a.here : b.pos[g] = a.pos[g] /\ (g \in b.own <=> g \in a.own),
           \A g \in b.flagged : g \notin a.left \/ (g \in a.flagged /\ (g \in b.own <=> g \in a.own)),
           a.behind \subseteq b.behind, a.left \subseteq b.left
    PROVE  Depicts(w, b)
<1>1. Sound(w) /\ w.look = a.look /\ RoutesFit(w, a) /\ PointsFit(w, a) /\ OneOfEach(w, a) /\ OthersFit(w, a)
  BY DEF Depicts
<1>2. RoutesFit(w, b)
  <2> SUFFICES ASSUME NEW q \in Routes
               PROVE  /\ Len(w.pts[q]) = Len(b.names[q])
                      /\ \A m \in 1..Len(w.pts[q]) :
                            /\ w.obj[w.pts[q][m]].guid = b.names[q][m]
                            /\ w.obj[w.pts[q][m]].listed
                               \/ (q \notin b.known /\ w.obj[w.pts[q][m]].guid \notin b.own)
    BY DEF RoutesFit
  <2> QED
    BY <1>1 DEF RoutesFit
<1>3. PointsFit(w, b)
  BY <1>1 DEF PointsFit
<1>4. OneOfEach(w, b)
  BY <1>1 DEF OneOfEach
<1>5. OthersFit(w, b)
  BY <1>1 DEF OthersFit
<1> QED
  BY <1>1, <1>2, <1>3, <1>4, <1>5 DEF Depicts

(* The object that a GUID is looked up as.                                 *)
LEMMA FirstOne ==
    ASSUME NEW w, NEW a, Depicts(w, a), NEW g, Named(w, g) # {}
    PROVE  LET i == Existing(w, g) IN
           /\ i \in 1..Len(w.obj) /\ w.obj[i].listed /\ w.obj[i].guid = g
           /\ \A j \in 1..Len(w.obj) : w.obj[j].listed /\ w.obj[j].guid = g => i <= j
           /\ g \notin a.behind => (Live(w, i) <=> g \in a.here)
           /\ Live(w, i) => g \in a.here
           /\ ~Live(w, i) => /\ g \in a.left
                             /\ g \in a.flagged => w.obj[i].shared = (g \notin a.own)
<1> DEFINE i == Existing(w, g)
<1>1. Sound(w) /\ PointsFit(w, a) /\ OneOfEach(w, a) /\ OthersFit(w, a) /\ Len(w.obj) \in Nat
  BY WorldTypes DEF Depicts, Sound, Fits
<1>2. Named(w, g) \subseteq Nat /\ \A j : j \in Named(w, g) <=>
        j \in 1..Len(w.obj) /\ w.obj[j].listed /\ w.obj[j].guid = g
  BY <1>1, WorldTypes DEF Named, Sound, Fits
<1>3. \E j \in Named(w, g) : \A m \in Named(w, g) : j <= m
  BY <1>2, LeastNumber
<1>4. i \in Named(w, g) /\ \A m \in Named(w, g) : i <= m
  BY <1>3 DEF Existing
<1> HIDE DEF i
<1>5. Live(w, i) => g \in a.here
  BY <1>1, <1>2, <1>4 DEF PointsFit
<1>6. ASSUME g \notin a.behind, g \in a.here PROVE Live(w, i)
  <2>1. PICK m \in 1..Len(w.obj) : Live(w, m) /\ w.obj[m].guid = g
    BY <1>1, <1>6 DEF PointsFit
  <2>2. m \in Named(w, g)
    BY <1>2, <2>1 DEF Live
  <2>3. m <= i
    BY <1>1, <1>2, <1>4, <1>6, <2>1 DEF OneOfEach
  <2>4. i <= m /\ i \in Nat /\ m \in Nat
    BY <1>2, <1>4, <2>2
  <2>5. i = m
    BY <2>3, <2>4
  <2> QED
    BY <2>1, <2>5
<1>7. ~Live(w, i) => /\ g \in a.left
                     /\ g \in a.flagged => w.obj[i].shared = (g \notin a.own)
  BY <1>1, <1>2, <1>4 DEF OthersFit
<1>8. \A j \in 1..Len(w.obj) : w.obj[j].listed /\ w.obj[j].guid = g => i <= j
  BY <1>2, <1>4
<1> QED
  BY <1>2, <1>4, <1>5, <1>6, <1>7, <1>8 DEF i

(* What is there is found, and what is found is there or was left behind.  *)
LEMMA FoundNames ==
    ASSUME NEW w, NEW a, Depicts(w, a), NEW g
    PROVE  /\ g \in a.here => Named(w, g) # {}
           /\ Named(w, g) # {} => g \in a.here \/ g \in a.left
           /\ \A j \in 1..Len(w.obj) : w.obj[j].listed /\ w.obj[j].guid = g => Named(w, g) # {}
<1>1. \A j : j \in Named(w, g) <=>
        j \in 1..Len(w.obj) /\ w.obj[j].listed /\ w.obj[j].guid = g
  BY WorldTypes DEF Named, Depicts, Sound, Fits
<1> QED
  BY <1>1, FirstOne DEF Depicts, PointsFit, Live

(* A picture in which a route got the point of a record.                   *)
Puts(w, a, r, rec, b) ==
    /\ Named(w, rec.guid) # {}
    /\ rec.guid \notin a.behind
    /\ rec.guid \in a.here \/ rec.guid \in a.flagged
    /\ \A q \in Routes : q # r => b.names[q] = a.names[q]
    /\ Len(b.names[r]) = Len(a.names[r]) + 1
    /\ b.names[r][Len(a.names[r]) + 1] = rec.guid
    /\ \A m \in 1..Len(a.names[r]) : b.names[r][m] = a.names[r][m]
    /\ b.here = a.here \cup {rec.guid}
    /\ b.own = a.own
    /\ b.look = a.look
    /\ \A g \in a.here : g # rec.guid => b.pos[g] = a.pos[g]
    /\ b.pos[rec.guid] = rec.pos
    /\ b.known = a.known
    /\ b.flagged = a.flagged
    /\ b.behind = a.behind
    /\ b.left = a.left

(* A route record puts one point where it says and into its route.         *)
LEMMA PutDepicted ==
    ASSUME NEW w, NEW a, Depicts(w, a), NEW r \in Routes, NEW rec \in Recs, NEW b,
           Puts(w, a, r, rec, b)
    PROVE  Depicts(PutPoint(w, r, rec), b)
<1> USE DEF Puts
<1> DEFINE g == rec.guid
           i == Existing(w, g)
           p == rec.pos
           u == At(w, i, p)
           c == [names |-> a.names, here |-> a.here, own |-> a.own, look |-> a.look,
                 pos |-> [h \in a.here \cup {g} |-> IF h = g THEN p ELSE a.pos[h]],
                 known |-> a.known, flagged |-> a.flagged, behind |-> a.behind, left |-> a.left]
<1>1. /\ i \in 1..Len(w.obj) /\ w.obj[i].listed /\ w.obj[i].guid = g
      /\ \A j \in 1..Len(w.obj) : w.obj[j].listed /\ w.obj[j].guid = g => i <= j
      /\ Live(w, i) <=> g \in a.here
      /\ ~Live(w, i) => /\ g \in a.left
                        /\ g \in a.flagged => w.obj[i].shared = (g \notin a.own)
  BY FirstOne
<1>2. PutPoint(w, r, rec) = AddPoint(u, r, i)
  BY DEF PutPoint, At
<1>3. /\ c.names = a.names /\ c.here = a.here /\ c.own = a.own /\ c.look = a.look
      /\ c.pos[g] = p /\ (\A h \in a.here : h # g => c.pos[h] = a.pos[h])
      /\ c.known = a.known /\ c.flagged = a.flagged /\ c.behind = a.behind /\ c.left = a.left
  OBVIOUS
<1>4. p \in 1..MaxVersion
  BY DEF Recs
<1> HIDE DEF i, c, g, p
<1>5. Depicts(u, c)
  <2>1. Live(w, i) \/ w.obj[i].guid \notin a.here
    BY <1>1
  <2>2. /\ c.pos[w.obj[i].guid] = p
        /\ \A h \in a.here : h # w.obj[i].guid => c.pos[h] = a.pos[h]
    BY <1>1, <1>3
  <2>3. i \in 1..Len(w.obj)
    BY <1>1
  <2>4. Places(w, a, i, p, c)
    BY <1>3, <2>1, <2>2 DEF Places
  <2> QED
    BY <1>4, <2>3, <2>4, PositionDepicted
<1>6. /\ u.pts = w.pts /\ Len(u.obj) = Len(w.obj) /\ u.obj[i].pos = p /\ u.obj[i].shared = w.obj[i].shared
      /\ u.obj[i].isolated = w.obj[i].isolated
      /\ \A j \in 1..Len(w.obj) : u.obj[j].guid = w.obj[j].guid /\ u.obj[j].listed = w.obj[j].listed
  <2> DEFINE o == [w.obj[i] EXCEPT !.pos = p]
  <2>1. Sound(w) /\ w.obj[i] \in Objects
    BY <1>1, WorldTypes DEF Depicts, Sound, Fits
  <2>2. /\ o \in Objects /\ o.guid = w.obj[i].guid /\ o.listed = w.obj[i].listed /\ o.pos = p
        /\ o.isolated = w.obj[i].isolated /\ o.inRoute = w.obj[i].inRoute /\ o.shared = w.obj[i].shared
    BY <1>4, <2>1 DEF Objects
  <2>3. u = Changed(w, i, o)
    BY DEF At, Changed
  <2> HIDE DEF o, u
  <2>4. /\ u.pts = w.pts /\ Len(u.obj) = Len(w.obj) /\ u.obj[i] = o
        /\ \A j \in 1..Len(w.obj) : u.obj[j].guid = w.obj[j].guid /\ u.obj[j].listed = w.obj[j].listed
    <3> HIDE DEF Puts
    <3>1. i \in 1..Len(w.obj)
      BY <1>1
    <3>2. Sound(w) /\ o \in Objects
      BY <2>1, <2>2
    <3>3. o.guid = w.obj[i].guid /\ o.listed = w.obj[i].listed
      BY <2>2
    <3>4. o.isolated = w.obj[i].isolated /\ o.inRoute = w.obj[i].inRoute
      BY <2>2
    <3> QED
      BY <2>3, <3>1, <3>2, <3>3, <3>4, ObjectChanged
  <2> QED
    BY <2>2, <2>4
<1> HIDE DEF u
<1>7. Live(u, i) <=> Live(w, i)
  BY <1>1, <1>6 DEF Live, In
<1>8. ASSUME g \notin a.left PROVE \A j \in 1..Len(w.obj) : w.obj[j].listed /\ w.obj[j].guid = g => j = i
  BY <1>1, <1>8 DEF Depicts, OneOfEach, OthersFit
<1>9. \A q \in Routes : b.names[q] = a.names[q] \/ q = r
  OBVIOUS
<1>10. Depicts(AddPoint(u, r, i), b)
  <2>1. /\ i \in 1..Len(u.obj) /\ u.obj[i].listed /\ u.obj[i].guid = g
        /\ \A j \in 1..Len(u.obj) : u.obj[j].listed /\ u.obj[j].guid = u.obj[i].guid => i <= j
    BY <1>1, <1>6
  <2>2. /\ Live(u, i) \/ u.obj[i].guid \notin c.here
        /\ u.obj[i].guid \notin c.here => u.obj[i].shared = (u.obj[i].guid \notin c.own)
    <3>1. g \notin a.here => w.obj[i].shared = (g \notin a.own)
      BY <1>1 DEF g
    <3> QED
      BY <1>1, <1>3, <1>6, <1>7, <2>1, <3>1
  <2>3. /\ \A q \in Routes : q # r => b.names[q] = c.names[q]
        /\ Len(b.names[r]) = Len(c.names[r]) + 1 /\ b.names[r][Len(c.names[r]) + 1] = u.obj[i].guid
        /\ \A m \in 1..Len(c.names[r]) : b.names[r][m] = c.names[r][m]
    BY <1>3, <2>1 DEF g
  <2>4. /\ b.here = c.here \cup {u.obj[i].guid} /\ b.own = c.own /\ b.look = c.look
        /\ \A h \in c.here : b.pos[h] = c.pos[h]
        /\ u.obj[i].guid \notin c.here => b.pos[u.obj[i].guid] = u.obj[i].pos
    BY <1>3, <1>6, <2>1 DEF g, p
  <2>5. /\ b.known = c.known /\ b.flagged = c.flagged /\ b.behind = c.behind
        /\ \A h \in c.left : h = u.obj[i].guid \/ h \in b.left
    BY <1>3
  <2>6. \/ u.obj[i].guid \in b.left
        \/ \A j \in 1..Len(u.obj) : u.obj[j].listed /\ u.obj[j].guid = u.obj[i].guid => j = i
    BY <1>6, <1>8, <2>1
  <2> QED
    <3>p. Joins(u, c, r, i, b)
      BY <1>5, <2>1, <2>2, <2>3, <2>4, <2>5, <2>6 DEF Joins
    <3> QED
      BY <1>5, <2>1, <3>p, JoinDepicted
<1> QED
  BY <1>2, <1>10 DEF u, i, g

(* A picture in which an empty route got the points of records.            *)
AllPut(w, a, r, recs, b) ==
    /\ a.names[r] = <<>>
    /\ \A k \in 1..Len(recs) : /\ Named(w, recs[k].guid) # {} /\ recs[k].guid \notin a.behind
                               /\ recs[k].guid \in a.here \/ recs[k].guid \in a.flagged
    /\ \A q \in Routes : q # r => b.names[q] = a.names[q]
    /\ Len(b.names[r]) = Len(recs)
    /\ \A k \in 1..Len(recs) : b.names[r][k] = recs[k].guid
    /\ \A g : g \in b.here <=> g \in a.here \/ \E k \in 1..Len(recs) : recs[k].guid = g
    /\ b.own = a.own
    /\ b.look = a.look
    /\ \A g \in a.here : b.pos[g] = a.pos[g] \/ \E k \in 1..Len(recs) : recs[k].guid = g
    /\ \A k \in 1..Len(recs) : b.pos[recs[k].guid] = recs[k].pos
    /\ b.known = a.known
    /\ b.flagged = a.flagged
    /\ b.behind = a.behind
    /\ b.left = a.left

(* The points of a record are put into a new route, one after the other.   *)
LEMMA AllPutDepicted ==
    ASSUME NEW w, NEW a, Depicts(w, a), NEW r \in Routes, NEW recs \in Seq(Recs), NEW b,
           AllPut(w, a, r, recs, b)
    PROVE  Depicts(PutPoints(w, r, recs), b)
<1> USE DEF AllPut
<1> DEFINE n == Len(recs)
           G(k) == {recs[m].guid : m \in 1..k}
           A(k) == [names |-> [q \in Routes |-> IF q = r THEN [m \in 1..k |-> recs[m].guid] ELSE a.names[q]],
                    here |-> a.here \cup G(k), own |-> a.own, look |-> a.look,
                    pos |-> [h \in b.here |-> IF h \in G(k) THEN b.pos[h] ELSE a.pos[h]],
                    known |-> a.known, flagged |-> a.flagged, behind |-> a.behind, left |-> a.left]
<1>1. Sound(w) /\ n \in Nat
  BY DEF Depicts
<1>2. PICK f : /\ f[0] = w /\ \A k \in 1..n : f[k] = PutPoint(f[k - 1], r, recs[k])
               /\ PutPoints(w, r, recs) = f[n]
  <2>1. \A k \in 1..Len(recs) : Named(w, recs[k].guid) # {}
    OBVIOUS
  <2>2. PointsRun(w, r, recs)
    BY <1>1, <2>1, PointsPut
  <2> QED
    BY <2>2 DEF PointsRun
<1> DEFINE K == {k \in 0..n : Depicts(f[k], A(k)) /\ \A g : Named(f[k], g) = Named(w, g)}
<1>3. 0 \in K
  <2>1. /\ A(0).here = a.here /\ A(0).own = a.own /\ A(0).look = a.look
        /\ A(0).known = a.known /\ A(0).flagged = a.flagged /\ A(0).behind = a.behind /\ A(0).left = a.left
    OBVIOUS
  <2>2. \A g \in a.here : A(0).pos[g] = a.pos[g]
    OBVIOUS
  <2>3. \A q \in Routes : /\ Len(A(0).names[q]) = Len(a.names[q])
                          /\ q # r => A(0).names[q] = a.names[q]
    OBVIOUS
  <2>4. Len(a.names[r]) = 0
    OBVIOUS
  <2> HIDE DEF A
  <2>5. Depicts(w, A(0))
    <3>1. \A q \in Routes : \A m \in 1..Len(a.names[q]) : A(0).names[q][m] = a.names[q][m]
      BY <2>3, <2>4
    <3> QED
      BY <2>1, <2>2, <2>3, <3>1, Redepicted
  <2> QED
    BY <1>1, <1>2, <2>5
<1>4. ASSUME NEW k \in 1..n, k - 1 \in K PROVE k \in K
  <2> DEFINE v == f[k - 1]
             x == f[k]
             c == A(k - 1)
             d == A(k)
             rec == recs[k]
  <2>1. Depicts(v, c) /\ (\A g : Named(v, g) = Named(w, g)) /\ k - 1 \in 0..n /\ k \in 0..n
    BY <1>4
  <2>2. x = PutPoint(v, r, rec) /\ rec \in Recs
    BY <1>2
  <2>3. G(k) = G(k - 1) \cup {rec.guid}
    BY <1>1
  <2>4. /\ \A q \in Routes : q # r => d.names[q] = c.names[q]
        /\ Len(d.names[r]) = k /\ Len(c.names[r]) = k - 1 /\ d.names[r][k] = rec.guid
        /\ \A m \in 1..k - 1 : d.names[r][m] = c.names[r][m]
    BY <1>1
  <2>5. /\ d.here = c.here \cup {rec.guid} /\ d.own = c.own /\ d.look = c.look
        /\ d.known = c.known /\ d.flagged = c.flagged /\ d.behind = c.behind /\ d.left = c.left
        /\ c.behind = a.behind /\ c.flagged = a.flagged /\ a.here \subseteq c.here
    BY <2>3
  <2>6. \A g \in c.here : g # rec.guid => d.pos[g] = c.pos[g]
    <3> SUFFICES ASSUME NEW g \in c.here, g # rec.guid PROVE d.pos[g] = c.pos[g]
      OBVIOUS
    <3>1. g \in G(k) <=> g \in G(k - 1)
      BY <2>3
    <3>2. g \in b.here
      BY <1>1
    <3> HIDE DEF G
    <3> QED
      BY <3>1, <3>2
  <2>7. d.pos[rec.guid] = rec.pos
    <3>1. rec.guid \in b.here /\ rec.guid \in G(k)
      BY <2>3
    <3> HIDE DEF G
    <3> QED
      BY <3>1
  <2>8. Named(v, rec.guid) # {} /\ rec.guid \notin c.behind /\ (rec.guid \in c.here \/ rec.guid \in c.flagged)
    BY <2>1, <2>5
  <2>9. k = (k - 1) + 1
    OBVIOUS
  <2> HIDE DEF d, c, v, x, rec, A, G
  <2>10. Depicts(x, d)
    <3>1. /\ Len(d.names[r]) = Len(c.names[r]) + 1 /\ d.names[r][Len(c.names[r]) + 1] = rec.guid
          /\ \A m \in 1..Len(c.names[r]) : d.names[r][m] = c.names[r][m]
      BY <2>4, <2>9
    <3>2. \A q \in Routes : q # r => d.names[q] = c.names[q]
      BY <2>4
    <3>3. Depicts(v, c)
      BY <2>1
    <3> QED
      <4>1. Depicts(PutPoint(v, r, rec), d)
        <5>p. Puts(v, c, r, rec, d)
          BY <2>2, <2>5, <2>6, <2>7, <2>8, <3>1, <3>2, <3>3 DEF Puts
        <5> QED
          BY <2>2, <3>3, <5>p, PutDepicted
      <4> QED
        BY <2>2, <4>1
  <2>11. \A g : Named(x, g) = Named(v, g)
    <3>1. Sound(v)
      BY <2>1 DEF Depicts
    <3> QED
      <4>1. \A g : Named(PutPoint(v, r, rec), g) = Named(v, g)
        BY <2>2, <2>8, <3>1, PointPut, ZenonT(30)
      <4> QED
        BY <2>2, <4>1
  <2> QED
    BY <2>1, <2>10, <2>11 DEF x, d
<1> HIDE DEF K
<1>5. n \in K
  <2>1. 0..n \subseteq K
    BY <1>1, <1>3, <1>4, AllSteps
  <2> QED
    BY <1>1, <2>1
<1>6. Depicts(f[n], A(n))
  BY <1>5 DEF K
<1>7. /\ A(n).here = b.here /\ A(n).own = b.own /\ A(n).look = b.look
      /\ A(n).known = b.known /\ A(n).flagged = b.flagged /\ A(n).behind = b.behind /\ A(n).left = b.left
  OBVIOUS
<1>8. \A g \in b.here : A(n).pos[g] = b.pos[g]
  OBVIOUS
<1>9. \A q \in Routes : /\ Len(b.names[q]) = Len(A(n).names[q])
                        /\ \A m \in 1..Len(b.names[q]) : b.names[q][m] = A(n).names[q][m]
  BY <1>1
<1> HIDE DEF A
<1>10. Depicts(f[n], b)
  <2>1. \A q \in Routes : \A m \in 1..Len(A(n).names[q]) : b.names[q][m] = A(n).names[q][m]
    BY <1>9
  <2> QED
    BY <1>6, <1>7, <1>8, <1>9, <2>1, Redepicted
<1> QED
  BY <1>2, <1>10

-----------------------------------------------------------------------------
(* The records of routes *)

(* A record of less than two points only leaves its objects in the list.   *)
LEMMA ShortDepicted ==
    ASSUME NEW w, NEW a, Depicts(w, a), NEW c \in Changes, c.kind # "wpt",
           c.action # "delete", Len(c.pts) < 2, NEW b,
           b.names = a.names, b.here = a.here, b.own = a.own, b.look = a.look, b.pos = a.pos,
           b.known = a.known, b.flagged \subseteq a.flagged, b.behind = a.behind,
           a.left \subseteq b.left, \A k \in 1..Len(c.pts) : c.pts[k].guid \in b.left,
           \A k \in 1..Len(c.pts) : c.pts[k].guid \in b.flagged =>
               c.pts[k].shared = (c.pts[k].guid \notin b.own)
    PROVE  Depicts(ApplyRte(w, c), b)
<1>1. c.pts \in Seq(Recs)
  BY ChangeTypes
<1> DEFINE recs == c.pts
           v == WithRecord(w, recs)
<1>2. ApplyRte(w, c) = v
  BY DEF WithRecord, ApplyRte, UpdateRouteA
<1>3. Depicts(v, b)
  <2> HIDE DEF v
  <2> QED
    BY <1>1, RecordDepicted DEF v
<1> QED
  BY <1>2, <1>3

(* A picture without the route of a record.                                *)
Deletes(a, c, b) ==
    /\ c.kind # "wpt"
    /\ c.action = "delete"
    /\ \A q \in Routes : b.names[q] = IF q = c.guid THEN <<>> ELSE a.names[q]
    /\ b.here = a.here \ Gone(a, {c.guid})
    /\ b.pos = a.pos
    /\ b.own = a.own
    /\ b.look = Bare(a, {c.guid})
    /\ b.known \subseteq a.known \cup {c.guid}
    /\ b.flagged \subseteq a.flagged
    /\ b.behind = a.behind
    /\ a.left \subseteq b.left
    /\ \A k \in 1..Len(c.pts) : c.pts[k].guid \in b.left
    /\ \A k \in 1..Len(c.pts) : c.pts[k].guid \in b.flagged =>
           c.pts[k].shared = (c.pts[k].guid \notin b.own)

(* The record of a route that was deleted.                                 *)
LEMMA DeleteDepicted ==
    ASSUME NEW w, NEW a, Depicts(w, a), NEW c \in Changes, NEW b,
           Deletes(a, c, b)
    PROVE  Depicts(ApplyRte(w, c), b)
<1> USE DEF Deletes
<1>1. c.pts \in Seq(Recs)
  BY ChangeTypes
<1> DEFINE recs == c.pts
           r == c.guid
           v == WithRecord(w, recs)
           d == [names |-> a.names, here |-> a.here, own |-> a.own, look |-> a.look, pos |-> a.pos,
                 known |-> a.known, flagged |-> b.flagged, behind |-> a.behind, left |-> b.left]
<1>2. ApplyRte(w, c) = DropRoutes(v, {r})
  BY DEF WithRecord, ApplyRte, DropRoute
<1>3. /\ d.names = a.names /\ d.here = a.here /\ d.own = a.own /\ d.look = a.look
      /\ d.pos = a.pos /\ d.known = a.known /\ d.flagged = b.flagged /\ d.behind = a.behind /\ d.left = b.left
  OBVIOUS
<1> HIDE DEF d
<1>4. Depicts(v, d)
  <2> HIDE DEF v
  <2> QED
    BY <1>1, <1>3, RecordDepicted DEF v
<1> HIDE DEF v
<1>5. Gone(d, {r}) = Gone(a, {r})
  BY <1>3 DEF Gone
<1>6. /\ \A q \in Routes : b.names[q] = IF q \in {r} THEN <<>> ELSE d.names[q]
      /\ b.look = Bare(d, {r})
  <2>1. \A q \in Routes : b.names[q] = IF q = r THEN <<>> ELSE a.names[q]
    OBVIOUS
  <2>2. b.look = Bare(a, {r})
    OBVIOUS
  <2>3. Bare(d, {r}) = Bare(a, {r})
    BY <1>3 DEF Bare
  <2> HIDE DEF Deletes, r
  <2> QED
    BY <1>3, <2>1, <2>2, <2>3
<1>7. /\ b.here = d.here \ Gone(d, {r}) /\ b.pos = d.pos /\ b.own = d.own
      /\ b.known \subseteq d.known \cup {r} /\ b.flagged = d.flagged /\ b.behind = d.behind /\ b.left = d.left
  BY <1>3, <1>5
<1>8. Depicts(DropRoutes(v, {r}), b)
  <2> HIDE DEF r
  <2> QED
    <3>p. Drops(d, {r}, b)
      BY <1>4, <1>6, <1>7 DEF Drops
    <3> QED
      BY <1>4, <3>p, DropDepicted
<1> QED
  BY <1>2, <1>8

(* A picture in which a route is as its record says.                       *)
Replaces(a, c, b) ==
    /\ c.kind # "wpt"
    /\ c.action # "delete"
    /\ Len(c.pts) >= 2
    /\ \A q \in Routes : q # c.guid => b.names[q] = a.names[q]
    /\ Len(b.names[c.guid]) = Len(c.pts)
    /\ \A k \in 1..Len(c.pts) :
           /\ b.names[c.guid][k] = c.pts[k].guid /\ b.pos[c.pts[k].guid] = c.pts[k].pos
           /\ c.pts[k].guid \in b.flagged /\ c.pts[k].shared = (c.pts[k].guid \notin b.own)
           /\ c.pts[k].guid \in b.left /\ c.pts[k].guid \notin b.behind
    /\ \A g : g \in b.here <=> g \in a.here \ Gone(a, {c.guid})
                               \/ \E k \in 1..Len(c.pts) : c.pts[k].guid = g
    /\ \A g \in a.here \ Gone(a, {c.guid}) :
           b.pos[g] = a.pos[g] \/ \E k \in 1..Len(c.pts) : c.pts[k].guid = g
    /\ b.own = a.own
    /\ b.look = Bare(a, {c.guid})
    /\ b.known \subseteq a.known \cup {c.guid}
    /\ b.flagged \subseteq a.flagged
    /\ b.behind = a.behind
    /\ a.left \subseteq b.left

(* A record of a route replaces the route.                                 *)
LEMMA UpdateDepicted ==
    ASSUME NEW w, NEW a, Depicts(w, a), NEW c \in Changes, NEW b,
           Replaces(a, c, b)
    PROVE  Depicts(ApplyRte(w, c), b)
<1> USE DEF Replaces
<1> DEFINE recs == c.pts
           r == c.guid
           n == Len(recs)
           v == WithRecord(w, recs)
           x == DropRoutes(v, {r})
           d == [names |-> a.names, here |-> a.here, own |-> a.own, look |-> a.look, pos |-> a.pos,
                 known |-> a.known, flagged |-> b.flagged, behind |-> a.behind, left |-> b.left]
           e == [names |-> [q \in Routes |-> IF q = r THEN <<>> ELSE a.names[q]],
                 here |-> a.here \ Gone(a, {r}), own |-> a.own, look |-> b.look, pos |-> a.pos,
                 known |-> b.known, flagged |-> b.flagged, behind |-> a.behind, left |-> b.left]
<1>1. recs \in Seq(Recs) /\ r \in Routes /\ n \in Nat
  BY ChangeTypes
<1>2. ApplyRte(w, c) = PutPoints(x, r, recs)
  <2>1. ~(n < 2)
    BY <1>1
  <2> QED
    BY <2>1 DEF WithRecord, ApplyRte, UpdateRouteA, DropRoute
<1>3. /\ d.names = a.names /\ d.here = a.here /\ d.own = a.own /\ d.look = a.look
      /\ d.pos = a.pos /\ d.known = a.known /\ d.flagged = b.flagged /\ d.behind = a.behind /\ d.left = b.left
  OBVIOUS
<1>4. /\ \A q \in Routes : e.names[q] = IF q \in {r} THEN <<>> ELSE a.names[q]
      /\ e.here = a.here \ Gone(a, {r}) /\ e.own = a.own /\ e.look = b.look
      /\ e.pos = a.pos /\ e.known = b.known /\ e.flagged = b.flagged /\ e.behind = a.behind /\ e.left = b.left
  OBVIOUS
<1> HIDE DEF d, e
<1>5. Depicts(v, d)
  <2> HIDE DEF v
  <2> QED
    BY <1>1, <1>3, RecordDepicted DEF v
<1>6. /\ Sound(v) /\ Len(v.obj) = Len(w.obj) + n
      /\ \A k \in 1..n : /\ ~In(v, Len(w.obj) + k) /\ Len(w.obj) + k \in 1..Len(v.obj)
                         /\ v.obj[Len(w.obj) + k].listed
                         /\ v.obj[Len(w.obj) + k].guid = recs[k].guid
  <2>1. Sound(w)
    BY DEF Depicts
  <2> HIDE DEF v
  <2> QED
    <3> HIDE DEF Replaces
    <3> QED
      BY <1>1, <2>1, RecordLoaded DEF v
<1> HIDE DEF v
<1>7. Gone(d, {r}) = Gone(a, {r})
  BY <1>3 DEF Gone
<1>8. /\ \A q \in Routes : e.names[q] = IF q \in {r} THEN <<>> ELSE d.names[q]
      /\ e.look = Bare(d, {r})
      /\ e.here = d.here \ Gone(d, {r}) /\ e.pos = d.pos /\ e.own = d.own
      /\ e.known \subseteq d.known \cup {r} /\ e.flagged = d.flagged /\ e.behind = d.behind /\ e.left = d.left
  <2>1. b.look = Bare(a, {r}) /\ b.known \subseteq a.known \cup {r}
    OBVIOUS
  <2>2. Bare(d, {r}) = Bare(a, {r})
    BY <1>3 DEF Bare
  <2> HIDE DEF Replaces, r
  <2> QED
    BY <1>3, <1>4, <1>7, <2>1, <2>2
<1>9. Depicts(x, e)
  <2> HIDE DEF r
  <2> QED
    <3>p. Drops(d, {r}, e)
      BY <1>5, <1>8 DEF Drops
    <3> QED
      BY <1>5, <3>p, DropDepicted
<1>10. ASSUME NEW k \in 1..n PROVE Named(x, recs[k].guid) # {}
  <2> DEFINE j == Len(w.obj) + k
  <2>1. Len(x.obj) = Len(v.obj) /\ x.obj[j] = v.obj[j]
    <3> HIDE DEF r
    <3> QED
      <4> HIDE DEF Replaces
      <4>1. Sound(v) /\ ~In(v, j) /\ j \in 1..Len(v.obj)
        BY <1>6
      <4> HIDE DEF j
      <4> QED
        BY <4>1, RoutesDropped
  <2>2. j \in 1..Len(x.obj) /\ x.obj[j].listed /\ x.obj[j].guid = recs[k].guid
    BY <1>6, <2>1
  <2> HIDE DEF j, x
  <2> QED
    <3> HIDE DEF Replaces
    <3> QED
      BY <1>9, <2>2, FoundNames
<1>11. e.names[r] = <<>> /\ \A q \in Routes : q # r => b.names[q] = e.names[q]
  BY <1>1, <1>4
<1>12. \A k \in 1..Len(recs) : /\ Named(x, recs[k].guid) # {} /\ recs[k].guid \notin e.behind
                               /\ recs[k].guid \in e.here \/ recs[k].guid \in e.flagged
  BY <1>4, <1>10
<1>13. /\ Len(b.names[r]) = Len(recs) /\ (\A k \in 1..Len(recs) : b.names[r][k] = recs[k].guid)
       /\ \A g : g \in b.here <=> g \in e.here \/ \E k \in 1..Len(recs) : recs[k].guid = g
       /\ \A g \in e.here : b.pos[g] = e.pos[g] \/ \E k \in 1..Len(recs) : recs[k].guid = g
       /\ \A k \in 1..Len(recs) : b.pos[recs[k].guid] = recs[k].pos
       /\ b.own = e.own /\ b.look = e.look
       /\ b.known = e.known /\ b.flagged = e.flagged /\ b.behind = e.behind /\ b.left = e.left
  BY <1>4
<1> HIDE DEF x, r, recs
<1>14. Depicts(PutPoints(x, r, recs), b)
  <2>p. AllPut(x, e, r, recs, b)
    BY <1>1, <1>9, <1>11, <1>12, <1>13 DEF AllPut
  <2> QED
    BY <1>1, <1>9, <2>p, AllPutDepicted
<1> QED
  BY <1>2, <1>14

(* A picture without the point of an object, which no route known and no   *)
(* route of its own passes.                                                *)
Unlists(w, a, i, b) ==
    /\ Live(w, i) \/ w.obj[i].guid \notin a.here
    /\ \A r \in Routes : Has(a.names[r], w.obj[i].guid) =>
            r \notin a.known /\ w.obj[i].guid \notin a.own
    /\ b.names = a.names
    /\ b.here = a.here \ {w.obj[i].guid}
    /\ b.own = a.own
    /\ b.look = a.look
    /\ \A g \in b.here : b.pos[g] = a.pos[g]
    /\ b.known = a.known
    /\ b.flagged \subseteq a.flagged
    /\ b.behind = a.behind
    /\ b.left = a.left

(* The object of a point that only routes not known yet pass leaves the    *)
(* list.                                                                   *)
LEMMA UnlistDepicted ==
    ASSUME NEW w, NEW a, Depicts(w, a), NEW i \in 1..Len(w.obj),
           NEW b, Unlists(w, a, i, b)
    PROVE  Depicts(RemoveRoutePoint(w, i), b)
<1> USE DEF Unlists
<1> DEFINE v == RemoveRoutePoint(w, i)
           n == Len(w.obj)
           g == w.obj[i].guid
<1>1. Sound(w) /\ w.look = a.look /\ RoutesFit(w, a) /\ PointsFit(w, a) /\ OneOfEach(w, a) /\ OthersFit(w, a)
  BY DEF Depicts
<1>2. /\ Sound(v) /\ Len(v.obj) = n /\ v.pts = w.pts /\ v.look = w.look /\ ~v.obj[i].listed
      /\ v.obj[i].guid = g /\ \A j \in 1..n : j # i => v.obj[j] = w.obj[j]
  BY <1>1, Unlisted
<1> HIDE DEF v, g
<1>3. \A j : In(v, j) <=> In(w, j)
  BY <1>2 DEF In
<1>4. \A j \in 1..n : /\ v.obj[j].guid = w.obj[j].guid
                      /\ Live(v, j) <=> Live(w, j) /\ j # i
                      /\ v.obj[j].listed => w.obj[j].listed /\ v.obj[j] = w.obj[j] /\ j # i
  BY <1>2, <1>3 DEF Live, g
<1>5. \A j \in 1..n : Live(w, j) /\ w.obj[j].guid = g => j = i
  BY <1>1 DEF g, OneOfEach, PointsFit, Live
<1>6. RoutesFit(v, b)
  <2> SUFFICES ASSUME NEW q \in Routes, NEW m \in 1..Len(w.pts[q])
               PROVE  /\ v.obj[w.pts[q][m]].guid = a.names[q][m]
                      /\ v.obj[w.pts[q][m]].listed
                         \/ (q \notin b.known /\ v.obj[w.pts[q][m]].guid \notin b.own)
    BY <1>1, <1>2 DEF RoutesFit
  <2>1. PICK j \in 1..n : j = w.pts[q][m]
    BY <1>1 DEF Sound, Fits
  <2>2. /\ w.obj[j].guid = a.names[q][m] /\ m \in 1..Len(a.names[q])
        /\ w.obj[j].listed \/ (q \notin a.known /\ w.obj[j].guid \notin a.own)
    BY <1>1, <2>1 DEF RoutesFit
  <2>3. CASE j = i
    <3>1. Has(a.names[q], g)
      BY <2>2, <2>3 DEF Has, g
    <3> QED
      BY <1>4, <2>1, <2>2, <2>3, <3>1 DEF g
  <2>4. CASE j # i
    BY <1>2, <2>1, <2>2, <2>4
  <2> QED
    BY <2>3, <2>4
<1>7. PointsFit(v, b)
  <2>1. ASSUME NEW j \in 1..n, Live(v, j)
        PROVE  /\ v.obj[j].guid \in b.here /\ v.obj[j].pos = b.pos[v.obj[j].guid]
               /\ v.obj[j].isolated => v.obj[j].guid \notin b.own
               /\ ~v.obj[j].isolated => v.obj[j].shared = (v.obj[j].guid \notin b.own)
    <3>1. Live(w, j) /\ j # i /\ v.obj[j] = w.obj[j]
      BY <1>2, <1>4, <2>1
    <3>2. w.obj[j].guid # g
      BY <1>5, <3>1
    <3> QED
      BY <1>1, <3>1, <3>2 DEF PointsFit, g
  <2>2. ASSUME NEW h \in b.here PROVE \E j \in 1..n : Live(v, j) /\ v.obj[j].guid = h
    <3>1. PICK j \in 1..n : Live(w, j) /\ w.obj[j].guid = h
      BY <1>1, <2>2 DEF PointsFit
    <3>2. j # i
      BY <2>2, <3>1 DEF g
    <3> QED
      BY <1>4, <3>1, <3>2
  <2> QED
    BY <1>2, <2>1, <2>2 DEF PointsFit
<1>8. OneOfEach(v, b)
  BY <1>1, <1>2, <1>4 DEF OneOfEach
<1>9. OthersFit(v, b)
  <2>1. ASSUME NEW j \in 1..n, v.obj[j].listed, ~Live(v, j)
        PROVE  /\ v.obj[j].guid \in b.left
               /\ v.obj[j].guid \in b.flagged => v.obj[j].shared = (v.obj[j].guid \notin b.own)
    <3>1. v.obj[j] = w.obj[j] /\ w.obj[j].listed /\ ~Live(w, j)
      BY <1>4, <2>1
    <3> QED
      BY <1>1, <3>1 DEF OthersFit
  <2> QED
    BY <1>2, <2>1 DEF OthersFit
<1> QED
  BY <1>1, <1>2, <1>6, <1>7, <1>8, <1>9 DEF Depicts, v

-----------------------------------------------------------------------------
(* Points that leave their routes *)

SameHits(s, i, t, g) == \A m \in 1..Len(s) : s[m] = i <=> t[m] = g

SameRest(s, i, t, g) ==
    /\ Len(Without(t, g)) = Len(Without(s, i))
    /\ \A k \in 1..Len(Without(s, i)) : \E m \in 1..Len(s) :
          /\ s[m] # i /\ Without(s, i)[k] = s[m] /\ Without(t, g)[k] = t[m]

(* Two sequences with the same elements to leave out keep the same places. *)
LEMMA WithoutAlike ==
    ASSUME NEW s \in Seq(Nat), NEW i, NEW t \in Seq(Nat), NEW g, Len(t) = Len(s),
           SameHits(s, i, t, g)
    PROVE  SameRest(s, i, t, g)
<1> USE DEF SameHits, SameRest
<1> DEFINE S == {k \in DOMAIN s : s[k] # i}
           c == Cardinality(S)
           rest == Sorted(S)
<1>1. DOMAIN s = 1..Len(s) /\ DOMAIN t = 1..Len(s) /\ Len(s) \in Nat
  OBVIOUS
<1>2. S = {k \in DOMAIN t : t[k] # g}
  BY <1>1
<1>3. S \in SUBSET (1..Len(s)) /\ \A k \in S : k \in 1..Len(s) /\ s[k] # i
  BY <1>1
<1>4. Without(s, i) = [k \in DOMAIN rest |-> s[rest[k]]]
  BY DEF Without
<1>5. Without(t, g) = [k \in DOMAIN rest |-> t[rest[k]]]
  BY <1>2 DEF Without
<1> HIDE DEF S
<1>6. c \in Nat /\ DOMAIN rest = 1..c /\ \A k \in 1..c : rest[k] \in S
  BY <1>1, <1>3, SortedElements
<1> HIDE DEF c, rest
<1>7. Len(Without(s, i)) = c /\ Len(Without(t, g)) = c
  <2>1. \A x : [k \in 1..c |-> x[rest[k]]] \in [1..c -> {x[rest[k]] : k \in 1..c}]
    OBVIOUS
  <2>2. \A x : Len([k \in 1..c |-> x[rest[k]]]) = c
    BY <1>6
  <2> QED
    BY <1>4, <1>5, <1>6, <2>2
<1>8. ASSUME NEW k \in 1..c
      PROVE  \E m \in 1..Len(s) : s[m] # i /\ Without(s, i)[k] = s[m] /\ Without(t, g)[k] = t[m]
  <2>1. rest[k] \in 1..Len(s) /\ s[rest[k]] # i
    BY <1>3, <1>6
  <2>2. Without(s, i)[k] = s[rest[k]] /\ Without(t, g)[k] = t[rest[k]]
    BY <1>4, <1>5, <1>6
  <2> QED
    BY <2>1, <2>2
<1> QED
  BY <1>7, <1>8

(* A picture in which some routes pass no longer through a point.          *)
Removes(w, a, i, rs, b) ==
    /\ \A r \in Routes : r \in rs => /\ a.names[r] \in Seq(Nat)
                                     /\ Has(a.names[r], w.obj[i].guid) => r \in a.known
    /\ \A r \in Routes : b.names[r] = IF r \in rs THEN Without(a.names[r], w.obj[i].guid) ELSE a.names[r]
    /\ b.here = a.here
    /\ b.look = a.look
    /\ b.pos = a.pos
    /\ \A g : g \in b.own <=> /\ g \in a.own
                              /\ g = w.obj[i].guid =>
                                   \E r \in Routes : r \notin rs /\ Has(a.names[r], g)
    /\ b.known = a.known
    /\ b.flagged \subseteq a.flagged
    /\ \A g \in b.flagged : g \in a.own => g \in b.own
    /\ b.behind = a.behind
    /\ b.left = a.left

(* The point of an object leaves the routes of rs.                         *)
LEMMA RemovedDepicted ==
    ASSUME NEW w, NEW a, Depicts(w, a), NEW i \in 1..Len(w.obj), Live(w, i), NEW rs, NEW b,
           Removes(w, a, i, rs, b)
    PROVE  Depicts(RemovePoint(w, rs, i), b)
<1> USE DEF Removes
<1> DEFINE v == RemovePoint(w, rs, i)
           n == Len(w.obj)
           g == w.obj[i].guid
<1>1. Sound(w) /\ w.look = a.look /\ RoutesFit(w, a) /\ PointsFit(w, a) /\ OneOfEach(w, a) /\ OthersFit(w, a)
  BY DEF Depicts
<1>2. /\ Sound(v) /\ Len(v.obj) = n /\ v.look = w.look
      /\ \A q \in Routes : v.pts[q] = IF q \in rs THEN Without(w.pts[q], i) ELSE w.pts[q]
      /\ \A j : \A q \in Routes : On(v.pts, q, j) <=> On(w.pts, q, j) /\ (q \in rs => j # i)
      /\ \A j \in 1..n : j # i \/ In(v, i) => v.obj[j] = w.obj[j]
      /\ v.obj[i].guid = g /\ v.obj[i].pos = w.obj[i].pos
      /\ v.obj[i].listed = w.obj[i].listed /\ v.obj[i].shared = w.obj[i].shared
      /\ ~In(v, i) => v.obj[i].isolated
  <2> HIDE DEF Removes
  <2>1. /\ Sound(v) /\ Len(v.obj) = n /\ (NoneLost(w) => NoneLost(v))
        /\ \A q \in Routes : v.pts[q] = IF q \in rs THEN Without(w.pts[q], i) ELSE w.pts[q]
        /\ v.look = w.look
        /\ \A j : \A q \in Routes : On(v.pts, q, j) <=> On(w.pts, q, j) /\ (q \in rs => j # i)
        /\ \A j \in 1..n : j # i \/ In(v, i) => v.obj[j] = w.obj[j]
        /\ v.obj[i].guid = w.obj[i].guid /\ v.obj[i].pos = w.obj[i].pos
        /\ v.obj[i].listed = w.obj[i].listed /\ v.obj[i].shared = w.obj[i].shared
        /\ ~In(v, i) => v.obj[i].isolated
    BY <1>1, PointRemoved, ZenonT(60)
  <2> HIDE DEF v
  <2> QED
    BY <2>1
<1>3. /\ \A r \in Routes : On(w.pts, r, i) => Has(a.names[r], g)
      /\ \A r \in Routes : (r \in a.known \/ g \in a.own) /\ Has(a.names[r], g) => On(w.pts, r, i)
  BY LiveWhere
<1> HIDE DEF v, g
<1>4. \A j \in 1..n : j # i => (In(v, j) <=> In(w, j))
  BY <1>2 DEF In
<1>5. Live(v, i)
  BY <1>2 DEF Live
<1>6. \A j \in 1..n : /\ v.obj[j].guid = w.obj[j].guid /\ v.obj[j].listed = w.obj[j].listed
                      /\ v.obj[j].pos = w.obj[j].pos
                      /\ Live(v, j) <=> Live(w, j)
                      /\ j # i => v.obj[j] = w.obj[j]
  BY <1>2, <1>4, <1>5 DEF Live, g
<1>7. \A h : h \in b.own => h \in a.own
  OBVIOUS
<1>8. \A j \in 1..n : Live(w, j) /\ w.obj[j].guid = g => j = i
  BY <1>1 DEF g, OneOfEach, Live
<1>9. RoutesFit(v, b)
  <2>1. ASSUME NEW q \in Routes, NEW m \in 1..Len(w.pts[q])
        PROVE  /\ v.obj[w.pts[q][m]].guid = a.names[q][m]
               /\ v.obj[w.pts[q][m]].listed
                  \/ (q \notin b.known /\ v.obj[w.pts[q][m]].guid \notin b.own)
    <3>1. PICK j \in 1..n : j = w.pts[q][m]
      BY <1>1 DEF Sound, Fits
    <3>2. /\ w.obj[j].guid = a.names[q][m]
          /\ w.obj[j].listed \/ (q \notin a.known /\ w.obj[j].guid \notin a.own)
      BY <1>1, <3>1 DEF RoutesFit
    <3> QED
      BY <1>6, <1>7, <3>1, <3>2
  <2> SUFFICES ASSUME NEW q \in Routes
               PROVE  /\ Len(v.pts[q]) = Len(b.names[q])
                      /\ \A m \in 1..Len(v.pts[q]) :
                            /\ v.obj[v.pts[q][m]].guid = b.names[q][m]
                            /\ v.obj[v.pts[q][m]].listed
                               \/ (q \notin b.known /\ v.obj[v.pts[q][m]].guid \notin b.own)
    BY DEF RoutesFit
  <2>2. Len(w.pts[q]) = Len(a.names[q])
    BY <1>1 DEF RoutesFit
  <2>3. CASE q \notin rs
    <3>1. v.pts[q] = w.pts[q] /\ b.names[q] = a.names[q]
      BY <1>2, <2>3
    <3> QED
      BY <2>1, <2>2, <3>1
  <2>4. CASE q \in rs
    <3> DEFINE s == w.pts[q]
               t == a.names[q]
    <3>1. s \in Seq(Nat) /\ t \in Seq(Nat) /\ Len(t) = Len(s)
      BY <1>1, <2>2, <2>4, WorldTypes DEF Sound, Fits
    <3>2. ASSUME NEW m \in 1..Len(s) PROVE s[m] = i <=> t[m] = g
      <4>1. w.obj[s[m]].guid = t[m] /\ s[m] \in 1..n
        BY <1>1 DEF RoutesFit, Sound, Fits
      <4>2. ASSUME t[m] = g PROVE s[m] = i
        <5>1. Has(a.names[q], g)
          BY <2>2, <4>2 DEF Has
        <5>2. q \in a.known
          BY <2>4, <5>1 DEF g
        <5>3. w.obj[s[m]].listed
          BY <1>1, <5>2 DEF RoutesFit
        <5>4. On(w.pts, q, s[m])
          BY DEF On, Has
        <5>5. Live(w, s[m])
          BY <5>3, <5>4 DEF Live, In
        <5> QED
          BY <1>8, <4>1, <4>2, <5>5
      <4> QED
        BY <4>1, <4>2 DEF g
    <3>3. v.pts[q] = Without(s, i) /\ b.names[q] = Without(t, g)
      BY <1>2, <2>4 DEF g
    <3> HIDE DEF s, t
    <3>4. /\ Len(Without(t, g)) = Len(Without(s, i))
          /\ \A k \in 1..Len(Without(s, i)) : \E m \in 1..Len(s) :
                /\ s[m] # i /\ Without(s, i)[k] = s[m] /\ Without(t, g)[k] = t[m]
      <4>1. \A m \in 1..Len(s) : s[m] = i <=> t[m] = g
        BY <3>2
      <4>p. SameHits(s, i, t, g)
        BY <4>1 DEF SameHits
      <4> HIDE DEF Removes, g
      <4>2. s \in Seq(Nat)
        BY <3>1
      <4>3. t \in Seq(Nat)
        BY <3>1
      <4>4. Len(t) = Len(s)
        BY <3>1
      <4> QED
        <5>1. SameRest(s, i, t, g)
          BY <4>p, <4>2, <4>3, <4>4, WithoutAlike
        <5> QED
          BY <5>1 DEF SameRest
    <3>5. ASSUME NEW k \in 1..Len(v.pts[q])
          PROVE  /\ v.obj[v.pts[q][k]].guid = b.names[q][k]
                 /\ v.obj[v.pts[q][k]].listed
                      \/ (q \notin b.known /\ v.obj[v.pts[q][k]].guid \notin b.own)
      <4>1. PICK m \in 1..Len(s) : v.pts[q][k] = s[m] /\ b.names[q][k] = t[m]
        BY <3>3, <3>4
      <4> QED
        BY <2>1, <4>1 DEF s, t
    <3> QED
      BY <3>3, <3>4, <3>5
  <2> QED
    BY <2>3, <2>4
<1>10. g \in a.own => (g \in b.own <=> In(v, i))
  <2>1. ASSUME g \in a.own, NEW q \in Routes PROVE On(v.pts, q, i) <=> q \notin rs /\ Has(a.names[q], g)
    BY <1>2, <1>3, <2>1
  <2> QED
    BY <2>1 DEF In, g
<1>11. PointsFit(v, b)
  <2>1. ASSUME NEW j \in 1..n, Live(v, j)
        PROVE  /\ v.obj[j].guid \in b.here /\ v.obj[j].pos = b.pos[v.obj[j].guid]
               /\ v.obj[j].isolated => v.obj[j].guid \notin b.own
               /\ ~v.obj[j].isolated => v.obj[j].shared = (v.obj[j].guid \notin b.own)
    <3>1. /\ Live(w, j) /\ w.obj[j].guid \in a.here /\ w.obj[j].pos = a.pos[w.obj[j].guid]
          /\ w.obj[j].isolated => w.obj[j].guid \notin a.own
          /\ ~w.obj[j].isolated => w.obj[j].shared = (w.obj[j].guid \notin a.own)
      BY <1>1, <1>6, <2>1 DEF PointsFit
    <3>2. CASE j # i
      <4>1. w.obj[j].guid # g
        BY <1>8, <3>1, <3>2
      <4>2. v.obj[j] = w.obj[j] /\ (w.obj[j].guid \in b.own <=> w.obj[j].guid \in a.own)
        BY <1>6, <3>2, <4>1 DEF g
      <4> QED
        BY <3>1, <4>2
    <3>3. CASE j = i /\ In(v, i)
      <4>1. v.obj[i] = w.obj[i] /\ (g \in b.own <=> g \in a.own)
        BY <1>2, <1>7, <1>10, <3>3
      <4> QED
        BY <3>1, <3>3, <4>1 DEF g
    <3>4. CASE j = i /\ ~In(v, i)
      <4>1. v.obj[i].isolated /\ g \notin b.own
        BY <1>2, <1>7, <1>10, <3>4
      <4> QED
        BY <1>6, <3>1, <3>4, <4>1 DEF g
    <3> QED
      BY <3>2, <3>3, <3>4
  <2>2. ASSUME NEW h \in b.here PROVE \E j \in 1..n : Live(v, j) /\ v.obj[j].guid = h
    <3>1. h \in a.here
      OBVIOUS
    <3> HIDE DEF Removes
    <3> QED
      BY <1>1, <1>6, <3>1 DEF PointsFit
  <2> QED
    BY <1>2, <2>1, <2>2 DEF PointsFit
<1>12. OneOfEach(v, b)
  BY <1>1, <1>2, <1>6 DEF OneOfEach
<1>13. OthersFit(v, b)
  <2>1. ASSUME NEW j \in 1..n, v.obj[j].listed, ~Live(v, j)
        PROVE  /\ v.obj[j].guid \in b.left
               /\ v.obj[j].guid \in b.flagged => v.obj[j].shared = (v.obj[j].guid \notin b.own)
    <3>1. v.obj[j] = w.obj[j] /\ ~Live(w, j)
      BY <1>5, <1>6, <2>1
    <3>2. /\ w.obj[j].guid \in a.left
          /\ w.obj[j].guid \in a.flagged => w.obj[j].shared = (w.obj[j].guid \notin a.own)
      BY <1>1, <2>1, <3>1 DEF OthersFit
    <3> QED
      BY <1>7, <3>1, <3>2
  <2> QED
    BY <1>2, <2>1 DEF OthersFit
<1> QED
  BY <1>1, <1>2, <1>9, <1>11, <1>12, <1>13 DEF Depicts, v

-----------------------------------------------------------------------------
(* A point that is destroyed *)

(* A point is destroyed: the routes without it, those of them that are too *)
(* short, and the points that only those keep.                             *)
Less(a, g) == [r \in Routes |-> IF Has(a.names[r], g) THEN Without(a.names[r], g) ELSE a.names[r]]
Short(a, g) == {r \in Routes : Has(a.names[r], g) /\ Len(Without(a.names[r], g)) < 2}
Dying(a, g) ==
    {g} \cup {h \in a.own : /\ \E r \in Routes : r \in Short(a, g) /\ Has(Less(a, g)[r], h)
                            /\ \A r \in Routes : Has(Less(a, g)[r], h) => r \in Short(a, g)}

(* A picture without a point, and without the routes that it leaves short. *)
Destroys(w, a, i, b) ==
    /\ \A r \in Routes : /\ a.names[r] \in Seq(Nat)
                         /\ Has(a.names[r], w.obj[i].guid) => r \in a.known
    /\ \A r \in Routes : b.names[r] = IF r \in Short(a, w.obj[i].guid) THEN <<>>
                                      ELSE Less(a, w.obj[i].guid)[r]
    /\ b.here = a.here \ Dying(a, w.obj[i].guid)
    /\ b.own = a.own \ {w.obj[i].guid}
    /\ b.look = Bare(a, Short(a, w.obj[i].guid))
    /\ b.pos = a.pos
    /\ b.known = a.known
    /\ b.flagged \subseteq a.flagged
    /\ w.obj[i].guid \notin b.flagged
    /\ b.behind = a.behind
    /\ b.left = a.left

(* DestroyWaypoint takes the point, and the routes and points that do not survive it. *)
LEMMA DestroyDepicted ==
    ASSUME NEW w, NEW a, Depicts(w, a), NEW i \in 1..Len(w.obj), Live(w, i), NEW b,
           Destroys(w, a, i, b)
    PROVE  Depicts(DestroyWaypoint(w, i), b)
<1> USE DEF Destroys
<1> DEFINE n == Len(w.obj)
           g == w.obj[i].guid
           u == LeaveRoutes(w, i)
           rs == Containers(w, i)
           S == Short(a, g)
           x == DropRoutes(u, S)
           c == [names |-> Less(a, g), here |-> a.here, own |-> a.own \ {g}, look |-> a.look, pos |-> a.pos,
                 known |-> a.known, flagged |-> b.flagged, behind |-> a.behind, left |-> a.left]
           d == [names |-> b.names, here |-> a.here \ Gone(c, S), own |-> c.own, look |-> b.look, pos |-> a.pos,
                 known |-> a.known, flagged |-> b.flagged, behind |-> a.behind, left |-> a.left]
<1>1. Sound(w) /\ w \in Worlds /\ PointsFit(w, a)
  BY DEF Depicts, Sound, Fits
<1>2. \A r \in Routes : On(w.pts, r, i) <=> Has(a.names[r], g)
  BY LiveWhere
<1>3. /\ \A r \in Routes : r \in rs <=> Has(a.names[r], g)
      /\ In(w, i) <=> rs # {}
  BY <1>1, <1>2, ContainersAre
<1>4. /\ c.names = Less(a, g) /\ c.here = a.here /\ c.own = a.own \ {g} /\ c.look = a.look /\ c.pos = a.pos
      /\ c.known = a.known /\ c.flagged = b.flagged /\ c.behind = a.behind /\ c.left = a.left
  OBVIOUS
<1>5. /\ d.names = b.names /\ d.here = a.here \ Gone(c, S) /\ d.own = c.own /\ d.look = b.look /\ d.pos = a.pos
      /\ d.known = a.known /\ d.flagged = b.flagged /\ d.behind = a.behind /\ d.left = a.left
  OBVIOUS
<1> HIDE DEF c, d
<1>6. /\ Depicts(u, c) /\ Len(u.obj) = n /\ u.obj[i].guid = g /\ u.obj[i].listed /\ u.obj[i].isolated
      /\ ~In(u, i)
  <2>1. CASE rs = {}
    <3>1. u = w /\ ~In(w, i)
      BY <1>3, <2>1 DEF LeaveRoutes
    <3>2. w.obj[i].listed /\ w.obj[i].isolated
      BY <3>1 DEF Live
    <3>3. g \notin a.own
      BY <1>1, <3>2 DEF PointsFit
    <3>4. \A r \in Routes : c.names[r] = a.names[r]
      BY <1>3, <1>4, <2>1 DEF Less
    <3> HIDE DEF u, g
    <3>5. Depicts(w, c)
      BY <1>4, <3>3, <3>4, Redepicted
    <3> QED
      BY <3>1, <3>2, <3>5 DEF g
  <2>2. CASE rs # {}
    <3>1. u = RemovePoint(w, rs, i)
      BY <2>2 DEF LeaveRoutes
    <3>2. /\ Len(u.obj) = n
          /\ \A j : \A q \in Routes : On(u.pts, q, j) <=> On(w.pts, q, j) /\ (q \in rs => j # i)
          /\ u.obj[i].guid = w.obj[i].guid /\ u.obj[i].listed = w.obj[i].listed
          /\ ~In(u, i) => u.obj[i].isolated
      <4> HIDE DEF u, rs
      <4> QED
        <5> HIDE DEF Destroys
        <5> QED
          BY <1>1, <3>1, PointRemoved
    <3> HIDE DEF u, rs, g
    <3>3. ~In(u, i)
      BY <1>2, <1>3, <3>2 DEF In
    <3>4. \A r \in Routes : c.names[r] = IF r \in rs THEN Without(a.names[r], g) ELSE a.names[r]
      BY <1>3, <1>4 DEF Less
    <3>5. Depicts(RemovePoint(w, rs, i), c)
      <4>p. Removes(w, a, i, rs, c)
        BY <1>3, <1>4, <3>4 DEF Removes, g
      <4> QED
        BY <1>3, <4>p, RemovedDepicted DEF g
    <3> QED
      BY <3>1, <3>2, <3>3, <3>5 DEF g, Live
  <2> QED
    BY <2>1, <2>2
<1>7. DestroyWaypoint(w, i) = RemoveRoutePoint(x, i)
  <2>1. \A r \in Routes : Len(u.pts[r]) = Len(Less(a, g)[r])
    <3> HIDE DEF u, g
    <3> QED
      BY <1>4, <1>6 DEF Depicts, RoutesFit
  <2>2. {r \in Containers(w, i) : Len(u.pts[r]) < 2} = S
    <3>1. rs \subseteq Routes
      BY <1>1, ContainersAre
    <3> HIDE DEF u, g, rs
    <3> QED
      BY <1>3, <2>1, <3>1 DEF rs, Less, Short
  <2> QED
    BY <2>2 DEF DestroyWaypoint
<1> HIDE DEF u, S
<1>8. Depicts(x, d)
  <2>1. /\ \A r \in Routes : d.names[r] = IF r \in S THEN <<>> ELSE c.names[r]
        /\ d.here = c.here \ Gone(c, S) /\ d.pos = c.pos /\ d.own = c.own
        /\ d.look = Bare(c, S)
        /\ d.known \subseteq c.known \cup S /\ d.flagged = c.flagged /\ d.behind = c.behind /\ d.left = c.left
    <3>1. /\ \A r \in Routes : b.names[r] = IF r \in S THEN <<>> ELSE Less(a, g)[r]
          /\ b.look = Bare(a, S)
      BY DEF S
    <3>2. Bare(c, S) = Bare(a, S)
      BY <1>4 DEF Bare
    <3> HIDE DEF Destroys, g
    <3> QED
      BY <1>4, <1>5, <3>1, <3>2
  <2> HIDE DEF g
  <2> QED
    <3>p. Drops(c, S, d)
      BY <1>6, <2>1 DEF Drops
    <3> QED
      BY <1>6, <3>p, DropDepicted
<1>9. Len(x.obj) = n /\ x.obj[i] = u.obj[i]
  BY <1>6, RoutesDropped DEF Depicts
<1> HIDE DEF x
<1>10. Live(x, i) /\ x.obj[i].guid = g /\ i \in 1..Len(x.obj)
  BY <1>6, <1>9 DEF Live
<1>11. \A r \in Routes : ~Has(d.names[r], g)
  <2> SUFFICES ASSUME NEW r \in Routes, Has(d.names[r], g) PROVE FALSE
    OBVIOUS
  <2>1. d.names[r] = IF r \in S THEN <<>> ELSE Less(a, g)[r]
    BY <1>5 DEF S
  <2> HIDE DEF g
  <2>2. r \notin S
    BY <2>1 DEF Has
  <2>3. Has(Less(a, g)[r], g)
    BY <2>1, <2>2
  <2>4. ~Has(Without(a.names[r], g), g)
    BY WithoutElements
  <2> QED
    BY <2>3, <2>4 DEF Less
<1>12. b.here = d.here \ {g}
  <2>1. Dying(a, g) = {g} \cup {h \in a.own : /\ \E r \in Routes : r \in S /\ Has(Less(a, g)[r], h)
                                              /\ \A r \in Routes : Has(Less(a, g)[r], h) => r \in S}
    BY DEF S, Dying
  <2>2. Gone(c, S) = {h \in a.own \ {g} : /\ \E r \in Routes : r \in S /\ Has(Less(a, g)[r], h)
                                          /\ \A r \in Routes : Has(Less(a, g)[r], h) => r \in S}
    BY <1>4 DEF Gone
  <2>3. b.here = a.here \ Dying(a, g)
    OBVIOUS
  <2> HIDE DEF g
  <2> QED
    BY <1>5, <2>1, <2>2, <2>3
<1>13. Depicts(RemoveRoutePoint(x, i), b)
  <2>1. /\ b.names = d.names /\ b.own = d.own /\ b.look = d.look /\ b.pos = d.pos
        /\ b.known = d.known /\ b.flagged = d.flagged /\ b.behind = d.behind /\ b.left = d.left
    BY <1>4, <1>5
  <2> HIDE DEF g
  <2>2. Unlists(x, d, i, b)
    BY <1>10, <1>11, <1>12, <2>1 DEF Unlists
  <2> QED
    BY <1>8, <1>10, <2>2, UnlistDepicted
<1> QED
  BY <1>7, <1>13

-----------------------------------------------------------------------------
(* What nobody holds; routes that are drawn *)

(* What is not shown can be thrown away.                                   *)
LEMMA CompactDepicted ==
    ASSUME NEW w, NEW a, Depicts(w, a), NEW keep \in SUBSET (1..Len(w.obj)),
           \A i \in 1..Len(w.obj) : Live(w, i) \/ In(w, i) => i \in keep,
           \A i \in keep : Live(w, i), NEW b,
           b.names = a.names, b.here = a.here, b.own = a.own, b.look = a.look, b.pos = a.pos
    PROVE  LET v == Compact(w, keep) IN
           Depicts(v, b) /\ \A i \in 1..Len(v.obj) : Live(v, i)
<1> DEFINE v == Compact(w, keep)
           order == Sorted(keep)
<1>1. Sound(w) /\ w.look = a.look /\ RoutesFit(w, a) /\ PointsFit(w, a) /\ OneOfEach(w, a) /\ OthersFit(w, a)
  BY DEF Depicts
<1>2. /\ Sound(v) /\ v.look = w.look
      /\ \A k \in 1..Len(v.obj) : /\ order[k] \in keep /\ v.obj[k] = w.obj[order[k]]
                                  /\ In(v, k) <=> In(w, order[k])
      /\ \A i \in keep : Rank(keep, i) \in 1..Len(v.obj) /\ order[Rank(keep, i)] = i
      /\ \A k \in 1..Len(v.obj) : Rank(keep, order[k]) = k
      /\ \A r \in Routes : /\ Len(v.pts[r]) = Len(w.pts[r])
                           /\ \A m \in 1..Len(w.pts[r]) : v.pts[r][m] = Rank(keep, w.pts[r][m])
  BY <1>1, CompactIs
<1> HIDE DEF v, order
<1>3. \A k \in 1..Len(v.obj) : order[k] \in 1..Len(w.obj) /\ Live(w, order[k]) /\ Live(v, k)
  BY <1>2 DEF Live
<1>4. RoutesFit(v, b)
  <2> SUFFICES ASSUME NEW q \in Routes, NEW m \in 1..Len(w.pts[q])
               PROVE  /\ v.obj[v.pts[q][m]].guid = a.names[q][m]
                      /\ v.obj[v.pts[q][m]].listed
    BY <1>1, <1>2 DEF RoutesFit
  <2>1. PICK j \in 1..Len(w.obj) : j = w.pts[q][m]
    BY <1>1 DEF Sound, Fits
  <2>2. In(w, j)
    BY <2>1 DEF In, On, Has
  <2>3. j \in keep /\ Live(w, j)
    BY <2>2
  <2>4. v.obj[v.pts[q][m]] = w.obj[j]
    BY <1>2, <2>1, <2>3
  <2> QED
    BY <1>1, <2>1, <2>3, <2>4 DEF RoutesFit, Live
<1>5. PointsFit(v, b)
  <2>1. ASSUME NEW g \in a.here PROVE \E k \in 1..Len(v.obj) : Live(v, k) /\ v.obj[k].guid = g
    <3>1. PICK i \in 1..Len(w.obj) : Live(w, i) /\ w.obj[i].guid = g
      BY <1>1 DEF PointsFit
    <3>2. Rank(keep, i) \in 1..Len(v.obj) /\ order[Rank(keep, i)] = i
      BY <1>2, <3>1
    <3> QED
      BY <1>2, <1>3, <3>1, <3>2
  <2>2. ASSUME NEW k \in 1..Len(v.obj)
        PROVE  /\ v.obj[k].guid \in b.here /\ v.obj[k].pos = b.pos[v.obj[k].guid]
               /\ v.obj[k].isolated => v.obj[k].guid \notin b.own
               /\ ~v.obj[k].isolated => v.obj[k].shared = (v.obj[k].guid \notin b.own)
    <3>1. v.obj[k] = w.obj[order[k]] /\ order[k] \in 1..Len(w.obj) /\ Live(w, order[k])
      BY <1>2, <1>3
    <3> QED
      BY <1>1, <3>1 DEF PointsFit
  <2> QED
    BY <2>1, <2>2 DEF PointsFit
<1>6. OneOfEach(v, b)
  <2>1. ASSUME NEW k \in 1..Len(v.obj), NEW m \in 1..Len(v.obj), v.obj[k].guid = v.obj[m].guid PROVE k = m
    <3>1. order[k] = order[m]
      <4>1. /\ order[k] \in 1..Len(w.obj) /\ order[m] \in 1..Len(w.obj)
            /\ Live(w, order[k]) /\ Live(w, order[m])
        BY <1>3
      <4>2. w.obj[order[k]].guid = w.obj[order[m]].guid
        BY <1>2, <2>1
      <4>3. w.obj[order[m]].listed
        BY <4>1 DEF Live
      <4> QED
        BY <1>1, <4>1, <4>2, <4>3 DEF OneOfEach
    <3> QED
      BY <1>2, <3>1
  <2>2. \A k \in 1..Len(v.obj) : k <= k
    OBVIOUS
  <2> QED
    BY <2>1, <2>2 DEF OneOfEach
<1>7. OthersFit(v, b)
  BY <1>3 DEF OthersFit
<1> QED
  BY <1>1, <1>2, <1>3, <1>4, <1>5, <1>6, <1>7 DEF Depicts, v

(* An object that shows nothing yet is added to the list.                  *)
LEMMA OrphanDepicted ==
    ASSUME NEW w, NEW a, Depicts(w, a), NEW o \in Objects, o.listed, ~o.isolated, NEW b,
           b.names = a.names, b.here = a.here, b.own = a.own, b.look = a.look, b.pos = a.pos,
           b.known = a.known, \A g \in b.flagged : g \in a.flagged \/ g \notin a.left,
           b.behind = a.behind, a.left \subseteq b.left, o.guid \in b.left,
           o.guid \in b.flagged => o.shared = (o.guid \notin b.own)
    PROVE  Depicts(AddRoutePoint(w, o), b)
<1> DEFINE v == AddRoutePoint(w, o)
           n == Len(w.obj)
<1>1. Sound(w) /\ w.look = a.look /\ RoutesFit(w, a) /\ PointsFit(w, a) /\ OneOfEach(w, a) /\ OthersFit(w, a)
  BY DEF Depicts
<1>2. /\ Sound(v) /\ Len(v.obj) = n + 1 /\ v.pts = w.pts /\ v.look = w.look
      /\ v.obj[n + 1] = o /\ \A j \in 1..n : v.obj[j] = w.obj[j]
  BY <1>1, ObjectAdded
<1> HIDE DEF v
<1>3. n \in Nat /\ \A j \in 1..n + 1 : j \in 1..n \/ j = n + 1
  BY <1>1, WorldTypes DEF Sound, Fits
<1>4. (\A j : In(v, j) <=> In(w, j)) /\ ~In(v, n + 1)
  <2>1. \A j : In(v, j) <=> In(w, j)
    BY <1>2 DEF In
  <2>2. \A j : In(w, j) => j \in 1..n
    BY <1>1 DEF In, On, Has, Sound, Fits
  <2>3. n + 1 \notin 1..n
    BY <1>3
  <2> QED
    BY <2>1, <2>2, <2>3
<1>5. \A j \in 1..n : j \in 1..n + 1 /\ j <= n + 1 /\ (Live(v, j) <=> Live(w, j)) /\ v.obj[j] = w.obj[j]
  BY <1>2, <1>3, <1>4 DEF Live
<1>6. ~Live(v, n + 1)
  BY <1>2, <1>4 DEF Live
<1>7. \A j \in 1..n + 1 : Live(v, j) => j \in 1..n /\ Live(w, j)
  BY <1>3, <1>5, <1>6
<1>8. RoutesFit(v, b)
  <2> SUFFICES ASSUME NEW q \in Routes, NEW m \in 1..Len(w.pts[q])
               PROVE  /\ v.obj[w.pts[q][m]].guid = a.names[q][m]
                      /\ v.obj[w.pts[q][m]].listed
                         \/ (q \notin b.known /\ v.obj[w.pts[q][m]].guid \notin b.own)
    BY <1>1, <1>2 DEF RoutesFit
  <2>1. w.pts[q][m] \in 1..n
    BY <1>1 DEF Sound, Fits
  <2>2. v.obj[w.pts[q][m]] = w.obj[w.pts[q][m]]
    BY <1>2, <2>1
  <2> QED
    BY <1>1, <2>2 DEF RoutesFit
<1>9. PointsFit(v, b)
  <2>1. ASSUME NEW i \in 1..n + 1, Live(v, i)
        PROVE  /\ v.obj[i].guid \in b.here /\ v.obj[i].pos = b.pos[v.obj[i].guid]
               /\ v.obj[i].isolated => v.obj[i].guid \notin b.own
               /\ ~v.obj[i].isolated => v.obj[i].shared = (v.obj[i].guid \notin b.own)
    <3>1. i \in 1..n /\ Live(w, i) /\ v.obj[i] = w.obj[i]
      BY <1>2, <1>7, <2>1
    <3> QED
      BY <1>1, <3>1 DEF PointsFit
  <2>2. ASSUME NEW g \in b.here PROVE \E i \in 1..n + 1 : Live(v, i) /\ v.obj[i].guid = g
    <3>1. PICK i \in 1..n : Live(w, i) /\ w.obj[i].guid = g
      BY <1>1, <2>2 DEF PointsFit
    <3> QED
      BY <1>5, <3>1
  <2> QED
    BY <1>2, <2>1, <2>2 DEF PointsFit
<1>10. OneOfEach(v, b)
  <2>1. ASSUME NEW i \in 1..n + 1, NEW j \in 1..n + 1, Live(v, i), v.obj[j].listed, v.obj[i].guid = v.obj[j].guid
        PROVE  /\ Live(v, j) => i = j
               /\ v.obj[i].guid \notin b.behind => i <= j
    <3>1. i \in 1..n /\ Live(w, i)
      BY <1>7, <2>1
    <3>2. CASE j \in 1..n
      BY <1>1, <1>5, <2>1, <3>1, <3>2 DEF OneOfEach
    <3>3. CASE j = n + 1
      BY <1>5, <1>6, <3>1, <3>3
    <3> QED
      BY <1>3, <3>2, <3>3
  <2> QED
    BY <1>2, <2>1 DEF OneOfEach
<1>11. OthersFit(v, b)
  <2>1. ASSUME NEW j \in 1..n + 1, v.obj[j].listed, ~Live(v, j)
        PROVE  /\ v.obj[j].guid \in b.left
               /\ v.obj[j].guid \in b.flagged => v.obj[j].shared = (v.obj[j].guid \notin b.own)
    <3>1. CASE j \in 1..n
      BY <1>1, <1>2, <1>5, <2>1, <3>1 DEF OthersFit
    <3>2. CASE j = n + 1
      BY <1>2, <3>2
    <3> QED
      BY <1>3, <3>1, <3>2
  <2> QED
    BY <1>2, <2>1 DEF OthersFit
<1> QED
  BY <1>1, <1>2, <1>8, <1>9, <1>10, <1>11 DEF Depicts, v

(* A picture in which a route got a point that was not there.              *)
Begins(a, r, o, b) ==
    /\ o.listed
    /\ ~o.isolated
    /\ o.guid \notin a.here
    /\ o.guid \notin a.left
    /\ o.shared = (o.guid \notin a.own)
    /\ \A q \in Routes : q # r => b.names[q] = a.names[q]
    /\ Len(b.names[r]) = Len(a.names[r]) + 1
    /\ b.names[r][Len(a.names[r]) + 1] = o.guid
    /\ \A m \in 1..Len(a.names[r]) : b.names[r][m] = a.names[r][m]
    /\ b.here = a.here \cup {o.guid}
    /\ b.own = a.own
    /\ b.look = a.look
    /\ \A g \in a.here : b.pos[g] = a.pos[g]
    /\ b.pos[o.guid] = o.pos
    /\ b.known = a.known
    /\ b.flagged = a.flagged
    /\ b.behind = a.behind
    /\ b.left = a.left

(* A route goes through a new object.                                      *)
LEMMA NewPointDepicted ==
    ASSUME NEW w, NEW a, Depicts(w, a), NEW r \in Routes, NEW o \in Objects, NEW b,
           Begins(a, r, o, b)
    PROVE  /\ Depicts(AddPoint(AddRoutePoint(w, o), r, Len(w.obj) + 1), b)
           /\ Named(w, o.guid) = {}
<1> USE DEF Begins
<1> DEFINE g == o.guid
           i == Len(w.obj) + 1
           u == AddRoutePoint(w, o)
           c == [names |-> a.names, here |-> a.here, own |-> a.own, look |-> a.look, pos |-> a.pos,
                 known |-> a.known, flagged |-> a.flagged, behind |-> a.behind, left |-> a.left \cup {g}]
<1>1. /\ c.names = a.names /\ c.here = a.here /\ c.own = a.own /\ c.look = a.look /\ c.pos = a.pos
      /\ c.known = a.known /\ c.flagged = a.flagged /\ c.behind = a.behind /\ c.left = a.left \cup {g}
  OBVIOUS
<1> HIDE DEF c
<1>2. Depicts(u, c)
  <2> HIDE DEF u
  <2> QED
    BY <1>1, OrphanDepicted DEF u
<1>3. /\ Len(u.obj) = i /\ u.obj[i] = o /\ u.pts = w.pts
      /\ \A j \in 1..Len(w.obj) : u.obj[j] = w.obj[j]
  BY ObjectAdded DEF Depicts
<1>4. Len(w.obj) \in Nat
  BY WorldTypes DEF Depicts, Sound, Fits
<1> HIDE DEF u
<1>5. Named(w, g) = {}
  BY FoundNames
<1>6. \A j \in 1..Len(u.obj) : u.obj[j].listed /\ u.obj[j].guid = g => j = i
  <2>1. \A j \in 1..Len(w.obj) : ~(w.obj[j].listed /\ w.obj[j].guid = g)
    BY <1>5, FoundNames
  <2>2. \A j \in 1..i : j \in 1..Len(w.obj) \/ j = i
    BY <1>4
  <2> QED
    BY <1>3, <2>1, <2>2
<1>7. i \in 1..Len(u.obj) /\ i <= i
  BY <1>3, <1>4
<1> HIDE DEF i
<1>8. Depicts(AddPoint(u, r, i), b)
  <2>p. Joins(u, c, r, i, b)
    BY <1>1, <1>2, <1>3, <1>6, <1>7 DEF Joins
  <2> QED
    <3> HIDE DEF Begins
    <3> QED
      BY <1>2, <1>7, <2>p, JoinDepicted
<1> QED
  BY <1>5, <1>8 DEF u, i

(* A picture in which a route got a point that was there.                  *)
Extends(w, a, r, i, b) ==
    /\ w.obj[i].guid \notin a.behind
    /\ \A q \in Routes : q # r => b.names[q] = a.names[q]
    /\ Len(b.names[r]) = Len(a.names[r]) + 1
    /\ b.names[r][Len(a.names[r]) + 1] = w.obj[i].guid
    /\ \A m \in 1..Len(a.names[r]) : b.names[r][m] = a.names[r][m]
    /\ b.here = a.here
    /\ b.own = a.own
    /\ b.look = a.look
    /\ \A g \in a.here : b.pos[g] = a.pos[g]
    /\ b.known = a.known
    /\ b.flagged = a.flagged
    /\ b.behind = a.behind
    /\ b.left = a.left

(* A route goes through the point that is there.                           *)
LEMMA OldPointDepicted ==
    ASSUME NEW w, NEW a, Depicts(w, a), NEW r \in Routes, NEW i \in 1..Len(w.obj), Live(w, i), NEW b,
           Extends(w, a, r, i, b)
    PROVE  Depicts(AddPoint(w, r, i), b)
<1> USE DEF Extends
<1> DEFINE g == w.obj[i].guid
<1>1. /\ \A j \in 1..Len(w.obj) : w.obj[j].listed /\ w.obj[j].guid = g => i <= j
      /\ w.obj[i].listed /\ g \in a.here
      /\ g \notin a.left => \A j \in 1..Len(w.obj) : w.obj[j].listed /\ w.obj[j].guid = g => j = i
  BY DEF Depicts, OneOfEach, OthersFit, PointsFit, Live
<1>2. b.here = a.here \cup {g}
  BY <1>1
<1> QED
  <2>p. Joins(w, a, r, i, b)
    BY <1>1, <1>2 DEF Joins
  <2> QED
    BY <2>p, JoinDepicted

(* A picture in which a route has another look.                            *)
Looks(a, r, l, b) ==
    /\ b.names = a.names
    /\ b.here = a.here
    /\ b.own = a.own
    /\ b.pos = a.pos
    /\ b.look = [a.look EXCEPT ![r] = l]
    /\ b.known = a.known
    /\ b.flagged = a.flagged
    /\ b.behind = a.behind
    /\ b.left = a.left

(* A route that is given a look.                                           *)
LEMMA LookDepicted ==
    ASSUME NEW w, NEW a, Depicts(w, a), NEW r \in Routes, NEW l \in 0..1, NEW b,
           Looks(a, r, l, b)
    PROVE  LET v == Looking(w, r, l) IN
           Depicts(v, b) /\ v.obj = w.obj /\ v.pts = w.pts
<1> USE DEF Looks
<1> DEFINE v == Looking(w, r, l)
<1>1. Sound(w) /\ w.look = a.look /\ RoutesFit(w, a) /\ PointsFit(w, a) /\ OneOfEach(w, a) /\ OthersFit(w, a)
  BY DEF Depicts
<1>2. w \in Worlds
  BY <1>1 DEF Sound, Fits
<1>3. v \in Worlds /\ v.obj = w.obj /\ v.pts = w.pts /\ v.look = b.look
  BY <1>1, <1>2 DEF Worlds, Looking
<1> HIDE DEF v
<1>4. \A j : (In(v, j) <=> In(w, j)) /\ (Live(v, j) <=> Live(w, j))
  BY <1>3 DEF In, Live
<1>5. Sound(v)
  BY <1>1, <1>3, <1>4 DEF Sound, Fits, FlagsOK
<1>6. RoutesFit(v, b) /\ PointsFit(v, b) /\ OneOfEach(v, b) /\ OthersFit(v, b)
  BY <1>1, <1>3, <1>4 DEF RoutesFit, PointsFit, OneOfEach, OthersFit
<1> QED
  BY <1>3, <1>5, <1>6 DEF Depicts, v

-----------------------------------------------------------------------------
(* Pictures, and what the user sees of them *)

(* The picture of a world in which nothing is left behind.                 *)
Clean(n) ==
    /\ n.names \in [Routes -> Seq(Nat)] /\ n.own \subseteq n.here /\ n.here \subseteq 1..MaxPoints
    /\ n.known = Routes /\ n.behind = {} /\ n.left = {} /\ n.flagged = {}

AllLive(w) == \A i \in 1..Len(w.obj) : Live(w, i)

Picture(w, n) == Depicts(w, n) /\ Clean(n) /\ AllLive(w)

(* What the picture says of each object, when all its routes are known.    *)
LEMMA PictureGives ==
    ASSUME NEW w, NEW n, Depicts(w, n), n.known = Routes
    PROVE  /\ \A r \in Routes : \A g : Has(n.names[r], g) => g \in n.here
           /\ \A g \in n.own : g \in n.here => \E r \in Routes : Has(n.names[r], g)
           /\ \A i \in 1..Len(w.obj) : Live(w, i) =>
                 /\ w.obj[i].guid \in n.here /\ w.obj[i].pos = n.pos[w.obj[i].guid]
                 /\ In(w, i) <=> \E r \in Routes : Has(n.names[r], w.obj[i].guid)
                 /\ In(w, i) => w.obj[i].shared = (w.obj[i].guid \notin n.own)
                 /\ \A r \in Routes : On(w.pts, r, i) <=> Has(n.names[r], w.obj[i].guid)
                 /\ w.obj[i].isolated <=> ~In(w, i)
<1>1. Sound(w) /\ w.look = n.look /\ RoutesFit(w, n) /\ PointsFit(w, n) /\ OneOfEach(w, n) /\ OthersFit(w, n)
  BY DEF Depicts
<1>2. ASSUME NEW i \in 1..Len(w.obj), Live(w, i)
      PROVE  /\ w.obj[i].guid \in n.here /\ w.obj[i].pos = n.pos[w.obj[i].guid]
             /\ In(w, i) <=> \E r \in Routes : Has(n.names[r], w.obj[i].guid)
             /\ In(w, i) => w.obj[i].shared = (w.obj[i].guid \notin n.own)
             /\ \A r \in Routes : On(w.pts, r, i) <=> Has(n.names[r], w.obj[i].guid)
             /\ w.obj[i].isolated <=> ~In(w, i)
  <2>1. \A r \in Routes : On(w.pts, r, i) <=> Has(n.names[r], w.obj[i].guid)
    BY <1>2, LiveWhere
  <2>2. w.obj[i].isolated <=> ~In(w, i)
    BY <1>1, <1>2 DEF Sound, FlagsOK, Live
  <2> QED
    BY <1>1, <1>2, <2>1, <2>2 DEF PointsFit, In
<1>3. ASSUME NEW r \in Routes, NEW g, Has(n.names[r], g) PROVE g \in n.here
  <2>1. \E i \in 1..Len(w.obj) : Live(w, i) /\ w.obj[i].guid = g /\ On(w.pts, r, i)
    BY <1>3, RouteThrough
  <2> QED
    BY <1>2, <2>1
<1>4. ASSUME NEW g \in n.own, g \in n.here PROVE \E r \in Routes : Has(n.names[r], g)
  <2>1. PICK i \in 1..Len(w.obj) : Live(w, i) /\ w.obj[i].guid = g
    BY <1>1, <1>4 DEF PointsFit
  <2>2. ~w.obj[i].isolated
    BY <1>1, <2>1 DEF PointsFit
  <2> QED
    BY <1>2, <2>1, <2>2
<1> QED
  BY <1>2, <1>3, <1>4

(* The records of a route tell its picture.                                *)
LEMMA RecordsShow ==
    ASSUME NEW w, NEW n, Depicts(w, n), n.known = Routes, NEW r \in Routes
    PROVE  LET p == Points(w, r) IN
           /\ p \in Seq(Recs) /\ Len(p) = Len(n.names[r])
           /\ \A k \in 1..Len(p) :
                /\ p[k].guid = n.names[r][k] /\ p[k].guid \in n.here /\ p[k].pos = n.pos[p[k].guid]
                /\ p[k].shared = (p[k].guid \notin n.own)
<1> DEFINE p == Points(w, r)
           c == Len(w.pts[r])
<1>1. Sound(w) /\ w \in Worlds /\ RoutesFit(w, n)
  BY DEF Depicts, Sound, Fits
<1>2. p \in Seq(Recs) /\ Len(p) = c
  BY <1>1, RecordsAre
<1>3. p = [m \in 1..c |-> Record(w.obj[w.pts[r][m]])]
  BY <1>1, WorldTypes DEF Points
<1> HIDE DEF p
<1>4. ASSUME NEW k \in 1..c
      PROVE  /\ p[k].guid = n.names[r][k] /\ p[k].guid \in n.here /\ p[k].pos = n.pos[p[k].guid]
             /\ p[k].shared = (p[k].guid \notin n.own)
  <2>1. PICK j \in 1..Len(w.obj) : j = w.pts[r][k]
    BY <1>1 DEF Sound, Fits
  <2>2. w.obj[j].guid = n.names[r][k] /\ w.obj[j].listed
    BY <1>1, <2>1 DEF RoutesFit
  <2>3. On(w.pts, r, j)
    BY <2>1 DEF On, Has
  <2>4. In(w, j) /\ Live(w, j)
    BY <2>2, <2>3 DEF In, Live
  <2>5. p[k].guid = w.obj[j].guid /\ p[k].pos = w.obj[j].pos /\ p[k].shared = w.obj[j].shared
    BY <1>3, <2>1 DEF Record
  <2>6. /\ w.obj[j].guid \in n.here /\ w.obj[j].pos = n.pos[w.obj[j].guid]
        /\ In(w, j) => w.obj[j].shared = (w.obj[j].guid \notin n.own)
    BY <2>4, PictureGives
  <2> QED
    BY <2>2, <2>4, <2>5, <2>6
<1>5. Len(n.names[r]) = c
  BY <1>1 DEF RoutesFit
<1> QED
  BY <1>2, <1>4, <1>5 DEF p

-----------------------------------------------------------------------------
(* What the user sees is in the picture.                                   *)

Shows(n) ==
    [marks  |-> [g \in 1..MaxPoints |->
                    IF g \in n.here /\ \A r \in Routes : ~Has(n.names[r], g)
                    THEN [number |-> 1, at |-> {n.pos[g]}] ELSE [number |-> 0, at |-> {}]],
     routes |-> [r \in Routes |-> [k \in 1..Len(n.names[r]) |->
                    [guid |-> n.names[r][k], pos |-> n.pos[n.names[r][k]]]]],
     look   |-> n.look]

(* The picture determines what the user sees.                              *)
LEMMA PictureSeen ==
    ASSUME NEW w, NEW n, Depicts(w, n), n.known = Routes, AllLive(w)
    PROVE  View(w) = Shows(n)
<1> DEFINE at(g) == {i \in DOMAIN w.obj : (w.obj[i].isolated /\ Containers(w, i) = {}) /\ w.obj[i].guid = g}
           M(g) == [number |-> Cardinality(at(g)), at |-> {w.obj[i].pos : i \in at(g)}]
           R(r) == [k \in DOMAIN w.pts[r] |->
                       [guid |-> w.obj[w.pts[r][k]].guid, pos |-> w.obj[w.pts[r][k]].pos]]
<1>1. View(w) = [marks |-> [g \in 1..MaxPoints |-> M(g)], routes |-> [r \in Routes |-> R(r)], look |-> w.look]
  BY DEF View
<1>2. /\ w \in Worlds /\ DOMAIN w.obj = 1..Len(w.obj) /\ w.look = n.look
      /\ PointsFit(w, n) /\ OneOfEach(w, n) /\ RoutesFit(w, n) /\ Sound(w)
      /\ \A r \in Routes : DOMAIN w.pts[r] = 1..Len(w.pts[r])
  BY WorldTypes DEF Depicts, Sound, Fits
<1>3. \A i \in 1..Len(w.obj) :
        /\ w.obj[i].guid \in n.here /\ w.obj[i].pos = n.pos[w.obj[i].guid]
        /\ w.obj[i].isolated /\ Containers(w, i) = {} <=> \A r \in Routes : ~Has(n.names[r], w.obj[i].guid)
  BY <1>2, ContainersAre, PictureGives DEF AllLive
<1>4. ASSUME NEW g \in 1..MaxPoints
      PROVE  M(g) = IF g \in n.here /\ \A r \in Routes : ~Has(n.names[r], g)
                    THEN [number |-> 1, at |-> {n.pos[g]}] ELSE [number |-> 0, at |-> {}]
  <2> DEFINE A == at(g)
  <2>1. \A i : i \in A <=> /\ i \in 1..Len(w.obj) /\ w.obj[i].guid = g
                           /\ \A r \in Routes : ~Has(n.names[r], g)
    BY <1>2, <1>3
  <2> HIDE DEF A, at
  <2>2. CASE g \in n.here /\ \A r \in Routes : ~Has(n.names[r], g)
    <3>1. PICK i \in 1..Len(w.obj) : Live(w, i) /\ w.obj[i].guid = g
      BY <1>2, <2>2 DEF PointsFit
    <3>2. \A j \in A : j = i
      BY <1>2, <2>1, <3>1 DEF OneOfEach, AllLive, Live
    <3>3. i \in A
      BY <2>1, <2>2, <3>1
    <3>4. A = {i}
      BY <3>2, <3>3
    <3>5. Cardinality(A) = 1
      BY <3>4, FS_Singleton
    <3>6. w.obj[i].pos = n.pos[g]
      BY <1>3, <3>1
    <3>7. {w.obj[j].pos : j \in A} = {n.pos[g]}
      BY <3>4, <3>6
    <3> QED
      BY <2>2, <3>5, <3>7 DEF A
  <2>3. CASE ~(g \in n.here /\ \A r \in Routes : ~Has(n.names[r], g))
    <3>1. A = {}
      BY <1>3, <2>1, <2>3
    <3>2. Cardinality(A) = 0
      BY <3>1, FS_EmptySet
    <3>3. {w.obj[j].pos : j \in A} = {}
      BY <3>1
    <3> QED
      BY <2>3, <3>2, <3>3 DEF A
  <2> QED
    BY <2>2, <2>3
<1>5. ASSUME NEW r \in Routes
      PROVE  R(r) = [k \in 1..Len(n.names[r]) |-> [guid |-> n.names[r][k], pos |-> n.pos[n.names[r][k]]]]
  <2>1. DOMAIN w.pts[r] = 1..Len(n.names[r])
    BY <1>2 DEF RoutesFit
  <2>2. ASSUME NEW k \in 1..Len(n.names[r])
        PROVE  w.obj[w.pts[r][k]].guid = n.names[r][k] /\ w.obj[w.pts[r][k]].pos = n.pos[n.names[r][k]]
    <3>1. Len(w.pts[r]) = Len(n.names[r])
      BY <1>2 DEF RoutesFit
    <3>2. w.pts[r][k] \in 1..Len(w.obj) /\ w.obj[w.pts[r][k]].guid = n.names[r][k]
      BY <1>2, <3>1 DEF RoutesFit, Sound, Fits
    <3> QED
      BY <1>3, <3>2
  <2> QED
    BY <2>1, <2>2
<1> HIDE DEF M, R
<1> QED
  BY <1>1, <1>2, <1>4, <1>5 DEF Shows

(* Pictures that agree show the same.                                      *)
LEMMA SameShown ==
    ASSUME NEW n, NEW a, a.here = n.here, a.look = n.look,
           \A r \in Routes : /\ Len(a.names[r]) = Len(n.names[r])
                             /\ \A m \in 1..Len(n.names[r]) : a.names[r][m] = n.names[r][m]
                             /\ \A m \in 1..Len(n.names[r]) : n.names[r][m] \in n.here,
           \A g \in n.here : a.pos[g] = n.pos[g]
    PROVE  Shows(a) = Shows(n)
<1>1. \A r \in Routes : \A g : Has(a.names[r], g) <=> Has(n.names[r], g)
  BY DEF Has
<1>2. \A r \in Routes : [k \in 1..Len(a.names[r]) |-> [guid |-> a.names[r][k], pos |-> a.pos[a.names[r][k]]]]
                      = [k \in 1..Len(n.names[r]) |-> [guid |-> n.names[r][k], pos |-> n.pos[n.names[r][k]]]]
  <2> TAKE r \in Routes
  <2>1. \A k \in 1..Len(n.names[r]) : a.names[r][k] = n.names[r][k] /\ a.pos[a.names[r][k]] = n.pos[n.names[r][k]]
    OBVIOUS
  <2> QED
    BY <2>1
<1>3. \A g \in 1..MaxPoints :
          (IF g \in a.here /\ \A r \in Routes : ~Has(a.names[r], g)
           THEN [number |-> 1, at |-> {a.pos[g]}] ELSE [number |-> 0, at |-> {}])
        = (IF g \in n.here /\ \A r \in Routes : ~Has(n.names[r], g)
           THEN [number |-> 1, at |-> {n.pos[g]}] ELSE [number |-> 0, at |-> {}])
  BY <1>1
<1>4. [g \in 1..MaxPoints |-> IF g \in a.here /\ \A r \in Routes : ~Has(a.names[r], g)
           THEN [number |-> 1, at |-> {a.pos[g]}] ELSE [number |-> 0, at |-> {}]]
    = [g \in 1..MaxPoints |-> IF g \in n.here /\ \A r \in Routes : ~Has(n.names[r], g)
           THEN [number |-> 1, at |-> {n.pos[g]}] ELSE [number |-> 0, at |-> {}]]
  BY <1>3
<1>5. [r \in Routes |-> [k \in 1..Len(a.names[r]) |-> [guid |-> a.names[r][k], pos |-> a.pos[a.names[r][k]]]]]
    = [r \in Routes |-> [k \in 1..Len(n.names[r]) |-> [guid |-> n.names[r][k], pos |-> n.pos[n.names[r][k]]]]]
  BY <1>2
<1> QED
  BY <1>4, <1>5 DEF Shows

-----------------------------------------------------------------------------
(* The document *)

AllListed(w) == \A i \in 1..Len(w.obj) : w.obj[i].listed

(* A world that is not damaged has a picture.                              *)
LEMMA PictureExists ==
    ASSUME NEW w, Belong(w), ~Damaged(w)
    PROVE  \E n : Picture(w, n)
<1> DEFINE c == Len(w.obj)
           here == {w.obj[i].guid : i \in 1..c}
           at(g) == CHOOSE i \in 1..c : w.obj[i].guid = g
           names == [r \in Routes |-> [m \in 1..Len(w.pts[r]) |-> w.obj[w.pts[r][m]].guid]]
           own == {g \in here : \E i \in 1..c : w.obj[i].guid = g /\ ~w.obj[i].isolated /\ ~w.obj[i].shared}
           n == [names |-> names, here |-> here, pos |-> [g \in here |-> w.obj[at(g)].pos], own |-> own,
                 look |-> w.look, known |-> Routes, behind |-> {}, left |-> {}, flagged |-> {}]
<1>1. /\ Sound(w) /\ w \in Worlds /\ AllPlaced(w) /\ DOMAIN w.obj = 1..c /\ c \in Nat
      /\ w.obj \in [1..c -> Objects]
      /\ \A r \in Routes : Len(w.pts[r]) \in Nat
  BY WorldTypes DEF Belong, Sound, Fits
<1>2. /\ \A i, j \in 1..c : w.obj[i].guid = w.obj[j].guid => i = j
      /\ \A i \in 1..c : w.obj[i].listed
  BY <1>1 DEF Damaged
<1>3. AllLive(w)
  BY <1>1, <1>2 DEF AllLive, Live, AllPlaced
<1>4. \A i \in 1..c : /\ w.obj[i].guid \in 1..MaxPoints /\ w.obj[i].shared \in BOOLEAN
                      /\ w.obj[i].isolated \in BOOLEAN
  BY <1>1 DEF Objects
<1>5. ASSUME NEW r \in Routes
      PROVE  /\ names[r] \in Seq(Nat) /\ Len(names[r]) = Len(w.pts[r])
             /\ \A m \in 1..Len(w.pts[r]) : names[r][m] = w.obj[w.pts[r][m]].guid
  <2> DEFINE p == names[r]
             k == Len(w.pts[r])
  <2>1. \A m \in 1..k : p[m] = w.obj[w.pts[r][m]].guid
    OBVIOUS
  <2>2. \A m \in 1..k : w.pts[r][m] \in 1..c
    BY <1>1 DEF Sound, Fits
  <2>3. p = [m \in 1..k |-> w.obj[w.pts[r][m]].guid]
    OBVIOUS
  <2>4. \A m \in 1..k : w.obj[w.pts[r][m]].guid \in Nat
    BY <1>4, <2>2
  <2> HIDE DEF p
  <2>5. p \in [1..k -> Nat] /\ k \in Nat
    BY <1>1, <2>3, <2>4
  <2> HIDE DEF k
  <2>6. p \in Seq(Nat) /\ Len(p) = k
    BY <2>5, FunctionSeq
  <2> QED
    BY <2>1, <2>6 DEF p, k
<1>6. \A i \in 1..c : at(w.obj[i].guid) = i
  BY <1>2
<1>7. /\ n.names = names /\ n.here = here /\ n.own = own /\ n.look = w.look /\ n.known = Routes
      /\ n.behind = {} /\ n.left = {} /\ n.flagged = {} /\ n.pos = [g \in here |-> w.obj[at(g)].pos]
  OBVIOUS
<1>8. /\ \A i \in 1..c : w.obj[i].guid \in here
      /\ \A g \in here : \E i \in 1..c : w.obj[i].guid = g
      /\ own \subseteq here /\ here \subseteq 1..MaxPoints
      /\ \A i \in 1..c : w.obj[i].guid \in own <=> ~w.obj[i].isolated /\ ~w.obj[i].shared
  BY <1>2, <1>4
<1>9. names \in [Routes -> Seq(Nat)]
  BY <1>5
<1>10. \A i \in 1..c : n.pos[w.obj[i].guid] = w.obj[i].pos
  BY <1>6, <1>7, <1>8
<1> HIDE DEF n, names, here, own, at
<1>11. RoutesFit(w, n)
  <2> SUFFICES ASSUME NEW r \in Routes, NEW m \in 1..Len(w.pts[r])
               PROVE  w.obj[w.pts[r][m]].guid = names[r][m] /\ w.obj[w.pts[r][m]].listed
    BY <1>5, <1>7 DEF RoutesFit
  <2> QED
    BY <1>1, <1>2, <1>5 DEF Sound, Fits
<1>12. PointsFit(w, n)
  <2>1. \A i \in 1..c : w.obj[i].isolated => w.obj[i].guid \notin n.own
    BY <1>7, <1>8
  <2>2. \A i \in 1..c : ~w.obj[i].isolated => w.obj[i].shared = (w.obj[i].guid \notin n.own)
    BY <1>4, <1>7, <1>8
  <2>3. \A g \in n.here : \E i \in 1..c : Live(w, i) /\ w.obj[i].guid = g
    BY <1>3, <1>7, <1>8 DEF AllLive
  <2>4. \A i \in 1..c : w.obj[i].guid \in n.here
    BY <1>7, <1>8
  <2> QED
    BY <1>10, <2>1, <2>2, <2>3, <2>4 DEF PointsFit
<1>13. OneOfEach(w, n)
  BY <1>1, <1>2 DEF OneOfEach
<1>14. OthersFit(w, n)
  BY <1>3 DEF OthersFit, AllLive
<1>15. Depicts(w, n)
  BY <1>1, <1>7, <1>11, <1>12, <1>13, <1>14 DEF Depicts
<1>16. Clean(n)
  BY <1>7, <1>8, <1>9 DEF Clean
<1> QED
  BY <1>3, <1>15, <1>16 DEF Picture

(* Nothing depicts nothing.                                                *)
LEMMA EmptyDepicted ==
    ASSUME NEW a, a.names = [r \in Routes |-> <<>>], a.here = {}, a.look = [r \in Routes |-> 0]
    PROVE  Depicts(Empty, a) /\ AllListed(Empty)
<1>1. Sound(Empty)
  BY EmptySound
<1>2. Empty.obj = <<>> /\ Empty.pts = [r \in Routes |-> <<>>] /\ Empty.look = [r \in Routes |-> 0]
  BY DEF Empty
<1>3. Len(Empty.obj) = 0 /\ \A r \in Routes : Len(Empty.pts[r]) = 0 /\ Len(a.names[r]) = 0
  BY <1>2
<1>4. ~\E i \in 1..Len(Empty.obj) : TRUE
  BY <1>3
<1>5. ~\E r \in Routes : \E i \in 1..Len(Empty.pts[r]) : TRUE
  BY <1>3
<1>6. RoutesFit(Empty, a)
  BY <1>3, <1>5 DEF RoutesFit
<1>7. PointsFit(Empty, a) /\ OneOfEach(Empty, a) /\ OthersFit(Empty, a) /\ AllListed(Empty)
  BY <1>4 DEF PointsFit, OneOfEach, OthersFit, AllListed
<1> QED
  BY <1>1, <1>2, <1>6, <1>7 DEF Depicts

(* The document that is written of a picture.                              *)
Tells(doc, n) ==
    /\ doc.look = n.look
    /\ \A k \in 1..Len(doc.marks) :
          /\ doc.marks[k].guid \in n.here /\ doc.marks[k].pos = n.pos[doc.marks[k].guid]
          /\ doc.marks[k].guid \notin n.own
          /\ \A m \in 1..Len(doc.marks) : doc.marks[k].guid = doc.marks[m].guid => k = m
    /\ \A g \in n.here : (\A r \in Routes : ~Has(n.names[r], g)) =>
          \E k \in 1..Len(doc.marks) : doc.marks[k].guid = g
    /\ \A r \in Routes :
          /\ doc.routes[r] \in Seq(Recs) /\ Len(doc.routes[r]) = Len(n.names[r])
          /\ \A k \in 1..Len(n.names[r]) :
               /\ doc.routes[r][k].guid = n.names[r][k] /\ doc.routes[r][k].guid \in n.here
               /\ doc.routes[r][k].pos = n.pos[doc.routes[r][k].guid]
               /\ doc.routes[r][k].shared = (doc.routes[r][k].guid \notin n.own)

(* The document that is written of a world tells its picture.              *)
LEMMA DocumentShows ==
    ASSUME NEW w, NEW n, Picture(w, n), Belong(w)
    PROVE  LET doc == CreateAllGPXObjects(w) IN
           doc \in Docs /\ NoneShort(doc.routes) /\ Tells(doc, n)
<1> DEFINE doc == CreateAllGPXObjects(w)
           S == {i \in DOMAIN w.obj : w.obj[i].listed /\ w.obj[i].isolated}
           marks == Sorted(S)
           c == Cardinality(S)
<1>1. /\ doc.marks = [k \in DOMAIN marks |-> Record(w.obj[marks[k]])]
      /\ doc.routes = [r \in Routes |-> Points(w, r)] /\ doc.look = w.look
  BY DEF CreateAllGPXObjects
<1>2. /\ w \in Worlds /\ Len(w.obj) \in Nat /\ DOMAIN w.obj = 1..Len(w.obj) /\ w.look = n.look
      /\ PointsFit(w, n) /\ OneOfEach(w, n) /\ Depicts(w, n) /\ AllLive(w) /\ n.known = Routes
  BY WorldTypes DEF Belong, Sound, Fits, Picture, Depicts, Clean
<1>3. doc \in Docs /\ NoneShort(doc.routes)
  BY DocumentWritten
<1> HIDE DEF doc
<1>4. S \in SUBSET (1..Len(w.obj)) /\ \A i : i \in S <=> i \in 1..Len(w.obj) /\ w.obj[i].isolated
  BY <1>2 DEF AllLive, Live
<1> HIDE DEF S
<1>5. /\ c \in Nat /\ DOMAIN marks = 1..c
      /\ \A k \in 1..c : marks[k] \in S /\ Rank(S, marks[k]) = k
      /\ \A i \in S : Rank(S, i) \in 1..c /\ marks[Rank(S, i)] = i
  BY <1>2, <1>4, SortedElements
<1> HIDE DEF c, marks
<1>6. doc.marks = [k \in 1..c |-> Record(w.obj[marks[k]])] /\ Len(doc.marks) = c
  BY <1>1, <1>5
<1>7. ASSUME NEW k \in 1..c
      PROVE  /\ doc.marks[k].guid = w.obj[marks[k]].guid /\ doc.marks[k].pos = w.obj[marks[k]].pos
             /\ marks[k] \in 1..Len(w.obj) /\ w.obj[marks[k]].isolated /\ Live(w, marks[k])
             /\ doc.marks[k].guid \in n.here /\ doc.marks[k].pos = n.pos[doc.marks[k].guid]
             /\ doc.marks[k].guid \notin n.own
  <2>1. doc.marks[k].guid = w.obj[marks[k]].guid /\ doc.marks[k].pos = w.obj[marks[k]].pos
    BY <1>6 DEF Record
  <2>2. marks[k] \in 1..Len(w.obj) /\ w.obj[marks[k]].isolated /\ Live(w, marks[k])
    BY <1>2, <1>4, <1>5 DEF AllLive
  <2> QED
    BY <1>2, <2>1, <2>2 DEF PointsFit
<1>8. ASSUME NEW k \in 1..c, NEW m \in 1..c, doc.marks[k].guid = doc.marks[m].guid PROVE k = m
  <2>1. marks[k] = marks[m]
    BY <1>2, <1>7, <1>8 DEF OneOfEach, Live
  <2> QED
    BY <1>5, <2>1
<1>9. ASSUME NEW g \in n.here, \A r \in Routes : ~Has(n.names[r], g)
      PROVE  \E k \in 1..c : doc.marks[k].guid = g
  <2>1. PICK i \in 1..Len(w.obj) : Live(w, i) /\ w.obj[i].guid = g
    BY <1>2 DEF PointsFit
  <2>2. i \in S
    BY <1>2, <1>4, <1>9, <2>1, PictureGives
  <2> QED
    BY <1>5, <1>7, <2>1, <2>2
<1>10. ASSUME NEW r \in Routes
       PROVE  /\ doc.routes[r] \in Seq(Recs) /\ Len(doc.routes[r]) = Len(n.names[r])
              /\ \A k \in 1..Len(n.names[r]) :
                      /\ doc.routes[r][k].guid = n.names[r][k] /\ doc.routes[r][k].guid \in n.here
                      /\ doc.routes[r][k].pos = n.pos[doc.routes[r][k].guid]
                      /\ doc.routes[r][k].shared = (doc.routes[r][k].guid \notin n.own)
  <2>1. doc.routes[r] = Points(w, r)
    BY <1>1
  <2> QED
    BY <1>2, <2>1, RecordsShow
<1> QED
  BY <1>1, <1>2, <1>3, <1>6, <1>7, <1>8, <1>9, <1>10 DEF doc, Tells

-----------------------------------------------------------------------------
(* Loading the document *)

(* A picture in which a route got the point of a record of the document.   *)
Loads(a, r, rec, b) ==
    /\ rec.shared = (rec.guid \notin a.own)
    /\ rec.guid \in a.here => a.pos[rec.guid] = rec.pos
    /\ \A q \in Routes : q # r => b.names[q] = a.names[q]
    /\ Len(b.names[r]) = Len(a.names[r]) + 1
    /\ b.names[r][Len(a.names[r]) + 1] = rec.guid
    /\ \A m \in 1..Len(a.names[r]) : b.names[r][m] = a.names[r][m]
    /\ b.here = a.here \cup {rec.guid}
    /\ b.own = a.own
    /\ b.look = a.look
    /\ \A g \in a.here : b.pos[g] = a.pos[g]
    /\ b.pos[rec.guid] = rec.pos
    /\ b.known = a.known
    /\ b.flagged = a.flagged
    /\ b.behind = a.behind
    /\ b.left = a.left

(* One point of a route of the document is loaded.                         *)
LEMMA LoadPointDepicted ==
    ASSUME NEW w, NEW a, Depicts(w, a), AllListed(w), a.behind = {}, a.left = {},
           NEW r \in Routes, NEW rec \in Recs, NEW b,
           Loads(a, r, rec, b)
    PROVE  LET v == LoadRoutePoint(w, r, rec) IN Depicts(v, b) /\ AllListed(v)
<1> USE DEF Loads
<1> DEFINE g == rec.guid
           v == LoadRoutePoint(w, r, rec)
           o == Object(rec)
           u == AddRoutePoint(w, o)
<1>1. Sound(w) /\ Len(w.obj) \in Nat
  BY WorldTypes DEF Depicts, Sound, Fits
<1>2. CASE Named(w, g) # {}
  <2> DEFINE i == Existing(w, g)
  <2>1. v = AddPoint(w, r, i)
    BY <1>2 DEF LoadRoutePoint
  <2>2. /\ i \in 1..Len(w.obj) /\ w.obj[i].guid = g /\ g \in a.here /\ Live(w, i)
    BY <1>2, FirstOne, FoundNames
  <2> HIDE DEF i, v
  <2>3. b.here = a.here
    BY <2>2
  <2>4. Depicts(v, b)
    <3>1. Extends(w, a, r, i, b)
      BY <2>2, <2>3 DEF Extends
    <3> HIDE DEF Loads
    <3> QED
      BY <2>1, <2>2, <3>1, OldPointDepicted
  <2>5. AllListed(v)
    BY <1>1, <2>1, <2>2, PointAdded DEF AllListed
  <2> QED
    BY <2>4, <2>5 DEF v
<1>3. CASE Named(w, g) = {}
  <2> DEFINE i == Len(w.obj) + 1
  <2>1. v = AddPoint(u, r, i)
    BY <1>3 DEF LoadRoutePoint
  <2>2. o \in Objects /\ o.guid = g /\ o.listed /\ ~o.isolated /\ ~o.inRoute /\ o.pos = rec.pos /\ o.shared = rec.shared
    BY ObjectOf
  <2> HIDE DEF o
  <2>3. g \notin a.here /\ g \notin a.left
    BY <1>3, FoundNames
  <2>4. Depicts(v, b)
    <3>1. Begins(a, r, o, b)
      BY <2>2, <2>3 DEF Begins
    <3> HIDE DEF v, Loads
    <3> QED
      BY <2>1, <2>2, <3>1, NewPointDepicted
  <2>5. /\ Sound(u) /\ Len(u.obj) = i /\ u.obj[i] = o /\ \A j \in 1..Len(w.obj) : u.obj[j] = w.obj[j]
    <3> HIDE DEF u
    <3> QED
      BY <1>1, <2>2, ObjectAdded DEF u
  <2> HIDE DEF u
  <2>6. i \in 1..Len(u.obj) /\ \A j \in 1..Len(u.obj) : j \in 1..Len(w.obj) \/ j = i
    BY <1>1, <2>5
  <2>7. \A j \in 1..Len(u.obj) : u.obj[j].listed
    BY <2>2, <2>5, <2>6 DEF AllListed
  <2> HIDE DEF i
  <2>8. AllListed(AddPoint(u, r, i))
    BY <2>5, <2>6, <2>7, PointAdded DEF AllListed
  <2> QED
    BY <2>1, <2>4, <2>8
<1> QED
  BY <1>2, <1>3

(* The marks of a document, as they are before the routes are loaded.      *)
Marked(n, here) ==
    [names |-> [r \in Routes |-> <<>>], here |-> here, pos |-> n.pos, own |-> n.own,
     look |-> [r \in Routes |-> 0], known |-> Routes, behind |-> {}, left |-> {}, flagged |-> {}]

(* The marks of the document, loaded.                                      *)
LEMMA MarksDepicted ==
    ASSUME NEW n, NEW doc \in Docs, Tells(doc, n)
    PROVE  LET v == LoadMarks(doc) IN
           AllListed(v) /\ Depicts(v, Marked(n, {doc.marks[k].guid : k \in 1..Len(doc.marks)}))
<1> DEFINE c == Len(doc.marks)
           G(k) == {doc.marks[m].guid : m \in 1..k}
<1>1. c \in Nat /\ doc.marks \in [1..c -> Recs]
  BY DEF Docs
<1>2. PICK f : /\ f[0] = Empty /\ \A k \in 1..c : f[k] = LoadMark(f[k - 1], doc.marks[k])
               /\ LoadMarks(doc) = f[c]
  BY MarksLoaded DEF MarksRun
<1> DEFINE K == {k \in 0..c : AllListed(f[k]) /\ Depicts(f[k], Marked(n, G(k)))}
<1>3. 0 \in K
  <2> DEFINE a == Marked(n, G(0))
  <2>1. a.names = [r \in Routes |-> <<>>] /\ a.here = {} /\ a.look = [r \in Routes |-> 0]
    BY DEF Marked
  <2> HIDE DEF a
  <2>2. Depicts(Empty, a) /\ AllListed(Empty)
    BY <2>1, EmptyDepicted
  <2> QED
    BY <1>1, <1>2, <2>2 DEF a
<1>4. ASSUME NEW k \in 1..c, k - 1 \in K PROVE k \in K
  <2> DEFINE w == f[k - 1]
             a == Marked(n, G(k - 1))
             b == Marked(n, G(k))
             rec == doc.marks[k]
             o == [Object(rec) EXCEPT !.isolated = TRUE]
             v == AddRoutePoint(w, o)
  <2>1. AllListed(w) /\ Depicts(w, a) /\ f[k] = LoadMark(w, rec) /\ rec \in Recs /\ k \in 0..c
    BY <1>1, <1>2, <1>4
  <2>2. /\ rec.guid \in n.here /\ rec.pos = n.pos[rec.guid] /\ rec.guid \notin n.own
        /\ G(k) = G(k - 1) \cup {rec.guid} /\ rec.guid \notin G(k - 1)
    BY <1>1 DEF Tells
  <2>3. /\ o \in Objects /\ o.guid = rec.guid /\ o.listed /\ o.isolated /\ ~o.inRoute /\ o.pos = rec.pos
    BY <2>1, ObjectOf
  <2>4. /\ a.names = b.names /\ a.here = G(k - 1) /\ b.here = G(k) /\ a.pos = n.pos /\ b.pos = n.pos
        /\ a.own = n.own /\ b.own = n.own /\ a.look = b.look /\ a.known = b.known
        /\ a.behind = b.behind /\ a.left = {} /\ b.left = {} /\ a.flagged = b.flagged
    BY DEF Marked
  <2> HIDE DEF a, b, G, o
  <2>5. Named(w, rec.guid) = {}
    BY <2>1, <2>2, <2>4, FoundNames
  <2>6. f[k] = v
    BY <2>1, <2>5 DEF LoadMark, o
  <2>7. Depicts(v, b)
    <3>1. WithMark(a, o, b)
      BY <2>2, <2>3, <2>4 DEF WithMark
    <3> HIDE DEF w, rec, v
    <3> QED
      BY <2>1, <2>3, <3>1, MarkDepicted DEF v
  <2>8. AllListed(v)
    <3>1. Sound(w) /\ Len(w.obj) \in Nat
      BY <2>1, WorldTypes DEF Depicts, Sound, Fits
    <3> HIDE DEF w, v
    <3>2. /\ Len(v.obj) = Len(w.obj) + 1 /\ v.obj[Len(w.obj) + 1] = o
          /\ \A j \in 1..Len(w.obj) : v.obj[j] = w.obj[j]
      BY <2>3, <3>1, ObjectAdded DEF v
    <3>3. \A j \in 1..Len(v.obj) : j \in 1..Len(w.obj) \/ j = Len(w.obj) + 1
      BY <3>1, <3>2
    <3> QED
      BY <2>1, <2>3, <3>2, <3>3 DEF AllListed
  <2> QED
    BY <2>1, <2>6, <2>7, <2>8 DEF b
<1> HIDE DEF K
<1>5. c \in K
  <2>1. 0..c \subseteq K
    BY <1>1, <1>3, <1>4, AllSteps
  <2> QED
    BY <1>1, <2>1
<1> QED
  BY <1>2, <1>5 DEF K

(* A picture in which a route was read from the document.                  *)
Reads(n, a, r, b) ==
    /\ a.names[r] = <<>>
    /\ \A q \in Routes : q # r => b.names[q] = a.names[q]
    /\ Len(b.names[r]) = Len(n.names[r])
    /\ \A k \in 1..Len(n.names[r]) : b.names[r][k] = n.names[r][k]
    /\ \A g : g \in b.here <=> g \in a.here \/ Has(n.names[r], g)
    /\ b.look = [a.look EXCEPT ![r] = n.look[r]]
    /\ b.own = a.own
    /\ b.pos = a.pos
    /\ b.known = a.known
    /\ b.flagged = a.flagged
    /\ b.behind = a.behind
    /\ b.left = a.left

(* One route of the document, loaded.                                      *)
LEMMA RouteDepicted ==
    ASSUME NEW n, NEW doc \in Docs, Tells(doc, n), NEW w, NEW a, Depicts(w, a), AllListed(w),
           a.behind = {}, a.left = {}, a.own = n.own, a.pos = n.pos,
           NEW r \in Routes, NEW b,
           Reads(n, a, r, b)
    PROVE  LET v == LoadRoute(w, doc, r) IN Depicts(v, b) /\ AllListed(v)
<1> USE DEF Reads
<1> DEFINE c == Len(doc.routes[r])
           recs == doc.routes[r]
           G(k) == {recs[m].guid : m \in 1..k}
           A(k) == [names |-> [q \in Routes |-> IF q = r THEN [m \in 1..k |-> recs[m].guid] ELSE a.names[q]],
                    here |-> a.here \cup G(k), own |-> a.own, look |-> a.look, pos |-> a.pos,
                    known |-> a.known, flagged |-> a.flagged, behind |-> a.behind, left |-> a.left]
<1>1. Sound(w) /\ c \in Nat /\ recs \in Seq(Recs)
  BY DEF Docs, Depicts
<1>2. PICK f : /\ f[0] = w /\ \A k \in 1..c : f[k] = LoadRoutePoint(f[k - 1], r, recs[k])
               /\ LoadRoute(w, doc, r) = [f[c] EXCEPT !.look[r] = doc.look[r]]
  <2>1. RouteRun(w, doc, r)
    BY <1>1, RouteLoaded
  <2> HIDE DEF Reads
  <2> QED
    BY <2>1 DEF RouteRun
<1> DEFINE K == {k \in 0..c : Depicts(f[k], A(k)) /\ AllListed(f[k])}
<1>3. 0 \in K
  <2>1. /\ A(0).here = a.here /\ A(0).own = a.own /\ A(0).look = a.look /\ A(0).pos = a.pos
        /\ A(0).known = a.known /\ A(0).flagged = a.flagged /\ A(0).behind = a.behind /\ A(0).left = a.left
    OBVIOUS
  <2>2. \A q \in Routes : /\ Len(A(0).names[q]) = Len(a.names[q])
                          /\ q # r => A(0).names[q] = a.names[q]
    OBVIOUS
  <2>3. Len(a.names[r]) = 0
    OBVIOUS
  <2> HIDE DEF A
  <2>4. Depicts(w, A(0))
    <3>1. \A q \in Routes : \A m \in 1..Len(a.names[q]) : A(0).names[q][m] = a.names[q][m]
      BY <2>2, <2>3
    <3> QED
      BY <2>1, <2>2, <3>1, Redepicted
  <2> QED
    BY <1>1, <1>2, <2>4
<1>4. ASSUME NEW k \in 1..c, k - 1 \in K PROVE k \in K
  <2> DEFINE v == f[k - 1]
             x == f[k]
             s == A(k - 1)
             d == A(k)
             rec == recs[k]
  <2>1. Depicts(v, s) /\ AllListed(v) /\ x = LoadRoutePoint(v, r, rec) /\ rec \in Recs /\ k \in 0..c
    BY <1>1, <1>2, <1>4
  <2>2. G(k) = G(k - 1) \cup {rec.guid}
    BY <1>1
  <2>3. /\ \A q \in Routes : q # r => d.names[q] = s.names[q]
        /\ Len(d.names[r]) = k /\ Len(s.names[r]) = k - 1 /\ d.names[r][k] = rec.guid
        /\ \A m \in 1..k - 1 : d.names[r][m] = s.names[r][m]
    BY <1>1
  <2>4. /\ d.here = s.here \cup {rec.guid} /\ d.own = s.own /\ d.look = s.look /\ d.pos = s.pos
        /\ d.known = s.known /\ d.behind = s.behind /\ d.flagged = s.flagged /\ d.left = s.left
        /\ s.behind = {} /\ s.left = {} /\ s.own = n.own /\ s.pos = n.pos
    BY <2>2
  <2>5. rec.shared = (rec.guid \notin n.own) /\ rec.pos = n.pos[rec.guid]
    BY <1>1 DEF Tells
  <2>6. k = (k - 1) + 1
    OBVIOUS
  <2> HIDE DEF d, s, v, x, rec, A, G
  <2>7. Depicts(x, d) /\ AllListed(x)
    <3> HIDE DEF Reads
    <3>1. Len(d.names[r]) = Len(s.names[r]) + 1
      BY <2>3, <2>6
    <3>2. d.names[r][Len(s.names[r]) + 1] = rec.guid
      BY <2>3, <2>6
    <3>3. \A m \in 1..Len(s.names[r]) : d.names[r][m] = s.names[r][m]
      BY <2>3
    <3>4. Loads(s, r, rec, d)
      <4>1. d.pos[rec.guid] = rec.pos /\ s.pos[rec.guid] = rec.pos /\ rec.shared = (rec.guid \notin s.own)
        BY <2>4, <2>5
      <4>2. \A q \in Routes : q # r => d.names[q] = s.names[q]
        BY <2>3
      <4> QED
        BY <2>4, <3>1, <3>2, <3>3, <4>1, <4>2 DEF Loads
    <3> QED
      BY <2>1, <2>4, <3>4, LoadPointDepicted
  <2> QED
    BY <2>1, <2>7 DEF x, d
<1> HIDE DEF K
<1>5. c \in K
  <2>1. 0..c \subseteq K
    BY <1>1, <1>3, <1>4, AllSteps
  <2> HIDE DEF Reads
  <2>2. c \in 0..c
    BY <1>1
  <2> QED
    BY <2>1, <2>2
<1>6. Depicts(f[c], A(c)) /\ AllListed(f[c])
  BY <1>5 DEF K
<1> DEFINE d == [names |-> b.names, here |-> b.here, own |-> a.own, look |-> a.look, pos |-> a.pos,
                 known |-> a.known, flagged |-> a.flagged, behind |-> a.behind, left |-> a.left]
<1>7. /\ d.names = b.names /\ d.here = b.here /\ d.own = a.own /\ d.look = a.look /\ d.pos = a.pos
      /\ d.known = a.known /\ d.flagged = a.flagged /\ d.behind = a.behind /\ d.left = a.left
  OBVIOUS
<1> HIDE DEF d
<1>8. c = Len(n.names[r]) /\ \A k \in 1..c : recs[k].guid = n.names[r][k]
  BY DEF Tells
<1>9. A(c).here = b.here
  <2>1. \A g : g \in A(c).here <=> g \in a.here \/ \E k \in 1..c : recs[k].guid = g
    OBVIOUS
  <2>2. \A g : Has(n.names[r], g) <=> \E k \in 1..c : recs[k].guid = g
    BY <1>8 DEF Has
  <2> HIDE DEF A
  <2>3. \A g : g \in A(c).here <=> g \in b.here
    BY <2>1, <2>2
  <2> QED
    BY <2>3, Zenon
<1>10. /\ A(c).own = a.own /\ A(c).look = a.look /\ A(c).pos = a.pos
       /\ A(c).known = a.known /\ A(c).flagged = a.flagged /\ A(c).behind = a.behind /\ A(c).left = a.left
  OBVIOUS
<1>11. \A q \in Routes : /\ Len(b.names[q]) = Len(A(c).names[q])
                         /\ \A m \in 1..Len(A(c).names[q]) : b.names[q][m] = A(c).names[q][m]
  <2> SUFFICES ASSUME NEW q \in Routes
               PROVE  /\ Len(b.names[q]) = Len(A(c).names[q])
                      /\ \A m \in 1..Len(A(c).names[q]) : b.names[q][m] = A(c).names[q][m]
    OBVIOUS
  <2>1. CASE q # r
    BY <2>1
  <2>2. CASE q = r
    <3>1. A(c).names[r] = [m \in 1..c |-> recs[m].guid]
      OBVIOUS
    <3>2. Len(A(c).names[r]) = c
      BY <1>1, <3>1
    <3> HIDE DEF A
    <3> QED
      BY <1>8, <2>2, <3>1, <3>2
  <2> QED
    BY <2>1, <2>2
<1> HIDE DEF A
<1>12. Depicts(f[c], d)
  BY <1>6, <1>7, <1>9, <1>10, <1>11, Redepicted
<1>13. doc.look[r] \in 0..1 /\ doc.look[r] = n.look[r]
  BY DEF Docs, Tells
<1> DEFINE v == LoadRoute(w, doc, r)
<1>14. v = Looking(f[c], r, n.look[r])
  BY <1>2, <1>13 DEF Looking
<1>15. Depicts(v, b) /\ v.obj = f[c].obj
  <2> HIDE DEF v
  <2>1. b.look = [d.look EXCEPT ![r] = n.look[r]] /\ n.look[r] \in 0..1
    BY <1>7, <1>13
  <2> QED
    <3>1. Looks(d, r, n.look[r], b)
      BY <1>7, <2>1 DEF Looks
    <3> HIDE DEF Reads
    <3> QED
      BY <1>12, <1>14, <2>1, <3>1, LookDepicted
<1>16. AllListed(v)
  BY <1>6, <1>15 DEF AllListed
<1> QED
  BY <1>15, <1>16

(* What is loaded from the document that a picture tells is the picture.   *)
LEMMA DocumentDepicted ==
    ASSUME NEW n, Clean(n), NEW doc \in Docs, NoneShort(doc.routes), Tells(doc, n),
           n.look \in [Routes -> 0..1], \A r \in Routes : \A g : Has(n.names[r], g) => g \in n.here
    PROVE  Picture(LoadAllGPXObjects(doc), n)
<1> DEFINE M == {doc.marks[k].guid : k \in 1..Len(doc.marks)}
           A(k) == [names |-> [q \in Routes |-> IF q <= k THEN n.names[q] ELSE <<>>],
                    here |-> M \cup {g \in n.here : \E q \in Routes : q <= k /\ Has(n.names[q], g)},
                    pos |-> n.pos, own |-> n.own,
                    look |-> [q \in Routes |-> IF q <= k THEN n.look[q] ELSE 0],
                    known |-> Routes, behind |-> {}, left |-> {}, flagged |-> {}]
           v == LoadAllGPXObjects(doc)
<1>1. PICK f : /\ f[0] = LoadMarks(doc) /\ \A k \in 1..MaxRoutes : f[k] = LoadRoute(f[k - 1], doc, k)
               /\ v = f[MaxRoutes]
  <2>1. DocumentRun(doc)
    BY DocumentLoaded
  <2> HIDE DEF v
  <2> QED
    BY <2>1 DEF DocumentRun, v
<1>2. MaxRoutes \in Nat /\ Routes = 1..MaxRoutes
  BY NavAssumption DEF Routes
<1> HIDE DEF v
<1> DEFINE K == {k \in 0..MaxRoutes : Depicts(f[k], A(k)) /\ AllListed(f[k])}
<1>3. 0 \in K
  <2> DEFINE a == Marked(n, M)
             b == A(0)
  <2>1. AllListed(f[0]) /\ Depicts(f[0], a)
    BY <1>1, MarksDepicted
  <2>2. /\ a.names = [q \in Routes |-> <<>>] /\ a.here = M /\ a.pos = n.pos /\ a.own = n.own
        /\ a.look = [q \in Routes |-> 0] /\ a.known = Routes /\ a.behind = {} /\ a.left = {} /\ a.flagged = {}
    BY DEF Marked
  <2>3. ~\E q \in Routes : q <= 0
    BY <1>2
  <2>4. /\ b.here = M /\ b.pos = n.pos /\ b.own = n.own
        /\ b.known = Routes /\ b.behind = {} /\ b.left = {} /\ b.flagged = {}
    BY <2>3
  <2>5. b.names = [q \in Routes |-> <<>>] /\ b.look = [q \in Routes |-> 0]
    BY <2>3
  <2> HIDE DEF a, b, M
  <2>6. Depicts(f[0], b)
    BY <2>1, <2>2, <2>4, <2>5, Redepicted
  <2> QED
    BY <1>2, <2>1, <2>6 DEF b
<1>4. ASSUME NEW k \in 1..MaxRoutes, k - 1 \in K PROVE k \in K
  <2> DEFINE w == f[k - 1]
             a == A(k - 1)
             b == A(k)
  <2>1. Depicts(w, a) /\ AllListed(w) /\ f[k] = LoadRoute(w, doc, k) /\ k \in Routes /\ k \in 0..MaxRoutes
    BY <1>1, <1>2, <1>4
  <2>2. \A q \in Routes : /\ q <= k <=> q <= k - 1 \/ q = k
                          /\ ~(k <= k - 1)
    BY <1>2
  <2>3. a.behind = {} /\ a.left = {} /\ a.own = n.own /\ a.pos = n.pos /\ a.names[k] = <<>>
    BY <2>1, <2>2
  <2>4. /\ \A q \in Routes : q # k => b.names[q] = a.names[q]
        /\ b.names[k] = n.names[k]
    BY <2>1, <2>2
  <2>5. b.look = [a.look EXCEPT ![k] = n.look[k]]
    BY <2>1, <2>2
  <2>6. \A g : g \in b.here <=> g \in a.here \/ Has(n.names[k], g)
    <3>1. \A j : A(j).here = M \cup {g \in n.here : \E q \in Routes : q <= j /\ Has(n.names[q], g)}
      OBVIOUS
    <3>2. a.here = M \cup {g \in n.here : \E q \in Routes : q <= k - 1 /\ Has(n.names[q], g)}
      BY <3>1
    <3>3. b.here = M \cup {g \in n.here : \E q \in Routes : q <= k /\ Has(n.names[q], g)}
      BY <3>1
    <3> HIDE DEF a, b, M, A
    <3> QED
      BY <2>1, <2>2, <3>2, <3>3
  <2>7. /\ b.own = a.own /\ b.pos = a.pos
        /\ b.known = a.known /\ b.flagged = a.flagged /\ b.behind = a.behind /\ b.left = a.left
    OBVIOUS
  <2> HIDE DEF a, b, A, M, w
  <2>8. Depicts(f[k], b) /\ AllListed(f[k])
    <3>1. Reads(n, a, k, b)
      BY <2>3, <2>4, <2>5, <2>6, <2>7 DEF Reads
    <3> QED
      BY <2>1, <2>3, <3>1, RouteDepicted
  <2> QED
    BY <2>1, <2>8 DEF b
<1> HIDE DEF K
<1>5. MaxRoutes \in K
  <2>1. 0..MaxRoutes \subseteq K
    BY <1>2, <1>3, <1>4, AllSteps
  <2> QED
    BY <1>2, <2>1
<1>6. Depicts(v, A(MaxRoutes)) /\ AllListed(v)
  BY <1>1, <1>5 DEF K
<1>7. \A q \in Routes : q <= MaxRoutes
  BY <1>2
<1> DEFINE a == A(MaxRoutes)
<1>8. /\ \A q \in Routes : a.names[q] = n.names[q]
      /\ a.pos = n.pos /\ a.own = n.own /\ a.known = n.known /\ a.behind = n.behind
      /\ a.left = n.left /\ a.flagged = n.flagged /\ a.left = {}
  BY <1>7 DEF Clean
<1>9. a.look = n.look
  BY <1>7
<1>10. a.here = n.here
  <2>1. a.here = M \cup {g \in n.here : \E q \in Routes : q <= MaxRoutes /\ Has(n.names[q], g)}
    OBVIOUS
  <2>2. M \subseteq n.here
    BY DEF Tells
  <2>3. \A g \in n.here : (\A r \in Routes : ~Has(n.names[r], g)) => g \in M
    BY DEF Tells
  <2> HIDE DEF a, M
  <2> QED
    BY <1>7, <2>1, <2>2, <2>3
<1> HIDE DEF A
<1>11. Depicts(v, n)
  BY <1>6, <1>8, <1>9, <1>10, Redepicted
<1>12. AllLive(v)
  BY <1>6, <1>8 DEF Depicts, OthersFit, AllLive, AllListed
<1> QED
  BY <1>11, <1>12 DEF Picture, v

(* What is saved is loaded as it was: MyConfig::LoadNavObjects makes of     *)
(* the document that UpdateNavObj writes every mark and route that the      *)
(* user has, unless there are two objects of one GUID or a route through    *)
(* an object that is not in the list.                                       *)
THEOREM SavedIsLoaded ==
    Spec => [](~Damaged(nav) => View(LoadAllGPXObjects(CreateAllGPXObjects(nav))) = View(nav))
<1>1. IInv => (~Damaged(nav) => View(LoadAllGPXObjects(CreateAllGPXObjects(nav))) = View(nav))
  <2> SUFFICES ASSUME IInv, ~Damaged(nav)
               PROVE  View(LoadAllGPXObjects(CreateAllGPXObjects(nav))) = View(nav)
    OBVIOUS
  <2> DEFINE doc == CreateAllGPXObjects(nav)
             w == LoadAllGPXObjects(doc)
  <2>1. Belong(nav)
    BY InvariantGives
  <2>2. PICK n : Picture(nav, n)
    BY <2>1, PictureExists
  <2>3. doc \in Docs /\ NoneShort(doc.routes) /\ Tells(doc, n)
    BY <2>1, <2>2, DocumentShows
  <2>4. Depicts(nav, n) /\ Clean(n) /\ n.known = Routes /\ nav.look = n.look /\ nav \in Worlds /\ AllLive(nav)
    BY <2>1, <2>2 DEF Picture, Clean, Depicts, Belong, Sound, Fits
  <2>5. n.look \in [Routes -> 0..1]
    BY <2>4, WorldTypes
  <2>6. \A r \in Routes : \A g : Has(n.names[r], g) => g \in n.here
    BY <2>4, PictureGives
  <2> HIDE DEF doc
  <2>7. Picture(w, n)
    BY <2>3, <2>4, <2>5, <2>6, DocumentDepicted
  <2>8. Depicts(w, n) /\ AllLive(w)
    BY <2>7 DEF Picture
  <2> HIDE DEF w
  <2>9. View(w) = Shows(n) /\ View(nav) = Shows(n)
    BY <2>4, <2>8, PictureSeen
  <2> QED
    BY <2>9 DEF w, doc
<1>2. Spec => []IInv
  BY InvariantHolds
<1> QED
  BY <1>1, <1>2, PTL

-----------------------------------------------------------------------------
(* A replay, half way *)

(* A world f to which the records of what led to the world n are applied:  *)
(* the routes of T are as in n already, the others still as in f.  Old are *)
(* the points and K the routes that n knows; f may have later ones.        *)
Pic(n, f, K, T, B, G, H, P) ==
    [names |-> [r \in Routes |-> IF r \in T THEN n.names[r] ELSE f.names[r]],
     look |-> [r \in Routes |-> IF r \in T THEN n.look[r] ELSE f.look[r]],
     own |-> n.own \cup f.own, here |-> H, pos |-> P,
     known |-> K, behind |-> B, left |-> G, flagged |-> n.here]

(* The points of L are there, where n or, those of E, where f has them.    *)
Core(w, n, f, Old, K, T, B, G, L, E) ==
    \E H, P :
        /\ Depicts(w, Pic(n, f, K, T, B, G, H, P))
        /\ L \subseteq H /\ \A g \in H : g \in Old => g \in n.here
        /\ \A g : g \notin Old => (g \in H <=> g \in f.here)
        /\ \A g \in L : P[g] = n.pos[g] \/ (g \in E /\ P[g] = f.pos[g])
        /\ \A g \in f.here : g \notin Old => P[g] = f.pos[g]

(* Half way a route leads through g.                                        *)
Through(n, f, T, g) ==
    \E r \in Routes : IF r \in T THEN Has(n.names[r], g) ELSE Has(f.names[r], g)

(* What n and f must have in common for the next record to mean the same.   *)
Agree(n, f, Old, K, T, L) ==
    /\ \A r \in Routes : n.names[r] \in Seq(Nat) /\ f.names[r] \in Seq(Nat)
    /\ \A r \in Routes : \A g : /\ Has(n.names[r], g) => g \in n.here
                                /\ Has(f.names[r], g) => g \in f.here
    /\ n.own \subseteq n.here /\ f.own \subseteq f.here /\ n.here \subseteq Old
    /\ T \subseteq K /\ K \subseteq Routes
    /\ \A r \in Routes : r \in K /\ r \notin T =>
          \A g : Has(f.names[r], g) => Has(n.names[r], g)
    /\ \A r \in Routes : r \notin T => \A g \in Old : Has(f.names[r], g) => g \in n.here
    /\ L \subseteq n.here /\ \A g \in L : g \in n.own => Through(n, f, T, g)
    /\ \A g \in n.here : g \in f.here => (g \in n.own <=> g \in f.own)

(* The fields of Pic.                                                      *)
LEMMA PicFields ==
    ASSUME NEW n, NEW f, NEW K, NEW T, NEW B, NEW G, NEW H, NEW P
    PROVE  LET a == Pic(n, f, K, T, B, G, H, P) IN
           /\ \A r \in Routes : a.names[r] = IF r \in T THEN n.names[r] ELSE f.names[r]
           /\ a.look = [r \in Routes |-> IF r \in T THEN n.look[r] ELSE f.look[r]]
           /\ a.own = n.own \cup f.own /\ a.here = H /\ a.pos = P
           /\ a.known = K /\ a.behind = B /\ a.left = G /\ a.flagged = n.here
BY DEF Pic

(* The record of a route leads from one picture to another.                *)
Renews(n, f, Old, K, T, B, G, L, c, m, K2, G2, L2) ==
    /\ c.kind # "wpt"
    /\ c.action # "delete"
    /\ Len(c.pts) >= 2
    /\ \A q \in Routes : q # c.guid => m.names[q] = n.names[q] /\ m.look[q] = n.look[q]
    /\ m.look[c.guid] = 0
    /\ Len(m.names[c.guid]) = Len(c.pts)
    /\ m.here = n.here
    /\ m.own = n.own
    /\ \A k \in 1..Len(c.pts) :
           /\ m.names[c.guid][k] = c.pts[k].guid /\ m.pos[c.pts[k].guid] = c.pts[k].pos
           /\ c.pts[k].guid \in n.here /\ c.pts[k].shared = (c.pts[k].guid \notin n.own)
           /\ c.pts[k].guid \notin B
    /\ \A g \in n.here : m.pos[g] = n.pos[g] \/ Has(m.names[c.guid], g)
    /\ c.guid \notin T => \A g : Has(f.names[c.guid], g) => g \in Old
    /\ K2 \subseteq K \cup {c.guid}
    /\ G \subseteq G2
    /\ \A k \in 1..Len(c.pts) : c.pts[k].guid \in G2
    /\ \A g \in L2 : /\ g \in L \/ Has(m.names[c.guid], g)
                     /\ g \in n.own => Through(m, f, T \cup {c.guid}, g)

(* A route record that is long enough makes the route that of m.           *)
LEMMA CoreUpdate ==
    ASSUME NEW w, NEW n, NEW f, NEW Old, NEW K, NEW T, NEW B, NEW G, NEW L, NEW E,
           Core(w, n, f, Old, K, T, B, G, L, E), Agree(n, f, Old, K, T, L),
           NEW c \in Changes, NEW m, NEW K2, NEW G2, NEW L2,
           Renews(n, f, Old, K, T, B, G, L, c, m, K2, G2, L2)
    PROVE  Core(ApplyRte(w, c), m, f, Old, K2, T \cup {c.guid}, B, G2, L2, E)
<1> USE DEF Renews
<1> DEFINE r == c.guid
           S == T \cup {r}
           p == c.pts
<1>1. PICK H, P :
        /\ Depicts(w, Pic(n, f, K, T, B, G, H, P))
        /\ L \subseteq H /\ \A g \in H : g \in Old => g \in n.here
        /\ \A g : g \notin Old => (g \in H <=> g \in f.here)
        /\ \A g \in L : P[g] = n.pos[g] \/ (g \in E /\ P[g] = f.pos[g])
        /\ \A g \in f.here : g \notin Old => P[g] = f.pos[g]
  BY DEF Core
<1>2. r \in Routes /\ p \in Seq(Recs) /\ Len(p) \in Nat
  BY ChangeTypes
<1> DEFINE a == Pic(n, f, K, T, B, G, H, P)
           N == {p[k].guid : k \in 1..Len(p)}
           I == (H \ Gone(a, {r})) \cup N
           Q == [g \in I |-> IF g \in N THEN m.pos[g] ELSE P[g]]
           b == Pic(m, f, K2, S, B, G2, I, Q)
<1>3. /\ \A q \in Routes : a.names[q] = IF q \in T THEN n.names[q] ELSE f.names[q]
      /\ a.look = [q \in Routes |-> IF q \in T THEN n.look[q] ELSE f.look[q]]
      /\ a.own = n.own \cup f.own /\ a.here = H /\ a.pos = P
      /\ a.known = K /\ a.behind = B /\ a.left = G /\ a.flagged = n.here
  BY PicFields
<1>4. /\ \A q \in Routes : b.names[q] = IF q \in S THEN m.names[q] ELSE f.names[q]
      /\ b.look = [q \in Routes |-> IF q \in S THEN m.look[q] ELSE f.look[q]]
      /\ b.own = m.own \cup f.own /\ b.here = I /\ b.pos = Q
      /\ b.known = K2 /\ b.behind = B /\ b.left = G2 /\ b.flagged = m.here
  <2> HIDE DEF Renews, I, Q, S
  <2> QED
    BY PicFields
<1>5. \A g : g \in N <=> Has(m.names[r], g)
  BY DEF Has
<1>6. \A g : g \in N <=> \E k \in 1..Len(p) : p[k].guid = g
  OBVIOUS
<1>7. N \subseteq n.here /\ n.here \subseteq Old
  BY DEF Agree
<1>8. \A g : g \in a.own /\ g \in n.here => g \in n.own
  BY <1>3 DEF Agree
<1> HIDE DEF a, b, N
<1>9. \A g \in I : Q[g] = IF g \in N THEN m.pos[g] ELSE P[g]
  OBVIOUS
<1> HIDE DEF Q
<1>10. Depicts(ApplyRte(w, c), b)
  <2>1. \A q \in Routes : q # r => b.names[q] = a.names[q]
    BY <1>3, <1>4
  <2>2. Len(b.names[r]) = Len(p)
    BY <1>2, <1>4
  <2>3. ASSUME NEW k \in 1..Len(p)
        PROVE  /\ b.names[r][k] = p[k].guid /\ b.pos[p[k].guid] = p[k].pos
               /\ p[k].guid \in b.flagged /\ p[k].shared = (p[k].guid \notin b.own)
               /\ p[k].guid \in b.left /\ p[k].guid \notin b.behind
    <3>1. b.names[r][k] = p[k].guid
      BY <1>2, <1>4
    <3>2. p[k].guid \in N /\ p[k].guid \in I
      BY <1>6
    <3>3. b.pos[p[k].guid] = p[k].pos
      BY <1>4, <1>9, <3>2
    <3>4. p[k].guid \in n.here /\ p[k].shared = (p[k].guid \notin n.own)
      OBVIOUS
    <3>5. p[k].guid \in b.own <=> p[k].guid \in n.own
      BY <1>3, <1>4, <1>8, <3>4
    <3> QED
      BY <1>4, <3>1, <3>3, <3>4, <3>5
  <2>4. \A g : g \in b.here <=> g \in a.here \ Gone(a, {r}) \/ \E k \in 1..Len(p) : p[k].guid = g
    BY <1>3, <1>4, <1>6
  <2>5. \A g \in a.here \ Gone(a, {r}) : b.pos[g] = a.pos[g] \/ \E k \in 1..Len(p) : p[k].guid = g
    BY <1>3, <1>4, <1>6, <1>9
  <2>6. b.look = Bare(a, {r})
    <3>1. \A q \in Routes : b.look[q] = IF q = r THEN 0 ELSE a.look[q]
      BY <1>3, <1>4
    <3> HIDE DEF Renews
    <3> QED
      BY <1>4, <3>1 DEF Bare
  <2>7. /\ b.own = a.own /\ b.known \subseteq a.known \cup {r} /\ b.flagged \subseteq a.flagged
        /\ b.behind = a.behind /\ a.left \subseteq b.left
    BY <1>3, <1>4
  <2>8. Depicts(w, a)
    BY <1>1 DEF a
  <2>9. c.kind # "wpt" /\ c.action # "delete" /\ Len(c.pts) >= 2
    OBVIOUS
  <2> HIDE DEF Renews
  <2>10. Replaces(a, c, b)
    <3>1. \A k \in 1..Len(c.pts) :
             /\ b.names[r][k] = c.pts[k].guid /\ b.pos[c.pts[k].guid] = c.pts[k].pos
             /\ c.pts[k].guid \in b.flagged /\ c.pts[k].shared = (c.pts[k].guid \notin b.own)
             /\ c.pts[k].guid \in b.left /\ c.pts[k].guid \notin b.behind
      BY <2>3
    <3> QED
      BY <2>1, <2>2, <3>1, <2>4, <2>5, <2>6, <2>7, <2>9 DEF Replaces
  <2> HIDE DEF r, p
  <2> QED
    BY <2>8, <2>10, UpdateDepicted
<1>11. \A g : g \in Gone(a, {r}) <=> /\ g \in a.own /\ Has(a.names[r], g)
                                     /\ \A q \in Routes : Has(a.names[q], g) => q = r
  BY <1>2 DEF Gone
<1>12. ASSUME NEW g, g \in Gone(a, {r}) PROVE g \in Old
  <2>1. Has(a.names[r], g)
    BY <1>11, <1>12
  <2> QED
    BY <1>2, <1>3, <2>1 DEF Agree
<1>13. ASSUME NEW g \in L2 PROVE g \in I
  <2>1. CASE g \in N
    BY <2>1
  <2>2. CASE g \notin N
    <3>1. g \in L /\ g \in H /\ g \in n.here
      BY <1>1, <1>5, <2>2 DEF Agree
    <3>2. ASSUME g \in Gone(a, {r}) PROVE FALSE
      <4>1. g \in n.own
        BY <1>8, <1>11, <3>1, <3>2
      <4>2. PICK q \in Routes : IF q \in S THEN Has(m.names[q], g) ELSE Has(f.names[q], g)
        BY <4>1 DEF Through
      <4>3. q # r
        BY <1>5, <2>2, <4>2
      <4>4. Has(a.names[q], g)
        BY <1>3, <4>2, <4>3
      <4> QED
        BY <1>11, <3>2, <4>3, <4>4
    <3> QED
      BY <3>1, <3>2
  <2> QED
    BY <2>1, <2>2
<1>14. /\ \A g \in I : g \in Old => g \in m.here
       /\ \A g : g \notin Old => (g \in I <=> g \in f.here)
  BY <1>1, <1>7, <1>12
<1>15. ASSUME NEW g \in L2 PROVE Q[g] = m.pos[g] \/ (g \in E /\ Q[g] = f.pos[g])
  <2>1. g \in I
    BY <1>13
  <2>2. CASE g \in N
    BY <1>9, <2>1, <2>2
  <2>3. CASE g \notin N
    <3>1. g \in L /\ g \in n.here /\ m.pos[g] = n.pos[g]
      BY <1>5, <2>3 DEF Agree
    <3> QED
      BY <1>1, <1>9, <2>1, <2>3, <3>1
  <2> QED
    BY <2>2, <2>3
<1>16. ASSUME NEW g \in f.here, g \notin Old PROVE Q[g] = f.pos[g]
  <2>1. g \in I /\ g \notin N
    BY <1>7, <1>14, <1>16
  <2> QED
    BY <1>1, <1>9, <1>16, <2>1
<1>17. Depicts(ApplyRte(w, c), Pic(m, f, K2, S, B, G2, I, Q))
  BY <1>10 DEF b
<1> HIDE DEF I
<1> QED
  BY <1>13, <1>14, <1>15, <1>16, <1>17 DEF Core

(* How a world with the picture b is shown to be where the replay is due.  *)
LEMMA CoreFrom ==
    ASSUME NEW v, NEW b, Depicts(v, b), NEW m, NEW f, NEW Old, NEW K, NEW T, NEW B, NEW G, NEW L, NEW E,
           \A r \in Routes : b.names[r] = IF r \in T THEN m.names[r] ELSE f.names[r],
           \A r \in Routes : b.look[r] = IF r \in T THEN m.look[r] ELSE f.look[r],
           K \subseteq b.known,
           \A r \in Routes : r \notin b.known =>
               \A g : Has(b.names[r], g) /\ g \in m.own \cup f.own => g \in b.own,
           \A g \in b.here : g \in b.own <=> g \in m.own \cup f.own,
           \A g \in m.here : g \notin b.left \/ (g \in b.flagged /\ (g \in b.own <=> g \in m.own \cup f.own)),
           b.behind \subseteq B, b.left \subseteq G,
           L \subseteq b.here, \A g \in b.here : g \in Old => g \in m.here,
           \A g : g \notin Old => (g \in b.here <=> g \in f.here),
           \A g \in L : b.pos[g] = m.pos[g] \/ (g \in E /\ b.pos[g] = f.pos[g]),
           \A g \in f.here : g \notin Old => b.pos[g] = f.pos[g]
    PROVE  Core(v, m, f, Old, K, T, B, G, L, E)
<1> DEFINE d == Pic(m, f, K, T, B, G, b.here, b.pos)
<1>1. /\ \A r \in Routes : d.names[r] = IF r \in T THEN m.names[r] ELSE f.names[r]
      /\ d.look = [r \in Routes |-> IF r \in T THEN m.look[r] ELSE f.look[r]]
      /\ d.own = m.own \cup f.own /\ d.here = b.here /\ d.pos = b.pos
      /\ d.known = K /\ d.behind = B /\ d.left = G /\ d.flagged = m.here
  BY PicFields
<1> HIDE DEF d
<1>2. v.look = b.look /\ v.look \in [Routes -> 0..1] /\ RoutesFit(v, b)
  BY WorldTypes DEF Depicts, Sound, Fits
<1>3. \A r \in Routes : Len(v.pts[r]) = Len(b.names[r])
  BY <1>2 DEF RoutesFit
<1>4. d.look = b.look
  <2>1. \A r \in Routes : d.look[r] = b.look[r]
    BY <1>1
  <2> QED
    BY <1>1, <1>2, <2>1
<1>5. \A r \in Routes : d.names[r] = b.names[r]
  BY <1>1
<1>6. \A r \in Routes : \A k \in 1..Len(b.names[r]) : Has(b.names[r], b.names[r][k])
  BY DEF Has
<1>7. Depicts(v, d)
  <2>1. \A r \in Routes : /\ Len(d.names[r]) = Len(b.names[r])
                          /\ \A k \in 1..Len(b.names[r]) : d.names[r][k] = b.names[r][k]
                          /\ r \in d.known => r \in b.known
                          /\ \A k \in 1..Len(b.names[r]) :
                               r \notin b.known /\ b.names[r][k] \in d.own => b.names[r][k] \in b.own
    BY <1>1, <1>5, <1>6
  <2>2. d.here = b.here /\ d.look = b.look /\ b.behind \subseteq d.behind /\ b.left \subseteq d.left
    BY <1>1, <1>4
  <2>3. \A g \in b.here : d.pos[g] = b.pos[g] /\ (g \in d.own <=> g \in b.own)
    BY <1>1
  <2>4. \A g \in d.flagged : g \notin b.left \/ (g \in b.flagged /\ (g \in d.own <=> g \in b.own))
    BY <1>1
  <2> QED
    BY <2>1, <2>2, <2>3, <2>4, Redepicted
<1> QED
  BY <1>7 DEF Core, d

(* A record of a route that is too short is ignored.                       *)
LEMMA CoreShort ==
    ASSUME NEW w, NEW n, NEW f, NEW Old, NEW K, NEW T, NEW B, NEW G, NEW L, NEW E,
           Core(w, n, f, Old, K, T, B, G, L, E), Agree(n, f, Old, K, T, L),
           NEW c \in Changes, c.kind # "wpt", c.action # "delete", Len(c.pts) < 2,
           \A k \in 1..Len(c.pts) :
               c.pts[k].guid \in n.here => c.pts[k].shared = (c.pts[k].guid \notin n.own),
           NEW G2, G \subseteq G2, \A k \in 1..Len(c.pts) : c.pts[k].guid \in G2
    PROVE  Core(ApplyRte(w, c), n, f, Old, K, T, B, G2, L, E)
<1>1. PICK H, P :
        /\ Depicts(w, Pic(n, f, K, T, B, G, H, P))
        /\ L \subseteq H /\ \A g \in H : g \in Old => g \in n.here
        /\ \A g : g \notin Old => (g \in H <=> g \in f.here)
        /\ \A g \in L : P[g] = n.pos[g] \/ (g \in E /\ P[g] = f.pos[g])
        /\ \A g \in f.here : g \notin Old => P[g] = f.pos[g]
  BY DEF Core
<1> DEFINE a == Pic(n, f, K, T, B, G, H, P)
           b == Pic(n, f, K, T, B, G2, H, P)
<1>2. /\ b.names = a.names /\ b.here = a.here /\ b.own = a.own /\ b.look = a.look /\ b.pos = a.pos
      /\ b.known = a.known /\ b.flagged = a.flagged /\ b.behind = a.behind
      /\ a.left = G /\ b.left = G2 /\ b.flagged = n.here /\ b.own = n.own \cup f.own
  BY DEF Pic
<1>3. \A g \in n.here : g \in b.own <=> g \in n.own
  BY <1>2 DEF Agree
<1>4. Depicts(w, a)
  BY <1>1
<1> HIDE DEF a, b
<1>5. \A k \in 1..Len(c.pts) : c.pts[k].guid \in b.flagged =>
               c.pts[k].shared = (c.pts[k].guid \notin b.own)
  BY <1>2, <1>3
<1>6. Depicts(ApplyRte(w, c), b)
  BY <1>2, <1>4, <1>5, ShortDepicted
<1> QED
  BY <1>1, <1>6 DEF Core, b

(* The editor got new points.                                              *)
Grows(n, f, Old, K, T, L, m, F, Old2) ==
    /\ Agree(m, f, Old2, K, T, L)
    /\ Old2 = Old \cup F
    /\ \A g \in F : g \notin Old
    /\ m.names = n.names
    /\ m.look = n.look
    /\ m.here = n.here \cup F
    /\ m.own = n.own \cup F
    /\ \A g \in n.here : m.pos[g] = n.pos[g]

(* The points that are new in m are taken into account.                    *)
LEMMA CoreGrow ==
    ASSUME NEW w, NEW n, NEW f, NEW Old, NEW K, NEW T, NEW B, NEW G, NEW L, NEW E,
           Core(w, n, f, Old, K, T, B, G, L, E), Agree(n, f, Old, K, T, L), G \subseteq Old, NEW m, NEW F, NEW Old2,
           Grows(n, f, Old, K, T, L, m, F, Old2)
    PROVE  Core(w, m, f, Old2, K, T, B, G, L, E)
<1> USE DEF Grows
<1>1. PICK H, P :
        /\ Depicts(w, Pic(n, f, K, T, B, G, H, P))
        /\ L \subseteq H /\ \A g \in H : g \in Old => g \in n.here
        /\ \A g : g \notin Old => (g \in H <=> g \in f.here)
        /\ \A g \in L : P[g] = n.pos[g] \/ (g \in E /\ P[g] = f.pos[g])
        /\ \A g \in f.here : g \notin Old => P[g] = f.pos[g]
  BY DEF Core
<1> DEFINE a == Pic(n, f, K, T, B, G, H, P)
<1>2. /\ \A q \in Routes : a.names[q] = IF q \in T THEN n.names[q] ELSE f.names[q]
      /\ a.look = [q \in Routes |-> IF q \in T THEN n.look[q] ELSE f.look[q]]
      /\ a.own = n.own \cup f.own /\ a.here = H /\ a.pos = P
      /\ a.known = K /\ a.behind = B /\ a.left = G /\ a.flagged = n.here
  BY PicFields
<1>3. Depicts(w, a)
  BY <1>1
<1> HIDE DEF a
<1>4. \A g : g \in F /\ g \in f.here => g \in f.own
  BY DEF Agree
<1>5. \A r \in Routes : r \notin a.known =>
               \A g : Has(a.names[r], g) /\ g \in m.own \cup f.own => g \in a.own
  <2> SUFFICES ASSUME NEW r \in Routes, r \notin K, NEW g, Has(a.names[r], g), g \in m.own \cup f.own
               PROVE  g \in a.own
    BY <1>2
  <2>1. r \notin T
    BY DEF Agree
  <2>2. g \in f.here
    BY <1>2, <2>1 DEF Agree
  <2> QED
    BY <1>2, <1>4, <2>2
<1>6. \A g \in a.here : g \in a.own <=> g \in m.own \cup f.own
  BY <1>1, <1>2, <1>4
<1>7. \A g \in m.here : g \notin a.left \/ (g \in a.flagged /\ (g \in a.own <=> g \in m.own \cup f.own))
  BY <1>2 DEF Agree
<1>8. /\ \A r \in Routes : a.names[r] = IF r \in T THEN m.names[r] ELSE f.names[r]
      /\ \A r \in Routes : a.look[r] = IF r \in T THEN m.look[r] ELSE f.look[r]
  BY <1>2
<1>9. /\ L \subseteq a.here /\ \A g \in a.here : g \in Old2 => g \in m.here
      /\ \A g : g \notin Old2 => (g \in a.here <=> g \in f.here)
      /\ \A g \in f.here : g \notin Old2 => a.pos[g] = f.pos[g]
  BY <1>1, <1>2
<1>10. \A g \in L : a.pos[g] = m.pos[g] \/ (g \in E /\ a.pos[g] = f.pos[g])
  BY <1>1, <1>2 DEF Agree
<1> QED
  BY <1>2, <1>3, <1>5, <1>6, <1>7, <1>8, <1>9, <1>10, CoreFrom

(* The record of a deleted route leads from one picture to another.        *)
Strikes(n, f, Old, K, T, G, L, c, m, L2, G2) ==
    /\ c.kind # "wpt"
    /\ c.action = "delete"
    /\ Agree(m, f, Old, K, T \cup {c.guid}, L2)
    /\ \A q \in Routes : q # c.guid => m.names[q] = n.names[q] /\ m.look[q] = n.look[q]
    /\ m.names[c.guid] = <<>>
    /\ m.look[c.guid] = 0
    /\ m.here \subseteq n.here
    /\ L2 \subseteq L
    /\ \A g \in m.here : g \in m.own <=> g \in n.own
    /\ \A g \in n.here : g \notin m.here =>
           g \in n.own /\ \A q \in Routes : q # c.guid => ~Has(n.names[q], g)
    /\ \A g \in m.here : m.pos[g] = n.pos[g]
    /\ \A k \in 1..Len(c.pts) :
           c.pts[k].guid \in m.here => c.pts[k].shared = (c.pts[k].guid \notin m.own)
    /\ G \subseteq G2
    /\ \A k \in 1..Len(c.pts) : c.pts[k].guid \in G2

(* The record of a route that was deleted.                                 *)
LEMMA CoreDrop ==
    ASSUME NEW w, NEW n, NEW f, NEW Old, NEW K, NEW T, NEW B, NEW G, NEW L, NEW E,
           Core(w, n, f, Old, K, T, B, G, L, E), Agree(n, f, Old, K, T, L),
           NEW c \in Changes, NEW m, NEW L2, NEW G2,
           Strikes(n, f, Old, K, T, G, L, c, m, L2, G2)
    PROVE  Core(ApplyRte(w, c), m, f, Old, K, T \cup {c.guid}, B, G2, L2, E)
<1> USE DEF Strikes
<1> DEFINE r == c.guid
           S == T \cup {r}
<1>1. PICK H, P :
        /\ Depicts(w, Pic(n, f, K, T, B, G, H, P))
        /\ L \subseteq H /\ \A g \in H : g \in Old => g \in n.here
        /\ \A g : g \notin Old => (g \in H <=> g \in f.here)
        /\ \A g \in L : P[g] = n.pos[g] \/ (g \in E /\ P[g] = f.pos[g])
        /\ \A g \in f.here : g \notin Old => P[g] = f.pos[g]
  BY DEF Core
<1>2. r \in Routes
  BY ChangeTypes
<1> DEFINE a == Pic(n, f, K, T, B, G, H, P)
<1>3. /\ \A q \in Routes : a.names[q] = IF q \in T THEN n.names[q] ELSE f.names[q]
      /\ a.look = [q \in Routes |-> IF q \in T THEN n.look[q] ELSE f.look[q]]
      /\ a.own = n.own \cup f.own /\ a.here = H /\ a.pos = P
      /\ a.known = K /\ a.behind = B /\ a.left = G /\ a.flagged = n.here
  BY PicFields
<1>4. Depicts(w, a)
  BY <1>1
<1> HIDE DEF a
<1> DEFINE b == [names |-> [q \in Routes |-> IF q = r THEN <<>> ELSE a.names[q]],
                 here |-> a.here \ Gone(a, {r}), pos |-> P, own |-> a.own,
                 look |-> Bare(a, {r}),
                 known |-> K, flagged |-> m.here, behind |-> B, left |-> G2]
<1>5. /\ \A q \in Routes : b.names[q] = IF q = r THEN <<>> ELSE a.names[q]
      /\ b.here = a.here \ Gone(a, {r}) /\ b.pos = P /\ b.own = a.own
      /\ b.look = Bare(a, {r})
      /\ b.known = K /\ b.flagged = m.here /\ b.behind = B /\ b.left = G2
  OBVIOUS
<1> HIDE DEF b
<1>6. \A g \in m.here : g \in a.own <=> g \in m.own
  BY <1>3 DEF Agree
<1>7. Depicts(ApplyRte(w, c), b)
  <2>1. /\ \A q \in Routes : b.names[q] = IF q = c.guid THEN <<>> ELSE a.names[q]
        /\ b.here = a.here \ Gone(a, {c.guid}) /\ b.pos = a.pos /\ b.own = a.own
        /\ b.look = Bare(a, {c.guid})
        /\ b.known \subseteq a.known \cup {c.guid} /\ b.flagged \subseteq a.flagged /\ b.behind = a.behind
        /\ a.left \subseteq b.left /\ \A k \in 1..Len(c.pts) : c.pts[k].guid \in b.left
    BY <1>3, <1>5
  <2>2. \A k \in 1..Len(c.pts) : c.pts[k].guid \in b.flagged =>
               c.pts[k].shared = (c.pts[k].guid \notin b.own)
    BY <1>5, <1>6
  <2>3. c.kind # "wpt" /\ c.action = "delete"
    OBVIOUS
  <2> HIDE DEF r, Strikes
  <2>4. Deletes(a, c, b)
    BY <2>1, <2>2, <2>3 DEF Deletes
  <2> QED
    BY <1>4, <2>4, DeleteDepicted
<1>8. \A g : g \in Gone(a, {r}) <=> /\ g \in a.own /\ Has(a.names[r], g)
                                    /\ \A q \in Routes : Has(a.names[q], g) => q = r
  BY <1>2 DEF Gone
<1>10. \A g \in a.here : g \in a.own => \E q \in Routes : Has(a.names[q], g)
  <2> TAKE g \in a.here
  <2> HAVE g \in a.own
  <2>1. PointsFit(w, a)
    BY <1>4 DEF Depicts
  <2>2. PICK i \in 1..Len(w.obj) : Live(w, i) /\ w.obj[i].guid = g
    BY <2>1 DEF PointsFit
  <2>3. In(w, i)
    BY <2>1, <2>2 DEF PointsFit, Live
  <2> QED
    BY <1>4, <2>2, <2>3, LiveWhere
<1>11. ASSUME NEW g \in b.here, g \in Old PROVE g \in m.here
  <2>1. g \in a.here /\ g \in n.here /\ g \notin Gone(a, {r})
    BY <1>1, <1>3, <1>5, <1>11
  <2> SUFFICES ASSUME g \notin m.here PROVE FALSE
    OBVIOUS
  <2>2. g \in n.own /\ \A q \in Routes : q # r => ~Has(n.names[q], g)
    BY <2>1
  <2>3. g \in a.own
    BY <1>3, <2>2
  <2>4. PICK q \in Routes : Has(a.names[q], g)
    BY <1>10, <2>1, <2>3
  <2>5. PICK p \in Routes : Has(a.names[p], g) /\ p # r
    BY <1>8, <2>1, <2>3, <2>4
  <2>6. p \notin T /\ Has(f.names[p], g)
    BY <1>3, <2>2, <2>5
  <2> QED
    BY <1>11, <2>5, <2>6 DEF Agree
<1>12. ASSUME NEW g, g \in Gone(a, {r}), g \in L2 PROVE FALSE
  <2>1. g \in m.here /\ g \in m.own
    BY <1>6, <1>8, <1>12 DEF Agree
  <2>2. PICK q \in Routes : IF q \in S THEN Has(m.names[q], g) ELSE Has(f.names[q], g)
    BY <1>12, <2>1 DEF Agree, Through
  <2>3. q # r
    BY <2>2 DEF Has
  <2>4. Has(a.names[q], g)
    BY <1>3, <2>2, <2>3
  <2> QED
    BY <1>8, <1>12, <2>3, <2>4
<1>13. ASSUME NEW g, g \notin Old PROVE g \in b.here <=> g \in f.here
  <2>1. g \notin Gone(a, {r})
    <3> SUFFICES ASSUME g \in Gone(a, {r}) PROVE FALSE
      OBVIOUS
    <3>1. Has(a.names[r], g) /\ r \in K
      BY <1>8 DEF Agree
    <3> QED
      BY <1>2, <1>3, <1>13, <3>1 DEF Agree
  <2> QED
    BY <1>1, <1>3, <1>5, <1>13, <2>1
<1>14. \A g : /\ g \in m.own => g \in m.here /\ g \in Old /\ g \in n.own
              /\ g \in n.own => g \in n.here /\ g \in Old
  BY DEF Agree
<1>15. \A g \in b.here : g \in b.own <=> g \in m.own \cup f.own
  BY <1>3, <1>5, <1>11, <1>14
<1>16. \A q \in Routes : q \notin b.known =>
               \A g : Has(b.names[q], g) /\ g \in m.own \cup f.own => g \in b.own
  BY <1>3, <1>5, <1>14
<1>17. \A g \in m.here : g \notin b.left \/ (g \in b.flagged /\ (g \in b.own <=> g \in m.own \cup f.own))
  BY <1>5, <1>3, <1>14
<1>18. /\ \A q \in Routes : b.names[q] = IF q \in S THEN m.names[q] ELSE f.names[q]
       /\ \A q \in Routes : b.look[q] = IF q \in S THEN m.look[q] ELSE f.look[q]
  <2>1. \A q \in Routes : b.names[q] = IF q \in S THEN m.names[q] ELSE f.names[q]
    BY <1>2, <1>3, <1>5
  <2>2. \A q \in Routes : b.look[q] = IF q = r THEN 0 ELSE a.look[q]
    BY <1>5 DEF Bare
  <2>3. \A q \in Routes : a.look[q] = IF q \in T THEN n.look[q] ELSE f.look[q]
    BY <1>3
  <2>4. \A q \in Routes : b.look[q] = IF q \in S THEN m.look[q] ELSE f.look[q]
    BY <2>2, <2>3
  <2> QED
    BY <2>1, <2>4
<1>19. L2 \subseteq b.here
  BY <1>1, <1>3, <1>5, <1>12
<1>20. /\ \A g \in L2 : b.pos[g] = m.pos[g] \/ (g \in E /\ b.pos[g] = f.pos[g])
       /\ \A g \in f.here : g \notin Old => b.pos[g] = f.pos[g]
  BY <1>1, <1>5 DEF Agree
<1>21. K \subseteq b.known /\ b.behind \subseteq B /\ b.left \subseteq G2
  BY <1>5
<1> QED
  BY <1>7, <1>11, <1>13, <1>15, <1>16, <1>17, <1>18, <1>19, <1>20, <1>21, CoreFrom

-----------------------------------------------------------------------------
(* The records of marks, replayed *)

(* The record of a mark that was moved leads from one picture to another.  *)
Shifts(n, B, G, L, c, g, m, B2, L2) ==
    /\ c.kind = "wpt"
    /\ c.action = "update"
    /\ g = c.guid
    /\ c.pts[1].guid = g
    /\ g \notin B
    /\ g \in n.here
    /\ g \notin n.own
    /\ \A q \in Routes : ~Has(n.names[q], g)
    /\ m.names = n.names
    /\ m.look = n.look
    /\ m.here = n.here
    /\ m.own = n.own
    /\ m.pos[g] = c.pts[1].pos
    /\ \A h \in n.here : h # g => m.pos[h] = n.pos[h]
    /\ B \subseteq B2
    /\ g \in G => g \in B2
    /\ L2 \subseteq L \cup {g}

(* The record of a mark that was moved.                                    *)
LEMMA CoreMove ==
    ASSUME NEW w, NEW n, NEW f, NEW Old, NEW K, NEW T, NEW B, NEW G, NEW L, NEW E,
           Core(w, n, f, Old, K, T, B, G, L, E), Agree(n, f, Old, K, T, L),
           NEW c \in Changes, NEW g, NEW m, NEW B2, NEW L2,
           Shifts(n, B, G, L, c, g, m, B2, L2)
    PROVE  Core(ApplyWpt(w, c), m, f, Old, K, T, B2, G, L2, E)
<1> USE DEF Shifts
<1>1. PICK H, P :
        /\ Depicts(w, Pic(n, f, K, T, B, G, H, P))
        /\ L \subseteq H /\ \A h \in H : h \in Old => h \in n.here
        /\ \A h : h \notin Old => (h \in H <=> h \in f.here)
        /\ \A h \in L : P[h] = n.pos[h] \/ (h \in E /\ P[h] = f.pos[h])
        /\ \A h \in f.here : h \notin Old => P[h] = f.pos[h]
  BY DEF Core
<1> DEFINE a == Pic(n, f, K, T, B, G, H, P)
<1>2. /\ \A q \in Routes : a.names[q] = IF q \in T THEN n.names[q] ELSE f.names[q]
      /\ a.look = [q \in Routes |-> IF q \in T THEN n.look[q] ELSE f.look[q]]
      /\ a.own = n.own \cup f.own /\ a.here = H /\ a.pos = P
      /\ a.known = K /\ a.behind = B /\ a.left = G /\ a.flagged = n.here
  BY PicFields
<1>3. Depicts(w, a)
  BY <1>1
<1> HIDE DEF a
<1> DEFINE rec == c.pts[1]
           mark == [Object(rec) EXCEPT !.isolated = TRUE]
           u == IF Named(w, g) # {} THEN RemoveRoutePoint(w, Existing(w, g)) ELSE w
<1>4. rec \in Recs /\ rec.guid = g
  BY ChangeTypes
<1>5. ApplyWpt(w, c) = AddRoutePoint(u, mark)
  BY DEF ApplyWpt
<1>6. /\ mark \in Objects /\ mark.isolated /\ mark.listed /\ ~mark.inRoute
      /\ mark.guid = g /\ mark.pos = rec.pos
  BY <1>4, ObjectOf
<1>7. g \notin a.own
  BY <1>2 DEF Agree
<1>8. \A q \in Routes : Has(a.names[q], g) => q \notin a.known
  BY <1>2 DEF Agree
<1> DEFINE b == [names |-> a.names, here |-> H \ {g}, pos |-> P, own |-> a.own, look |-> a.look,
                 known |-> K, behind |-> B, left |-> G, flagged |-> a.flagged]
           d == [names |-> a.names, here |-> H \cup {g}, pos |-> [h \in H \cup {g} |-> IF h = g THEN rec.pos ELSE P[h]],
                 own |-> a.own, look |-> a.look,
                 known |-> K, behind |-> B2, left |-> G, flagged |-> a.flagged]
<1>9. /\ b.names = a.names /\ b.here = H \ {g} /\ b.pos = P /\ b.own = a.own /\ b.look = a.look
      /\ b.known = K /\ b.behind = B /\ b.left = G /\ b.flagged = a.flagged
  OBVIOUS
<1>10. /\ d.names = a.names /\ d.here = H \cup {g} /\ d.own = a.own /\ d.look = a.look
       /\ d.pos[g] = rec.pos /\ \A h \in H : h # g => d.pos[h] = P[h]
       /\ d.known = K /\ d.behind = B2 /\ d.left = G /\ d.flagged = a.flagged
  OBVIOUS
<1> HIDE DEF b, d, mark, rec
<1>11. Depicts(u, b)
  <2>1. CASE Named(w, g) # {}
    <3> DEFINE i == Existing(w, g)
    <3>1. i \in 1..Len(w.obj) /\ w.obj[i].guid = g /\ (Live(w, i) <=> g \in a.here)
      BY <1>2, <1>3, <2>1, FirstOne
    <3>2. u = RemoveRoutePoint(w, i)
      BY <2>1
    <3> HIDE DEF i, u
    <3>3. Live(w, i) \/ w.obj[i].guid \notin a.here
      BY <3>1
    <3>4. \A r \in Routes : Has(a.names[r], w.obj[i].guid) => r \notin a.known /\ w.obj[i].guid \notin a.own
      BY <1>7, <1>8, <3>1
    <3>5. /\ b.names = a.names /\ b.here = a.here \ {w.obj[i].guid} /\ b.own = a.own /\ b.look = a.look
          /\ \A h \in b.here : b.pos[h] = a.pos[h]
          /\ b.known = a.known /\ b.flagged \subseteq a.flagged /\ b.behind = a.behind /\ b.left = a.left
      BY <1>2, <1>9, <3>1
    <3>6. i \in 1..Len(w.obj)
      BY <3>1
    <3>7. Unlists(w, a, i, b)
      BY <3>3, <3>4, <3>5 DEF Unlists
    <3> QED
      BY <1>3, <3>2, <3>6, <3>7, UnlistDepicted
  <2>2. CASE Named(w, g) = {}
    <3>1. g \notin a.here /\ u = w
      BY <1>3, <2>2, FoundNames
    <3>2. Depicts(w, b)
      <4>1. \A r \in Routes : /\ Len(b.names[r]) = Len(a.names[r])
                              /\ \A k \in 1..Len(a.names[r]) : b.names[r][k] = a.names[r][k]
                              /\ r \in b.known => r \in a.known
                              /\ \A k \in 1..Len(a.names[r]) :
                                   r \notin a.known /\ a.names[r][k] \in b.own => a.names[r][k] \in a.own
        BY <1>2, <1>9
      <4>2. b.here = a.here /\ b.look = a.look /\ a.behind \subseteq b.behind /\ a.left \subseteq b.left
        BY <1>2, <1>9, <3>1
      <4>3. \A h \in a.here : b.pos[h] = a.pos[h] /\ (h \in b.own <=> h \in a.own)
        BY <1>2, <1>9
      <4>4. \A h \in b.flagged : h \notin a.left \/ (h \in a.flagged /\ (h \in b.own <=> h \in a.own))
        BY <1>2, <1>9
      <4> QED
        BY <1>3, <4>1, <4>2, <4>3, <4>4, Redepicted
    <3> QED
      BY <3>1, <3>2
  <2> QED
    BY <2>1, <2>2
<1> HIDE DEF u
<1>12. Depicts(AddRoutePoint(u, mark), d)
  <2>1. mark.guid \notin b.here /\ mark.guid \notin b.own
    BY <1>6, <1>7, <1>9
  <2>2. /\ d.names = b.names /\ d.here = b.here \cup {mark.guid} /\ d.own = b.own /\ d.look = b.look
        /\ d.pos[mark.guid] = mark.pos /\ \A h \in b.here : d.pos[h] = b.pos[h]
        /\ d.known = b.known /\ d.flagged \subseteq b.flagged /\ b.behind \subseteq d.behind
        /\ b.left \subseteq d.left /\ (mark.guid \in b.left => mark.guid \in d.behind)
    BY <1>6, <1>9, <1>10
  <2> HIDE DEF Shifts
  <2>3. WithMark(b, mark, d)
    BY <1>6, <2>1, <2>2 DEF WithMark
  <2> QED
    BY <1>6, <1>11, <2>3, MarkDepicted
<1>13. /\ \A q \in Routes : d.names[q] = IF q \in T THEN m.names[q] ELSE f.names[q]
       /\ \A q \in Routes : d.look[q] = IF q \in T THEN m.look[q] ELSE f.look[q]
       /\ K \subseteq d.known /\ d.behind \subseteq B2 /\ d.left \subseteq G
  BY <1>2, <1>10
<1>14. /\ d.own = m.own \cup f.own
       /\ \A h \in m.here : h \notin d.left \/ (h \in d.flagged /\ (h \in d.own <=> h \in m.own \cup f.own))
  BY <1>2, <1>10
<1>15. g \in Old /\ L \subseteq n.here
  BY DEF Agree
<1>16. /\ L2 \subseteq d.here /\ \A h \in d.here : h \in Old => h \in m.here
       /\ \A h : h \notin Old => (h \in d.here <=> h \in f.here)
  BY <1>1, <1>10, <1>15
<1>17. \A h \in L2 : d.pos[h] = m.pos[h] \/ (h \in E /\ d.pos[h] = f.pos[h])
  <2> TAKE h \in L2
  <2>1. CASE h = g
    BY <1>10, <2>1 DEF rec
  <2>2. CASE h # g
    <3>1. h \in L /\ h \in H /\ h \in n.here
      BY <1>1, <1>15, <2>2
    <3> QED
      BY <1>1, <1>10, <2>2, <3>1
  <2> QED
    BY <2>1, <2>2
<1>18. \A h \in f.here : h \notin Old => d.pos[h] = f.pos[h]
  BY <1>1, <1>10, <1>15
<1>19. \A h \in d.here : h \in d.own <=> h \in m.own \cup f.own
  BY <1>14
<1>20. \A q \in Routes : q \notin d.known =>
               \A h : Has(d.names[q], h) /\ h \in m.own \cup f.own => h \in d.own
  BY <1>14
<1> QED
  BY <1>5, <1>12, <1>13, <1>14, <1>16, <1>17, <1>18, <1>19, <1>20, CoreFrom

(* The record of a new mark leads from one picture to another.             *)
Sets(n, f, Old, K, T, L, E, c, g, m, Old2, L2) ==
    /\ c.kind = "wpt"
    /\ c.action = "add"
    /\ g = c.guid
    /\ c.pts[1].guid = g
    /\ g \notin Old
    /\ Old2 = Old \cup {g}
    /\ L2 \subseteq L \cup {g}
    /\ Agree(m, f, Old2, K, T, L2)
    /\ m.names = n.names
    /\ m.look = n.look
    /\ m.here = n.here \cup {g}
    /\ m.own = n.own
    /\ m.pos[g] = c.pts[1].pos
    /\ \A h \in n.here : m.pos[h] = n.pos[h]
    /\ g \in f.here => g \in E

(* The record of a new mark; f may have it already.                        *)
LEMMA CoreAdd ==
    ASSUME NEW w, NEW n, NEW f, NEW Old, NEW K, NEW T, NEW B, NEW G, NEW L, NEW E,
           Core(w, n, f, Old, K, T, B, G, L, E), Agree(n, f, Old, K, T, L), G \subseteq Old,
           NEW c \in Changes, NEW g, NEW m, NEW Old2, NEW L2,
           Sets(n, f, Old, K, T, L, E, c, g, m, Old2, L2)
    PROVE  Core(ApplyWpt(w, c), m, f, Old2, K, T, B, G, L2, E)
<1> USE DEF Sets
<1>1. PICK H, P :
        /\ Depicts(w, Pic(n, f, K, T, B, G, H, P))
        /\ L \subseteq H /\ \A h \in H : h \in Old => h \in n.here
        /\ \A h : h \notin Old => (h \in H <=> h \in f.here)
        /\ \A h \in L : P[h] = n.pos[h] \/ (h \in E /\ P[h] = f.pos[h])
        /\ \A h \in f.here : h \notin Old => P[h] = f.pos[h]
  BY DEF Core
<1> DEFINE a == Pic(n, f, K, T, B, G, H, P)
<1>2. /\ \A q \in Routes : a.names[q] = IF q \in T THEN n.names[q] ELSE f.names[q]
      /\ a.look = [q \in Routes |-> IF q \in T THEN n.look[q] ELSE f.look[q]]
      /\ a.own = n.own \cup f.own /\ a.here = H /\ a.pos = P
      /\ a.known = K /\ a.behind = B /\ a.left = G /\ a.flagged = n.here
  BY PicFields
<1>3. Depicts(w, a)
  BY <1>1
<1> HIDE DEF a
<1> DEFINE rec == c.pts[1]
           mark == [Object(rec) EXCEPT !.isolated = TRUE]
<1>4. rec \in Recs /\ rec.guid = g
  BY ChangeTypes
<1>5. ApplyWpt(w, c) = IF Named(w, g) # {} THEN w ELSE AddRoutePoint(w, mark)
  BY DEF ApplyWpt
<1>6. /\ mark \in Objects /\ mark.isolated /\ mark.listed /\ ~mark.inRoute
      /\ mark.guid = g /\ mark.pos = rec.pos
  BY <1>4, ObjectOf
<1>7. Named(w, g) # {} <=> g \in H
  BY <1>2, <1>3, FoundNames
<1>8. g \notin n.own /\ g \notin n.here /\ g \in m.here
  BY DEF Agree
<1>9. g \notin f.own
  BY <1>8 DEF Agree
<1>10. L \subseteq n.here /\ g \notin G
  BY DEF Agree
<1> DEFINE d == [names |-> a.names, here |-> H \cup {g},
                 pos |-> [h \in H \cup {g} |-> IF h \in H THEN P[h] ELSE rec.pos],
                 own |-> a.own, look |-> a.look,
                 known |-> K, behind |-> B, left |-> G, flagged |-> m.here]
<1>11. /\ d.names = a.names /\ d.here = H \cup {g} /\ d.own = a.own /\ d.look = a.look
       /\ g \notin H => d.pos[g] = rec.pos
       /\ \A h \in H : d.pos[h] = P[h]
       /\ d.known = K /\ d.behind = B /\ d.left = G /\ d.flagged = m.here
  OBVIOUS
<1> HIDE DEF d, mark, rec
<1>12. Depicts(ApplyWpt(w, c), d)
  <2> DEFINE b == [names |-> a.names, here |-> H, pos |-> P, own |-> a.own, look |-> a.look,
                   known |-> K, behind |-> B, left |-> G, flagged |-> m.here]
  <2>0. /\ b.names = a.names /\ b.here = H /\ b.pos = P /\ b.own = a.own /\ b.look = a.look
        /\ b.known = K /\ b.behind = B /\ b.left = G /\ b.flagged = m.here
    OBVIOUS
  <2> HIDE DEF b
  <2>1. Depicts(w, b)
    <3>1. \A r \in Routes : /\ Len(b.names[r]) = Len(a.names[r])
                            /\ \A k \in 1..Len(a.names[r]) : b.names[r][k] = a.names[r][k]
                            /\ r \in b.known => r \in a.known
                            /\ \A k \in 1..Len(a.names[r]) :
                                 r \notin a.known /\ a.names[r][k] \in b.own => a.names[r][k] \in a.own
      BY <1>2, <2>0
    <3>2. b.here = a.here /\ b.look = a.look /\ a.behind \subseteq b.behind /\ a.left \subseteq b.left
      BY <1>2, <2>0
    <3>3. \A h \in a.here : b.pos[h] = a.pos[h] /\ (h \in b.own <=> h \in a.own)
      BY <1>2, <2>0
    <3>4. \A h \in b.flagged : h \notin a.left \/ (h \in a.flagged /\ (h \in b.own <=> h \in a.own))
      BY <1>2, <1>10, <2>0
    <3> QED
      BY <1>3, <3>1, <3>2, <3>3, <3>4, Redepicted
  <2>2. CASE g \in H
    <3>1. \A r \in Routes : /\ Len(d.names[r]) = Len(b.names[r])
                            /\ \A k \in 1..Len(b.names[r]) : d.names[r][k] = b.names[r][k]
                            /\ r \in d.known => r \in b.known
                            /\ \A k \in 1..Len(b.names[r]) :
                                 r \notin b.known /\ b.names[r][k] \in d.own => b.names[r][k] \in b.own
      BY <1>11, <2>0
    <3>2. d.here = b.here /\ d.look = b.look /\ b.behind \subseteq d.behind /\ b.left \subseteq d.left
      BY <1>11, <2>0, <2>2
    <3>3. \A h \in b.here : d.pos[h] = b.pos[h] /\ (h \in d.own <=> h \in b.own)
      BY <1>11, <2>0
    <3>4. \A h \in d.flagged : h \notin b.left \/ (h \in b.flagged /\ (h \in d.own <=> h \in b.own))
      BY <1>11, <2>0
    <3>5. Depicts(w, d)
      BY <2>1, <3>1, <3>2, <3>3, <3>4, Redepicted
    <3> QED
      BY <1>5, <1>7, <2>2, <3>5
  <2>3. CASE g \notin H
    <3>1. mark.guid \notin b.here /\ mark.guid \notin b.own
      BY <1>2, <1>6, <1>8, <1>9, <2>0, <2>3
    <3>2. /\ d.names = b.names /\ d.here = b.here \cup {mark.guid} /\ d.own = b.own /\ d.look = b.look
          /\ d.pos[mark.guid] = mark.pos /\ \A h \in b.here : d.pos[h] = b.pos[h]
          /\ d.known = b.known /\ d.flagged \subseteq b.flagged /\ b.behind \subseteq d.behind
          /\ b.left \subseteq d.left /\ (mark.guid \in b.left => mark.guid \in d.behind)
      BY <1>6, <1>10, <1>11, <2>0, <2>3
    <3>3. Depicts(AddRoutePoint(w, mark), d)
      <4> HIDE DEF Sets
      <4>1. WithMark(b, mark, d)
        BY <1>6, <3>1, <3>2 DEF WithMark
      <4> QED
        BY <1>6, <2>1, <4>1, MarkDepicted
    <3> QED
      BY <1>5, <1>7, <2>3, <3>3
  <2> QED
    BY <2>2, <2>3
<1>13. /\ \A q \in Routes : d.names[q] = IF q \in T THEN m.names[q] ELSE f.names[q]
       /\ \A q \in Routes : d.look[q] = IF q \in T THEN m.look[q] ELSE f.look[q]
       /\ K \subseteq d.known /\ d.behind \subseteq B /\ d.left \subseteq G
  BY <1>2, <1>11
<1>14. /\ d.own = m.own \cup f.own
       /\ \A h \in m.here : h \notin d.left \/ (h \in d.flagged /\ (h \in d.own <=> h \in m.own \cup f.own))
  BY <1>2, <1>11
<1>16. /\ L2 \subseteq d.here /\ \A h \in d.here : h \in Old2 => h \in m.here
       /\ \A h : h \notin Old2 => (h \in d.here <=> h \in f.here)
  BY <1>1, <1>11, <1>10
<1>17. \A h \in L2 : d.pos[h] = m.pos[h] \/ (h \in E /\ d.pos[h] = f.pos[h])
  <2> TAKE h \in L2
  <2>1. CASE h = g
    <3>1. CASE g \in H
      BY <1>1, <1>11, <2>1, <3>1
    <3>2. CASE g \notin H
      BY <1>11, <2>1, <3>2 DEF rec
    <3> QED
      BY <3>1, <3>2
  <2>2. CASE h # g
    <3>1. h \in L /\ h \in H /\ h \in n.here
      BY <1>1, <1>10, <2>2
    <3> QED
      BY <1>1, <1>11, <2>2, <3>1
  <2> QED
    BY <2>1, <2>2
<1>18. \A h \in f.here : h \notin Old2 => d.pos[h] = f.pos[h]
  BY <1>1, <1>11
<1>19. \A h \in d.here : h \in d.own <=> h \in m.own \cup f.own
  BY <1>14
<1>20. \A q \in Routes : q \notin d.known =>
               \A h : Has(d.names[q], h) /\ h \in m.own \cup f.own => h \in d.own
  BY <1>14
<1> QED
  BY <1>12, <1>13, <1>14, <1>16, <1>17, <1>18, <1>19, <1>20, CoreFrom

(* A point that is in no known route of the picture and not live: the      *)
(* object that goes is one a route record left behind.                     *)
LEMMA LeftoverDestroyed ==
    ASSUME NEW w, NEW a, Depicts(w, a), NEW g, g \notin a.here
    PROVE  /\ \A r \in Routes : Has(a.names[r], g) => r \notin a.known /\ g \notin a.own
           /\ Named(w, g) # {} => Depicts(DestroyWaypoint(w, Existing(w, g)), a)
<1>1. \A i \in 1..Len(w.obj) : Live(w, i) => w.obj[i].guid \in a.here
  BY DEF Depicts, PointsFit
<1>2. \A r \in Routes : Has(a.names[r], g) => r \notin a.known /\ g \notin a.own
  BY <1>1, RouteThrough
<1>3. ASSUME Named(w, g) # {} PROVE Depicts(DestroyWaypoint(w, Existing(w, g)), a)
  <2> DEFINE i == Existing(w, g)
             v == DropRoutes(w, {})
  <2>1. /\ i \in 1..Len(w.obj) /\ w.obj[i].listed /\ w.obj[i].guid = g /\ ~Live(w, i)
    BY <1>3, FirstOne
  <2>2. ~In(w, i)
    BY <2>1 DEF Live
  <2>3. Sound(w) /\ w \in Worlds
    BY DEF Depicts, Sound, Fits
  <2>4. Containers(w, i) = {}
    BY <2>2, <2>3, ContainersAre
  <2> HIDE DEF i
  <2>5. DestroyWaypoint(w, i) = RemoveRoutePoint(v, i)
    BY <2>4 DEF DestroyWaypoint, LeaveRoutes
  <2>6. Gone(a, {}) = {}
    BY DEF Gone
  <2>7. a.look = Bare(a, {})
    <3>1. a.look \in [Routes -> 0..1]
      BY <2>3, WorldTypes DEF Depicts
    <3> QED
      BY <3>1 DEF Bare
  <2>8. Depicts(v, a)
    <3>1. /\ \A r \in Routes : a.names[r] = IF r \in {} THEN <<>> ELSE a.names[r]
          /\ a.here = a.here \ Gone(a, {}) /\ a.known \subseteq a.known \cup {}
      BY <2>6
    <3>2. Drops(a, {}, a)
      BY <2>7, <3>1 DEF Drops
    <3> QED
      BY <3>2, DropDepicted
  <2>9. Len(v.obj) = Len(w.obj) /\ v.obj[i] = w.obj[i]
    BY <2>1, <2>2, <2>3, RoutesDropped
  <2> HIDE DEF v
  <2>10. Depicts(RemoveRoutePoint(v, i), a)
    <3>1. i \in 1..Len(v.obj) /\ v.obj[i].guid = g
      BY <2>1, <2>9
    <3>2. v.obj[i].guid \notin a.here /\ a.here = a.here \ {v.obj[i].guid}
      BY <3>1
    <3>3. \A r \in Routes : Has(a.names[r], v.obj[i].guid) => r \notin a.known /\ v.obj[i].guid \notin a.own
      BY <1>2, <3>1
    <3>4. Unlists(v, a, i, a)
      BY <3>1, <3>2, <3>3 DEF Unlists
    <3> QED
      BY <2>8, <3>1, <3>4, UnlistDepicted
  <2> QED
    BY <2>5, <2>10 DEF i
<1> QED
  BY <1>2, <1>3

(* A point of the picture that no mark and no object of its own stands for *)
(* is in a route.                                                          *)
LEMMA OwnedInRoute ==
    ASSUME NEW w, NEW a, Depicts(w, a), NEW g \in a.here, g \in a.own
    PROVE  \E q \in Routes : Has(a.names[q], g)
<1>1. PointsFit(w, a)
  BY DEF Depicts
<1>2. PICK i \in 1..Len(w.obj) : Live(w, i) /\ w.obj[i].guid = g
  BY <1>1 DEF PointsFit
<1>3. In(w, i)
  BY <1>1, <1>2 DEF PointsFit, Live
<1> QED
  BY <1>2, <1>3, LiveWhere

(* The record of a deleted point leads from one picture to another.        *)
Kills(n, f, Old, K, T, B, L, c, g, D, m, L2) ==
    /\ c.kind = "wpt"
    /\ c.action = "delete"
    /\ g = c.guid
    /\ g \notin B
    /\ g \in n.here
    /\ \A q \in Routes : q \in D <=> Has(n.names[q], g)
    /\ \A q \in Routes : q \in D => Len(Without(n.names[q], g)) < 2
    /\ \A q \in Routes : q \in D /\ q \notin T =>
           (f.names[q] = <<>> /\ f.look[q] = 0) \/ f.names[q] = n.names[q]
    /\ Agree(m, f, Old, K, T \cup D, L2)
    /\ L2 \subseteq L
    /\ \A q \in Routes : m.names[q] = IF q \in D THEN <<>> ELSE n.names[q]
    /\ \A q \in Routes : m.look[q] = IF q \in D THEN 0 ELSE n.look[q]
    /\ m.here \subseteq n.here
    /\ g \notin m.here
    /\ \A h \in m.here : h \in m.own <=> h \in n.own
    /\ \A h \in n.here : h \notin m.here =>
           h = g \/ (h \in n.own /\ \A q \in Routes : Has(n.names[q], h) => q \in D)
    /\ \A h \in m.here : m.pos[h] = n.pos[h]

(* The record of a point that was deleted with the routes of D.            *)
LEMMA CoreDestroy ==
    ASSUME NEW w, NEW n, NEW f, NEW Old, NEW K, NEW T, NEW B, NEW G, NEW L, NEW E,
           Core(w, n, f, Old, K, T, B, G, L, E), Agree(n, f, Old, K, T, L),
           NEW c \in Changes, NEW g, NEW D, NEW m, NEW L2,
           Kills(n, f, Old, K, T, B, L, c, g, D, m, L2)
    PROVE  Core(ApplyWpt(w, c), m, f, Old, K, T \cup D, B, G, L2, E)
<1> USE DEF Kills
<1>1. PICK H, P :
        /\ Depicts(w, Pic(n, f, K, T, B, G, H, P))
        /\ L \subseteq H /\ \A h \in H : h \in Old => h \in n.here
        /\ \A h : h \notin Old => (h \in H <=> h \in f.here)
        /\ \A h \in L : P[h] = n.pos[h] \/ (h \in E /\ P[h] = f.pos[h])
        /\ \A h \in f.here : h \notin Old => P[h] = f.pos[h]
  BY DEF Core
<1> DEFINE a == Pic(n, f, K, T, B, G, H, P)
           S == T \cup D
<1>2. /\ \A q \in Routes : a.names[q] = IF q \in T THEN n.names[q] ELSE f.names[q]
      /\ a.look = [q \in Routes |-> IF q \in T THEN n.look[q] ELSE f.look[q]]
      /\ a.own = n.own \cup f.own /\ a.here = H /\ a.pos = P
      /\ a.known = K /\ a.behind = B /\ a.left = G /\ a.flagged = n.here
  BY PicFields
<1>3. Depicts(w, a)
  BY <1>1
<1> HIDE DEF a
<1>4. ApplyWpt(w, c) = IF Named(w, g) # {} THEN DestroyWaypoint(w, Existing(w, g)) ELSE w
  BY DEF ApplyWpt
<1>5. /\ g \in Old /\ S \subseteq K /\ L \subseteq n.here
      /\ \A h \in n.here : h \in Old
      /\ \A h \in n.own : h \in n.here
      /\ \A h \in m.own : h \in m.here
      /\ \A q \in Routes : q \notin S => \A h \in Old : Has(f.names[q], h) => h \in m.here
      /\ \A q \in Routes : \A h : Has(n.names[q], h) => h \in n.here
  BY DEF Agree
<1>6. \A h : ~Has(<<>>, h)
  BY DEF Has
<1>7. \A h \in L2 : h \in m.own => \E q \in Routes : IF q \in S THEN Has(m.names[q], h) ELSE Has(f.names[q], h)
  BY DEF Agree, Through
(* What is left to show about the picture b of the result.                 *)
<1> DEFINE Fate(b, X) ==
             /\ b.here = a.here \ X /\ b.pos = a.pos
             /\ b.own = a.own \/ (b.own = a.own \ {g} /\ g \notin b.here)
             /\ b.known = K /\ b.behind = B /\ b.left = G /\ b.flagged = m.here
             /\ \A q \in Routes : b.names[q] = IF q \in S THEN m.names[q] ELSE f.names[q]
             /\ \A q \in Routes : b.look[q] = IF q \in S THEN m.look[q] ELSE f.look[q]
             /\ \A h \in X : h \in Old /\ h \notin L2
             /\ \A h \in b.here : h \in Old => h \in m.here
<1>8. ASSUME NEW v, NEW b, Depicts(v, b), NEW X, Fate(b, X)
      PROVE  Core(v, m, f, Old, K, S, B, G, L2, E)
  <2>1. g \notin m.own /\ \A h : h # g => (h \in b.own <=> h \in n.own \cup f.own)
    BY <1>2, <1>5, <1>8
  <2>2. ASSUME NEW h \in b.here PROVE h \in b.own <=> h \in m.own \cup f.own
    <3>1. h # g
      BY <1>5, <1>8, <2>2
    <3>2. h \in n.own => h \in m.own
      BY <1>5, <1>8, <2>2
    <3>3. h \in m.own => h \in n.own
      BY <1>5
    <3> QED
      BY <2>1, <3>1, <3>2, <3>3
  <2>3. ASSUME NEW q \in Routes, q \notin b.known, NEW h, Has(b.names[q], h), h \in m.own \cup f.own
        PROVE  h \in b.own
    <3>1. q \notin S /\ Has(f.names[q], h)
      BY <1>5, <1>8, <2>3
    <3>2. h # g
      BY <1>5, <3>1
    <3> QED
      BY <1>5, <2>1, <2>3, <3>2
  <2>4. \A h \in m.here : h \notin b.left \/ (h \in b.flagged /\ (h \in b.own <=> h \in m.own \cup f.own))
    BY <1>8, <2>1
  <2>5. L2 \subseteq b.here
    BY <1>1, <1>2, <1>8
  <2>6. \A h : h \notin Old => (h \in b.here <=> h \in f.here)
    BY <1>1, <1>2, <1>8
  <2>7. /\ \A h \in L2 : b.pos[h] = m.pos[h] \/ (h \in E /\ b.pos[h] = f.pos[h])
        /\ \A h \in f.here : h \notin Old => b.pos[h] = f.pos[h]
    BY <1>1, <1>2, <1>8 DEF Agree
  <2>8. K \subseteq b.known /\ b.behind \subseteq B /\ b.left \subseteq G
    BY <1>8
  <2> HIDE DEF S
  <2> QED
    BY <1>8, <2>2, <2>3, <2>4, <2>5, <2>6, <2>7, <2>8, CoreFrom
<1> HIDE DEF Fate
<1>9. CASE g \notin H
  <2>1. \A r \in Routes : Has(a.names[r], g) => r \notin K
    BY <1>2, <1>3, <1>9, LeftoverDestroyed
  <2>2. ASSUME NEW q \in Routes, q \in D PROVE q \notin T /\ f.names[q] = <<>> /\ f.look[q] = 0
    <3>1. q \in K /\ Has(n.names[q], g)
      BY <1>5, <2>2
    <3> QED
      BY <1>2, <2>1, <2>2, <3>1
  <2>3. ASSUME NEW h \in H, h \in Old PROVE h \in m.here
    <3> SUFFICES ASSUME h \notin m.here PROVE FALSE
      OBVIOUS
    <3>1. h \in n.own /\ \A q \in Routes : Has(n.names[q], h) => q \in D
      BY <1>1, <1>9, <2>3
    <3>2. PICK q \in Routes : Has(a.names[q], h)
      BY <1>2, <1>3, <3>1, OwnedInRoute
    <3>3. q \notin T /\ q \notin D /\ Has(f.names[q], h)
      BY <1>2, <1>6, <2>2, <3>1, <3>2
    <3> QED
      BY <1>5, <2>3, <3>3
  <2>4. Depicts(ApplyWpt(w, c), a)
    BY <1>2, <1>3, <1>4, <1>9, LeftoverDestroyed
  <2> DEFINE b == [names |-> a.names, look |-> a.look, own |-> a.own, here |-> H, pos |-> P,
                   known |-> K, behind |-> B, left |-> G, flagged |-> m.here]
  <2>5. /\ b.names = a.names /\ b.look = a.look /\ b.own = a.own /\ b.here = H /\ b.pos = P
        /\ b.known = K /\ b.behind = B /\ b.left = G /\ b.flagged = m.here
    OBVIOUS
  <2> HIDE DEF b
  <2>6. Depicts(ApplyWpt(w, c), b)
    <3>1. \A r \in Routes : /\ Len(b.names[r]) = Len(a.names[r])
                            /\ \A k \in 1..Len(a.names[r]) : b.names[r][k] = a.names[r][k]
                            /\ r \in b.known => r \in a.known
                            /\ \A k \in 1..Len(a.names[r]) :
                                 r \notin a.known /\ a.names[r][k] \in b.own => a.names[r][k] \in a.own
      BY <1>2, <2>5
    <3>2. b.here = a.here /\ b.look = a.look /\ a.behind \subseteq b.behind /\ a.left \subseteq b.left
      BY <1>2, <2>5
    <3>3. \A h \in a.here : b.pos[h] = a.pos[h] /\ (h \in b.own <=> h \in a.own)
      BY <1>2, <2>5
    <3>4. \A h \in b.flagged : h \notin a.left \/ (h \in a.flagged /\ (h \in b.own <=> h \in a.own))
      BY <1>2, <2>5
    <3> QED
      BY <2>4, <3>1, <3>2, <3>3, <3>4, Redepicted
  <2>7. b.here = a.here \ {} /\ b.pos = a.pos /\ b.own = a.own
    BY <1>2, <2>5
  <2>8. /\ \A q \in Routes : b.names[q] = IF q \in S THEN m.names[q] ELSE f.names[q]
        /\ \A q \in Routes : b.look[q] = IF q \in S THEN m.look[q] ELSE f.look[q]
    BY <1>2, <2>2, <2>5
  <2> HIDE DEF S
  <2>9. Core(ApplyWpt(w, c), m, f, Old, K, S, B, G, L2, E)
    <3>1. /\ \A h \in {} : h \in Old /\ h \notin L2
          /\ \A h \in b.here : h \in Old => h \in m.here
      BY <2>3, <2>5
    <3>2. Fate(b, {})
      BY <2>5, <2>7, <2>8, <3>1 DEF Fate
    <3> HIDE DEF Kills
    <3> QED
      BY <1>8, <2>6, <3>2
  <2> QED
    BY <2>9 DEF S
<1>10. CASE g \in H
  <2> DEFINE i == Existing(w, g)
             Q == Short(a, g)
             X == Dying(a, g)
             l == Less(a, g)
             b == [names |-> [q \in Routes |-> IF q \in Q THEN <<>> ELSE l[q]],
                   here |-> a.here \ X, own |-> a.own \ {g},
                   look |-> Bare(a, Q),
                   pos |-> P, known |-> K, flagged |-> m.here, behind |-> B, left |-> G]
  <2>1. /\ \A q \in Routes : b.names[q] = IF q \in Q THEN <<>> ELSE l[q]
        /\ b.here = a.here \ X /\ b.own = a.own \ {g}
        /\ b.look = Bare(a, Q)
        /\ b.pos = P /\ b.known = K /\ b.flagged = m.here /\ b.behind = B /\ b.left = G
    OBVIOUS
  <2>2. Named(w, g) # {} /\ i \in 1..Len(w.obj) /\ w.obj[i].guid = g /\ Live(w, i)
    BY <1>2, <1>3, <1>10, FoundNames, FirstOne
  <2>3. \A q \in Routes : q \notin S => ~Has(f.names[q], g)
    BY <1>5
  <2>4. \A q \in Routes : a.names[q] \in Seq(Nat) /\ (Has(a.names[q], g) => q \in K)
    BY <1>2, <1>5, <2>3 DEF Agree
  <2>5. ASSUME NEW q \in Routes
        PROVE  q \in Q <=> q \in D /\ (q \in T \/ f.names[q] = n.names[q])
    <3>1. q \in Q <=> Has(a.names[q], g) /\ Len(Without(a.names[q], g)) < 2
      BY DEF Short
    <3>2. CASE q \in T
      BY <1>2, <3>1, <3>2
    <3>3. CASE q \notin T /\ q \in D
      BY <1>2, <1>6, <3>1, <3>3
    <3>4. CASE q \notin T /\ q \notin D
      BY <1>2, <2>3, <3>1, <3>4
    <3> QED
      BY <3>2, <3>3, <3>4
  <2>6. \A q \in Routes : l[q] = IF Has(a.names[q], g) THEN Without(a.names[q], g) ELSE a.names[q]
    BY DEF Less
  <2>7. \A q \in Routes : q \notin Q => l[q] = a.names[q]
    <3> TAKE q \in Routes
    <3> HAVE q \notin Q
    <3>1. ~Has(a.names[q], g)
      BY <1>2, <1>6, <2>3, <2>5
    <3> QED
      BY <2>6, <3>1
  <2>8. \A h : h # g => \A q \in Routes : Has(l[q], h) <=> Has(a.names[q], h)
    BY <2>4, <2>6, WithoutElements
  <2>9. \A h : h \in X <=> \/ h = g
                           \/ /\ h \in a.own /\ \E q \in Routes : q \in Q /\ Has(l[q], h)
                              /\ \A q \in Routes : Has(l[q], h) => q \in Q
    BY DEF Dying
  <2> HIDE DEF i, Q, X, l, b
  <2>10. Depicts(DestroyWaypoint(w, i), b)
    <3>1. \A r \in Routes : /\ a.names[r] \in Seq(Nat)
                            /\ Has(a.names[r], w.obj[i].guid) => r \in a.known
      BY <1>2, <2>2, <2>4
    <3>2. \A r \in Routes : b.names[r] = IF r \in Short(a, w.obj[i].guid) THEN <<>>
                                         ELSE Less(a, w.obj[i].guid)[r]
      BY <2>1, <2>2 DEF Q, l
    <3>3. /\ b.here = a.here \ Dying(a, w.obj[i].guid) /\ b.own = a.own \ {w.obj[i].guid}
          /\ b.look = Bare(a, Short(a, w.obj[i].guid))
      BY <2>1, <2>2 DEF Q, X
    <3>4. /\ b.pos = a.pos /\ b.known = a.known /\ b.flagged \subseteq a.flagged
          /\ w.obj[i].guid \notin b.flagged /\ b.behind = a.behind /\ b.left = a.left
      BY <1>2, <2>1, <2>2
    <3>5. Destroys(w, a, i, b)
      BY <3>1, <3>2, <3>3, <3>4 DEF Destroys
    <3> HIDE DEF Kills
    <3> QED
      BY <1>3, <2>2, <3>5, DestroyDepicted
  <2>11. \A q \in Routes : b.names[q] = IF q \in S THEN m.names[q] ELSE f.names[q]
    BY <1>2, <2>1, <2>5, <2>7
  <2>12. \A q \in Routes : b.look[q] = IF q \in S THEN m.look[q] ELSE f.look[q]
    <3> TAKE q \in Routes
    <3>1. b.look[q] = IF q \in Q THEN 0 ELSE a.look[q]
      BY <2>1 DEF Bare
    <3>2. a.look[q] = IF q \in T THEN n.look[q] ELSE f.look[q]
      BY <1>2
    <3> QED
      BY <2>5, <3>1, <3>2
  <2>13. ASSUME NEW h \in X PROVE h \in Old
    <3>1. CASE h = g
      BY <1>5, <3>1
    <3>2. CASE h # g
      <4>1. PICK q \in Routes : q \in Q /\ Has(a.names[q], h)
        BY <2>8, <2>9, <2>13, <3>2
      <4>2. Has(n.names[q], h)
        BY <1>2, <2>5, <4>1
      <4> QED
        BY <1>5, <4>2
    <3> QED
      BY <3>1, <3>2
  <2>14. ASSUME NEW h \in X, h \in L2 PROVE FALSE
    <3>1. h \in m.here /\ h # g /\ h \in L /\ h \in n.here
      BY <1>5, <2>14 DEF Agree
    <3>2. h \in n.own \cup f.own
      BY <1>2, <2>9, <3>1
    <3>3. h \in n.own /\ h \in m.own
      BY <3>1, <3>2 DEF Agree
    <3>4. PICK q \in Routes : IF q \in S THEN Has(m.names[q], h) ELSE Has(f.names[q], h)
      BY <1>7, <2>14, <3>3
    <3>5. q \notin D
      BY <1>6, <3>4
    <3>6. Has(a.names[q], h)
      BY <1>2, <3>4, <3>5
    <3>7. q \in Q
      BY <2>8, <2>9, <2>14, <3>1, <3>6
    <3> QED
      BY <2>5, <3>5, <3>7
  <2>15. ASSUME NEW h \in b.here, h \in Old PROVE h \in m.here
    <3> SUFFICES ASSUME h \notin m.here PROVE FALSE
      OBVIOUS
    <3>1. h \in a.here /\ h \notin X /\ h # g /\ h \in n.here
      BY <1>1, <1>2, <2>1, <2>9, <2>15
    <3>2. h \in n.own /\ \A q \in Routes : Has(n.names[q], h) => q \in D
      BY <3>1
    <3>3. h \in a.own
      BY <1>2, <3>2
    <3>4. PICK p \in Routes : Has(a.names[p], h)
      BY <1>3, <3>1, <3>3, OwnedInRoute
    <3>5. PICK q \in Routes : Has(a.names[q], h) /\ q \notin Q
      BY <2>8, <2>9, <3>1, <3>3, <3>4
    <3>6. q \notin T
      BY <1>2, <2>5, <3>2, <3>5
    <3>7. Has(f.names[q], h)
      BY <1>2, <3>5, <3>6
    <3>8. q \notin D
      BY <1>6, <2>5, <3>5, <3>6, <3>7
    <3> QED
      BY <1>5, <2>15, <3>6, <3>7, <3>8
  <2>16. g \notin b.here
    BY <2>1, <2>9
  <2>17. Core(DestroyWaypoint(w, i), m, f, Old, K, S, B, G, L2, E)
    <3>1. \A h \in X : h \in Old /\ h \notin L2
      BY <2>13, <2>14
    <3>2. \A h \in b.here : h \in Old => h \in m.here
      BY <2>15
    <3>3. b.here = a.here \ X /\ b.pos = a.pos /\ (b.own = a.own \/ (b.own = a.own \ {g} /\ g \notin b.here))
      BY <1>2, <2>1, <2>16
    <3> HIDE DEF S
    <3>4. Fate(b, X)
      BY <2>1, <2>11, <2>12, <3>1, <3>2, <3>3 DEF Fate
    <3> HIDE DEF Kills
    <3> QED
      BY <1>8, <2>10, <3>4
  <2> QED
    BY <1>4, <2>2, <2>17 DEF i, S
<1> QED
  BY <1>9, <1>10

-----------------------------------------------------------------------------
(* Several records of one edit *)

(* Nothing is in the empty sequence, and in no other sequence.             *)
LEMMA HasNothing ==
    /\ \A i : ~Has(<<>>, i)
    /\ \A s \in Seq(Nat) : (\A i : ~Has(s, i)) => s = <<>>
<1>1. ASSUME NEW s \in Seq(Nat), \A i : ~Has(s, i) PROVE s = <<>>
  <2>1. Len(s) \in Nat /\ (1 \in 1..Len(s) => Has(s, s[1]))
    BY DEF Has
  <2>2. Len(s) = 0
    BY <1>1, <2>1
  <2> QED
    BY <2>2
<1>2. \A i : ~Has(<<>>, i)
  BY DEF Has
<1> QED
  BY <1>1, <1>2

(* Less may be asked of the same world.                                    *)
LEMMA CoreSame ==
    ASSUME NEW w, NEW n, NEW f, NEW Old, NEW K, NEW T, NEW B, NEW G, NEW L, NEW E,
           Core(w, n, f, Old, K, T, B, G, L, E), L \subseteq n.here, NEW m,
           \A q \in Routes : m.names[q] = n.names[q] /\ m.look[q] = n.look[q],
           m.here = n.here, m.own = n.own, \A g \in n.here : m.pos[g] = n.pos[g],
           NEW B2, B \subseteq B2, NEW G2, G \subseteq G2, NEW L2, L2 \subseteq L
    PROVE  Core(w, m, f, Old, K, T, B2, G2, L2, E)
<1>1. PICK H, P :
        /\ Depicts(w, Pic(n, f, K, T, B, G, H, P))
        /\ L \subseteq H /\ \A g \in H : g \in Old => g \in n.here
        /\ \A g : g \notin Old => (g \in H <=> g \in f.here)
        /\ \A g \in L : P[g] = n.pos[g] \/ (g \in E /\ P[g] = f.pos[g])
        /\ \A g \in f.here : g \notin Old => P[g] = f.pos[g]
  BY DEF Core
<1> DEFINE a == Pic(n, f, K, T, B, G, H, P)
<1>2. /\ \A q \in Routes : a.names[q] = IF q \in T THEN n.names[q] ELSE f.names[q]
      /\ a.look = [q \in Routes |-> IF q \in T THEN n.look[q] ELSE f.look[q]]
      /\ a.own = n.own \cup f.own /\ a.here = H /\ a.pos = P
      /\ a.known = K /\ a.behind = B /\ a.left = G /\ a.flagged = n.here
  BY PicFields
<1>3. Depicts(w, a)
  BY <1>1
<1> HIDE DEF a
<1>4. /\ \A r \in Routes : a.names[r] = IF r \in T THEN m.names[r] ELSE f.names[r]
      /\ \A r \in Routes : a.look[r] = IF r \in T THEN m.look[r] ELSE f.look[r]
  BY <1>2
<1>5. a.own = m.own \cup f.own /\ a.flagged = m.here
  BY <1>2
<1>6. /\ L2 \subseteq a.here /\ \A g \in a.here : g \in Old => g \in m.here
      /\ \A g : g \notin Old => (g \in a.here <=> g \in f.here)
      /\ \A g \in f.here : g \notin Old => a.pos[g] = f.pos[g]
      /\ \A g \in L2 : a.pos[g] = m.pos[g] \/ (g \in E /\ a.pos[g] = f.pos[g])
  BY <1>1, <1>2
<1>7. K \subseteq a.known /\ a.behind \subseteq B2 /\ a.left \subseteq G2
  BY <1>2
<1>8. /\ \A r \in Routes : r \notin a.known =>
               \A g : Has(a.names[r], g) /\ g \in m.own \cup f.own => g \in a.own
      /\ \A g \in a.here : g \in a.own <=> g \in m.own \cup f.own
      /\ \A g \in m.here : g \notin a.left \/ (g \in a.flagged /\ (g \in a.own <=> g \in m.own \cup f.own))
  BY <1>5
<1> QED
  BY <1>3, <1>4, <1>6, <1>7, <1>8, CoreFrom

(* The records of the routes a point belongs to, one after the other: from *)
(* n to m; a route that became too short stays as it was.                  *)
Long(recs, k) == {recs[j].guid : j \in {i \in 1..k : Len(recs[i].pts) >= 2}}

(* One record more.                                                        *)
LEMMA LongMore ==
    ASSUME NEW recs, NEW k \in Nat \ {0}
    PROVE  /\ Len(recs[k].pts) >= 2 => Long(recs, k) = Long(recs, k - 1) \cup {recs[k].guid}
           /\ ~(Len(recs[k].pts) >= 2) => Long(recs, k) = Long(recs, k - 1)
           /\ Long(recs, 0) = {}
<1>1. \A i : i \in 1..k <=> i \in 1..(k - 1) \/ i = k
  OBVIOUS
<1>2. \A r : r \in Long(recs, k) <=> \E i \in 1..k : Len(recs[i].pts) >= 2 /\ recs[i].guid = r
  BY DEF Long
<1>3. \A r : r \in Long(recs, k - 1) <=> \E i \in 1..(k - 1) : Len(recs[i].pts) >= 2 /\ recs[i].guid = r
  BY DEF Long
<1>4. Long(recs, 0) = {}
  BY DEF Long
<1> QED
  BY <1>1, <1>2, <1>3, <1>4

Halfway(n, m, U, p) ==
    [names |-> [q \in Routes |-> IF q \in U THEN m.names[q] ELSE n.names[q]],
     look |-> n.look, here |-> n.here, own |-> n.own, pos |-> p]

(* The routes of U are as in m, the others as in n still.                  *)
LEMMA AgreeHalfway ==
    ASSUME NEW n, NEW f, NEW Old, NEW K, NEW T, NEW L, Agree(n, f, Old, K, T, L), NEW m, NEW U, NEW p,
           U \subseteq K, \A q \in Routes : m.names[q] \in Seq(Nat) /\ \A g : Has(m.names[q], g) => g \in n.here,
           NEW L2, \A g \in L2 : g \in L /\ \A q \in Routes : Has(n.names[q], g) => Has(m.names[q], g)
    PROVE  Agree(Halfway(n, m, U, p), f, Old, K, T \cup U, L2)
<1> DEFINE b == Halfway(n, m, U, p)
<1>1. /\ \A q \in Routes : b.names[q] = IF q \in U THEN m.names[q] ELSE n.names[q]
      /\ b.here = n.here /\ b.own = n.own
  BY DEF Halfway
<1> HIDE DEF b
<1>2. \A r \in Routes : b.names[r] \in Seq(Nat) /\ f.names[r] \in Seq(Nat)
  BY <1>1 DEF Agree
<1>3. \A r \in Routes : \A g : /\ Has(b.names[r], g) => g \in b.here
                               /\ Has(f.names[r], g) => g \in f.here
  BY <1>1 DEF Agree
<1>4. /\ b.own \subseteq b.here /\ f.own \subseteq f.here /\ b.here \subseteq Old
      /\ T \cup U \subseteq K /\ K \subseteq Routes
      /\ \A g \in b.here : g \in f.here => (g \in b.own <=> g \in f.own)
  BY <1>1 DEF Agree
<1>5. /\ \A r \in Routes : r \in K /\ r \notin T \cup U =>
            \A g : Has(f.names[r], g) => Has(b.names[r], g)
      /\ \A r \in Routes : r \notin T \cup U => \A g \in Old : Has(f.names[r], g) => g \in b.here
  BY <1>1 DEF Agree
<1>6. L2 \subseteq b.here
  BY <1>1 DEF Agree
<1>7. ASSUME NEW g \in L2, g \in b.own PROVE Through(b, f, T \cup U, g)
  <2>1. Through(n, f, T, g)
    BY <1>1, <1>7 DEF Agree
  <2>2. PICK q \in Routes : IF q \in T THEN Has(n.names[q], g) ELSE Has(f.names[q], g)
    BY <2>1 DEF Through
  <2>3. IF q \in T \cup U THEN Has(b.names[q], g) ELSE Has(f.names[q], g)
    <3>1. q \in U => Has(n.names[q], g)
      BY <2>2 DEF Agree
    <3>2. q \in U => Has(b.names[q], g)
      BY <1>1, <1>7, <3>1
    <3> QED
      BY <1>1, <2>2, <3>2
  <2> QED
    BY <2>3 DEF Through
<1>8. Agree(b, f, Old, K, T \cup U, L2)
  BY <1>2, <1>3, <1>4, <1>5, <1>6, <1>7 DEF Agree
<1> QED
  BY <1>8 DEF b

(* The record c of a route that leads from n to m.                         *)
Leads(c, n, m, K, B, G) ==
    /\ c \in Changes /\ c.kind # "wpt" /\ c.action # "delete" /\ c.guid \in K
    /\ \A j \in 1..Len(c.pts) :
          /\ c.pts[j].guid \in G
          /\ c.pts[j].guid \in n.here => c.pts[j].shared = (c.pts[j].guid \notin n.own)
    /\ Len(c.pts) >= 2 =>
          /\ Len(m.names[c.guid]) = Len(c.pts) /\ n.look[c.guid] = 0
          /\ \A j \in 1..Len(c.pts) :
                /\ m.names[c.guid][j] = c.pts[j].guid /\ m.pos[c.pts[j].guid] = c.pts[j].pos
                /\ c.pts[j].guid \in n.here /\ c.pts[j].guid \notin B
          /\ \A g \in n.here : m.pos[g] = n.pos[g] \/ Has(m.names[c.guid], g)
    /\ ~(Len(c.pts) >= 2) => \A g \in n.here : m.pos[g] = n.pos[g]

(* Records of routes lead from one picture to another.                     *)
Chain(N, h, n, K, B, G, L, recs, m, G2, L2) ==
    /\ \A k \in 1..N : h[k] = ApplyRte(h[k - 1], recs[k])
    /\ G \subseteq G2
    /\ \A k \in 1..N : Leads(recs[k], n, m, K, B, G2)
    /\ \A q \in Routes : m.names[q] \in Seq(Nat) /\ \A g : Has(m.names[q], g) => g \in n.here
    /\ \A q \in Routes : q \notin Long(recs, N) => m.names[q] = n.names[q]
    /\ \A q \in Routes : m.look[q] = n.look[q]
    /\ m.here = n.here
    /\ m.own = n.own
    /\ \A g \in L2 : g \in L /\ \A q \in Routes : Has(n.names[q], g) => Has(m.names[q], g)

(* The records of the routes that an edit changed, one after the other.    *)
LEMMA CoreUpdates ==
    ASSUME NEW N \in Nat \ {0}, NEW h, NEW n, NEW f, NEW Old, NEW K, NEW T, NEW B, NEW G, NEW L, NEW E,
           Core(h[0], n, f, Old, K, T, B, G, L, E), Agree(n, f, Old, K, T, L), NEW recs, NEW m, NEW G2, NEW L2,
           Chain(N, h, n, K, B, G, L, recs, m, G2, L2)
    PROVE  /\ Core(h[N], m, f, Old, K, T \cup Long(recs, N), B, G2, L2, E)
           /\ Agree(m, f, Old, K, T \cup Long(recs, N), L2)
<1> USE DEF Chain
<1> DEFINE U(k) == Long(recs, k)
           p(k) == IF k = 0 THEN n.pos ELSE m.pos
           b(k) == Halfway(n, m, U(k), p(k))
           Goal(k) == Core(h[k], b(k), f, Old, K, T \cup U(k), B, G2, L2, E)
           done == {k \in 0..N : Goal(k)}
<1>1. \A k \in 0..N : U(k) \subseteq K
  <2> TAKE k \in 0..N
  <2>1. \A i \in 1..k : recs[i].guid \in K
    BY DEF Leads
  <2> QED
    BY <2>1 DEF Long
<1>2. \A k \in 0..N : Agree(b(k), f, Old, K, T \cup U(k), L2)
  BY <1>1, AgreeHalfway
<1>3. \A k \in 0..N : /\ \A q \in Routes : b(k).names[q] = IF q \in U(k) THEN m.names[q] ELSE n.names[q]
                      /\ b(k).look = n.look /\ b(k).here = n.here /\ b(k).own = n.own
                      /\ b(k).pos = p(k)
  BY DEF Halfway
<1> HIDE DEF b
<1>4. 0 \in done
  <2>1. U(0) = {}
    BY LongMore
  <2>2. \A q \in Routes : b(0).names[q] = n.names[q] /\ b(0).look[q] = n.look[q]
    BY <1>3, <2>1
  <2>3. b(0).here = n.here /\ b(0).own = n.own /\ \A g \in n.here : b(0).pos[g] = n.pos[g]
    BY <1>3
  <2>4. L \subseteq n.here /\ L2 \subseteq L
    BY DEF Agree
  <2>5. Core(h[0], b(0), f, Old, K, T, B, G2, L2, E)
    BY <2>2, <2>3, <2>4, CoreSame
  <2>6. T \cup U(0) = T /\ 0 \in 0..N
    BY <2>1
  <2> HIDE DEF Chain, U
  <2> QED
    BY <2>5, <2>6
<1>5. ASSUME NEW k \in 1..N, k - 1 \in done PROVE k \in done
  <2> DEFINE c == recs[k]
             S == T \cup U(k - 1)
             x == b(k - 1)
             y == b(k)
  <2>1. k - 1 \in 0..N /\ k \in 0..N /\ k \in Nat \ {0} /\ k # 0
    OBVIOUS
  <2>2. Core(h[k - 1], x, f, Old, K, S, B, G2, L2, E) /\ Agree(x, f, Old, K, S, L2)
    BY <1>2, <1>5, <2>1
  <2>3. Leads(c, n, m, K, B, G2) /\ h[k] = ApplyRte(h[k - 1], c)
    OBVIOUS
  <2>4. /\ \A q \in Routes : x.names[q] = IF q \in U(k - 1) THEN m.names[q] ELSE n.names[q]
        /\ x.look = n.look /\ x.here = n.here /\ x.own = n.own /\ x.pos = p(k - 1)
        /\ \A q \in Routes : y.names[q] = IF q \in U(k) THEN m.names[q] ELSE n.names[q]
        /\ y.look = n.look /\ y.here = n.here /\ y.own = n.own /\ y.pos = p(k)
    BY <1>3, <2>1
  <2>5. c.guid \in Routes /\ Len(c.pts) \in Nat /\ c.guid \in K
    BY <2>3, ChangeTypes DEF Leads
  <2> HIDE DEF x, y, c, U
  <2>6. CASE Len(c.pts) >= 2
    <3>1. U(k) = U(k - 1) \cup {c.guid}
      BY <2>1, <2>6, LongMore DEF U, c
    <3>2. /\ \A q \in Routes : q # c.guid => y.names[q] = x.names[q] /\ y.look[q] = x.look[q]
          /\ y.look[c.guid] = 0 /\ y.names[c.guid] = m.names[c.guid] /\ y.here = x.here /\ y.own = x.own
      <4>0. n.look[c.guid] = 0
        BY <2>3, <2>6 DEF Leads
      <4> HIDE DEF Chain
      <4>1. \A q \in Routes : q # c.guid => y.names[q] = x.names[q] /\ y.look[q] = x.look[q]
        BY <2>4, <3>1
      <4>2. y.look[c.guid] = 0 /\ y.names[c.guid] = m.names[c.guid] /\ y.here = x.here /\ y.own = x.own
        BY <2>4, <2>5, <3>1, <4>0
      <4> QED
        BY <4>1, <4>2
    <3>3. y.pos = m.pos
      BY <2>1, <2>4
    <3>4. Len(y.names[c.guid]) = Len(c.pts)
      BY <2>3, <2>6, <3>2 DEF Leads
    <3>5. \A j \in 1..Len(c.pts) :
               /\ y.names[c.guid][j] = c.pts[j].guid /\ y.pos[c.pts[j].guid] = c.pts[j].pos
               /\ c.pts[j].guid \in x.here /\ c.pts[j].shared = (c.pts[j].guid \notin x.own)
               /\ c.pts[j].guid \notin B
      BY <2>3, <2>4, <2>6, <3>2, <3>3 DEF Leads
    <3>6. \A g \in x.here : y.pos[g] = x.pos[g] \/ Has(y.names[c.guid], g)
      BY <2>3, <2>4, <2>6, <3>2, <3>3 DEF Leads
    <3>7. c.guid \notin S => \A g : Has(f.names[c.guid], g) => g \in Old
      BY <2>2, <2>5 DEF Agree
    <3>8. \A j \in 1..Len(c.pts) : c.pts[j].guid \in G2
      BY <2>3 DEF Leads
    <3>9. Agree(y, f, Old, K, S \cup {c.guid}, L2)
      BY <1>2, <2>1, <3>1 DEF y
    <3>10. \A g \in L2 : /\ g \in L2 \/ Has(y.names[c.guid], g)
                         /\ g \in x.own => Through(y, f, S \cup {c.guid}, g)
      BY <3>2, <3>9 DEF Agree
    <3>11. K \subseteq K \cup {c.guid} /\ G2 \subseteq G2
      OBVIOUS
    <3>12. c \in Changes /\ c.kind # "wpt" /\ c.action # "delete"
      BY <2>3 DEF Leads
    <3> HIDE DEF S
    <3>13. Core(ApplyRte(h[k - 1], c), y, f, Old, K, S \cup {c.guid}, B, G2, L2, E)
      <4>1. Renews(x, f, Old, K, S, B, G2, L2, c, y, K, G2, L2)
        BY <2>6, <3>2, <3>4, <3>5, <3>6, <3>7, <3>8, <3>10, <3>11, <3>12 DEF Renews
      <4> HIDE DEF Chain
      <4> QED
        BY <2>2, <3>12, <4>1, CoreUpdate
    <3>14. S \cup {c.guid} = T \cup U(k)
      BY <3>1 DEF S
    <3> QED
      BY <2>1, <2>3, <3>13, <3>14 DEF y
  <2>7. CASE ~(Len(c.pts) >= 2)
    <3>1. U(k) = U(k - 1)
      BY <2>1, <2>7, LongMore DEF U, c
    <3>2. Len(c.pts) < 2
      BY <2>5, <2>7
    <3>3. c \in Changes /\ c.kind # "wpt" /\ c.action # "delete"
      BY <2>3 DEF Leads
    <3>4. \A j \in 1..Len(c.pts) :
               /\ c.pts[j].guid \in x.here => c.pts[j].shared = (c.pts[j].guid \notin x.own)
               /\ c.pts[j].guid \in G2
      BY <2>3, <2>4 DEF Leads
    <3>5. Core(ApplyRte(h[k - 1], c), x, f, Old, K, S, B, G2, L2, E)
      <4>1. G2 \subseteq G2
        OBVIOUS
      <4> HIDE DEF S
      <4> QED
        BY <2>2, <3>2, <3>3, <3>4, <4>1, CoreShort
    <3>6. \A q \in Routes : y.names[q] = x.names[q] /\ y.look[q] = x.look[q]
      BY <2>4, <3>1
    <3>7. \A g \in x.here : y.pos[g] = x.pos[g]
      <4>1. \A g \in n.here : m.pos[g] = n.pos[g]
        BY <2>3, <2>7 DEF Leads
      <4> QED
        BY <2>1, <2>4, <4>1
    <3>8. L2 \subseteq x.here /\ y.here = x.here /\ y.own = x.own
      BY <2>2, <2>4 DEF Agree
    <3>9. Core(ApplyRte(h[k - 1], c), y, f, Old, K, S, B, G2, L2, E)
      <4>1. B \subseteq B /\ G2 \subseteq G2 /\ L2 \subseteq L2
        OBVIOUS
      <4> HIDE DEF S
      <4> QED
        BY <3>5, <3>6, <3>7, <3>8, <4>1, CoreSame
    <3>10. S = T \cup U(k)
      BY <3>1
    <3> QED
      BY <2>1, <2>3, <3>9, <3>10 DEF y
  <2> QED
    BY <2>6, <2>7
<1>6. 0..N \subseteq done
  <2> HIDE DEF done
  <2> QED
    BY <1>4, <1>5, AllSteps
<1>7. Core(h[N], b(N), f, Old, K, T \cup U(N), B, G2, L2, E) /\ Agree(b(N), f, Old, K, T \cup U(N), L2)
  <2>1. N \in 0..N
    OBVIOUS
  <2>2. N \in done
    BY <1>6, <2>1
  <2> HIDE DEF Chain
  <2> QED
    BY <1>2, <2>1, <2>2
<1>8. /\ \A q \in Routes : m.names[q] = b(N).names[q] /\ m.look[q] = b(N).look[q]
      /\ m.here = b(N).here /\ m.own = b(N).own /\ \A g \in b(N).here : m.pos[g] = b(N).pos[g]
  BY <1>3
<1>9. L2 \subseteq b(N).here
  BY <1>7 DEF Agree
<1> HIDE DEF U
<1>10. Core(h[N], m, f, Old, K, T \cup U(N), B, G2, L2, E)
  <2>1. B \subseteq B /\ G2 \subseteq G2 /\ L2 \subseteq L2
    OBVIOUS
  <2> QED
    BY <1>7, <1>8, <1>9, <2>1, CoreSame
<1>11. Agree(m, f, Old, K, T \cup U(N), L2)
  <2> DEFINE a == b(N)
             S == T \cup U(N)
  <2>1. Agree(a, f, Old, K, S, L2)
    BY <1>7
  <2>2. \A q \in Routes : m.names[q] = a.names[q]
    BY <1>8
  <2>3. m.here = a.here /\ m.own = a.own
    BY <1>8
  <2> HIDE DEF a, S
  <2>4. \A g : Through(a, f, S, g) => Through(m, f, S, g)
    BY <2>2 DEF Through
  <2>5. Agree(m, f, Old, K, S, L2)
    BY <2>1, <2>2, <2>3, <2>4 DEF Agree
  <2> QED
    BY <2>5 DEF S
<1> QED
  BY <1>10, <1>11 DEF U

-----------------------------------------------------------------------------
(* What was saved before an edit, and what is saved after it *)

(* The routes of n have their points, and its own points their routes.      *)
Whole(n) ==
    /\ \A r \in Routes : /\ n.names[r] \in Seq(Nat) /\ \A g : Has(n.names[r], g) => g \in n.here
                         /\ n.names[r] = <<>> => n.look[r] = 0
    /\ n.own \subseteq n.here /\ \A g \in n.own : \E r \in Routes : Has(n.names[r], g)

(* Nothing is in n but the points of Old and the routes of K.               *)
Bound(n, Old, K) ==
    n.here \subseteq Old /\ K \subseteq Routes /\ \A r \in Routes : r \notin K => n.names[r] = <<>>

(* What editing n, without a loss, can make of it.                         *)
Descends(f, n, Old, K) ==
    /\ \A r \in Routes : r \in K => \A g : Has(f.names[r], g) => Has(n.names[r], g)
    /\ \A g \in f.here : g \in Old => g \in n.here
    /\ \A g \in n.here : g \in f.here => (g \in n.own <=> g \in f.own)

(* f is what n was when it was saved last; the routes of T have records.   *)
Before(f, n, Old, T) ==
    /\ f.here \subseteq Old /\ \A g \in n.here : g \in f.here => (g \in n.own <=> g \in f.own)
    /\ \A r \in Routes : r \notin T => f.names[r] = n.names[r] /\ f.look[r] = n.look[r]

(* f is what was saved before n, or what will be saved after it.           *)
Fitting(saved, n, f, Old, K, T, L, E) ==
    /\ Whole(n) /\ Whole(f) /\ Bound(n, Old, K) /\ T \subseteq K
    /\ IF saved THEN Before(f, n, Old, T) /\ L = n.here /\ E = {}
       ELSE Descends(f, n, Old, K) /\ L = n.here \cap f.here /\ E = f.here

(* What Agree asks for holds of what was saved before and of what is saved later. *)
LEMMA FittingAgrees ==
    ASSUME NEW n, NEW f, NEW Old, NEW K, NEW T, NEW L, NEW E, NEW saved, Fitting(saved, n, f, Old, K, T, L, E)
    PROVE  Agree(n, f, Old, K, T, L)
<1>1. /\ \A r \in Routes : n.names[r] \in Seq(Nat) /\ f.names[r] \in Seq(Nat)
      /\ \A r \in Routes : \A g : /\ Has(n.names[r], g) => g \in n.here
                                  /\ Has(f.names[r], g) => g \in f.here
      /\ n.own \subseteq n.here /\ f.own \subseteq f.here /\ n.here \subseteq Old
      /\ T \subseteq K /\ K \subseteq Routes
  BY DEF Fitting, Whole, Bound
<1>2. \A g \in n.own : \E r \in Routes : Has(n.names[r], g)
  BY DEF Fitting, Whole
<1>3. \A g \in f.own : \E r \in Routes : Has(f.names[r], g)
  BY DEF Fitting, Whole
<1>4. L \subseteq n.here
  BY DEF Fitting
<1>5. CASE saved /\ Before(f, n, Old, T) /\ L = n.here /\ E = {}
  <2>1. /\ \A r \in Routes : r \in K /\ r \notin T => \A g : Has(f.names[r], g) => Has(n.names[r], g)
        /\ \A r \in Routes : r \notin T => \A g \in Old : Has(f.names[r], g) => g \in n.here
        /\ \A g \in n.here : g \in f.here => (g \in n.own <=> g \in f.own)
    BY <1>1, <1>5 DEF Before
  <2>2. \A g \in L : g \in n.own => Through(n, f, T, g)
    <3> TAKE g \in L
    <3> HAVE g \in n.own
    <3>1. PICK r \in Routes : Has(n.names[r], g)
      BY <1>2
    <3>2. IF r \in T THEN Has(n.names[r], g) ELSE Has(f.names[r], g)
      BY <1>5, <3>1 DEF Before
    <3> QED
      BY <3>2 DEF Through
  <2> QED
    BY <1>1, <1>4, <2>1, <2>2 DEF Agree
<1>6. CASE ~saved /\ Descends(f, n, Old, K) /\ L = n.here \cap f.here /\ E = f.here
  <2>1. /\ \A r \in Routes : r \in K /\ r \notin T => \A g : Has(f.names[r], g) => Has(n.names[r], g)
        /\ \A r \in Routes : r \notin T => \A g \in Old : Has(f.names[r], g) => g \in n.here
        /\ \A g \in n.here : g \in f.here => (g \in n.own <=> g \in f.own)
    BY <1>1, <1>6 DEF Descends
  <2>2. \A g \in L : g \in n.own => Through(n, f, T, g)
    <3> TAKE g \in L
    <3> HAVE g \in n.own
    <3>1. g \in f.own
      BY <1>6, <2>1
    <3>2. PICK r \in Routes : Has(f.names[r], g)
      BY <1>3, <3>1
    <3>3. IF r \in T THEN Has(n.names[r], g) ELSE Has(f.names[r], g)
      BY <1>1, <1>6, <3>2 DEF Descends
    <3> QED
      BY <3>3 DEF Through
  <2> QED
    BY <1>1, <1>4, <2>1, <2>2 DEF Agree
<1> QED
  BY <1>5, <1>6 DEF Fitting

(* What an edit may do: m descends from n, and only the routes of R change.*)
Edited(n, m, Old, K, Old2, K2, R) ==
    /\ Whole(n) /\ Whole(m) /\ Bound(n, Old, K) /\ Bound(m, Old2, K2)
    /\ Descends(m, n, Old, K) /\ Old \subseteq Old2 /\ K \subseteq K2 /\ R \subseteq K2
    /\ \A r \in Routes : r \notin R => m.names[r] = n.names[r] /\ m.look[r] = n.look[r]

(* What was saved before n was saved before what n is edited to.           *)
LEMMA BeforeEdited ==
    ASSUME NEW n, NEW m, NEW Old, NEW K, NEW Old2, NEW K2, NEW R, Edited(n, m, Old, K, Old2, K2, R),
           NEW f, NEW T, Whole(f), T \subseteq K, Before(f, n, Old, T)
    PROVE  /\ Fitting(TRUE, n, f, Old, K, T, n.here, {})
           /\ Fitting(TRUE, m, f, Old2, K2, T \cup R, m.here, {})
           /\ Before(f, m, Old2, T \cup R)
<1>1. Fitting(TRUE, n, f, Old, K, T, n.here, {})
  BY DEF Fitting, Edited
<1>2. Before(f, m, Old2, T \cup R)
  <2>1. f.here \subseteq Old2
    BY DEF Edited, Before
  <2>2. \A g \in m.here : g \in f.here => (g \in m.own <=> g \in f.own)
    BY DEF Edited, Before, Descends
  <2>3. \A r \in Routes : r \notin T \cup R => f.names[r] = m.names[r] /\ f.look[r] = m.look[r]
    BY DEF Edited, Before
  <2> QED
    BY <2>1, <2>2, <2>3 DEF Before
<1>3. Fitting(TRUE, m, f, Old2, K2, T \cup R, m.here, {})
  <2>1. Whole(m) /\ Bound(m, Old2, K2) /\ T \cup R \subseteq K2
    BY DEF Edited
  <2> QED
    BY <1>2, <2>1 DEF Fitting
<1> QED
  BY <1>1, <1>2, <1>3

(* What comes of m comes of the n that m was edited from.                  *)
LEMMA DescendsEdited ==
    ASSUME NEW n, NEW m, NEW Old, NEW K, NEW Old2, NEW K2, NEW R, Edited(n, m, Old, K, Old2, K2, R),
           NEW f, Whole(f), Descends(f, m, Old2, K2)
    PROVE  /\ Descends(f, n, Old, K)
           /\ \A T : T \subseteq K =>
                 /\ Fitting(FALSE, n, f, Old, K, T, n.here \cap f.here, f.here)
                 /\ Fitting(FALSE, m, f, Old2, K2, T \cup R, m.here \cap f.here, f.here)
<1>1. Descends(f, n, Old, K)
  <2>1. \A r \in Routes : r \in K => \A g : Has(f.names[r], g) => Has(n.names[r], g)
    BY DEF Edited, Descends
  <2>2. \A g \in f.here : g \in Old => g \in n.here
    BY DEF Edited, Descends
  <2>3. \A g \in n.here : g \in f.here => (g \in n.own <=> g \in f.own)
    <3> TAKE g \in n.here
    <3> HAVE g \in f.here
    <3>1. g \in Old2 /\ g \in m.here
      BY DEF Edited, Bound, Descends
    <3> QED
      BY <3>1 DEF Edited, Descends
  <2> QED
    BY <2>1, <2>2, <2>3 DEF Descends
<1>2. ASSUME NEW T, T \subseteq K
      PROVE  /\ Fitting(FALSE, n, f, Old, K, T, n.here \cap f.here, f.here)
             /\ Fitting(FALSE, m, f, Old2, K2, T \cup R, m.here \cap f.here, f.here)
  <2>1. Whole(n) /\ Whole(m) /\ Bound(n, Old, K) /\ Bound(m, Old2, K2) /\ T \cup R \subseteq K2
    BY <1>2 DEF Edited
  <2> QED
    BY <1>1, <1>2, <2>1 DEF Fitting
<1> QED
  BY <1>1, <1>2

-----------------------------------------------------------------------------
(* The records of each edit, replayed *)

(* The replay of the records follows the edit from n to m.                 *)
Replays(recs, n, m, Old, K, Old2, K2, R, B, G, B2, G2) ==
    \A h, f, T, L, E, L2, saved :
        /\ \A k \in 1..Len(recs) : h[k] = Apply(h[k - 1], recs[k])
        /\ Core(h[0], n, f, Old, K, T, B, G, L, E)
        /\ Fitting(saved, n, f, Old, K, T, L, E) /\ Fitting(saved, m, f, Old2, K2, T \cup R, L2, E)
        => Core(h[Len(recs)], m, f, Old2, K2, T \cup R, B2, G2, L2, E)

(* The replay of the record c follows the edit from n to m.                *)
ReplaysRecord(c, n, m, Old, K, Old2, K2, R, B, G, B2, G2) ==
    \A h, f, T, L, E, L2, saved :
        /\ h[1] = Apply(h[0], c)
        /\ Core(h[0], n, f, Old, K, T, B, G, L, E)
        /\ Fitting(saved, n, f, Old, K, T, L, E) /\ Fitting(saved, m, f, Old2, K2, T \cup R, L2, E)
        => Core(h[1], m, f, Old2, K2, T \cup R, B2, G2, L2, E)

(* The replay of a single record.                                          *)
LEMMA ReplaysOne ==
    ASSUME NEW recs, Len(recs) = 1, NEW c, c = recs[1], NEW n, NEW m, NEW Old, NEW K, NEW Old2, NEW K2,
           NEW R, NEW B, NEW G, NEW B2, NEW G2,
           ReplaysRecord(c, n, m, Old, K, Old2, K2, R, B, G, B2, G2)
    PROVE  Replays(recs, n, m, Old, K, Old2, K2, R, B, G, B2, G2)
<1>1. 1 - 1 = 0 /\ 1 \in 1..Len(recs)
  OBVIOUS
<1> QED
  BY <1>1 DEF Replays, ReplaysRecord

(* The record of a new mark.                                               *)
LEMMA ReplayAdd ==
    ASSUME NEW n, NEW m, NEW Old, NEW K, NEW Old2, NEW B, NEW G, G \subseteq Old, NEW recs, Len(recs) = 1,
           NEW c \in Changes, c = recs[1], c.kind = "wpt", c.action = "add", NEW g, g = c.guid,
           c.pts[1].guid = g, g \notin Old, Old2 = Old \cup {g},
           m.names = n.names, m.look = n.look, m.here = n.here \cup {g}, m.own = n.own,
           m.pos[g] = c.pts[1].pos, \A i \in n.here : m.pos[i] = n.pos[i]
    PROVE  Replays(recs, n, m, Old, K, Old2, K, {}, B, G, B, G)
<1> SUFFICES ASSUME NEW h, NEW f, NEW T, NEW L, NEW E, NEW L2, NEW saved, h[1] = Apply(h[0], c),
                    Core(h[0], n, f, Old, K, T, B, G, L, E), Fitting(saved, n, f, Old, K, T, L, E),
                    Fitting(saved, m, f, Old2, K, T \cup {}, L2, E)
             PROVE  Core(h[1], m, f, Old2, K, T \cup {}, B, G, L2, E)
  BY DEF Replays
<1>1. T \cup {} = T
  OBVIOUS
<1>2. Agree(n, f, Old, K, T, L) /\ Agree(m, f, Old2, K, T, L2)
  BY <1>1, FittingAgrees
<1>3. L2 \subseteq L \cup {g}
  BY DEF Fitting
<1>4. g \in f.here => g \in E
  BY DEF Fitting, Before
<1>5. Apply(h[0], c) = ApplyWpt(h[0], c)
  BY DEF Apply
<1>6. Sets(n, f, Old, K, T, L, E, c, g, m, Old2, L2)
  BY <1>2, <1>3, <1>4 DEF Sets
<1> QED
  BY <1>1, <1>2, <1>5, <1>6, CoreAdd

(* The record of a mark that was moved.                                    *)
LEMMA ReplayMove ==
    ASSUME NEW n, NEW m, NEW Old, NEW K, NEW B, NEW G, NEW B2, B \subseteq B2, NEW recs, Len(recs) = 1,
           NEW c \in Changes, c = recs[1], c.kind = "wpt", c.action = "update", NEW g, g = c.guid,
           c.pts[1].guid = g, g \notin B, g \in G => g \in B2, g \in n.here, g \notin n.own,
           \A q \in Routes : ~Has(n.names[q], g),
           m.names = n.names, m.look = n.look, m.here = n.here, m.own = n.own,
           m.pos[g] = c.pts[1].pos, \A i \in n.here : i # g => m.pos[i] = n.pos[i]
    PROVE  Replays(recs, n, m, Old, K, Old, K, {}, B, G, B2, G)
<1> SUFFICES ASSUME NEW h, NEW f, NEW T, NEW L, NEW E, NEW L2, NEW saved, h[1] = Apply(h[0], c),
                    Core(h[0], n, f, Old, K, T, B, G, L, E), Fitting(saved, n, f, Old, K, T, L, E),
                    Fitting(saved, m, f, Old, K, T \cup {}, L2, E)
             PROVE  Core(h[1], m, f, Old, K, T \cup {}, B2, G, L2, E)
  BY DEF Replays
<1>1. T \cup {} = T
  OBVIOUS
<1>2. Agree(n, f, Old, K, T, L)
  BY FittingAgrees
<1>3. L2 \subseteq L \cup {g}
  BY DEF Fitting
<1>4. Apply(h[0], c) = ApplyWpt(h[0], c)
  BY DEF Apply
<1>5. Shifts(n, B, G, L, c, g, m, B2, L2)
  BY <1>3 DEF Shifts
<1> QED
  BY <1>1, <1>2, <1>4, <1>5, CoreMove

(* The points that go with the routes of D.                                *)
Shrinks(n, m, D, g) ==
    /\ \A q \in Routes : m.names[q] = IF q \in D THEN <<>> ELSE n.names[q]
    /\ \A q \in Routes : m.look[q] = IF q \in D THEN 0 ELSE n.look[q]
    /\ m.here \subseteq n.here /\ \A i \in m.here : i \in m.own <=> i \in n.own
    /\ \A i \in n.here : i \notin m.here =>
          i = g \/ (i \in n.own /\ \A q \in Routes : Has(n.names[q], i) => q \in D)
    /\ \A i \in m.here : m.pos[i] = n.pos[i]

(* The record of a route that was deleted.                                 *)
LEMMA ReplayDrop ==
    ASSUME NEW n, NEW m, NEW Old, NEW K, NEW B, NEW G, NEW recs, Len(recs) = 1,
           NEW c \in Changes, c = recs[1], c.kind # "wpt", c.action = "delete",
           Shrinks(n, m, {c.guid}, 0), 0 \notin n.here,
           \A k \in 1..Len(c.pts) :
               c.pts[k].guid \in m.here => c.pts[k].shared = (c.pts[k].guid \notin m.own),
           NEW G2, G \subseteq G2, \A k \in 1..Len(c.pts) : c.pts[k].guid \in G2
    PROVE  Replays(recs, n, m, Old, K, Old, K, {c.guid}, B, G, B, G2)
<1> SUFFICES ASSUME NEW h, NEW f, NEW T, NEW L, NEW E, NEW L2, NEW saved, h[1] = Apply(h[0], c),
                    Core(h[0], n, f, Old, K, T, B, G, L, E), Fitting(saved, n, f, Old, K, T, L, E),
                    Fitting(saved, m, f, Old, K, T \cup {c.guid}, L2, E)
             PROVE  Core(h[1], m, f, Old, K, T \cup {c.guid}, B, G2, L2, E)
  BY DEF Replays
<1>1. c.guid \in Routes
  BY ChangeTypes
<1>2. Agree(n, f, Old, K, T, L) /\ Agree(m, f, Old, K, T \cup {c.guid}, L2)
  BY FittingAgrees
<1>3. L2 \subseteq L
  BY DEF Fitting, Shrinks
<1>4. Apply(h[0], c) = ApplyRte(h[0], c)
  BY DEF Apply
<1>5. /\ \A q \in Routes : q # c.guid => m.names[q] = n.names[q] /\ m.look[q] = n.look[q]
      /\ m.names[c.guid] = <<>> /\ m.look[c.guid] = 0
      /\ m.here \subseteq n.here /\ \A g \in m.here : g \in m.own <=> g \in n.own
      /\ \A g \in m.here : m.pos[g] = n.pos[g]
  BY <1>1 DEF Shrinks
<1>6. \A g \in n.here : g \notin m.here =>
               g \in n.own /\ \A q \in Routes : q # c.guid => ~Has(n.names[q], g)
  BY DEF Shrinks
<1>7. Strikes(n, f, Old, K, T, G, L, c, m, L2, G2)
  BY <1>2, <1>3, <1>5, <1>6 DEF Strikes
<1> QED
  BY <1>2, <1>4, <1>7, CoreDrop

(* The route was left with less than two points: the record that says so   *)
(* is ignored, and two more delete the route.                              *)
LEMMA ReplayLast ==
    ASSUME NEW n, NEW m, NEW Old, NEW K, NEW B, NEW G, NEW recs, Len(recs) = 3,
           NEW u \in Changes, u = recs[1], u.kind # "wpt", u.action # "delete", Len(u.pts) < 2,
           NEW c \in Changes, c = recs[2], c = recs[3], c.kind # "wpt", c.action = "delete",
           Shrinks(n, m, {c.guid}, 0), 0 \notin n.here, c.guid \in K,
           \A k \in 1..Len(u.pts) :
               u.pts[k].guid \in n.here => u.pts[k].shared = (u.pts[k].guid \notin n.own),
           \A k \in 1..Len(c.pts) :
               c.pts[k].guid \in m.here => c.pts[k].shared = (c.pts[k].guid \notin m.own),
           NEW G2, G \subseteq G2, \A k \in 1..Len(c.pts) : c.pts[k].guid \in G2,
           \A k \in 1..Len(u.pts) : u.pts[k].guid \in G2
    PROVE  Replays(recs, n, m, Old, K, Old, K, {c.guid}, B, G, B, G2)
<1> SUFFICES ASSUME NEW h, NEW f, NEW T, NEW L, NEW E, NEW L2, NEW saved, h[1] = Apply(h[0], u),
                    h[2] = Apply(h[1], c), h[3] = Apply(h[2], c),
                    Core(h[0], n, f, Old, K, T, B, G, L, E), Fitting(saved, n, f, Old, K, T, L, E),
                    Fitting(saved, m, f, Old, K, T \cup {c.guid}, L2, E)
             PROVE  Core(h[3], m, f, Old, K, T \cup {c.guid}, B, G2, L2, E)
  <2>1. \A h : (\A k \in 1..Len(recs) : h[k] = Apply(h[k - 1], recs[k])) =>
            h[1] = Apply(h[0], u) /\ h[2] = Apply(h[1], c) /\ h[3] = Apply(h[2], c)
    <3> TAKE h
    <3> HAVE \A k \in 1..Len(recs) : h[k] = Apply(h[k - 1], recs[k])
    <3>0. 1 \in 1..Len(recs) /\ 2 \in 1..Len(recs) /\ 3 \in 1..Len(recs)
      OBVIOUS
    <3>1. h[1] = Apply(h[1 - 1], recs[1]) /\ h[2] = Apply(h[2 - 1], recs[2]) /\ h[3] = Apply(h[3 - 1], recs[3])
      BY <3>0, Zenon
    <3>2. 1 - 1 = 0 /\ 2 - 1 = 1 /\ 3 - 1 = 2
      OBVIOUS
    <3> QED
      BY <3>1, <3>2
  <2> QED
    BY <2>1 DEF Replays
<1> DEFINE S == T \cup {c.guid}
<1>1. c.guid \in Routes
  BY ChangeTypes
<1>2. Agree(n, f, Old, K, T, L) /\ Agree(m, f, Old, K, S, L2)
  BY FittingAgrees
<1>3. L2 \subseteq L
  BY DEF Fitting, Shrinks
<1>4. /\ h[1] = ApplyRte(h[0], u) /\ h[2] = ApplyRte(h[1], c) /\ h[3] = ApplyRte(h[2], c)
  BY DEF Apply
<1>5. /\ \A q \in Routes : q # c.guid => m.names[q] = n.names[q] /\ m.look[q] = n.look[q]
      /\ m.names[c.guid] = <<>> /\ m.look[c.guid] = 0
      /\ m.here \subseteq n.here /\ \A g \in m.here : g \in m.own <=> g \in n.own
      /\ \A g \in m.here : m.pos[g] = n.pos[g]
  BY <1>1 DEF Shrinks
<1>6. \A g \in n.here : g \notin m.here =>
               g \in n.own /\ \A q \in Routes : q # c.guid => ~Has(n.names[q], g)
  BY DEF Shrinks
<1>7. Core(h[1], n, f, Old, K, T, B, G2, L, E)
  BY <1>2, <1>4, CoreShort
<1>8. Core(h[2], m, f, Old, K, S, B, G2, L2, E)
  <2>1. G2 \subseteq G2
    OBVIOUS
  <2>2. Strikes(n, f, Old, K, T, G2, L, c, m, L2, G2)
    BY <1>2, <1>3, <1>5, <1>6, <2>1 DEF Strikes
  <2> QED
    BY <1>2, <1>4, <1>7, <2>2, CoreDrop
<1>9. S \cup {c.guid} = S
  OBVIOUS
<1>10. Core(h[3], m, f, Old, K, S \cup {c.guid}, B, G2, L2, E)
  <2>1. G2 \subseteq G2 /\ L2 \subseteq L2 /\ m.here \subseteq m.here
    OBVIOUS
  <2>2. Agree(m, f, Old, K, S \cup {c.guid}, L2)
    BY <1>2, <1>9
  <2>3. /\ \A q \in Routes : q # c.guid => m.names[q] = m.names[q] /\ m.look[q] = m.look[q]
        /\ \A g \in m.here : g \in m.own <=> g \in m.own
        /\ \A g \in m.here : m.pos[g] = m.pos[g]
        /\ \A g \in m.here : g \notin m.here =>
               g \in m.own /\ \A q \in Routes : q # c.guid => ~Has(m.names[q], g)
    OBVIOUS
  <2> HIDE DEF S
  <2>4. Strikes(m, f, Old, K, S, G2, L2, c, m, L2, G2)
    BY <1>5, <2>1, <2>2, <2>3 DEF Strikes
  <2> QED
    BY <1>2, <1>4, <1>8, <2>4, CoreDrop
<1> QED
  BY <1>9, <1>10

(* A picture with the route of a record as the record has it: F are the     *)
(* points that are new.                                                    *)
Redraws(n, c, m, F, Old, B, G2) ==
    /\ c.kind # "wpt"
    /\ c.action # "delete"
    /\ Len(c.pts) >= 2
    /\ \A g \in F : g \notin Old /\ Has(m.names[c.guid], g)
    /\ \A q \in Routes : q # c.guid => m.names[q] = n.names[q] /\ m.look[q] = n.look[q]
    /\ m.look[c.guid] = 0
    /\ m.here = n.here \cup F
    /\ m.own = n.own \cup F
    /\ Len(m.names[c.guid]) = Len(c.pts)
    /\ \A k \in 1..Len(c.pts) :
           /\ m.names[c.guid][k] = c.pts[k].guid
           /\ m.pos[c.pts[k].guid] = c.pts[k].pos
           /\ c.pts[k].guid \in m.here
           /\ c.pts[k].shared = (c.pts[k].guid \notin m.own)
           /\ c.pts[k].guid \notin B
           /\ c.pts[k].guid \in G2
    /\ \A g \in n.here : m.pos[g] = n.pos[g]

(* A route that was drawn, with the new points F, or that lost a point     *)
(* which stays.                                                            *)
LEMMA ReplayUpdate ==
    ASSUME NEW n, NEW m, NEW Old, NEW K, NEW Old2, NEW K2, NEW B, NEW G, G \subseteq Old,
           NEW recs, Len(recs) = 1,
           NEW c \in Changes, c = recs[1], NEW F, Old2 = Old \cup F, K2 = K \cup {c.guid},
           NEW G2, G \subseteq G2, Redraws(n, c, m, F, Old, B, G2)
    PROVE  Replays(recs, n, m, Old, K, Old2, K2, {c.guid}, B, G, B, G2)
<1> USE DEF Redraws
<1> SUFFICES ReplaysRecord(c, n, m, Old, K, Old2, K2, {c.guid}, B, G, B, G2)
  BY ReplaysOne, Zenon
<1> SUFFICES \A h, f, T, L, E, L2, saved :
                 /\ h[1] = Apply(h[0], c)
                 /\ Core(h[0], n, f, Old, K, T, B, G, L, E)
                 /\ Fitting(saved, n, f, Old, K, T, L, E)
                 /\ Fitting(saved, m, f, Old2, K2, T \cup {c.guid}, L2, E)
                 => Core(h[1], m, f, Old2, K2, T \cup {c.guid}, B, G2, L2, E)
  BY Zenon DEF ReplaysRecord
<1> TAKE h, f, T, L, E, L2, saved
<1> HAVE /\ h[1] = Apply(h[0], c)
         /\ Core(h[0], n, f, Old, K, T, B, G, L, E)
         /\ Fitting(saved, n, f, Old, K, T, L, E)
         /\ Fitting(saved, m, f, Old2, K2, T \cup {c.guid}, L2, E)
<1> DEFINE S == T \cup {c.guid}
<1>1. c.guid \in Routes
  BY ChangeTypes
<1>2. Agree(n, f, Old, K, T, L) /\ Agree(m, f, Old2, K2, S, L2)
  BY FittingAgrees
<1> DEFINE x == [names |-> n.names, look |-> n.look, here |-> m.here, own |-> m.own, pos |-> m.pos]
<1>3. x.names = n.names /\ x.look = n.look /\ x.here = m.here /\ x.own = m.own /\ x.pos = m.pos
  OBVIOUS
<1> HIDE DEF x, S
<1>4. \A g \in L : g \notin F /\ g \in n.here
  BY <1>2 DEF Agree
<1>5. Agree(x, f, Old2, K, T, L)
  <2>1. /\ \A r \in Routes : x.names[r] \in Seq(Nat) /\ f.names[r] \in Seq(Nat)
        /\ \A r \in Routes : \A g : /\ Has(x.names[r], g) => g \in x.here
                                    /\ Has(f.names[r], g) => g \in f.here
        /\ x.own \subseteq x.here /\ f.own \subseteq f.here /\ x.here \subseteq Old2
        /\ T \subseteq K /\ K \subseteq Routes
        /\ \A r \in Routes : r \in K /\ r \notin T =>
              \A g : Has(f.names[r], g) => Has(x.names[r], g)
    BY <1>2, <1>3 DEF Agree
  <2>2. \A r \in Routes : r \notin T => \A g \in Old2 : Has(f.names[r], g) => g \in x.here
    BY <1>2, <1>3 DEF Agree
  <2>3. L \subseteq x.here /\ \A g \in L : g \in x.own => Through(n, f, T, g)
    BY <1>2, <1>3, <1>4 DEF Agree
  <2>4. \A g : Through(n, f, T, g) => Through(x, f, T, g)
    BY <1>3 DEF Through
  <2>5. \A g \in x.here : g \in f.here => (g \in x.own <=> g \in f.own)
    BY <1>2, <1>3 DEF Agree
  <2> QED
    BY <2>1, <2>2, <2>3, <2>4, <2>5 DEF Agree
<1>6. Core(h[0], x, f, Old2, K, T, B, G, L, E)
  <2>1. \A g \in F : g \notin Old
    OBVIOUS
  <2>2. Grows(n, f, Old, K, T, L, x, F, Old2)
    BY <1>3, <1>5, <2>1 DEF Grows
  <2> QED
    BY <1>2, <2>2, CoreGrow
<1>7. c.guid \notin T => \A g : Has(f.names[c.guid], g) => g \in Old2
  <2> SUFFICES ASSUME NEW g, Has(f.names[c.guid], g) PROVE g \in Old2
    OBVIOUS
  <2>1. g \in f.here
    BY <1>1, <1>2 DEF Agree
  <2>2. CASE saved
    BY <2>1, <2>2 DEF Fitting, Before
  <2>3. CASE ~saved
    <3>1. Has(m.names[c.guid], g)
      BY <1>1, <2>3 DEF Fitting, Descends
    <3> QED
      BY <1>1, <1>2, <3>1 DEF Agree
  <2> QED
    BY <2>2, <2>3
<1>8. \A g \in L2 : /\ g \in L \/ Has(m.names[c.guid], g)
                    /\ g \in x.own => Through(m, f, T \cup {c.guid}, g)
  <2>1. \A g \in L2 : g \in L \/ g \in F
    BY DEF Fitting
  <2>2. \A g \in L2 : g \in x.own => Through(m, f, S, g)
    BY <1>2, <1>3 DEF Agree
  <2> QED
    BY <2>1, <2>2 DEF S
<1>9. \A q \in Routes : q # c.guid => m.names[q] = x.names[q] /\ m.look[q] = x.look[q]
  BY <1>3
<1>10. \A k \in 1..Len(c.pts) :
               /\ m.names[c.guid][k] = c.pts[k].guid /\ m.pos[c.pts[k].guid] = c.pts[k].pos
               /\ c.pts[k].guid \in x.here /\ c.pts[k].shared = (c.pts[k].guid \notin x.own)
               /\ c.pts[k].guid \notin B
  BY <1>3
<1>11. m.here = x.here /\ m.own = x.own /\ \A g \in x.here : m.pos[g] = x.pos[g] \/ Has(m.names[c.guid], g)
  BY <1>3
<1>12. Apply(h[0], c) = ApplyRte(h[0], c)
  BY DEF Apply
<1>13. K2 \subseteq K \cup {c.guid}
  OBVIOUS
<1>14. Core(ApplyRte(h[0], c), m, f, Old2, K2, T \cup {c.guid}, B, G2, L2, E)
  <2>1. Renews(x, f, Old2, K, T, B, G, L, c, m, K2, G2, L2)
    BY <1>7, <1>8, <1>9, <1>10, <1>11, <1>13 DEF Renews
  <2> QED
    BY <1>5, <1>6, <2>1, CoreUpdate
<1> QED
  BY <1>12, <1>14

(* A point was moved: a record for every route it belongs to.              *)
LEMMA ReplayUpdates ==
    ASSUME NEW n, NEW m, NEW Old, NEW K, NEW B, NEW G, NEW recs \in Seq(Changes), Len(recs) >= 1,
           NEW G2, G \subseteq G2, \A k \in 1..Len(recs) : Leads(recs[k], n, m, K, B, G2),
           \A q \in Routes : q \notin Long(recs, Len(recs)) => m.names[q] = n.names[q],
           \A q \in Routes : m.look[q] = n.look[q], m.here = n.here, m.own = n.own,
           \A q \in Routes : \A g : Has(n.names[q], g) => Has(m.names[q], g)
    PROVE  Replays(recs, n, m, Old, K, Old, K, Long(recs, Len(recs)), B, G, B, G2)
<1> DEFINE N == Len(recs)
           U == Long(recs, N)
<1> SUFFICES ASSUME NEW h, NEW f, NEW T, NEW L, NEW E, NEW L2, NEW saved,
                    \A k \in 1..N : h[k] = Apply(h[k - 1], recs[k]),
                    Core(h[0], n, f, Old, K, T, B, G, L, E), Fitting(saved, n, f, Old, K, T, L, E),
                    Fitting(saved, m, f, Old, K, T \cup U, L2, E)
             PROVE  Core(h[N], m, f, Old, K, T \cup U, B, G2, L2, E)
  BY DEF Replays
<1>1. N \in Nat \ {0}
  OBVIOUS
<1>2. Agree(n, f, Old, K, T, L) /\ Agree(m, f, Old, K, T \cup U, L2)
  BY FittingAgrees
<1>3. \A g \in L2 : g \in L /\ \A q \in Routes : Has(n.names[q], g) => Has(m.names[q], g)
  BY DEF Fitting
<1>4. \A q \in Routes : m.names[q] \in Seq(Nat) /\ \A g : Has(m.names[q], g) => g \in n.here
  BY <1>2 DEF Agree
<1>5. \A k \in 1..N : h[k] = ApplyRte(h[k - 1], recs[k])
  BY DEF Apply, Leads
<1> HIDE DEF N
<1>6. \A k \in 1..N : Leads(recs[k], n, m, K, B, G2)
  BY DEF N
<1>7. \A q \in Routes : q \notin Long(recs, N) => m.names[q] = n.names[q]
  BY DEF N
<1>8. Chain(N, h, n, K, B, G, L, recs, m, G2, L2)
  BY <1>3, <1>4, <1>5, <1>6, <1>7 DEF Chain
<1> QED
  BY <1>1, <1>2, <1>8, CoreUpdates

(* A point was deleted: a record for every route it left, and its own.     *)
(* The routes D were deleted with it; x is what the first records make.    *)
LEMMA ReplayDelete ==
    ASSUME NEW n, NEW x, NEW m, NEW Old, NEW K, NEW B, NEW G, NEW recs, NEW N \in Nat, Len(recs) = N + 1,
           NEW G2, G \subseteq G2, \A k \in 1..N : Leads(recs[k], n, x, K, B, G2), N = 0 => x = n,
           \A q \in Routes : x.names[q] \in Seq(Nat) /\ \A i : Has(x.names[q], i) => i \in n.here,
           \A q \in Routes : q \notin Long(recs, N) => x.names[q] = n.names[q],
           \A q \in Routes : x.look[q] = n.look[q], x.here = n.here, x.own = n.own,
           NEW c \in Changes, c = recs[N + 1], c.kind = "wpt", c.action = "delete", NEW g, g = c.guid,
           g \notin B, g \in n.here, NEW D,
           \A q \in Routes : \A i : i # g /\ Has(n.names[q], i) => Has(x.names[q], i),
           \A q \in Routes : q \in D <=> Has(x.names[q], g),
           \A q \in Routes : q \in D => Len(Without(x.names[q], g)) < 2 /\ q \notin Long(recs, N),
           g \notin m.here, Shrinks(x, m, D, g),
           NEW R, R = Long(recs, N) \cup D
    PROVE  Replays(recs, n, m, Old, K, Old, K, R, B, G, B, G2)
<1> DEFINE U == Long(recs, N)
<1> SUFFICES ASSUME NEW h, NEW f, NEW T, NEW L, NEW E, NEW L2, NEW saved,
                    \A k \in 1..(N + 1) : h[k] = Apply(h[k - 1], recs[k]),
                    Core(h[0], n, f, Old, K, T, B, G, L, E), Fitting(saved, n, f, Old, K, T, L, E),
                    Fitting(saved, m, f, Old, K, T \cup R, L2, E)
             PROVE  Core(h[N + 1], m, f, Old, K, T \cup R, B, G2, L2, E)
  BY DEF Replays
<1> DEFINE M == L \ {g}
<1>1. Agree(n, f, Old, K, T, L) /\ Agree(m, f, Old, K, T \cup R, L2)
  BY FittingAgrees
<1>2. \A i \in M : i \in L /\ \A q \in Routes : Has(n.names[q], i) => Has(x.names[q], i)
  OBVIOUS
<1>3. Core(h[N], x, f, Old, K, T \cup U, B, G2, M, E) /\ Agree(x, f, Old, K, T \cup U, M)
  <2>1. CASE N = 0
    <3>1. U = {} /\ T \cup U = T /\ x = n
      BY <2>1 DEF Long
    <3>2. Core(h[0], x, f, Old, K, T, B, G2, M, E)
      <4>1. /\ L \subseteq n.here /\ M \subseteq L /\ B \subseteq B /\ \A i \in n.here : x.pos[i] = n.pos[i]
            /\ \A q \in Routes : x.names[q] = n.names[q] /\ x.look[q] = n.look[q]
        BY <1>1, <3>1 DEF Agree
      <4> HIDE DEF M
      <4> QED
        BY <4>1, CoreSame
    <3>3. Agree(x, f, Old, K, T, M)
      <4>1. Agree(n, f, Old, K, T, M)
        BY <1>1 DEF Agree
      <4> QED
        BY <3>1, <4>1
    <3> QED
      BY <2>1, <3>1, <3>2, <3>3
  <2>2. CASE N # 0
    <3>1. N \in Nat \ {0}
      BY <2>2
    <3>2. \A k \in 1..N : h[k] = ApplyRte(h[k - 1], recs[k])
      BY DEF Apply, Leads
    <3> HIDE DEF M
    <3>3. Chain(N, h, n, K, B, G, L, recs, x, G2, M)
      BY <1>2, <3>2 DEF Chain
    <3> QED
      BY <1>1, <3>1, <3>3, CoreUpdates
  <2> QED
    BY <2>1, <2>2
<1>4. L2 \subseteq M
  BY DEF Fitting, Shrinks
<1>5. ASSUME NEW q \in Routes, q \in D, q \notin T \cup U
      PROVE  (f.names[q] = <<>> /\ f.look[q] = 0) \/ f.names[q] = x.names[q]
  <2>1. x.names[q] = n.names[q] /\ m.names[q] = <<>> /\ q \in K
    BY <1>1, <1>5 DEF Shrinks, Agree
  <2>2. CASE saved
    BY <1>5, <2>1, <2>2 DEF Fitting, Before
  <2>3. CASE ~saved
    <3>0. Descends(f, m, Old, K) /\ m.names[q] = <<>>
      BY <2>1, <2>3 DEF Fitting
    <3>1. \A i : ~Has(f.names[q], i)
      <4>1. \A i : Has(f.names[q], i) => Has(m.names[q], i)
        BY <2>1, <3>0 DEF Descends
      <4>2. \A i : ~Has(<<>>, i)
        BY HasNothing
      <4> QED
        BY <3>0, <4>1, <4>2
    <3>2. f.names[q] \in Seq(Nat)
      BY <1>1 DEF Agree
    <3>3. f.names[q] = <<>>
      BY <3>1, <3>2, HasNothing
    <3> QED
      BY <3>3 DEF Fitting, Whole
  <2> QED
    BY <2>2, <2>3
<1>6. Apply(h[N], c) = ApplyWpt(h[N], c) /\ h[N + 1] = Apply(h[N], c)
  <2>1. h[N + 1] = Apply(h[N + 1 - 1], c) /\ N + 1 - 1 = N
    OBVIOUS
  <2> QED
    BY <2>1 DEF Apply
<1>7. T \cup R = (T \cup U) \cup D
  OBVIOUS
<1> DEFINE S == T \cup U
<1>8. Agree(m, f, Old, K, S \cup D, L2)
  BY <1>1, <1>7
<1>9. /\ \A q \in Routes : m.names[q] = IF q \in D THEN <<>> ELSE x.names[q]
      /\ \A q \in Routes : m.look[q] = IF q \in D THEN 0 ELSE x.look[q]
      /\ m.here \subseteq x.here /\ \A i \in m.here : i \in m.own <=> i \in x.own
      /\ \A i \in x.here : i \notin m.here =>
          i = g \/ (i \in x.own /\ \A q \in Routes : Has(x.names[q], i) => q \in D)
      /\ \A i \in m.here : m.pos[i] = x.pos[i]
  BY DEF Shrinks
<1>10. \A q \in Routes : q \in D => Len(Without(x.names[q], g)) < 2
  OBVIOUS
<1>11. g \in x.here
  OBVIOUS
<1>12. Core(h[N], x, f, Old, K, S, B, G2, M, E) /\ Agree(x, f, Old, K, S, M)
  BY <1>3
<1>13. \A q \in Routes : q \in D /\ q \notin S =>
               (f.names[q] = <<>> /\ f.look[q] = 0) \/ f.names[q] = x.names[q]
  BY <1>5
<1> HIDE DEF S, M
<1>14. Core(ApplyWpt(h[N], c), m, f, Old, K, S \cup D, B, G2, L2, E)
  <2>1. Kills(x, f, Old, K, S, B, M, c, g, D, m, L2)
    BY <1>4, <1>8, <1>9, <1>10, <1>11, <1>13 DEF Kills
  <2> QED
    BY <1>12, <2>1, CoreDestroy
<1> QED
  BY <1>6, <1>7, <1>14 DEF S

-----------------------------------------------------------------------------
(* What a change set mentions *)

(* More may be left behind than is.                                        *)
LEMMA ReplaysMore ==
    ASSUME NEW recs, NEW n, NEW m, NEW Old, NEW K, NEW Old2, NEW K2, NEW R, NEW B, NEW G, NEW B2, NEW G2,
           Replays(recs, n, m, Old, K, Old2, K2, R, B, G, B2, G2),
           NEW B3, B2 \subseteq B3, NEW G3, G2 \subseteq G3
    PROVE  Replays(recs, n, m, Old, K, Old2, K2, R, B, G, B3, G3)
<1> SUFFICES ASSUME NEW h, NEW f, NEW T, NEW L, NEW E, NEW L2, NEW saved,
                    \A k \in 1..Len(recs) : h[k] = Apply(h[k - 1], recs[k]),
                    Core(h[0], n, f, Old, K, T, B, G, L, E), Fitting(saved, n, f, Old, K, T, L, E),
                    Fitting(saved, m, f, Old2, K2, T \cup R, L2, E)
             PROVE  Core(h[Len(recs)], m, f, Old2, K2, T \cup R, B3, G3, L2, E)
  BY DEF Replays
<1> DEFINE S == T \cup R
<1>1. Core(h[Len(recs)], m, f, Old2, K2, S, B2, G2, L2, E)
  BY DEF Replays
<1>2. L2 \subseteq m.here /\ L2 \subseteq L2
  BY DEF Fitting
<1>3. /\ \A q \in Routes : m.names[q] = m.names[q] /\ m.look[q] = m.look[q]
      /\ m.here = m.here /\ m.own = m.own /\ \A g \in m.here : m.pos[g] = m.pos[g]
  OBVIOUS
<1> HIDE DEF S
<1>4. Core(h[Len(recs)], m, f, Old2, K2, S, B3, G3, L2, E)
  BY <1>1, <1>2, <1>3, CoreSame
<1> QED
  BY <1>4 DEF S

(* The points that the route records of l mention, and those of them that  *)
(* a later update of a mark has put behind what the records left.          *)
Names(c, g) == c.kind # "wpt" /\ \E j \in 1..Len(c.pts) : c.pts[j].guid = g

Mentioned(l) == {g \in 1..MaxPoints : \E k \in 1..Len(l) : Names(l[k], g)}

Moves(c, g) == c.kind = "wpt" /\ c.action = "update" /\ c.guid = g

Stale(l) == {g \in 1..MaxPoints : \E k, i \in 1..Len(l) : k < i /\ Names(l[k], g) /\ Moves(l[i], g)}

(* The records of two sequences, one after the other.                      *)
LEMMA Concatenated ==
    ASSUME NEW l \in Seq(Changes), NEW recs \in Seq(Changes)
    PROVE  /\ l \o recs \in Seq(Changes) /\ Len(l) \in Nat /\ Len(recs) \in Nat
           /\ Len(l \o recs) = Len(l) + Len(recs)
           /\ \A k \in 1..Len(l) : (l \o recs)[k] = l[k] /\ k \in 1..Len(l \o recs)
           /\ \A k \in 1..Len(recs) : /\ (l \o recs)[Len(l) + k] = recs[k]
                                      /\ Len(l) + k \in 1..Len(l \o recs)
           /\ \A k \in 1..Len(l \o recs) : k \in 1..Len(l) \/ \E j \in 1..Len(recs) : k = Len(l) + j
<1>1. Len(l) \in Nat /\ Len(recs) \in Nat
  OBVIOUS
<1>2. /\ l \o recs \in Seq(Changes) /\ Len(l \o recs) = Len(l) + Len(recs)
  OBVIOUS
<1>3. \A k \in 1..Len(l) : (l \o recs)[k] = l[k] /\ k \in 1..Len(l \o recs)
  BY <1>1, <1>2
<1>4. \A k \in 1..Len(recs) : /\ (l \o recs)[Len(l) + k] = recs[k]
                              /\ Len(l) + k \in 1..Len(l \o recs)
  BY <1>1, <1>2
<1>5. \A k \in 1..Len(l \o recs) : k \in 1..Len(l) \/ \E j \in 1..Len(recs) : k = Len(l) + j
  <2> TAKE k \in 1..Len(l \o recs)
  <2> SUFFICES ASSUME k \notin 1..Len(l) PROVE \E j \in 1..Len(recs) : k = Len(l) + j
    OBVIOUS
  <2>1. k - Len(l) \in 1..Len(recs) /\ k = Len(l) + (k - Len(l))
    BY <1>1, <1>2
  <2> QED
    BY <2>1
<1> QED
  BY <1>1, <1>2, <1>3, <1>4, <1>5

(* What is mentioned, or moved after it was mentioned, in a longer change set. *)
LEMMA LogMore ==
    ASSUME NEW l \in Seq(Changes), NEW recs \in Seq(Changes)
    PROVE  /\ Mentioned(l) \subseteq Mentioned(l \o recs) /\ Stale(l) \subseteq Stale(l \o recs)
           /\ \A k \in 1..Len(recs) : recs[k].kind # "wpt" =>
                 \A j \in 1..Len(recs[k].pts) : recs[k].pts[j].guid \in Mentioned(l \o recs)
           /\ \A k \in 1..Len(recs) : \A g \in Mentioned(l) :
                 Moves(recs[k], g) => g \in Stale(l \o recs)
<1> DEFINE t == l \o recs
<1>0. /\ Len(l) \in Nat
      /\ \A k \in 1..Len(l) : t[k] = l[k] /\ k \in 1..Len(t)
      /\ \A k \in 1..Len(recs) : t[Len(l) + k] = recs[k] /\ Len(l) + k \in 1..Len(t)
  BY Concatenated
<1> HIDE DEF t
<1>1. Mentioned(l) \subseteq Mentioned(t)
  BY <1>0 DEF Mentioned
<1>2. Stale(l) \subseteq Stale(t)
  BY <1>0 DEF Stale
<1>3. ASSUME NEW k \in 1..Len(recs), recs[k].kind # "wpt", NEW j \in 1..Len(recs[k].pts)
      PROVE  recs[k].pts[j].guid \in Mentioned(t)
  <2>1. recs[k] \in Changes
    OBVIOUS
  <2>2. recs[k].pts \in Seq(Recs)
    BY <1>3, <2>1, ChangeTypes
  <2>3. recs[k].pts[j].guid \in 1..MaxPoints
    <3>1. recs[k].pts[j] \in Recs
      BY <1>3, <2>2
    <3> QED
      BY <3>1 DEF Recs
  <2>4. Names(t[Len(l) + k], recs[k].pts[j].guid)
    BY <1>0, <1>3 DEF Names
  <2> QED
    BY <1>0, <2>3, <2>4 DEF Mentioned
<1>4. ASSUME NEW k \in 1..Len(recs), NEW g \in Mentioned(l), Moves(recs[k], g) PROVE g \in Stale(t)
  <2>1. PICK i \in 1..Len(l) : Names(l[i], g) /\ g \in 1..MaxPoints
    BY DEF Mentioned
  <2>2. i < Len(l) + k /\ i \in 1..Len(t) /\ Len(l) + k \in 1..Len(t)
    BY <1>0
  <2>3. Names(t[i], g) /\ Moves(t[Len(l) + k], g)
    BY <1>0, <1>4, <2>1
  <2> QED
    BY <2>1, <2>2, <2>3 DEF Stale
<1> QED
  BY <1>1, <1>2, <1>3, <1>4 DEF t

(* The GUIDs of Stale are those of which Orphaned warns.                   *)
LEMMA StaleOrphaned ==
    ASSUME log \in Seq(Changes), NEW g, ~Orphaned(g)
    PROVE  g \notin Stale(log)
<1> SUFFICES ASSUME g \in Stale(log) PROVE FALSE
  OBVIOUS
<1>1. PICK k, i \in 1..Len(log) : k < i /\ Names(log[k], g) /\ Moves(log[i], g)
  BY DEF Stale
<1>2. DOMAIN log = 1..Len(log) /\ log[k] \in Changes
  OBVIOUS
<1>3. log[k].kind = "rte" /\ log[k].pts \in Seq(Recs)
  BY <1>1, <1>2 DEF Names, Changes
<1>4. PICK j \in 1..Len(log[k].pts) : log[k].pts[j].guid = g
  BY <1>1 DEF Names
<1>5. j \in DOMAIN log[k].pts
  BY <1>3, <1>4
<1> QED
  BY <1>1, <1>2, <1>3, <1>4, <1>5 DEF Orphaned, Moves
=============================================================================
