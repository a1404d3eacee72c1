-------------------------- MODULE NavRecoveryProofs --------------------------
(***************************************************************************)
(* The recovery of NavObjectStore, for any number of points, routes and    *)
(* records: the inductive invariant behind Recoverable (RInv), and that    *)
(* every edit, save, crash and start keeps it.                             *)
(***************************************************************************)
EXTENDS NavPictureProofs

-----------------------------------------------------------------------------
(* The GUIDs that are in use *)

(* The GUIDs of the world are among S, its routes among K, and what is no  *)
(* route has no look.                                                      *)
Limited(w, S, K) ==
    /\ \A i \in 1..Len(w.obj) : w.obj[i].guid \in S
    /\ \A r \in Routes : /\ r \notin K => w.pts[r] = <<>>
                         /\ w.pts[r] = <<>> => w.look[r] = 0

(* A new object.                                                           *)
LEMMA AddedLimited ==
    ASSUME NEW S, NEW K, NEW w, Sound(w), Limited(w, S, K), NEW o \in Objects, o.isolated => ~o.inRoute, o.guid \in S
    PROVE  Limited(AddRoutePoint(w, o), S, K)
<1> DEFINE v == AddRoutePoint(w, o)
           n == Len(w.obj)
<1>1. /\ Len(v.obj) = n + 1 /\ v.pts = w.pts /\ v.look = w.look
      /\ v.obj[n + 1] = o /\ \A j \in 1..n : v.obj[j] = w.obj[j]
  BY ObjectAdded
<1>2. n \in Nat
  BY WorldTypes DEF Sound, Fits
<1> HIDE DEF v
<1>3. \A i \in 1..Len(v.obj) : i \in 1..n \/ i = n + 1
  BY <1>1, <1>2
<1>4. Limited(v, S, K)
  BY <1>1, <1>3 DEF Limited
<1> QED
  BY <1>4 DEF v

(* An object that leaves the list.                                         *)
LEMMA UnlistedLimited ==
    ASSUME NEW S, NEW K, NEW w, Sound(w), Limited(w, S, K), NEW i \in 1..Len(w.obj)
    PROVE  Limited(RemoveRoutePoint(w, i), S, K)
<1> DEFINE v == RemoveRoutePoint(w, i)
<1>1. /\ Len(v.obj) = Len(w.obj) /\ v.pts = w.pts /\ v.look = w.look /\ v.obj[i].guid = w.obj[i].guid
      /\ \A j \in 1..Len(w.obj) : j # i => v.obj[j] = w.obj[j]
  BY Unlisted
<1> HIDE DEF v
<1>2. Limited(v, S, K)
  BY <1>1 DEF Limited
<1> QED
  BY <1>2 DEF v

(* A point that joins a route.                                             *)
LEMMA JoinedLimited ==
    ASSUME NEW S, NEW K, NEW w, Sound(w), Limited(w, S, K), NEW r \in Routes, r \in K, NEW i \in 1..Len(w.obj)
    PROVE  Limited(AddPoint(w, r, i), S, K)
<1> DEFINE v == AddPoint(w, r, i)
<1>1. /\ Len(v.obj) = Len(w.obj) /\ v.look = w.look /\ Len(v.pts[r]) = Len(w.pts[r]) + 1
      /\ \A q \in Routes : q # r => v.pts[q] = w.pts[q]
      /\ \A j \in 1..Len(w.obj) : v.obj[j].guid = w.obj[j].guid
  BY PointAdded
<1>2. Len(w.pts[r]) \in Nat
  BY WorldTypes DEF Sound, Fits
<1> HIDE DEF v
<1>3. v.pts[r] # <<>>
  <2>1. Len(v.pts[r]) # 0
    BY <1>1, <1>2
  <2> QED
    BY <2>1
<1>4. Limited(v, S, K)
  BY <1>1, <1>3 DEF Limited
<1> QED
  BY <1>4 DEF v

(* Routes that are dropped.                                                *)
LEMMA DroppedLimited ==
    ASSUME NEW S, NEW K, NEW w, Sound(w), Limited(w, S, K), NEW rs
    PROVE  Limited(DropRoutes(w, rs), S, K)
<1> DEFINE v == DropRoutes(w, rs)
<1>1. /\ Len(v.obj) = Len(w.obj)
      /\ \A q \in Routes : v.pts[q] = IF q \in rs THEN <<>> ELSE w.pts[q]
      /\ \A j \in 1..Len(w.obj) : v.obj[j].guid = w.obj[j].guid
      /\ v.look = Bare(w, rs)
  BY RoutesDropped
<1> HIDE DEF v
<1>2. \A r \in Routes : v.look[r] = IF r \in rs THEN 0 ELSE w.look[r]
  BY <1>1 DEF Bare
<1>3. Limited(v, S, K)
  BY <1>1, <1>2 DEF Limited
<1> QED
  BY <1>3 DEF v

(* Nothing can be taken out of an empty sequence.                          *)
LEMMA NothingLeft ==
    ASSUME NEW s, s = <<>>, NEW i
    PROVE  Without(s, i) = <<>>
<1>1. s \in Seq(Nat)
  OBVIOUS
<1>2. Without(s, i) \in Seq(Nat) /\ \A j : ~Has(Without(s, i), j)
  BY <1>1, WithoutElements, HasNothing
<1> QED
  BY <1>2, HasNothing

(* A point that leaves routes can leave one empty; those are deleted next. *)
LEMMA RemovedLimited ==
    ASSUME NEW S, NEW K, NEW w, Sound(w), Limited(w, S, K), NEW rs, NEW i \in 1..Len(w.obj), NEW ds,
           \A r \in Routes : r \in rs /\ RemovePoint(w, rs, i).pts[r] = <<>> => r \in ds
    PROVE  Limited(DropRoutes(RemovePoint(w, rs, i), ds), S, K)
<1> DEFINE u == RemovePoint(w, rs, i)
           v == DropRoutes(u, ds)
<1>1. /\ Sound(u) /\ Len(u.obj) = Len(w.obj) /\ u.look = w.look
      /\ \A q \in Routes : u.pts[q] = IF q \in rs THEN Without(w.pts[q], i) ELSE w.pts[q]
      /\ \A j \in 1..Len(w.obj) : j # i \/ In(u, i) => u.obj[j] = w.obj[j]
      /\ u.obj[i].guid = w.obj[i].guid
  BY PointRemoved
<1>2. \A r \in Routes : r \in rs /\ u.pts[r] = <<>> => r \in ds
  OBVIOUS
<1> HIDE DEF u
<1>3. /\ Len(v.obj) = Len(u.obj)
      /\ \A q \in Routes : v.pts[q] = IF q \in ds THEN <<>> ELSE u.pts[q]
      /\ \A j \in 1..Len(u.obj) : v.obj[j].guid = u.obj[j].guid
      /\ v.look = Bare(u, ds)
  BY <1>1, RoutesDropped
<1> HIDE DEF v
<1>4. \A j \in 1..Len(v.obj) : v.obj[j].guid \in S
  BY <1>1, <1>3 DEF Limited
<1>5. \A r \in Routes : r \notin K => v.pts[r] = <<>>
  BY <1>1, <1>3, NothingLeft DEF Limited
<1>6. \A r \in Routes : v.pts[r] = <<>> => v.look[r] = 0
  <2> TAKE r \in Routes
  <2> HAVE v.pts[r] = <<>>
  <2>1. r \in ds \/ (r \notin rs /\ u.pts[r] = w.pts[r] /\ u.pts[r] = <<>>)
    BY <1>1, <1>2, <1>3
  <2>2. v.look[r] = IF r \in ds THEN 0 ELSE w.look[r]
    BY <1>1, <1>3 DEF Bare
  <2>3. r \notin ds => w.pts[r] = <<>> /\ w.look[r] = 0
    BY <2>1 DEF Limited
  <2> QED
    BY <2>2, <2>3
<1>7. Limited(v, S, K)
  BY <1>4, <1>5, <1>6 DEF Limited
<1> QED
  BY <1>7 DEF v, u

(* DestroyWaypoint.                                                        *)
LEMMA DestroyedLimited ==
    ASSUME NEW S, NEW K, NEW w, Sound(w), Limited(w, S, K), NEW i \in 1..Len(w.obj)
    PROVE  Limited(DestroyWaypoint(w, i), S, K)
<1> DEFINE u == LeaveRoutes(w, i)
           ds == {r \in Containers(w, i) : Len(u.pts[r]) < 2}
           v == DropRoutes(u, ds)
<1>1. DestroyWaypoint(w, i) = RemoveRoutePoint(v, i)
  BY DEF DestroyWaypoint
<1>2. Sound(u) /\ Len(u.obj) = Len(w.obj)
  BY PointDestroyed
<1>3. Limited(v, S, K)
  <2>1. CASE Containers(w, i) = {}
    BY <2>1, DroppedLimited DEF LeaveRoutes
  <2>2. CASE Containers(w, i) # {}
    <3>1. u = RemovePoint(w, Containers(w, i), i)
      BY <2>2 DEF LeaveRoutes
    <3>2. \A r \in Routes : r \in Containers(w, i) /\ u.pts[r] = <<>> => r \in ds
      BY DEF Containers
    <3> HIDE DEF u, ds
    <3>3. \A r \in Routes : r \in Containers(w, i) /\ RemovePoint(w, Containers(w, i), i).pts[r] = <<>> => r \in ds
      BY <3>1, <3>2
    <3> QED
      BY <3>1, <3>3, RemovedLimited
  <2> QED
    BY <2>1, <2>2
<1>4. Sound(v) /\ Len(v.obj) = Len(w.obj)
  <2> HIDE DEF u
  <2> QED
    BY <1>2, RoutesDropped
<1> HIDE DEF v
<1> QED
  BY <1>1, <1>3, <1>4, UnlistedLimited

(* Objects that nobody holds are left out.                                 *)
LEMMA CompactLimited ==
    ASSUME NEW S, NEW K, NEW w, Sound(w), Limited(w, S, K), NEW keep \in SUBSET (1..Len(w.obj)),
           \A i \in 1..Len(w.obj) : In(w, i) => i \in keep
    PROVE  Limited(Compact(w, keep), S, K)
<1> DEFINE v == Compact(w, keep)
           order == Sorted(keep)
<1>1. /\ v.look = w.look /\ Sound(v)
      /\ \A k \in 1..Len(v.obj) : order[k] \in keep /\ v.obj[k] = w.obj[order[k]]
      /\ \A r \in Routes : Len(v.pts[r]) = Len(w.pts[r])
  BY CompactIs
<1>2. \A r \in Routes : v.pts[r] \in Seq(Nat) /\ w.pts[r] \in Seq(Nat)
  BY <1>1, WorldTypes DEF Sound, Fits
<1> HIDE DEF v, order
<1>3. \A r \in Routes : v.pts[r] = <<>> <=> w.pts[r] = <<>>
  BY <1>1, <1>2
<1>4. Limited(v, S, K)
  BY <1>1, <1>3 DEF Limited
<1> QED
  BY <1>4 DEF v

(* The empty world.                                                        *)
LEMMA EmptyLimited ==
    ASSUME NEW S, NEW K
    PROVE  Limited(Empty, S, K)
BY DEF Limited, Empty

(* More GUIDs.                                                             *)
LEMMA LimitedMore ==
    ASSUME NEW w, NEW S, NEW K, Limited(w, S, K), NEW S2, S \subseteq S2, NEW K2, K \subseteq K2
    PROVE  Limited(w, S2, K2)
BY DEF Limited

-----------------------------------------------------------------------------
(* The GUIDs of the document and the change set *)

DocLimited(doc, S, K) ==
    /\ \A k \in 1..Len(doc.marks) : doc.marks[k].guid \in S
    /\ \A r \in Routes : /\ \A k \in 1..Len(doc.routes[r]) : doc.routes[r][k].guid \in S
                         /\ r \notin K => doc.routes[r] = <<>>
                         /\ doc.routes[r] = <<>> => doc.look[r] = 0

ChangeLimited(c, S, K) ==
    /\ c.kind = "wpt" => c.pts[1].guid \in S
    /\ c.kind # "wpt" => c.guid \in K /\ \A j \in 1..Len(c.pts) : c.pts[j].guid \in S

LogLimited(l, S, K) == \A k \in 1..Len(l) : ChangeLimited(l[k], S, K)

(* The document that is written.                                           *)
LEMMA WrittenLimited ==
    ASSUME NEW S, NEW K, NEW w, Belong(w), Limited(w, S, K)
    PROVE  DocLimited(CreateAllGPXObjects(w), S, K)
<1> DEFINE doc == CreateAllGPXObjects(w)
           at == {i \in DOMAIN w.obj : w.obj[i].listed /\ w.obj[i].isolated}
           marks == Sorted(at)
<1>1. /\ Sound(w) /\ w \in Worlds /\ Len(w.obj) \in Nat /\ DOMAIN w.obj = 1..Len(w.obj)
      /\ \A r \in Routes : DOMAIN w.pts[r] = 1..Len(w.pts[r]) /\ w.pts[r] \in Seq(Nat)
      /\ \A r \in Routes : \A m \in 1..Len(w.pts[r]) : w.pts[r][m] \in 1..Len(w.obj)
  BY WorldTypes DEF Belong, Sound, Fits
<1>2. at \in SUBSET (1..Len(w.obj))
  BY <1>1
<1> HIDE DEF at
<1>3. DOMAIN marks = 1..Len(marks) /\ \A k \in 1..Len(marks) : marks[k] \in at
  BY <1>1, <1>2, SortedElements
<1>4. /\ doc.marks = [k \in DOMAIN marks |-> Record(w.obj[marks[k]])]
      /\ \A r \in Routes : doc.routes[r] = Points(w, r)
      /\ doc.look = w.look
  BY DEF CreateAllGPXObjects, at
<1> HIDE DEF doc, marks
<1>5. \A k \in 1..Len(doc.marks) : doc.marks[k].guid \in S
  <2>1. DOMAIN doc.marks = DOMAIN marks
    BY <1>4
  <2>2. doc.marks \in Seq(Recs)
    <3>1. CreateAllGPXObjects(w) \in Docs
      BY DocumentWritten
    <3> QED
      BY <3>1 DEF Docs, doc
  <2>3. DOMAIN doc.marks = 1..Len(doc.marks)
    BY <2>2
  <2> TAKE k \in 1..Len(doc.marks)
  <2>4. k \in DOMAIN marks /\ marks[k] \in 1..Len(w.obj)
    BY <1>2, <1>3, <2>1, <2>3
  <2>5. doc.marks[k].guid = w.obj[marks[k]].guid
    BY <1>4, <2>4 DEF Record
  <2> QED
    BY <2>4, <2>5 DEF Limited
<1>6. ASSUME NEW r \in Routes
      PROVE  /\ \A k \in 1..Len(doc.routes[r]) : doc.routes[r][k].guid \in S
             /\ r \notin K => doc.routes[r] = <<>>
             /\ doc.routes[r] = <<>> => doc.look[r] = 0
  <2>1. /\ doc.routes[r] \in Seq(Recs) /\ Len(doc.routes[r]) = Len(w.pts[r])
    BY <1>1, <1>4, RecordsAre
  <2>2. \A k \in 1..Len(w.pts[r]) : doc.routes[r][k].guid = w.obj[w.pts[r][k]].guid
    <3> TAKE k \in 1..Len(w.pts[r])
    <3>1. k \in DOMAIN w.pts[r] /\ doc.routes[r] = Points(w, r)
      BY <1>1, <1>4
    <3>2. doc.routes[r][k] = Record(w.obj[w.pts[r][k]])
      BY <3>1 DEF Points
    <3> QED
      BY <3>2 DEF Record
  <2>3. doc.routes[r] = <<>> <=> w.pts[r] = <<>>
    BY <1>1, <2>1
  <2> QED
    BY <1>1, <1>4, <2>1, <2>2, <2>3 DEF Limited
<1>7. DocLimited(doc, S, K)
  BY <1>5, <1>6 DEF DocLimited
<1> QED
  BY <1>7 DEF doc

(* The world that is loaded.                                               *)
LEMMA LoadedLimited ==
    ASSUME NEW S, NEW K, NEW doc \in Docs, NoneShort(doc.routes), DocLimited(doc, S, K)
    PROVE  Limited(LoadAllGPXObjects(doc), S, K)
<1>0. /\ doc.marks \in Seq(Recs) /\ Len(doc.marks) \in Nat
      /\ \A r \in Routes : doc.routes[r] \in Seq(Recs) /\ Len(doc.routes[r]) \in Nat
      /\ MaxRoutes \in Nat /\ Routes = 1..MaxRoutes
  BY NavAssumption DEF Docs, Routes
<1>1. Sound(LoadMarks(doc)) /\ Limited(LoadMarks(doc), S, K)
  <2>1. PICK f : /\ f[0] = Empty /\ \A k \in 1..Len(doc.marks) : f[k] = LoadMark(f[k - 1], doc.marks[k])
                 /\ LoadMarks(doc) = f[Len(doc.marks)]
    <3>1. MarksRun(doc)
      BY MarksLoaded
    <3> QED
      BY <3>1 DEF MarksRun
  <2> DEFINE done == {k \in 0..Len(doc.marks) : Sound(f[k]) /\ Limited(f[k], S, K)}
  <2>2. 0 \in done
    BY <1>0, <2>1, EmptySound, EmptyLimited
  <2>3. ASSUME NEW k \in 1..Len(doc.marks), k - 1 \in done PROVE k \in done
    <3> DEFINE w == f[k - 1]
               rec == doc.marks[k]
               o == [Object(rec) EXCEPT !.isolated = TRUE]
    <3>1. Sound(w) /\ Limited(w, S, K) /\ f[k] = LoadMark(w, rec) /\ rec \in Recs /\ rec.guid \in S
      <4>1. Sound(f[k - 1]) /\ Limited(f[k - 1], S, K)
        BY <2>3
      <4>2. f[k] = LoadMark(f[k - 1], doc.marks[k])
        BY <2>1, <2>3
      <4>3. doc.marks[k] \in Recs
        BY <1>0, <2>3
      <4>4. doc.marks[k].guid \in S
        BY <2>3 DEF DocLimited
      <4> QED
        BY <4>1, <4>2, <4>3, <4>4
    <3>2. f[k] = w \/ f[k] = AddRoutePoint(w, o)
      BY <3>1 DEF LoadMark
    <3>3. o \in Objects /\ ~o.inRoute /\ o.guid = rec.guid
      BY <3>1, ObjectOf
    <3> HIDE DEF w, o, rec
    <3>4. Sound(f[k]) /\ Limited(f[k], S, K)
      BY <3>1, <3>2, <3>3, MarkLoaded, AddedLimited
    <3> QED
      BY <3>4
  <2> HIDE DEF done
  <2>4. 0..Len(doc.marks) \subseteq done
    BY <1>0, <2>2, <2>3, AllSteps
  <2>5. Len(doc.marks) \in 0..Len(doc.marks)
    BY <1>0
  <2> QED
    BY <2>1, <2>4, <2>5 DEF done
<1>2. ASSUME NEW w, Sound(w), Limited(w, S, K), NEW r \in Routes
      PROVE  Sound(LoadRoute(w, doc, r)) /\ Limited(LoadRoute(w, doc, r), S, K)
  <2> DEFINE recs == doc.routes[r]
             N == Len(recs)
  <2>1. PICK f : /\ f[0] = w /\ \A k \in 1..N : f[k] = LoadRoutePoint(f[k - 1], r, recs[k])
                 /\ LoadRoute(w, doc, r) = [f[N] EXCEPT !.look[r] = doc.look[r]]
    <3>1. RouteRun(w, doc, r)
      BY <1>2, RouteLoaded
    <3> QED
      BY <3>1 DEF RouteRun
  <2>2. Sound(LoadRoute(w, doc, r)) /\ Len(LoadRoute(w, doc, r).pts[r]) = Len(w.pts[r]) + Len(doc.routes[r])
    BY <1>2, RouteLoaded
  <2>3. N \in Nat /\ recs \in Seq(Recs) /\ (N # 0 => r \in K) /\ \A k \in 1..N : recs[k].guid \in S
    BY <1>0 DEF DocLimited
  <2> DEFINE done == {k \in 0..N : Sound(f[k]) /\ Limited(f[k], S, K)}
  <2> HIDE DEF recs, N
  <2>4. 0 \in done
    BY <1>2, <2>1, <2>3
  <2>5. ASSUME NEW k \in 1..N, k - 1 \in done PROVE k \in done
    <3> DEFINE v == f[k - 1]
               rec == recs[k]
               o == Object(rec)
               u == AddRoutePoint(v, o)
    <3>1. Sound(v) /\ Limited(v, S, K) /\ f[k] = LoadRoutePoint(v, r, rec) /\ r \in K
      BY <2>1, <2>3, <2>5
    <3>2. rec.guid \in S /\ rec \in Recs
      <4>1. N = Len(recs)
        BY DEF N
      <4> QED
        BY <2>3, <4>1
    <3>3. f[k] = IF Named(v, rec.guid) # {} THEN AddPoint(v, r, Existing(v, rec.guid))
                 ELSE AddPoint(u, r, Len(v.obj) + 1)
      BY <3>1 DEF LoadRoutePoint
    <3>4. o \in Objects /\ o.guid \in S /\ ~o.isolated
      BY <3>2, ObjectOf
    <3>5. Sound(u) /\ Limited(u, S, K) /\ Len(u.obj) = Len(v.obj) + 1 /\ Len(v.obj) \in Nat
      <4> HIDE DEF v, o
      <4> QED
        BY <3>1, <3>4, ObjectAdded, AddedLimited, WorldTypes DEF Sound, Fits
    <3>6. Named(v, rec.guid) # {} => Existing(v, rec.guid) \in 1..Len(v.obj)
      <4> HIDE DEF v, rec
      <4> QED
        BY <3>1, FirstNamed DEF Sound, Fits
    <3>7. Len(v.obj) + 1 \in 1..Len(u.obj)
      BY <3>5
    <3> HIDE DEF u, v, rec, o
    <3>8. Sound(f[k]) /\ Limited(f[k], S, K)
      BY <3>1, <3>3, <3>5, <3>6, <3>7, PointAdded, JoinedLimited
    <3> QED
      BY <3>8
  <2> HIDE DEF done
  <2>6. 0..N \subseteq done
    BY <2>3, <2>4, <2>5, AllSteps
  <2>7. Sound(f[N]) /\ Limited(f[N], S, K)
    <3>1. N \in 0..N
      BY <2>3
    <3> QED
      BY <2>6, <3>1 DEF done
  <2> DEFINE x == f[N]
             v == LoadRoute(w, doc, r)
  <2>8. /\ v.obj = x.obj /\ v.pts = x.pts
        /\ \A q \in Routes : v.look[q] = IF q = r THEN doc.look[r] ELSE x.look[q]
    <3>1. x \in Worlds /\ v = [x EXCEPT !.look[r] = doc.look[r]]
      BY <2>1, <2>7 DEF Sound, Fits
    <3>2. x.look \in [Routes -> 0..1]
      BY <3>1, WorldTypes
    <3> HIDE DEF x, v
    <3> QED
      BY <3>1, <3>2 DEF Worlds
  <2>9. v.pts[r] = <<>> => doc.look[r] = 0
    <3> HAVE v.pts[r] = <<>>
    <3>1. Len(w.pts[r]) \in Nat /\ Len(doc.routes[r]) \in Nat
      BY <1>0, <1>2, WorldTypes DEF Sound, Fits
    <3>2. Len(v.pts[r]) = 0
      OBVIOUS
    <3> DEFINE a == Len(w.pts[r])
               b == Len(doc.routes[r])
    <3>5. a \in Nat /\ b \in Nat /\ a + b = 0
      BY <2>2, <3>1, <3>2
    <3> HIDE DEF a, b
    <3>3. b = 0
      BY <3>5
    <3>4. doc.routes[r] = <<>>
      BY <1>0, <3>3 DEF b
    <3> QED
      BY <3>4 DEF DocLimited
  <2> HIDE DEF x, v
  <2>10. Limited(x, S, K)
    BY <2>7 DEF x
  <2>11. Limited(v, S, K)
    BY <2>8, <2>9, <2>10 DEF Limited
  <2> QED
    BY <2>2, <2>11 DEF v
<1>3. PICK f : /\ f[0] = LoadMarks(doc) /\ \A k \in 1..MaxRoutes : f[k] = LoadRoute(f[k - 1], doc, k)
               /\ LoadAllGPXObjects(doc) = f[MaxRoutes]
  <2>1. DocumentRun(doc)
    BY DocumentLoaded
  <2> QED
    BY <2>1 DEF DocumentRun
<1> DEFINE done == {k \in 0..MaxRoutes : Sound(f[k]) /\ Limited(f[k], S, K)}
<1>4. 0 \in done
  BY <1>0, <1>1, <1>3
<1>5. ASSUME NEW k \in 1..MaxRoutes, k - 1 \in done PROVE k \in done
  <2>1. Sound(f[k - 1]) /\ Limited(f[k - 1], S, K) /\ f[k] = LoadRoute(f[k - 1], doc, k) /\ k \in Routes
    BY <1>0, <1>3, <1>5
  <2> QED
    BY <1>2, <2>1
<1> HIDE DEF done
<1>6. 0..MaxRoutes \subseteq done
  BY <1>0, <1>4, <1>5, AllSteps
<1>7. MaxRoutes \in 0..MaxRoutes
  BY <1>0
<1> QED
  BY <1>3, <1>6, <1>7 DEF done

-----------------------------------------------------------------------------
(* Replaying keeps to them *)

(* The record of a mark.                                                   *)
LEMMA MarkAppliedLimited ==
    ASSUME NEW S, NEW K, NEW w, Sound(w), Limited(w, S, K), NEW c \in Changes, c.kind = "wpt",
           ChangeLimited(c, S, K)
    PROVE  Limited(ApplyWpt(w, c), S, K)
<1> DEFINE mark == [Object(c.pts[1]) EXCEPT !.isolated = TRUE]
           old == Existing(w, c.guid)
           v == ApplyWpt(w, c)
<1>1. c.action \in Actions /\ mark \in Objects /\ ~mark.inRoute /\ mark.guid \in S
  BY ChangeTypes, ObjectOf DEF ChangeLimited
<1>2. Named(w, c.guid) # {} => old \in 1..Len(w.obj)
  BY FirstNamed DEF Sound, Fits
<1>3. /\ c.action = "add" => v \in {w, AddRoutePoint(w, mark)}
      /\ c.action = "update" =>
            v = AddRoutePoint(IF Named(w, c.guid) # {} THEN RemoveRoutePoint(w, old) ELSE w, mark)
      /\ c.action = "delete" => v = IF Named(w, c.guid) # {} THEN DestroyWaypoint(w, old) ELSE w
  BY DEF ApplyWpt
<1> HIDE DEF mark, old, v
<1>4. c.action = "add" => Limited(v, S, K)
  BY <1>1, <1>3, AddedLimited
<1>5. ASSUME c.action = "update" PROVE Limited(v, S, K)
  <2> DEFINE u == IF Named(w, c.guid) # {} THEN RemoveRoutePoint(w, old) ELSE w
  <2>1. Sound(u) /\ Limited(u, S, K)
    BY <1>2, Unlisted, UnlistedLimited
  <2>2. v = AddRoutePoint(u, mark)
    BY <1>3, <1>5
  <2> HIDE DEF u
  <2> QED
    BY <1>1, <2>1, <2>2, AddedLimited
<1>6. c.action = "delete" => Limited(v, S, K)
  BY <1>2, <1>3, DestroyedLimited
<1> QED
  BY <1>1, <1>4, <1>5, <1>6 DEF Actions, v

(* A point of a route's record.                                            *)
LEMMA PutLimited ==
    ASSUME NEW S, NEW K, NEW w, Sound(w), Limited(w, S, K), NEW r \in Routes, r \in K, NEW rec \in Recs,
           Named(w, rec.guid) # {}
    PROVE  Limited(PutPoint(w, r, rec), S, K)
<1> DEFINE i == Existing(w, rec.guid)
           u == [w EXCEPT !.obj[i].pos = rec.pos]
           o == [w.obj[i] EXCEPT !.pos = rec.pos]
<1>1. i \in 1..Len(w.obj)
  BY FirstNamed DEF Sound, Fits
<1>2. w.obj[i] \in Objects
  BY <1>1, WorldTypes DEF Sound, Fits
<1>3. /\ o \in Objects /\ o.guid = w.obj[i].guid /\ o.listed = w.obj[i].listed
      /\ o.isolated = w.obj[i].isolated /\ o.inRoute = w.obj[i].inRoute
  BY <1>2 DEF Recs, Objects
<1>4. u = Changed(w, i, o) /\ PutPoint(w, r, rec) = AddPoint(u, r, i)
  BY DEF PutPoint, Changed
<1> HIDE DEF o, u, i
<1>5. /\ Sound(u) /\ Len(u.obj) = Len(w.obj) /\ u.pts = w.pts /\ u.look = w.look
      /\ \A j \in 1..Len(w.obj) : u.obj[j].guid = w.obj[j].guid
  BY <1>1, <1>3, <1>4, ObjectChanged
<1>6. Limited(u, S, K)
  BY <1>5 DEF Limited
<1> QED
  BY <1>1, <1>4, <1>5, <1>6, JoinedLimited

(* The record of a route.                                                  *)
LEMMA RouteAppliedLimited ==
    ASSUME NEW S, NEW K, NEW w, Sound(w), Limited(w, S, K), NEW c \in Changes, c.kind # "wpt",
           ChangeLimited(c, S, K)
    PROVE  Limited(ApplyRte(w, c), S, K)
<1> DEFINE recs == c.pts
           r == c.guid
           u == WithRecord(w, recs)
           d == DropRoute(u, r)
           n == Len(w.obj)
           v == ApplyRte(w, c)
<1>1. r \in Routes /\ recs \in Seq(Recs) /\ r \in K /\ \A j \in 1..Len(recs) : recs[j].guid \in S
  BY ChangeTypes DEF ChangeLimited
<1>2. v \in {d, u, PutPoints(d, r, recs)}
  BY DEF WithRecord, ApplyRte, UpdateRouteA
<1> HIDE DEF recs, r
<1>3. /\ Sound(u) /\ Len(u.obj) = n + Len(recs) /\ u.pts = w.pts /\ u.look = w.look
      /\ \A j \in 1..n : u.obj[j] = w.obj[j]
      /\ \A j \in 1..Len(u.obj) : j \in 1..n \/ \E k \in 1..Len(recs) : j = n + k
      /\ \A k \in 1..Len(recs) : /\ ~In(u, n + k) /\ n + k \in 1..Len(u.obj)
                                 /\ u.obj[n + k].listed
                                 /\ u.obj[n + k].guid = recs[k].guid
  BY <1>1, RecordLoaded
<1> HIDE DEF u, v
<1>4. Limited(u, S, K)
  <2>1. \A j \in 1..Len(u.obj) : u.obj[j].guid \in S
    <3> TAKE j \in 1..Len(u.obj)
    <3>1. CASE j \in 1..n
      BY <1>3, <3>1 DEF Limited
    <3>2. CASE \E k \in 1..Len(recs) : j = n + k
      <4>1. PICK k \in 1..Len(recs) : j = n + k
        BY <3>2
      <4> QED
        BY <1>1, <1>3, <4>1
    <3> QED
      BY <1>3, <3>1, <3>2
  <2> QED
    BY <1>3, <2>1 DEF Limited
<1> HIDE DEF n
<1>5. /\ Sound(d) /\ Len(d.obj) = Len(u.obj) /\ Limited(d, S, K)
      /\ \A j \in 1..Len(u.obj) : ~In(u, j) => d.obj[j] = u.obj[j]
  BY <1>3, <1>4, RoutesDropped, DroppedLimited DEF DropRoute
<1> HIDE DEF d
<1>6. \A k \in 1..Len(recs) : Named(d, recs[k].guid) # {}
  <2> SUFFICES ASSUME NEW k \in 1..Len(recs) PROVE n + k \in Named(d, recs[k].guid)
    OBVIOUS
  <2>1. /\ n + k \in 1..Len(d.obj) /\ d.obj[n + k].listed
        /\ d.obj[n + k].guid = recs[k].guid
    BY <1>3, <1>5
  <2>2. DOMAIN d.obj = 1..Len(d.obj)
    BY <1>5, WorldTypes DEF Sound, Fits
  <2> QED
    BY <2>1, <2>2 DEF Named
<1>7. Limited(PutPoints(d, r, recs), S, K)
  <2> DEFINE N == Len(recs)
  <2>1. PICK f : /\ f[0] = d /\ \A k \in 1..N : f[k] = PutPoint(f[k - 1], r, recs[k])
                 /\ PutPoints(d, r, recs) = f[N]
    <3>1. PointsRun(d, r, recs)
      BY <1>1, <1>5, <1>6, PointsPut
    <3> QED
      BY <3>1 DEF PointsRun
  <2> DEFINE done == {k \in 0..N : Sound(f[k]) /\ Limited(f[k], S, K) /\ \A g : Named(f[k], g) = Named(d, g)}
  <2>2. N \in Nat
    BY <1>1
  <2>3. \A k \in 1..N : recs[k] \in Recs /\ Named(d, recs[k].guid) # {}
    BY <1>1, <1>6
  <2> HIDE DEF N
  <2>4. 0 \in done
    BY <1>5, <2>1, <2>2
  <2>5. ASSUME NEW k \in 1..N, k - 1 \in done PROVE k \in done
    <3> DEFINE x == f[k - 1]
    <3>1. Sound(x) /\ Limited(x, S, K) /\ Named(x, recs[k].guid) # {} /\ f[k] = PutPoint(x, r, recs[k])
      BY <2>1, <2>3, <2>5
    <3>2. \A g : Named(x, g) = Named(d, g)
      BY <2>5
    <3> DEFINE rec == recs[k]
    <3>4. rec \in Recs /\ Named(x, rec.guid) # {} /\ f[k] = PutPoint(x, r, rec)
      BY <2>3, <3>1
    <3> HIDE DEF x, rec
    <3>5. Sound(PutPoint(x, r, rec)) /\ \A g : Named(PutPoint(x, r, rec), g) = Named(x, g)
      BY <1>1, <3>1, <3>4, PointPut
    <3>6. Limited(PutPoint(x, r, rec), S, K)
      BY <1>1, <3>1, <3>4, PutLimited
    <3>3. Sound(f[k]) /\ Limited(f[k], S, K) /\ \A g : Named(f[k], g) = Named(x, g)
      BY <3>4, <3>5, <3>6
    <3> QED
      BY <3>2, <3>3
  <2> HIDE DEF done
  <2>6. 0..N \subseteq done
    BY <2>2, <2>4, <2>5, AllSteps
  <2>7. N \in 0..N
    BY <2>2
  <2> QED
    BY <2>1, <2>6, <2>7 DEF done
<1> QED
  BY <1>2, <1>4, <1>5, <1>7 DEF v

(* The records of a change set.                                            *)
LEMMA AppliedLimited ==
    ASSUME NEW S, NEW K, NEW w, Sound(w), NoneShort(w.pts), Limited(w, S, K),
           NEW l \in Seq(Changes), LogLimited(l, S, K)
    PROVE  Limited(ApplyChanges(w, l), S, K)
<1> DEFINE N == Len(l)
<1>1. PICK f : /\ f[0] = w /\ \A k \in 1..N : f[k] = Apply(f[k - 1], l[k])
               /\ ApplyChanges(w, l) = f[N]
  <2>1. ChangesRun(w, l)
    BY ChangesApplied
  <2> QED
    BY <2>1 DEF ChangesRun
<1> DEFINE done == {k \in 0..N : Sound(f[k]) /\ NoneShort(f[k].pts) /\ Limited(f[k], S, K)}
<1>2. N \in Nat /\ \A k \in 1..N : l[k] \in Changes /\ ChangeLimited(l[k], S, K)
  BY DEF LogLimited
<1> HIDE DEF N
<1>3. 0 \in done
  BY <1>1, <1>2
<1>4. ASSUME NEW k \in 1..N, k - 1 \in done PROVE k \in done
  <2> DEFINE x == f[k - 1]
             c == l[k]
  <2>1. /\ Sound(x) /\ NoneShort(x.pts) /\ Limited(x, S, K) /\ c \in Changes /\ ChangeLimited(c, S, K)
        /\ f[k] = IF c.kind = "wpt" THEN ApplyWpt(x, c) ELSE ApplyRte(x, c)
    BY <1>1, <1>2, <1>4 DEF Apply
  <2> HIDE DEF x, c
  <2>2. Sound(f[k]) /\ NoneShort(f[k].pts) /\ Limited(f[k], S, K)
    BY <2>1, MarkApplied, RouteApplied, MarkAppliedLimited, RouteAppliedLimited
  <2> QED
    BY <2>2
<1> HIDE DEF done
<1>5. 0..N \subseteq done
  BY <1>2, <1>3, <1>4, AllSteps
<1>6. N \in 0..N
  BY <1>2
<1> QED
  BY <1>1, <1>5, <1>6 DEF done

-----------------------------------------------------------------------------
(* The records of an edit *)

(* A route that is drawn.                                                  *)
LEMMA DrawnLimited ==
    ASSUME NEW S, NEW K, NEW w, Sound(w), Limited(w, S, K), NEW r \in Routes, r \in K,
           NEW stops, Len(stops) \in Nat,
           \A k \in 1..Len(stops) : /\ stops[k].old \in 0..Len(w.obj)
                                    /\ stops[k].old = 0 => stops[k].guid \in 1..MaxPoints
                                    /\ stops[k].old = 0 => stops[k].guid \in S
    PROVE  Limited(DrawThrough(w, r, stops), S, K)
<1> DEFINE n == Len(stops)
<1>1. PICK f : /\ f[0] = w /\ \A k \in 1..n : f[k] = Draw(f[k - 1], r, stops[k])
               /\ DrawThrough(w, r, stops) = f[n]
  <2>1. StopsRun(w, r, stops)
    BY PointsDrawn
  <2> QED
    BY <2>1 DEF StopsRun
<1> DEFINE Z == {k \in 0..n : /\ Sound(f[k]) /\ Limited(f[k], S, K)
                              /\ Len(f[k].obj) >= Len(w.obj)}
<1>2. n \in Nat /\ Len(w.obj) \in Nat
  BY WorldTypes DEF Sound, Fits
<1>3. 0 \in Z
  BY <1>1, <1>2
<1>4. ASSUME NEW k \in 1..n, k - 1 \in Z
      PROVE  k \in Z
  <2> DEFINE v == f[k - 1]
             stop == stops[k]
             x == Draw(v, r, stop)
  <2>1. Sound(v) /\ Limited(v, S, K) /\ Len(v.obj) >= Len(w.obj) /\ f[k] = x
    BY <1>1, <1>4
  <2> HIDE DEF v
  <2>2. Len(v.obj) \in Nat
    BY <2>1, WorldTypes DEF Sound, Fits
  <2>3. /\ stop.old \in 0..Len(v.obj) /\ (stop.old = 0 => stop.guid \in 1..MaxPoints)
        /\ stop.old = 0 => stop.guid \in S
    BY <1>2, <2>1, <2>2
  <2> HIDE DEF stop
  <2>4. Sound(x) /\ Len(x.obj) >= Len(v.obj)
    BY <2>1, <2>3, PointDrawn
  <2>5. Limited(x, S, K)
    <3>1. CASE stop.old # 0
      <4>1. x = AddPoint(v, r, stop.old) /\ stop.old \in 1..Len(v.obj)
        BY <2>2, <2>3, <3>1 DEF Draw
      <4> QED
        BY <2>1, <4>1, JoinedLimited
    <3>2. CASE stop.old = 0
      <4> DEFINE rec == [guid |-> stop.guid, pos |-> 1, shared |-> FALSE]
                 o == Object(rec)
                 u == AddRoutePoint(v, o)
      <4>1. rec \in Recs /\ rec.guid \in S
        BY <2>3, <3>2, NavAssumption DEF Recs
      <4>2. x = AddPoint(u, r, Len(v.obj) + 1)
        BY <3>2 DEF Draw
      <4> HIDE DEF rec
      <4>3. o \in Objects /\ ~o.isolated /\ o.guid \in S
        BY <4>1, ObjectOf
      <4> HIDE DEF o
      <4>4. Sound(u) /\ Len(u.obj) = Len(v.obj) + 1 /\ Limited(u, S, K)
        BY <2>1, <4>3, ObjectAdded, AddedLimited
      <4> HIDE DEF u
      <4> QED
        BY <2>2, <4>2, <4>4, JoinedLimited
    <3> QED
      BY <3>1, <3>2
  <2>6. Len(x.obj) \in Nat
    BY <2>4, WorldTypes DEF Sound, Fits
  <2> HIDE DEF x
  <2>7. Len(x.obj) >= Len(w.obj) /\ k \in 0..n
    BY <1>2, <2>1, <2>2, <2>4, <2>6
  <2> QED
    BY <2>1, <2>4, <2>5, <2>7
<1>5. 0..n \subseteq Z
  <2> HIDE DEF Z
  <2> QED
    BY <1>2, <1>3, <1>4, AllSteps
<1> QED
  BY <1>1, <1>2, <1>5

(* The GUIDs of the objects of w are among S.                              *)
GuidsIn(w, S) == \A i \in 1..Len(w.obj) : w.obj[i].guid \in S

(* The fields of a route's record.                                         *)
LEMMA RouteRecordIs ==
    ASSUME NEW w, Sound(w), NEW a, NEW r \in Routes
    PROVE  LET c == Rte(a, w, r) IN
           /\ c.kind = "rte" /\ c.kind # "wpt" /\ c.action = a /\ c.guid = r /\ c.pts = Points(w, r)
           /\ Len(c.pts) = Len(w.pts[r])
           /\ \A k \in 1..Len(c.pts) : /\ w.pts[r][k] \in 1..Len(w.obj)
                                       /\ c.pts[k] = Record(w.obj[w.pts[r][k]])
<1>1. DOMAIN w.pts[r] = 1..Len(w.pts[r]) /\ \A m \in 1..Len(w.pts[r]) : w.pts[r][m] \in 1..Len(w.obj)
  BY WorldTypes DEF Sound, Fits
<1>2. Len(Points(w, r)) = Len(w.pts[r])
  BY RecordsAre
<1>3. \A k \in 1..Len(w.pts[r]) : Points(w, r)[k] = Record(w.obj[w.pts[r][k]])
  BY <1>1 DEF Points
<1> DEFINE c == Rte(a, w, r)
<1>4. c.kind = "rte" /\ c.action = a /\ c.guid = r /\ c.pts = Points(w, r)
  BY DEF Rte
<1> HIDE DEF c
<1>5. c.kind # "wpt"
  BY <1>4
<1>6. /\ c.kind = "rte" /\ c.kind # "wpt" /\ c.action = a /\ c.guid = r /\ c.pts = Points(w, r)
      /\ Len(c.pts) = Len(w.pts[r])
      /\ \A k \in 1..Len(c.pts) : /\ w.pts[r][k] \in 1..Len(w.obj)
                                  /\ c.pts[k] = Record(w.obj[w.pts[r][k]])
  BY <1>1, <1>2, <1>3, <1>4, <1>5
<1> QED
  BY <1>6 DEF c

(* The fields of a mark's record.                                          *)
LEMMA MarkRecordIs ==
    ASSUME NEW w, NEW a, NEW i
    PROVE  LET c == Wpt(a, w, i) IN
           /\ c.kind = "wpt" /\ c.action = a /\ c.guid = w.obj[i].guid
           /\ c.pts[1] = Record(w.obj[i]) /\ c.pts[1].guid = w.obj[i].guid
           /\ c.pts[1].pos = w.obj[i].pos /\ c.pts[1].shared = w.obj[i].shared
BY DEF Wpt, Record

(* RteUpdates writes a record for each of its routes.                      *)
LEMMA UpdatesAre ==
    ASSUME NEW w, Sound(w), NEW rs \in SUBSET Routes
    PROVE  LET recs == RteUpdates(w, rs) IN
           /\ recs \in Seq(Changes) /\ Len(recs) \in Nat
           /\ \A k \in 1..Len(recs) : \E r \in rs : recs[k] = Rte("update", w, r)
           /\ \A r \in rs : \E k \in 1..Len(recs) : recs[k] = Rte("update", w, r)
<1> DEFINE order == Sorted(rs)
           recs == RteUpdates(w, rs)
<1>1. MaxRoutes \in Nat /\ rs \in SUBSET (1..MaxRoutes)
  BY NavAssumption DEF Routes
<1>2. /\ DOMAIN order = 1..Cardinality(rs) /\ Cardinality(rs) \in Nat
      /\ \A k \in 1..Cardinality(rs) : order[k] \in rs
      /\ \A i \in rs : Rank(rs, i) \in 1..Cardinality(rs) /\ order[Rank(rs, i)] = i
  BY <1>1, SortedElements
<1>3. recs = [k \in DOMAIN order |-> Rte("update", w, order[k])]
  BY DEF RteUpdates
<1>4. recs \in Seq(Changes)
  BY RouteRecords
<1> HIDE DEF order, recs
<1>5. DOMAIN recs = 1..Len(recs) /\ DOMAIN recs = DOMAIN order /\ Len(recs) \in Nat
  BY <1>3, <1>4
<1>6. \A k \in 1..Len(recs) : order[k] \in rs /\ recs[k] = Rte("update", w, order[k])
  BY <1>2, <1>3, <1>5
<1>7. \A r \in rs : Rank(rs, r) \in 1..Len(recs) /\ recs[Rank(rs, r)] = Rte("update", w, r)
  BY <1>2, <1>3, <1>5
<1>8. /\ recs \in Seq(Changes) /\ Len(recs) \in Nat
      /\ \A k \in 1..Len(recs) : \E r \in rs : recs[k] = Rte("update", w, r)
      /\ \A r \in rs : \E k \in 1..Len(recs) : recs[k] = Rte("update", w, r)
  BY <1>4, <1>5, <1>6, <1>7
<1> QED
  BY <1>8 DEF recs

(* The records that are written of a limited world.                        *)
LEMMA RecordsLimited ==
    ASSUME NEW w, Sound(w), NEW S, GuidsIn(w, S), NEW K
    PROVE  /\ \A a : \A r \in Routes : r \in K => ChangeLimited(Rte(a, w, r), S, K)
           /\ \A a : \A i \in 1..Len(w.obj) : ChangeLimited(Wpt(a, w, i), S, K)
           /\ \A rs \in SUBSET Routes : rs \subseteq K => LogLimited(RteUpdates(w, rs), S, K)
<1>1. ASSUME NEW a, NEW r \in Routes, r \in K PROVE ChangeLimited(Rte(a, w, r), S, K)
  <2> DEFINE c == Rte(a, w, r)
  <2>1. /\ c.kind # "wpt" /\ c.guid = r
        /\ \A k \in 1..Len(c.pts) : /\ w.pts[r][k] \in 1..Len(w.obj)
                                    /\ c.pts[k] = Record(w.obj[w.pts[r][k]])
    BY RouteRecordIs
  <2> HIDE DEF c
  <2>2. \A k \in 1..Len(c.pts) : c.pts[k].guid \in S
    <3> TAKE k \in 1..Len(c.pts)
    <3>1. w.pts[r][k] \in 1..Len(w.obj) /\ c.pts[k] = Record(w.obj[w.pts[r][k]])
      BY <2>1
    <3>2. c.pts[k].guid = w.obj[w.pts[r][k]].guid
      BY <3>1 DEF Record
    <3> QED
      BY <3>1, <3>2 DEF GuidsIn
  <2>3. ChangeLimited(c, S, K)
    BY <1>1, <2>1, <2>2 DEF ChangeLimited
  <2> QED
    BY <2>3 DEF c
<1>2. ASSUME NEW a, NEW i \in 1..Len(w.obj) PROVE ChangeLimited(Wpt(a, w, i), S, K)
  BY MarkRecordIs DEF ChangeLimited, GuidsIn
<1>3. ASSUME NEW rs \in SUBSET Routes, rs \subseteq K PROVE LogLimited(RteUpdates(w, rs), S, K)
  <2>1. \A k \in 1..Len(RteUpdates(w, rs)) : \E r \in rs : RteUpdates(w, rs)[k] = Rte("update", w, r)
    BY UpdatesAre
  <2> QED
    BY <1>1, <1>3, <2>1 DEF LogLimited
<1> QED
  BY <1>1, <1>2, <1>3

(* Records that are added to the change set.                               *)
LEMMA LogAdded ==
    ASSUME NEW S, NEW K, NEW l \in Seq(Changes), LogLimited(l, S, K), NEW S2, S \subseteq S2, NEW K2, K \subseteq K2,
           NEW recs \in Seq(Changes), LogLimited(recs, S2, K2)
    PROVE  LogLimited(l \o recs, S2, K2)
<1>1. \A k \in 1..Len(l) : ChangeLimited(l[k], S2, K2)
  BY DEF LogLimited, ChangeLimited
<1>2. /\ \A k \in 1..Len(l) : (l \o recs)[k] = l[k]
      /\ \A k \in 1..Len(recs) : (l \o recs)[Len(l) + k] = recs[k]
      /\ \A k \in 1..Len(l \o recs) : k \in 1..Len(l) \/ \E j \in 1..Len(recs) : k = Len(l) + j
  BY Concatenated
<1> QED
  BY <1>1, <1>2 DEF LogLimited

-----------------------------------------------------------------------------
(* The GUIDs that were made *)

(* The GUIDs that points and routes have got so far.                       *)
Guids == 1..made.points
Ids   == 1..made.routes

(* No GUID is in use that was not made.                                    *)
Limits ==
    /\ Limited(nav, Guids, Ids) /\ (file # Torn => DocLimited(file, Guids, Ids))
    /\ LogLimited(log, Guids, Ids)

(* GUIDs are never taken back.                                             *)
LEMMA MadeMore ==
    ASSUME IInv, NEW p, NEW q, p \in 0..MaxPoints, q \in 0..MaxRoutes, p >= made.points, q >= made.routes
    PROVE  /\ Guids \subseteq 1..p /\ Ids \subseteq 1..q /\ 1..q \subseteq Routes /\ Ids \subseteq Routes
           /\ 1..p \subseteq 1..MaxPoints
<1>1. /\ MaxPoints \in Nat /\ MaxRoutes \in Nat
      /\ made.points \in 0..MaxPoints /\ made.routes \in 0..MaxRoutes
  BY NavAssumption DEF IInv, TypeOK
<1> QED
  BY <1>1 DEF Guids, Ids, Routes

(* An edit of a world within the limits.                                   *)
LEMMA EditLimits ==
    ASSUME IInv, Limits, NEW w, Sound(w), NEW records \in Seq(Changes), NEW losses, Edit(w, records, losses),
           made'.points \in 0..MaxPoints, made'.routes \in 0..MaxRoutes,
           made'.points >= made.points, made'.routes >= made.routes,
           Limited(w, Guids', Ids'), LogLimited(records, Guids', Ids')
    PROVE  Limits'
<1>1. /\ nav' = Compact(w, Held(w)) /\ log' = log \o records /\ file' = file
  BY DEF Edit
<1>2. Guids \subseteq Guids' /\ Ids \subseteq Ids'
  BY MadeMore DEF Guids, Ids
<1>3. log \in Seq(Changes)
  BY FileTypes
<1> HIDE DEF Guids, Ids
<1>4. Limited(nav', Guids', Ids')
  <2>1. w \in Worlds
    BY DEF Sound, Fits
  <2>2. Held(w) \in SUBSET (1..Len(w.obj)) /\ \A i \in 1..Len(w.obj) : In(w, i) => i \in Held(w)
    BY <2>1, HeldAre
  <2>3. \A S, K : Limited(w, S, K) => Limited(Compact(w, Held(w)), S, K)
    BY <2>2, CompactLimited
  <2> QED
    BY <1>1, <2>3
<1>5. LogLimited(log', Guids', Ids')
  <2>1. \A S, K, S2, K2 : /\ LogLimited(log, S, K) /\ S \subseteq S2 /\ K \subseteq K2
                          /\ LogLimited(records, S2, K2)
                          => LogLimited(log \o records, S2, K2)
    BY <1>3, LogAdded
  <2>2. LogLimited(log, Guids, Ids)
    BY DEF Limits
  <2>3. LogLimited(log \o records, Guids', Ids')
    BY <1>2, <2>1, <2>2
  <2> QED
    BY <1>1, <2>3
<1>6. file' # Torn => DocLimited(file', Guids', Ids')
  BY <1>1, <1>2 DEF Limits, DocLimited
<1> QED
  BY <1>4, <1>5, <1>6 DEF Limits

(* The routes that have points are among Ids.                              *)
LEMMA LimitsGive ==
    ASSUME Limits
    PROVE  /\ GuidsIn(nav, Guids)
           /\ \A r \in Routes : nav.pts[r] # <<>> => r \in Ids
           /\ \A r \in Routes : \A i : On(nav.pts, r, i) => r \in Ids
<1>1. \A r \in Routes : nav.pts[r] # <<>> => r \in Ids
  BY DEF Limits, Limited
<1>2. ASSUME NEW r \in Routes, NEW i, On(nav.pts, r, i) PROVE nav.pts[r] # <<>>
  <2>1. Len(<<>>) = 0
    OBVIOUS
  <2> QED
    BY <1>2, <2>1 DEF On, Has
<1> QED
  BY <1>1, <1>2 DEF Limits, Limited, GuidsIn

(* Dropping a mark. *)
LEMMA DropMarkIs ==
    ASSUME IInv, DropMark
    PROVE  \E g, o, w, recs :
           /\ phase = "up" /\ Edit(w, recs, {}) /\ g = made.points + 1 /\ g \in 1..MaxPoints
           /\ o \in Objects /\ o.guid = g /\ o.listed /\ o.isolated /\ ~o.inRoute /\ o.pos = 1
           /\ w = AddRoutePoint(nav, o) /\ Sound(w) /\ Len(w.obj) = Len(nav.obj) + 1
           /\ recs \in Seq(Changes) /\ Len(recs) = 1 /\ recs[1] = Wpt("add", w, Len(w.obj))
           /\ Wpt("add", w, Len(w.obj)) \in Changes
           /\ w.obj[Len(w.obj)] = o /\ Len(w.obj) \in 1..Len(w.obj)
           /\ made'.points = g /\ made'.routes = made.routes /\ g \in 0..MaxPoints
<1> DEFINE g == made.points + 1
           o == [Object([guid |-> g, pos |-> 1, shared |-> FALSE]) EXCEPT !.isolated = TRUE]
           w == AddRoutePoint(nav, o)
           n == Len(w.obj)
           recs == <<Wpt("add", w, n)>>
<1>1. Edit(w, recs, {}) /\ phase = "up"
  BY DEF DropMark
<1>2. /\ made.points < MaxPoints /\ made \in [points : 0..MaxPoints, routes : 0..MaxRoutes]
      /\ made' = [made EXCEPT !.points = g] /\ MaxPoints \in Nat
  BY NavAssumption DEF DropMark, IInv, TypeOK
<1>3. g \in 1..MaxPoints /\ g \in 0..MaxPoints /\ made'.points = g /\ made'.routes = made.routes
  BY <1>2
<1>4. [guid |-> g, pos |-> 1, shared |-> FALSE] \in Recs
  BY <1>3, NavAssumption DEF Recs
<1>5. /\ o \in Objects /\ o.isolated /\ ~o.inRoute /\ o.listed
      /\ o.guid = [guid |-> g, pos |-> 1, shared |-> FALSE].guid
      /\ o.pos = [guid |-> g, pos |-> 1, shared |-> FALSE].pos
  BY <1>4, ObjectOf
<1>6. o.guid = g /\ o.pos = 1
  BY <1>5
<1> HIDE DEF o
<1>7. Sound(w) /\ n = Len(nav.obj) + 1 /\ w.obj[Len(nav.obj) + 1] = o
  BY <1>5, InvariantGives, ObjectAdded DEF Belong
<1>8. Len(nav.obj) \in Nat
  BY InvariantGives
<1>9. w = AddRoutePoint(nav, o)
  OBVIOUS
<1> HIDE DEF w
<1>10. n \in 1..n /\ w.obj[n] = o
  BY <1>7, <1>8
<1>11. Wpt("add", w, n) \in Changes
  BY <1>7, <1>10, MarkRecord DEF Actions
<1>12. recs \in Seq(Changes) /\ Len(recs) = 1 /\ recs[1] = Wpt("add", w, n)
  BY <1>11
<1> HIDE DEF recs
<1>13. g = made.points + 1
  OBVIOUS
<1> HIDE DEF g
<1> QED
  BY <1>1, <1>3, <1>5, <1>6, <1>7, <1>9, <1>10, <1>11, <1>12, <1>13

(* DropMark keeps the limits.                                              *)
LEMMA MarkDroppedLimits == IInv /\ Limits /\ DropMark => Limits'
<1> SUFFICES ASSUME IInv, Limits, DropMark PROVE Limits'
  OBVIOUS
<1>1. PICK g, o, w, recs :
           /\ Edit(w, recs, {}) /\ g = made.points + 1 /\ g \in 1..MaxPoints
           /\ o \in Objects /\ o.guid = g /\ o.listed /\ o.isolated /\ ~o.inRoute
           /\ w = AddRoutePoint(nav, o) /\ Sound(w) /\ Len(w.obj) = Len(nav.obj) + 1
           /\ recs \in Seq(Changes) /\ Len(recs) = 1 /\ recs[1] = Wpt("add", w, Len(w.obj))
           /\ w.obj[Len(w.obj)] = o /\ Len(w.obj) \in 1..Len(w.obj)
           /\ made'.points = g /\ made'.routes = made.routes /\ g \in 0..MaxPoints
  BY DropMarkIs
<1>2. made.points \in 0..MaxPoints /\ made.routes \in 0..MaxRoutes /\ MaxRoutes \in Nat /\ MaxPoints \in Nat
  BY NavAssumption DEF IInv, TypeOK
<1>3. Guids \subseteq Guids' /\ Ids \subseteq Ids' /\ g \in Guids'
  BY <1>1, <1>2 DEF Guids, Ids
<1>4. Limited(w, Guids', Ids')
  <2>1. Sound(nav)
    BY InvariantGives DEF Belong
  <2>2. \A S2, K2 : Guids \subseteq S2 /\ Ids \subseteq K2 => Limited(nav, S2, K2)
    BY LimitedMore DEF Limits
  <2>3. \A S2, K2 : Limited(nav, S2, K2) /\ g \in S2 => Limited(w, S2, K2)
    BY <1>1, <2>1, AddedLimited
  <2> HIDE DEF Guids, Ids
  <2> QED
    BY <1>3, <2>2, <2>3
<1>5. LogLimited(recs, Guids', Ids')
  <2>1. \A S : \A K : GuidsIn(w, S) => ChangeLimited(recs[1], S, K)
    BY <1>1, RecordsLimited
  <2>2. GuidsIn(w, Guids')
    BY <1>4 DEF Limited, GuidsIn
  <2>3. ChangeLimited(recs[1], Guids', Ids')
    BY <2>1, <2>2
  <2>4. \A k \in 1..Len(recs) : k = 1
    BY <1>1
  <2> QED
    BY <2>3, <2>4 DEF LogLimited
<1>6. made'.points >= made.points /\ made'.routes >= made.routes
  BY <1>1, <1>2
<1> QED
  BY <1>1, <1>2, <1>4, <1>5, <1>6, EditLimits

(* An edit that makes no GUID.                                             *)
LEMMA EditLimitsSame ==
    ASSUME IInv, Limits, NEW w, Sound(w), NEW records \in Seq(Changes), NEW losses, Edit(w, records, losses),
           made' = made, Limited(w, Guids, Ids), LogLimited(records, Guids, Ids)
    PROVE  Limits'
<1>1. made.points \in 0..MaxPoints /\ made.routes \in 0..MaxRoutes /\ MaxRoutes \in Nat /\ MaxPoints \in Nat
  BY NavAssumption DEF IInv, TypeOK
<1>2. /\ made'.points \in 0..MaxPoints /\ made'.routes \in 0..MaxRoutes
      /\ made'.points >= made.points /\ made'.routes >= made.routes
      /\ Guids' = Guids /\ Ids' = Ids
  BY <1>1 DEF Guids, Ids
<1> QED
  BY <1>2, EditLimits

(* What MovePoint works with and does.                                     *)
Moving(i, o, w, rs, recs, losses) ==
    /\ phase = "up" /\ made' = made /\ i \in 1..Len(nav.obj) /\ rs = Containers(nav, i) /\ rs \in SUBSET Routes
    /\ o \in Objects /\ o.guid = nav.obj[i].guid /\ o.pos = nav.obj[i].pos + 1 /\ o.pos \in 1..MaxVersion
    /\ o.shared = nav.obj[i].shared
    /\ w = Changed(nav, i, o) /\ w = At(nav, i, nav.obj[i].pos + 1)
    /\ Sound(w) /\ w.pts = nav.pts /\ w.look = nav.look /\ Len(w.obj) = Len(nav.obj) /\ w.obj[i] = o
    /\ \A j \in 1..Len(nav.obj) : w.obj[j].guid = nav.obj[j].guid
    /\ recs \in Seq(Changes) /\ Edit(w, recs, losses)
    /\ nav.obj[i].inRoute => recs = RteUpdates(w, rs) /\ losses = Lost("restyled", Styled(nav, rs))
    /\ ~nav.obj[i].inRoute => Len(recs) = 1 /\ recs[1] = Wpt("update", w, i)
    /\ Wpt("update", w, i) \in Changes

(* The parts of MovePoint.                                                 *)
LEMMA MovePointIs ==
    ASSUME IInv, NEW i \in DOMAIN nav.obj, MovePoint(i)
    PROVE  \E o, w, rs, recs, losses : Moving(i, o, w, rs, recs, losses)
<1> DEFINE o == [nav.obj[i] EXCEPT !.pos = @ + 1]
           w == [nav EXCEPT !.obj[i] = o]
           rs == Containers(nav, i)
           one == <<Wpt("update", w, i)>>
           losses == Lost("restyled", Styled(nav, rs))
<1>1. /\ i \in 1..Len(nav.obj) /\ nav.obj[i] \in Objects /\ Sound(nav) /\ rs \in SUBSET Routes
  BY InvariantGives, ContainersAre DEF Belong
<1>2. nav.obj[i].pos < MaxVersion /\ MaxVersion \in Nat /\ phase = "up" /\ made' = made
  BY NavAssumption DEF MovePoint
<1>3. /\ o \in Objects /\ o.guid = nav.obj[i].guid /\ o.listed = nav.obj[i].listed
      /\ o.isolated = nav.obj[i].isolated /\ o.inRoute = nav.obj[i].inRoute
      /\ o.pos = nav.obj[i].pos + 1 /\ o.shared = nav.obj[i].shared /\ o.pos \in 1..MaxVersion
  BY <1>1, <1>2 DEF Objects
<1>4. w = At(nav, i, nav.obj[i].pos + 1)
  BY DEF At
<1>5. IF nav.obj[i].inRoute THEN Edit(w, RteUpdates(w, rs), losses) ELSE Edit(w, one, {})
  BY DEF MovePoint
<1>6. w = Changed(nav, i, o)
  BY DEF Changed
<1>7. rs = Containers(nav, i)
  OBVIOUS
<1> HIDE DEF o, rs
<1> HIDE DEF w
<1>8. /\ Sound(w) /\ w.pts = nav.pts /\ w.look = nav.look /\ Len(w.obj) = Len(nav.obj) /\ w.obj[i] = o
      /\ \A j \in 1..Len(nav.obj) : w.obj[j].guid = nav.obj[j].guid
  <2>1. LET v == Changed(nav, i, o) IN
        /\ Sound(v) /\ v.pts = nav.pts /\ v.look = nav.look /\ Len(v.obj) = Len(nav.obj) /\ v.obj[i] = o
        /\ \A j \in 1..Len(nav.obj) : v.obj[j].guid = nav.obj[j].guid
    BY <1>1, <1>3, ObjectChanged
  <2> QED
    BY <1>6, <2>1
<1>9. RteUpdates(w, rs) \in Seq(Changes)
  BY <1>1, <1>8, RouteRecords
<1>10. Wpt("update", w, i) \in Changes
  BY <1>1, <1>8, MarkRecord DEF Actions
<1>11. one \in Seq(Changes) /\ Len(one) = 1 /\ one[1] = Wpt("update", w, i)
  BY <1>10
<1>12. losses = Lost("restyled", Styled(nav, rs))
  OBVIOUS
<1> HIDE DEF one, losses
<1>13. CASE nav.obj[i].inRoute
  <2>1. Moving(i, o, w, rs, RteUpdates(w, rs), losses)
    BY <1>1, <1>2, <1>3, <1>4, <1>5, <1>6, <1>7, <1>8, <1>9, <1>10, <1>12, <1>13 DEF Moving
  <2> QED
    BY <2>1
<1>14. CASE ~nav.obj[i].inRoute
  <2>1. Moving(i, o, w, rs, one, {})
    BY <1>1, <1>2, <1>3, <1>4, <1>5, <1>6, <1>7, <1>8, <1>10, <1>11, <1>14 DEF Moving
  <2> QED
    BY <2>1
<1> QED
  BY <1>13, <1>14

(* MovePoint keeps the limits.                                             *)
LEMMA PointMovedLimits == ASSUME NEW i \in DOMAIN nav.obj PROVE IInv /\ Limits /\ MovePoint(i) => Limits'
<1> SUFFICES ASSUME IInv, Limits, MovePoint(i) PROVE Limits'
  OBVIOUS
<1>0. PICK o, w, rs, recs, losses : Moving(i, o, w, rs, recs, losses)
  BY MovePointIs
<1>1. /\ made' = made /\ i \in 1..Len(nav.obj) /\ rs = Containers(nav, i) /\ rs \in SUBSET Routes
      /\ Sound(w) /\ w.pts = nav.pts /\ w.look = nav.look /\ Len(w.obj) = Len(nav.obj)
      /\ \A j \in 1..Len(nav.obj) : w.obj[j].guid = nav.obj[j].guid
      /\ recs \in Seq(Changes) /\ Edit(w, recs, losses)
      /\ nav.obj[i].inRoute => recs = RteUpdates(w, rs)
      /\ ~nav.obj[i].inRoute => Len(recs) = 1 /\ recs[1] = Wpt("update", w, i)
  BY <1>0 DEF Moving
<1>2. Limited(w, Guids, Ids) /\ GuidsIn(w, Guids)
  BY <1>1 DEF Limits, Limited, GuidsIn
<1>3. rs \subseteq Ids
  <2>1. \A r \in rs : On(nav.pts, r, i)
    BY <1>1, InvariantGives, ContainersAre
  <2> QED
    BY <1>1, <2>1, LimitsGive
<1>4. LogLimited(recs, Guids, Ids)
  <2> HIDE DEF Guids, Ids
  <2>1. CASE nav.obj[i].inRoute
    BY <1>1, <1>2, <1>3, <2>1, RecordsLimited
  <2>2. CASE ~nav.obj[i].inRoute
    <3>1. ChangeLimited(recs[1], Guids, Ids)
      BY <1>1, <1>2, <2>2, RecordsLimited
    <3>2. \A k \in 1..Len(recs) : k = 1
      <4>1. Len(recs) = 1
        BY <1>1, <2>2
      <4>2. \A k \in 1..1 : k = 1
        OBVIOUS
      <4> QED
        BY <4>1, <4>2, Zenon
    <3> QED
      BY <3>1, <3>2 DEF LogLimited
  <2> QED
    BY <2>1, <2>2
<1> QED
  BY <1>1, <1>2, <1>4, EditLimitsSame

(* The parts of DeleteMark.                                                *)
LEMMA DeleteMarkIs ==
    ASSUME IInv, NEW i \in DOMAIN nav.obj, DeleteMark(i)
    PROVE  \E w, recs :
           /\ phase = "up" /\ made' = made /\ i \in 1..Len(nav.obj) /\ ~In(nav, i)
           /\ w = RemoveRoutePoint(nav, i) /\ Sound(w) /\ Edit(w, recs, {})
           /\ recs \in Seq(Changes) /\ Len(recs) = 1 /\ recs[1] = Wpt("delete", nav, i)
           /\ Wpt("delete", nav, i) \in Changes
<1> DEFINE w == RemoveRoutePoint(nav, i)
           recs == <<Wpt("delete", nav, i)>>
<1>1. /\ i \in 1..Len(nav.obj) /\ Sound(nav)
  BY InvariantGives DEF Belong
<1>2. /\ phase = "up" /\ made' = made /\ Edit(w, recs, {}) /\ Containers(nav, i) = {}
  BY DEF DeleteMark
<1>3. ~In(nav, i)
  BY <1>2, InvariantGives, ContainersAre
<1>4. Sound(w)
  BY <1>1, Unlisted
<1>5. Wpt("delete", nav, i) \in Changes
  BY <1>1, MarkRecord DEF Actions
<1>6. recs \in Seq(Changes) /\ Len(recs) = 1 /\ recs[1] = Wpt("delete", nav, i)
  BY <1>5
<1>7. w = RemoveRoutePoint(nav, i)
  OBVIOUS
<1> HIDE DEF w, recs
<1> QED
  BY <1>1, <1>2, <1>3, <1>4, <1>5, <1>6, <1>7

(* A change set of one record.                                             *)
LEMMA OneRecordLimited ==
    ASSUME NEW recs, Len(recs) = 1, NEW S, NEW K, ChangeLimited(recs[1], S, K)
    PROVE  LogLimited(recs, S, K)
<1>1. \A k \in 1..Len(recs) : k = 1
  OBVIOUS
<1> QED
  BY <1>1 DEF LogLimited

(* DeleteMark keeps the limits.                                            *)
LEMMA MarkDeletedLimits == ASSUME NEW i \in DOMAIN nav.obj PROVE IInv /\ Limits /\ DeleteMark(i) => Limits'
<1> SUFFICES ASSUME IInv, Limits, DeleteMark(i) PROVE Limits'
  OBVIOUS
<1>1. PICK w, recs :
           /\ made' = made /\ i \in 1..Len(nav.obj)
           /\ w = RemoveRoutePoint(nav, i) /\ Sound(w) /\ Edit(w, recs, {})
           /\ recs \in Seq(Changes) /\ Len(recs) = 1 /\ recs[1] = Wpt("delete", nav, i)
  BY DeleteMarkIs
<1>2. Sound(nav)
  BY InvariantGives DEF Belong
<1>3. Limited(w, Guids, Ids)
  <2>1. \A S, K : Limited(nav, S, K) => Limited(w, S, K)
    BY <1>1, <1>2, UnlistedLimited
  <2> QED
    BY <2>1 DEF Limits
<1>4. LogLimited(recs, Guids, Ids)
  <2> HIDE DEF Guids, Ids
  <2>1. ChangeLimited(recs[1], Guids, Ids)
    BY <1>1, <1>2, LimitsGive, RecordsLimited
  <2> QED
    BY <1>1, <2>1, OneRecordLimited
<1> QED
  BY <1>1, <1>3, <1>4, EditLimitsSame

(* The parts of DeletePoint.                                               *)
LEMMA DeletePointIs ==
    ASSUME IInv, NEW i \in DOMAIN nav.obj, DeletePoint(i)
    PROVE  \E v, w, rs, recs, ups, losses :
           /\ phase = "up" /\ made' = made /\ i \in 1..Len(nav.obj) /\ rs = Containers(nav, i) /\ rs \in SUBSET Routes
           /\ rs # {} /\ v = RemovePoint(nav, rs, i) /\ w = DestroyWaypoint(nav, i)
           /\ Sound(v) /\ Len(v.obj) = Len(nav.obj) /\ Sound(w)
           /\ ups = RteUpdates(v, rs) /\ recs = Append(ups, Wpt("delete", v, i)) /\ ups \in Seq(Changes)
           /\ recs \in Seq(Changes) /\ Edit(w, recs, losses) /\ Len(recs) = Len(ups) + 1 /\ Len(ups) \in Nat
           /\ \A k \in 1..Len(ups) : recs[k] = ups[k] /\ k \in 1..Len(recs)
           /\ recs[Len(ups) + 1] = Wpt("delete", v, i) /\ Wpt("delete", v, i) \in Changes
           /\ \A k \in 1..Len(recs) : k \in 1..Len(ups) \/ k = Len(ups) + 1
           /\ losses = Lost("restyled", Styled(nav, rs))
<1> DEFINE v == LeaveRoutes(nav, i)
           rs == Containers(nav, i)
           w == DestroyWaypoint(nav, i)
           ups == RteUpdates(v, rs)
           recs == Append(ups, Wpt("delete", v, i))
           losses == Lost("restyled", Styled(nav, rs))
<1>1. /\ i \in 1..Len(nav.obj) /\ Sound(nav) /\ rs \in SUBSET Routes
  BY InvariantGives, ContainersAre DEF Belong
<1>2. /\ phase = "up" /\ made' = made /\ rs # {}
      /\ Edit(w, recs, losses)
  BY DEF DeletePoint
<1>3. v = RemovePoint(nav, rs, i)
  BY <1>2 DEF LeaveRoutes
<1>4. /\ Sound(v) /\ Len(v.obj) = Len(nav.obj) /\ Sound(w)
  BY <1>1, PointDestroyed
<1>5. w = DestroyWaypoint(nav, i) /\ rs = Containers(nav, i)
  OBVIOUS
<1> HIDE DEF v, w, rs
<1>6. Wpt("delete", v, i) \in Changes
  BY <1>1, <1>4, MarkRecord DEF Actions
<1>7. ups \in Seq(Changes)
  BY <1>1, <1>4, RouteRecords
<1>8. ups = RteUpdates(v, rs)
  OBVIOUS
<1> HIDE DEF ups
<1>9. /\ recs \in Seq(Changes) /\ Len(recs) = Len(ups) + 1 /\ Len(ups) \in Nat
      /\ \A k \in 1..Len(ups) : recs[k] = ups[k]
      /\ recs[Len(ups) + 1] = Wpt("delete", v, i)
      /\ \A k \in 1..Len(recs) : k \in 1..Len(ups) \/ k = Len(ups) + 1
  BY <1>6, <1>7, AppendElements
<1>10. recs = Append(ups, Wpt("delete", v, i)) /\ losses = Lost("restyled", Styled(nav, rs))
  OBVIOUS
<1> HIDE DEF recs, losses
<1>11. \A k \in 1..Len(ups) : k \in 1..Len(recs)
  BY <1>9
<1> QED
  BY <1>1, <1>2, <1>3, <1>4, <1>5, <1>6, <1>7, <1>8, <1>9, <1>10, <1>11

(* DeletePoint keeps the limits.                                           *)
LEMMA PointDeletedLimits == ASSUME NEW i \in DOMAIN nav.obj PROVE IInv /\ Limits /\ DeletePoint(i) => Limits'
<1> SUFFICES ASSUME IInv, Limits, DeletePoint(i) PROVE Limits'
  OBVIOUS
<1>1. PICK v, w, rs, recs, ups, losses :
           /\ made' = made /\ i \in 1..Len(nav.obj) /\ rs = Containers(nav, i) /\ rs \in SUBSET Routes
           /\ v = RemovePoint(nav, rs, i) /\ w = DestroyWaypoint(nav, i)
           /\ Sound(v) /\ Len(v.obj) = Len(nav.obj) /\ Sound(w)
           /\ ups = RteUpdates(v, rs)
           /\ recs \in Seq(Changes) /\ Edit(w, recs, losses)
           /\ \A k \in 1..Len(ups) : recs[k] = ups[k]
           /\ recs[Len(ups) + 1] = Wpt("delete", v, i)
           /\ \A k \in 1..Len(recs) : k \in 1..Len(ups) \/ k = Len(ups) + 1
  BY DeletePointIs
<1>2. Sound(nav)
  BY InvariantGives DEF Belong
<1>3. Limited(w, Guids, Ids)
  <2>1. \A S, K : Limited(nav, S, K) => Limited(w, S, K)
    BY <1>1, <1>2, DestroyedLimited
  <2> QED
    BY <2>1 DEF Limits
<1>4. GuidsIn(v, Guids)
  <2>1. \A j \in 1..Len(nav.obj) : v.obj[j].guid = nav.obj[j].guid
    BY <1>1, <1>2, PointRemoved
  <2> QED
    BY <1>1, <2>1 DEF Limits, Limited, GuidsIn
<1>5. rs \subseteq Ids
  <2>1. \A r \in rs : On(nav.pts, r, i)
    BY <1>1, InvariantGives, ContainersAre
  <2> QED
    BY <1>1, <2>1, LimitsGive
<1>6. LogLimited(recs, Guids, Ids)
  <2> HIDE DEF Guids, Ids
  <2>1. LogLimited(ups, Guids, Ids) /\ ChangeLimited(Wpt("delete", v, i), Guids, Ids)
    BY <1>1, <1>4, <1>5, RecordsLimited
  <2> QED
    BY <1>1, <2>1 DEF LogLimited
<1> QED
  BY <1>1, <1>3, <1>6, EditLimitsSame

(* What DrawIn works with and does.                                        *)
Drawing(base, losses, n, s, r, fresh, c, stops, w, recs) ==
    /\ phase = "up" /\ n \in Nat /\ n >= 2 /\ Len(stops) = n /\ r = made.routes + 1 /\ r \in Routes
    /\ c \in Nat /\ made.points + c <= MaxPoints
    /\ made'.points = made.points + c /\ made'.routes = r
    /\ fresh \in SUBSET (1..n) /\ \A k \in 1..n : k \in fresh <=> s[k] = 0
    /\ \A k \in fresh : Rank(fresh, k) \in 1..c
    /\ \A k, m \in fresh : Rank(fresh, k) = Rank(fresh, m) => k = m
    /\ \A j \in 1..c : \E k \in fresh : Rank(fresh, k) = j
    /\ \A k \in 1..n : stops[k].old = s[k] /\ stops[k].guid = made.points + Rank(fresh, k)
    /\ \A k, m \in 1..n : s[k] # 0 /\ s[m] # 0 /\ k # m => s[k] # s[m]
    /\ \A k \in 1..n : /\ stops[k].old \in 0..Len(base.obj)
                       /\ stops[k].old = 0 => stops[k].guid \in 1..MaxPoints
    /\ w = DrawThrough(base, r, stops) /\ Sound(w) /\ Len(w.pts[r]) = Len(base.pts[r]) + n
    /\ \A q \in Routes : q # r => w.pts[q] = base.pts[q]
    /\ recs \in Seq(Changes) /\ Len(recs) = 1 /\ recs[1] = Rte("add", w, r) /\ Edit(w, recs, losses)
    /\ Rte("add", w, r) \in Changes

(* The parts of DrawIn.                                                    *)
LEMMA DrawInIs ==
    ASSUME IInv, NEW base, Sound(base), NEW losses, NEW n \in Sizes,
           NEW s \in [1..n -> 0..Len(base.obj)], DrawIn(base, s, losses)
    PROVE  \E r, fresh, c, stops, w, recs : Drawing(base, losses, n, s, r, fresh, c, stops, w, recs)
<1> DEFINE r == made.routes + 1
           fresh == {k \in DOMAIN s : s[k] = 0}
           old == {k \in DOMAIN s : s[k] # 0}
           stops == [k \in DOMAIN s |-> [old |-> s[k], guid |-> made.points + Rank(fresh, k)]]
           w == DrawThrough(base, r, stops)
           c == Cardinality(fresh)
           recs == <<Rte("add", w, r)>>
<1>1. /\ made.routes < MaxRoutes /\ made.points + c <= MaxPoints /\ phase = "up"
      /\ Edit(w, recs, losses) /\ \A k, m \in old : k # m => s[k] # s[m]
      /\ made' = [points |-> made.points + c, routes |-> r]
  BY DEF DrawIn
<1>2. n \in Nat /\ n >= 2 /\ DOMAIN s = 1..n
  BY DEF Sizes
<1>3. fresh \in SUBSET (1..n)
  BY <1>2
<1>4. \A k \in 1..n : k \in fresh <=> s[k] = 0
  BY <1>2
<1>5. \A k, m \in 1..n : s[k] # 0 /\ s[m] # 0 /\ k # m => s[k] # s[m]
  BY <1>1, <1>2
<1>6. /\ MaxPoints \in Nat /\ MaxRoutes \in Nat
      /\ made.points \in 0..MaxPoints /\ made.routes \in 0..MaxRoutes
  BY NavAssumption DEF IInv, TypeOK
<1>7. \A k \in 1..n : stops[k] = [old |-> s[k], guid |-> made.points + Rank(fresh, k)]
  BY <1>2
<1>8. stops = [k \in 1..n |-> [old |-> s[k], guid |-> made.points + Rank(fresh, k)]]
  BY <1>2
<1> HIDE DEF fresh, stops
<1>9. /\ c \in Nat /\ \A k \in fresh : Rank(fresh, k) \in 1..c /\ Sorted(fresh)[Rank(fresh, k)] = k
      /\ \A j \in 1..c : Sorted(fresh)[j] \in fresh /\ Rank(fresh, Sorted(fresh)[j]) = j
  BY <1>2, <1>3, SortedElements
<1>10. /\ \A k, m \in fresh : Rank(fresh, k) = Rank(fresh, m) => k = m
       /\ \A j \in 1..c : \E k \in fresh : Rank(fresh, k) = j
  BY <1>9
<1>11. made'.points = made.points + c /\ made'.routes = r /\ r \in Routes
  BY <1>1, <1>6 DEF Routes
<1> HIDE DEF c
<1>12. Len(stops) = n
  BY <1>2, <1>8
<1>13. \A k \in 1..n : stops[k].old = s[k] /\ stops[k].guid = made.points + Rank(fresh, k)
  <2> TAKE k \in 1..n
  <2>1. stops[k] = [old |-> s[k], guid |-> made.points + Rank(fresh, k)]
    BY <1>7, Zenon
  <2> HIDE DEF DrawIn
  <2> QED
    BY <2>1
<1>14. \A k \in 1..n : /\ stops[k].old \in 0..Len(base.obj)
                       /\ stops[k].old = 0 => stops[k].guid \in 1..MaxPoints
  <2> SUFFICES ASSUME NEW k \in 1..n
               PROVE  /\ stops[k].old \in 0..Len(base.obj)
                      /\ stops[k].old = 0 => stops[k].guid \in 1..MaxPoints
    OBVIOUS
  <2>1. stops[k].old = s[k] /\ s[k] \in 0..Len(base.obj) /\ stops[k].guid = made.points + Rank(fresh, k)
    BY <1>13
  <2>2. ASSUME s[k] = 0 PROVE made.points + Rank(fresh, k) \in 1..MaxPoints
    <3>1. Rank(fresh, k) \in 1..c
      BY <1>4, <1>9, <2>2
    <3> QED
      BY <1>1, <1>6, <1>9, <3>1
  <2> QED
    BY <2>1, <2>2
<1>15. r = made.routes + 1 /\ w = DrawThrough(base, r, stops)
  OBVIOUS
<1> HIDE DEF r
<1>16. Sound(w) /\ Len(w.pts[r]) = Len(base.pts[r]) + n /\ \A q \in Routes : q # r => w.pts[q] = base.pts[q]
  <2>2. /\ Sound(w) /\ Len(w.pts[r]) = Len(base.pts[r]) + Len(stops)
        /\ \A q \in Routes : q # r => w.pts[q] = base.pts[q]
    <3>1. \A k \in 1..Len(stops) : /\ stops[k].old \in 0..Len(base.obj)
                                   /\ stops[k].old = 0 => stops[k].guid \in 1..MaxPoints
      BY <1>12, <1>14
    <3>2. Len(stops) \in Nat /\ r \in Routes
      BY <1>2, <1>11, <1>12
    <3> QED
      BY <3>1, <3>2, PointsDrawn
  <2> HIDE DEF w
  <2> QED
    BY <1>12, <2>2
<1> HIDE DEF w
<1>17. Rte("add", w, r) \in Changes
  BY <1>11, <1>16, RecordsAre DEF Actions
<1>18. recs \in Seq(Changes) /\ Len(recs) = 1 /\ recs[1] = Rte("add", w, r)
  BY <1>17
<1> HIDE DEF recs
<1>19. Drawing(base, losses, n, s, r, fresh, c, stops, w, recs)
  BY <1>1, <1>2, <1>3, <1>4, <1>5, <1>9, <1>10, <1>11, <1>12, <1>13, <1>14, <1>15, <1>16, <1>17, <1>18 DEF Drawing
<1> QED
  BY <1>19

(* DrawIn keeps the limits.                                                *)
LEMMA DrawnInLimits ==
    ASSUME IInv, Limits, NEW base, Sound(base), Limited(base, Guids, Ids), NEW losses,
           NEW n \in Sizes, NEW s \in [1..n -> 0..Len(base.obj)], DrawIn(base, s, losses)
    PROVE  Limits' /\ Guids \subseteq Guids'
<1>0. PICK r, fresh, c, stops, w, recs : Drawing(base, losses, n, s, r, fresh, c, stops, w, recs)
  BY DrawInIs
<1>1. /\ n \in Nat /\ n >= 2 /\ Len(stops) = n /\ r = made.routes + 1 /\ r \in Routes
      /\ c \in Nat /\ made.points + c <= MaxPoints
      /\ made'.points = made.points + c /\ made'.routes = r
      /\ \A k \in 1..n : k \in fresh <=> s[k] = 0
      /\ \A k \in fresh : Rank(fresh, k) \in 1..c
      /\ \A k \in 1..n : stops[k].old = s[k] /\ stops[k].guid = made.points + Rank(fresh, k)
      /\ \A k \in 1..n : /\ stops[k].old \in 0..Len(base.obj)
                         /\ stops[k].old = 0 => stops[k].guid \in 1..MaxPoints
      /\ w = DrawThrough(base, r, stops) /\ Sound(w)
      /\ recs \in Seq(Changes) /\ Len(recs) = 1 /\ recs[1] = Rte("add", w, r) /\ Edit(w, recs, losses)
  BY <1>0 DEF Drawing
<1>2. made.points \in 0..MaxPoints /\ made.routes \in 0..MaxRoutes /\ MaxRoutes \in Nat /\ MaxPoints \in Nat
  BY NavAssumption DEF IInv, TypeOK
<1>3. /\ made'.points \in 0..MaxPoints /\ made'.routes \in 0..MaxRoutes
      /\ made'.points >= made.points /\ made'.routes >= made.routes
  BY <1>1, <1>2 DEF Routes
<1>4. Guids \subseteq Guids' /\ Ids \subseteq Ids' /\ r \in Ids'
  BY <1>1, <1>2 DEF Guids, Ids
<1>5. \A k \in 1..n : stops[k].old = 0 => stops[k].guid \in Guids'
  <2> SUFFICES ASSUME NEW k \in 1..n, stops[k].old = 0 PROVE stops[k].guid \in Guids'
    OBVIOUS
  <2>1. Rank(fresh, k) \in 1..c /\ stops[k].guid = made.points + Rank(fresh, k)
    BY <1>1
  <2> QED
    BY <1>1, <1>2, <2>1 DEF Guids
<1> HIDE DEF Guids, Ids
<1>6. Limited(w, Guids', Ids')
  <2>1. \A S2, K2 : Guids \subseteq S2 /\ Ids \subseteq K2 => Limited(base, S2, K2)
    BY LimitedMore
  <2>3. \A S, K : Limited(base, S, K) /\ r \in K /\ (\A k \in 1..n : stops[k].old = 0 => stops[k].guid \in S)
           => Limited(w, S, K)
    <3> SUFFICES ASSUME NEW S, NEW K, Limited(base, S, K), r \in K,
                        \A k \in 1..n : stops[k].old = 0 => stops[k].guid \in S
                 PROVE  Limited(w, S, K)
      OBVIOUS
    <3> QED
      BY <1>1, DrawnLimited
  <2> QED
    BY <1>4, <1>5, <2>1, <2>3
<1>7. LogLimited(recs, Guids', Ids')
  <2>1. GuidsIn(w, Guids')
    BY <1>6 DEF Limited, GuidsIn
  <2>2. \A S, K : GuidsIn(w, S) /\ r \in K => ChangeLimited(recs[1], S, K)
    <3>1. Sound(w) /\ r \in Routes /\ recs[1] = Rte("add", w, r)
      BY <1>1
    <3>2. ASSUME NEW S, NEW K, GuidsIn(w, S), r \in K PROVE ChangeLimited(Rte("add", w, r), S, K)
      <4>1. \A a : \A q \in Routes : q \in K => ChangeLimited(Rte(a, w, q), S, K)
        BY <3>1, <3>2, RecordsLimited
      <4> QED
        BY <3>1, <3>2, <4>1
    <3> QED
      BY <3>1, <3>2
  <2>3. ChangeLimited(recs[1], Guids', Ids')
    BY <1>4, <2>1, <2>2
  <2>4. \A k \in 1..Len(recs) : k = 1
    BY <1>1
  <2> QED
    BY <2>3, <2>4 DEF LogLimited
<1> QED
  BY <1>1, <1>3, <1>4, <1>6, <1>7, EditLimits

LEMMA RouteDrawnLimits ==
    ASSUME NEW n \in Sizes, NEW s \in [1..n -> 0..Len(nav.obj)]
    PROVE  IInv /\ Limits /\ DrawRoute(s) => Limits' /\ Guids \subseteq Guids'
<1> SUFFICES ASSUME IInv, Limits, DrawRoute(s) PROVE Limits' /\ Guids \subseteq Guids'
  OBVIOUS
<1>1. Sound(nav) /\ Limited(nav, Guids, Ids) /\ DrawIn(nav, s, {})
  BY InvariantGives DEF Belong, Limits, DrawRoute
<1> QED
  BY <1>1, DrawnInLimits

(* A point that a replay left over has a GUID that was made.               *)
StraysMade == \A k \in 1..Len(strays) : strays[k].guid \in Guids

(* A world to which such points are added is within the limits.            *)
LEMMA StraysDrawnLimits ==
    ASSUME NEW J \in SUBSET DOMAIN strays, NEW n \in Sizes,
           NEW s \in [1..n -> 0..Len(nav.obj) + Cardinality(J)]
    PROVE  IInv /\ Limits /\ StraysMade /\ DrawThroughStrays(J, s) => Limits' /\ Guids \subseteq Guids'
<1> SUFFICES ASSUME IInv, Limits, StraysMade, DrawThroughStrays(J, s)
             PROVE  Limits' /\ Guids \subseteq Guids'
  OBVIOUS
<1> DEFINE base == Joined(nav, Taken(J))
           c == Cardinality(J)
<1>1. DrawIn(base, s, {"reused"})
  BY DEF DrawThroughStrays, Joined
<1>2. /\ Sound(base) /\ base.pts = nav.pts /\ base.look = nav.look
      /\ Len(base.obj) = Len(nav.obj) + c
      /\ \A j \in 1..Len(nav.obj) : base.obj[j] = nav.obj[j]
      /\ \A j \in 1..Len(base.obj) : j \in 1..Len(nav.obj) \/ \E k \in 1..c : j = Len(nav.obj) + k
      /\ \A k \in 1..c : \E i \in J : base.obj[Len(nav.obj) + k].guid = strays[i].guid
  BY StraysJoined
<1>3. J \in SUBSET (1..Len(strays))
  BY InvariantGives DEF StraysOK
<1> HIDE DEF base, c
<1> HIDE DEF Guids, Ids
<1>4. Limited(base, Guids, Ids)
  <2>1. ASSUME NEW j \in 1..Len(base.obj) PROVE base.obj[j].guid \in Guids
    <3>1. CASE j \in 1..Len(nav.obj)
      BY <1>2, <3>1 DEF Limits, Limited
    <3>2. CASE \E k \in 1..c : j = Len(nav.obj) + k
      <4>1. PICK i \in J : base.obj[j].guid = strays[i].guid
        BY <1>2, <3>2
      <4> QED
        BY <1>3, <4>1 DEF StraysMade
    <3> QED
      BY <1>2, <3>1, <3>2
  <2> QED
    BY <1>2, <2>1 DEF Limits, Limited
<1>5. s \in [1..n -> 0..Len(base.obj)]
  BY <1>2 DEF c
<1> QED
  BY <1>1, <1>2, <1>4, <1>5, DrawnInLimits

(* Deleting such a point.                                                  *)
LEMMA StrayDeletedLimits ==
    ASSUME NEW j \in DOMAIN strays
    PROVE  IInv /\ Limits /\ StraysMade /\ DeleteStray(j) => Limits'
<1> SUFFICES ASSUME IInv, Limits, StraysMade, DeleteStray(j) PROVE Limits'
  OBVIOUS
<1> DEFINE w == AddRoutePoint(nav, strays[j])
           recs == <<Wpt("delete", w, Len(w.obj))>>
<1>1. Edit(nav, recs, {"reused"}) /\ made' = made
  BY DEF DeleteStray
<1>2. /\ Sound(nav) /\ Limited(nav, Guids, Ids) /\ Len(nav.obj) \in Nat
      /\ j \in 1..Len(strays) /\ strays[j] \in Objects /\ ~strays[j].isolated
  BY InvariantGives DEF Belong, Limits, StraysOK
<1>3. strays[j].guid \in Guids
  BY <1>2 DEF StraysMade
<1>4. Sound(w) /\ Len(w.obj) = Len(nav.obj) + 1
  BY <1>2, ObjectAdded
<1>5. Limited(w, Guids, Ids)
  <2>1. \A S, K : Limited(nav, S, K) /\ strays[j].guid \in S => Limited(w, S, K)
    BY <1>2, AddedLimited
  <2> QED
    BY <1>2, <1>3, <2>1
<1> HIDE DEF w, Guids, Ids
<1>6. Len(w.obj) \in 1..Len(w.obj)
  BY <1>2, <1>4
<1>7. Wpt("delete", w, Len(w.obj)) \in Changes
  BY <1>4, <1>6, MarkRecord DEF Actions
<1>8. recs \in Seq(Changes) /\ Len(recs) = 1 /\ recs[1] = Wpt("delete", w, Len(w.obj))
  BY <1>7
<1> HIDE DEF recs
<1>9. LogLimited(recs, Guids, Ids)
  <2>1. \A S, K : GuidsIn(w, S) => ChangeLimited(recs[1], S, K)
    BY <1>4, <1>6, <1>8, RecordsLimited
  <2>2. GuidsIn(w, Guids)
    BY <1>5 DEF Limited, GuidsIn
  <2>3. ChangeLimited(recs[1], Guids, Ids)
    BY <2>1, <2>2
  <2>4. \A k \in 1..Len(recs) : k = 1
    BY <1>8
  <2> QED
    BY <2>3, <2>4 DEF LogLimited
<1> QED
  BY <1>1, <1>2, <1>8, <1>9, EditLimitsSame

(* RestyleRoute keeps the limits.                                          *)
LEMMA RouteRestyledLimits == ASSUME NEW r \in Routes PROVE IInv /\ Limits /\ RestyleRoute(r) => Limits'
<1> SUFFICES ASSUME IInv, Limits, RestyleRoute(r) PROVE Limits'
  OBVIOUS
<1> DEFINE w == [nav EXCEPT !.look[r] = 1]
           recs == <<Rte("update", w, r)>>
<1>1. Edit(w, recs, {"restyled"}) /\ made' = made /\ nav.pts[r] # <<>>
  BY DEF RestyleRoute
<1>2. Sound(nav) /\ nav \in Worlds
  BY InvariantGives DEF Belong
<1>3. w.obj = nav.obj /\ w.pts = nav.pts /\ \A q \in Routes : q # r => w.look[q] = nav.look[q]
  BY <1>2 DEF Worlds
<1>4. Sound(w)
  BY <1>2, LookChanged
<1> HIDE DEF w
<1>5. Rte("update", w, r) \in Changes
  BY <1>4, RecordsAre DEF Actions
<1>6. recs \in Seq(Changes) /\ Len(recs) = 1 /\ recs[1] = Rte("update", w, r)
  BY <1>5
<1> HIDE DEF recs, Guids, Ids
<1>7. Limited(w, Guids, Ids) /\ GuidsIn(w, Guids)
  BY <1>1, <1>3 DEF Limits, Limited, GuidsIn
<1>8. ChangeLimited(recs[1], Guids, Ids)
  BY <1>1, <1>4, <1>6, <1>7, LimitsGive, RecordsLimited
<1>9. LogLimited(recs, Guids, Ids)
  BY <1>6, <1>8, OneRecordLimited
<1> QED
  BY <1>1, <1>4, <1>6, <1>7, <1>9, EditLimitsSame

(* What TakeOutPoint works with and does.                                  *)
Taking(r, i, w, v, recs, losses) ==
    /\ phase = "up" /\ made' = made /\ i \in 1..Len(nav.obj) /\ On(nav.pts, r, i)
    /\ w = RemovePoint(nav, {r}, i) /\ v = DropRoute(w, r) /\ Sound(w) /\ Sound(v)
    /\ Len(w.obj) = Len(nav.obj) /\ w.pts[r] = Without(nav.pts[r], i) /\ Len(w.pts[r]) \in Nat
    /\ Rte("update", w, r) \in Changes /\ Rte("delete", w, r) \in Changes /\ recs \in Seq(Changes)
    /\ losses = Lost("taken", ~nav.obj[i].shared /\ Containers(nav, i) = {r})
              \cup Lost("restyled", Styled(nav, {r}))
    /\ Len(w.pts[r]) <= 1 =>
          /\ Edit(v, recs, losses) /\ Len(recs) = 3 /\ recs[1] = Rte("update", w, r)
          /\ recs[2] = Rte("delete", w, r) /\ recs[3] = Rte("delete", w, r)
    /\ ~(Len(w.pts[r]) <= 1) => Edit(w, recs, losses) /\ Len(recs) = 1 /\ recs[1] = Rte("update", w, r)

(* The parts of TakeOutPoint.                                              *)
LEMMA TakeOutPointIs ==
    ASSUME IInv, NEW r \in Routes, NEW i \in DOMAIN nav.obj, TakeOutPoint(r, i)
    PROVE  \E w, v, recs, losses : Taking(r, i, w, v, recs, losses)
<1> DEFINE w == RemovePoint(nav, {r}, i)
           v == DropRoute(w, r)
           losses == Lost("taken", ~nav.obj[i].shared /\ Containers(nav, i) = {r})
                     \cup Lost("restyled", Styled(nav, {r}))
           three == <<Rte("update", w, r), Rte("delete", w, r), Rte("delete", w, r)>>
           one == <<Rte("update", w, r)>>
<1>1. /\ Sound(nav) /\ i \in 1..Len(nav.obj) /\ nav \in Worlds
  BY InvariantGives DEF Belong
<1>2. /\ made' = made /\ phase = "up" /\ i \in Range(nav.pts[r])
      /\ IF Len(w.pts[r]) <= 1 THEN Edit(v, three, losses) ELSE Edit(w, one, losses)
  BY DEF TakeOutPoint
<1>3. On(nav.pts, r, i)
  <2>1. r \in Containers(nav, i)
    BY <1>2 DEF Containers
  <2> QED
    BY <1>1, <2>1, ContainersAre
<1>4. losses = Lost("taken", ~nav.obj[i].shared /\ Containers(nav, i) = {r})
                     \cup Lost("restyled", Styled(nav, {r}))
  OBVIOUS
<1> HIDE DEF losses
<1>5. /\ Sound(w) /\ Len(w.obj) = Len(nav.obj) /\ w.pts[r] = Without(nav.pts[r], i)
  BY <1>1, PointRemoved
<1>6. w = RemovePoint(nav, {r}, i)
  OBVIOUS
<1> HIDE DEF w
<1>7. Sound(v)
  BY <1>5, RoutesDropped DEF DropRoute
<1>8. v = DropRoute(w, r)
  OBVIOUS
<1> HIDE DEF v
<1>9. Rte("update", w, r) \in Changes /\ Rte("delete", w, r) \in Changes
  BY <1>5, RecordsAre DEF Actions
<1>10. /\ three \in Seq(Changes) /\ Len(three) = 3 /\ three[1] = Rte("update", w, r)
       /\ three[2] = Rte("delete", w, r) /\ three[3] = Rte("delete", w, r)
       /\ one \in Seq(Changes) /\ Len(one) = 1 /\ one[1] = Rte("update", w, r)
  BY <1>9
<1> HIDE DEF three, one
<1>11. Len(w.pts[r]) \in Nat
  BY <1>5, WorldTypes DEF Sound, Fits
<1>12. CASE Len(w.pts[r]) <= 1
  <2>1. Taking(r, i, w, v, three, losses)
    BY <1>1, <1>2, <1>3, <1>4, <1>5, <1>6, <1>7, <1>8, <1>9, <1>10, <1>11, <1>12 DEF Taking
  <2> QED
    BY <2>1
<1>13. CASE ~(Len(w.pts[r]) <= 1)
  <2>1. Taking(r, i, w, v, one, losses)
    BY <1>1, <1>2, <1>3, <1>4, <1>5, <1>6, <1>7, <1>8, <1>9, <1>10, <1>11, <1>13 DEF Taking
  <2> QED
    BY <2>1
<1> QED
  BY <1>12, <1>13

(* TakeOutPoint keeps the limits.                                          *)
LEMMA PointTakenOutLimits ==
    ASSUME NEW r \in Routes, NEW i \in DOMAIN nav.obj
    PROVE  IInv /\ Limits /\ TakeOutPoint(r, i) => Limits'
<1> SUFFICES ASSUME IInv, Limits, TakeOutPoint(r, i) PROVE Limits'
  OBVIOUS
<1>0. PICK w, v, recs, losses : Taking(r, i, w, v, recs, losses)
  BY TakeOutPointIs
<1>1. /\ made' = made /\ i \in 1..Len(nav.obj) /\ On(nav.pts, r, i)
      /\ w = RemovePoint(nav, {r}, i) /\ v = DropRoute(w, r) /\ Sound(w) /\ Sound(v)
      /\ Len(w.obj) = Len(nav.obj) /\ w.pts[r] = Without(nav.pts[r], i) /\ Len(w.pts[r]) \in Nat
      /\ recs \in Seq(Changes)
      /\ Len(w.pts[r]) <= 1 =>
            /\ Edit(v, recs, losses) /\ Len(recs) = 3 /\ recs[1] = Rte("update", w, r)
            /\ recs[2] = Rte("delete", w, r) /\ recs[3] = Rte("delete", w, r)
      /\ ~(Len(w.pts[r]) <= 1) => Edit(w, recs, losses) /\ Len(recs) = 1 /\ recs[1] = Rte("update", w, r)
  BY <1>0 DEF Taking
<1>2. Sound(nav)
  BY InvariantGives DEF Belong
<1>3. /\ w.look = nav.look /\ \A j \in 1..Len(nav.obj) : w.obj[j].guid = nav.obj[j].guid
      /\ \A q \in Routes : w.pts[q] = IF q \in {r} THEN Without(nav.pts[q], i) ELSE nav.pts[q]
  BY <1>1, <1>2, PointRemoved
<1>4. r \in Ids
  BY <1>1, LimitsGive
<1>5. GuidsIn(w, Guids)
  BY <1>1, <1>3 DEF Limits, Limited, GuidsIn
<1> HIDE DEF Guids, Ids
<1>6. \A a : ChangeLimited(Rte(a, w, r), Guids, Ids)
  BY <1>1, <1>4, <1>5, RecordsLimited
<1>7. CASE Len(w.pts[r]) <= 1
  <2>1. \A q \in Routes : q \in {r} /\ RemovePoint(nav, {r}, i).pts[q] = <<>> => q \in {r}
    OBVIOUS
  <2>2. Limited(v, Guids, Ids)
    <3>1. \A S, K : Limited(nav, S, K) => Limited(DropRoutes(RemovePoint(nav, {r}, i), {r}), S, K)
      BY <1>1, <1>2, <2>1, RemovedLimited
    <3>2. v = DropRoutes(RemovePoint(nav, {r}, i), {r})
      BY <1>1 DEF DropRoute
    <3> QED
      BY <3>1, <3>2 DEF Limits
  <2>3. LogLimited(recs, Guids, Ids)
    <3>1. \A k \in 1..Len(recs) : k = 1 \/ k = 2 \/ k = 3
      <4>1. Len(recs) = 3
        BY <1>1, <1>7
      <4>2. \A k \in 1..3 : k = 1 \/ k = 2 \/ k = 3
        OBVIOUS
      <4> QED
        BY <4>1, <4>2, Zenon
    <3> QED
      BY <1>1, <1>6, <1>7, <3>1 DEF LogLimited
  <2> QED
    BY <1>1, <1>7, <2>2, <2>3, EditLimitsSame
<1>8. CASE ~(Len(w.pts[r]) <= 1)
  <2>1. Limited(w, Guids, Ids)
    <3>1. w.pts[r] # <<>>
      <4>1. Len(<<>>) = 0
        OBVIOUS
      <4> QED
        BY <1>8, <4>1
    <3>2. \A q \in Routes : q \notin Ids => w.pts[q] = <<>>
      BY <1>3, <1>4 DEF Limits, Limited
    <3>3. \A q \in Routes : w.pts[q] = <<>> => w.look[q] = 0
      BY <1>3, <3>1 DEF Limits, Limited
    <3> QED
      BY <1>5, <3>2, <3>3 DEF Limited, GuidsIn
  <2>2. LogLimited(recs, Guids, Ids)
    BY <1>1, <1>6, <1>8, OneRecordLimited
  <2> QED
    BY <1>1, <1>8, <2>1, <2>2, EditLimitsSame
<1> QED
  BY <1>7, <1>8

(* The parts of DeleteRoute.                                               *)
LEMMA DeleteRouteIs ==
    ASSUME IInv, NEW r \in Routes, DeleteRoute(r)
    PROVE  \E w, recs :
           /\ phase = "up" /\ made' = made /\ nav.pts[r] # <<>> /\ w = DropRoute(nav, r) /\ Sound(w)
           /\ recs \in Seq(Changes) /\ Len(recs) = 1 /\ recs[1] = Rte("delete", nav, r)
           /\ Rte("delete", nav, r) \in Changes /\ Edit(w, recs, {})
<1> DEFINE w == DropRoute(nav, r)
           recs == <<Rte("delete", nav, r)>>
<1>1. Edit(w, recs, {}) /\ made' = made /\ phase = "up" /\ nav.pts[r] # <<>>
  BY DEF DeleteRoute
<1>2. Sound(w)
  BY DroppedKept DEF DropRoute
<1>3. Rte("delete", nav, r) \in Changes
  BY InvariantGives, RecordsAre DEF Belong, Actions
<1>4. recs \in Seq(Changes) /\ Len(recs) = 1 /\ recs[1] = Rte("delete", nav, r)
  BY <1>3
<1>5. w = DropRoute(nav, r)
  OBVIOUS
<1> HIDE DEF w, recs
<1> QED
  BY <1>1, <1>2, <1>3, <1>4, <1>5

(* DeleteRoute keeps the limits.                                           *)
LEMMA RouteDeletedLimits == ASSUME NEW r \in Routes PROVE IInv /\ Limits /\ DeleteRoute(r) => Limits'
<1> SUFFICES ASSUME IInv, Limits, DeleteRoute(r) PROVE Limits'
  OBVIOUS
<1>1. PICK w, recs :
           /\ made' = made /\ nav.pts[r] # <<>> /\ w = DropRoute(nav, r) /\ Sound(w)
           /\ recs \in Seq(Changes) /\ Len(recs) = 1 /\ recs[1] = Rte("delete", nav, r)
           /\ Edit(w, recs, {})
  BY DeleteRouteIs
<1>2. Sound(nav)
  BY InvariantGives DEF Belong
<1> HIDE DEF Guids, Ids
<1>3. Limited(w, Guids, Ids)
  <2>1. \A S, K : Limited(nav, S, K) => Limited(w, S, K)
    BY <1>1, <1>2, DroppedLimited DEF DropRoute
  <2> QED
    BY <2>1 DEF Limits
<1>4. ChangeLimited(recs[1], Guids, Ids)
  BY <1>1, <1>2, LimitsGive, RecordsLimited
<1>5. LogLimited(recs, Guids, Ids)
  BY <1>1, <1>4, OneRecordLimited
<1> QED
  BY <1>1, <1>3, <1>5, EditLimitsSame

(* DeleteAllRoutes keeps the limits.                                       *)
LEMMA AllRoutesDeletedLimits == IInv /\ Limits /\ DeleteAllRoutes => Limits'
<1> SUFFICES ASSUME IInv, Limits, DeleteAllRoutes PROVE Limits'
  OBVIOUS
<1> DEFINE w == DropRoutes(nav, Routes)
           recs == <<>>
<1>1. Edit(w, recs, {"wiped"}) /\ made' = made
  BY DEF DeleteAllRoutes
<1>2. Sound(w) /\ Sound(nav)
  BY DroppedKept, InvariantGives DEF Belong
<1>3. Limited(w, Guids, Ids)
  <2>1. \A S, K : Limited(nav, S, K) => Limited(w, S, K)
    BY <1>2, DroppedLimited
  <2> QED
    BY <2>1 DEF Limits
<1>4. recs \in Seq(Changes) /\ Len(recs) = 0
  OBVIOUS
<1> HIDE DEF w, recs
<1>5. LogLimited(recs, Guids, Ids)
  BY <1>4 DEF LogLimited
<1> QED
  BY <1>1, <1>2, <1>3, <1>4, <1>5, EditLimitsSame

(* A save, whole or cut short, keeps the limits.                           *)
LEMMA SavingLimits ==
    ASSUME IInv, Limits, StartSave \/ FinishWrite \/ RemoveChanges \/ Crash
    PROVE  Limits'
<1>1. /\ made' = made /\ nav' = nav /\ log' \in {log, <<>>}
      /\ file' = file \/ file' = Torn \/ file' = CreateAllGPXObjects(nav)
  BY DEF StartSave, FinishWrite, RemoveChanges, Crash
<1>2. Guids' = Guids /\ Ids' = Ids
  BY <1>1 DEF Guids, Ids
<1>3. DocLimited(CreateAllGPXObjects(nav), Guids, Ids)
  <2>1. \A S, K : Limited(nav, S, K) => DocLimited(CreateAllGPXObjects(nav), S, K)
    BY InvariantGives, WrittenLimited
  <2> QED
    BY <2>1 DEF Limits
<1>4. LogLimited(<<>>, Guids, Ids)
  BY DEF LogLimited
<1> HIDE DEF Guids, Ids
<1> QED
  BY <1>1, <1>2, <1>3, <1>4 DEF Limits

(* A replay stays within the limits.                                       *)
LEMMA ReplayedLimited ==
    ASSUME IInv, Limits
    PROVE  Sound(Replayed) /\ NoneShort(Replayed.pts) /\ Limited(Replayed, Guids, Ids)
<1> DEFINE l == IF file = Torn THEN Empty ELSE LoadAllGPXObjects(file)
           w == ApplyChanges(l, log)
<1>1. Replayed = w
  BY DEF Replayed
<1> HIDE DEF Guids, Ids
<1>2. Sound(l) /\ NoneShort(l.pts)
  BY FileTypes, EmptySound, DocumentLoaded
<1>3. Limited(l, Guids, Ids)
  <2>1. CASE file = Torn
    BY <2>1, EmptyLimited
  <2>2. CASE file # Torn
    <3>1. file \in Docs /\ NoneShort(file.routes) /\ DocLimited(file, Guids, Ids)
      BY <2>2, FileTypes DEF Limits
    <3> QED
      BY <2>2, <3>1, LoadedLimited
  <2> QED
    BY <2>1, <2>2
<1> HIDE DEF l
<1>4. Sound(w) /\ NoneShort(w.pts)
  BY <1>2, FileTypes, ChangesApplied
<1>5. Limited(w, Guids, Ids)
  <2>1. log \in Seq(Changes) /\ LogLimited(log, Guids, Ids)
    BY FileTypes DEF Limits
  <2> QED
    BY <1>2, <1>3, <2>1, AppliedLimited
<1> HIDE DEF w
<1> QED
  BY <1>1, <1>4, <1>5

(* Start keeps the limits.                                                 *)
LEMMA StartLimits == IInv /\ Limits /\ Start => Limits'
<1> SUFFICES ASSUME IInv, Limits, Start PROVE Limits'
  OBVIOUS
<1> DEFINE w == Replayed
<1>1. /\ nav' = Compact(w, Shown(w)) /\ log' = <<>> /\ file' = file /\ made' = made
  BY DEF Start, Restored
<1>2. Guids' = Guids /\ Ids' = Ids
  BY <1>1 DEF Guids, Ids
<1> HIDE DEF Guids, Ids
<1>3. Sound(w) /\ NoneShort(w.pts) /\ Limited(w, Guids, Ids)
  BY ReplayedLimited
<1> HIDE DEF w
<1>4. Limited(nav', Guids, Ids)
  <2>1. w \in Worlds
    BY <1>3 DEF Sound, Fits
  <2>2. Shown(w) \in SUBSET (1..Len(w.obj)) /\ \A i \in 1..Len(w.obj) : In(w, i) => i \in Shown(w)
    BY <2>1, HeldAre
  <2>3. \A S, K : Limited(w, S, K) => Limited(Compact(w, Shown(w)), S, K)
    BY <1>3, <2>2, CompactLimited
  <2> QED
    BY <1>1, <1>3, <2>3
<1>5. LogLimited(<<>>, Guids, Ids)
  BY DEF LogLimited
<1> QED
  BY <1>1, <1>2, <1>4, <1>5 DEF Limits

(* The limits hold at first.                                               *)
LEMMA InitialLimits == Init => Limits
<1> SUFFICES ASSUME Init PROVE Limits
  OBVIOUS
<1>1. nav = Empty /\ file = CreateAllGPXObjects(Empty) /\ log = <<>>
  BY DEF Init
<1> HIDE DEF Guids, Ids
<1>2. Limited(nav, Guids, Ids) /\ DocLimited(file, Guids, Ids)
  BY <1>1, EmptyLimited, EmptySound, WrittenLimited
<1>3. LogLimited(<<>>, Guids, Ids)
  BY DEF LogLimited
<1> QED
  BY <1>1, <1>2, <1>3 DEF Limits

LEMMA InitialStrays == Init => StraysMade
BY DEF Init, StraysMade

(* Stuttering.                                                             *)
LEMMA StillLimits == Limits /\ UNCHANGED vars => Limits'
BY DEF vars, Limits, Guids, Ids

(* Drawing a route.                                                        *)
Drawings == \E n \in Sizes :
    \/ \E s \in [1..n -> 0..Len(nav.obj)] : DrawRoute(s)
    \/ \E J \in SUBSET DOMAIN strays :
       \E s \in [1..n -> 0..Len(nav.obj) + Cardinality(J)] : DrawThroughStrays(J, s)

LEMMA DrawingsAre ==
    ASSUME NEW x, NEW n \in 2..x,
           \/ \E s \in [1..n -> 0..Len(nav.obj)] : DrawRoute(s)
           \/ \E J \in (SUBSET DOMAIN strays) \ {{}} :
              \E s \in [1..n -> 0..Len(nav.obj) + Cardinality(J)] : DrawThroughStrays(J, s)
    PROVE  Drawings
<1>1. n \in Sizes
  BY DEF Sizes
<1> QED
  BY <1>1 DEF Drawings

(* The kinds of steps.                                                     *)
LEMMA StepKinds ==
    ASSUME [Next]_vars
    PROVE  \/ DropMark \/ DeleteAllRoutes
           \/ \E i \in DOMAIN nav.obj : MovePoint(i) \/ DeleteMark(i) \/ DeletePoint(i)
           \/ Drawings
           \/ \E j \in DOMAIN strays : DeleteStray(j)
           \/ \E r \in Routes : RestyleRoute(r) \/ DeleteRoute(r) \/ \E i \in DOMAIN nav.obj : TakeOutPoint(r, i)
           \/ StartSave \/ FinishWrite \/ RemoveChanges \/ Crash
           \/ Start \/ UNCHANGED vars
<1>1. CASE \E n \in 2..MaxRefs - Len(FlattenSeq(nav.pts)) :
             \/ \E s \in [1..n -> 0..Len(nav.obj)] : DrawRoute(s)
             \/ \E J \in (SUBSET DOMAIN strays) \ {{}} :
                \E s \in [1..n -> 0..Len(nav.obj) + Cardinality(J)] : DrawThroughStrays(J, s)
  BY <1>1, DrawingsAre
<1> QED
  BY <1>1 DEF Next

(* Every step keeps the limits.                                            *)
LEMMA LimitsKept == IInv /\ Limits /\ StraysMade /\ [Next]_vars => Limits'
<1> SUFFICES ASSUME IInv, Limits, StraysMade, [Next]_vars PROVE Limits'
  OBVIOUS
<1> HIDE DEF Guids, Ids
<1>1. CASE DropMark
  BY <1>1, MarkDroppedLimits
<1>2. CASE DeleteAllRoutes
  BY <1>2, AllRoutesDeletedLimits
<1>3. CASE \E i \in DOMAIN nav.obj : MovePoint(i) \/ DeleteMark(i) \/ DeletePoint(i)
  BY <1>3, PointMovedLimits, MarkDeletedLimits, PointDeletedLimits
<1>4. CASE Drawings
  BY <1>4, RouteDrawnLimits, StraysDrawnLimits DEF Drawings
<1>5. CASE \E r \in Routes : RestyleRoute(r) \/ DeleteRoute(r) \/ \E i \in DOMAIN nav.obj : TakeOutPoint(r, i)
  BY <1>5, RouteRestyledLimits, RouteDeletedLimits, PointTakenOutLimits
<1>6. CASE StartSave \/ FinishWrite \/ RemoveChanges \/ Crash
  BY <1>6, SavingLimits
<1>7. CASE Start
  BY <1>7, StartLimits
<1>8. CASE UNCHANGED vars
  BY <1>8, StillLimits
<1>9. CASE \E j \in DOMAIN strays : DeleteStray(j)
  BY <1>9, StrayDeletedLimits
<1> QED
  BY <1>1, <1>2, <1>3, <1>4, <1>5, <1>6, <1>7, <1>8, <1>9, StepKinds

(* Points that stay left over keep their GUIDs.                            *)
LEMMA StraysStay ==
    ASSUME StraysMade, Guids \subseteq Guids', NEW J \in SUBSET (1..Len(strays)), StraysOK(strays),
           strays' \in {strays, <<>>, Chosen(strays, J)}
    PROVE  StraysMade'
<1> HIDE DEF Guids
<1>1. CASE strays' = strays
  BY <1>1 DEF StraysMade
<1>2. CASE strays' = <<>>
  BY <1>2 DEF StraysMade
<1>3. CASE strays' = Chosen(strays, J)
  <2>1. /\ Len(Chosen(strays, J)) = Cardinality(J)
        /\ \A k \in 1..Cardinality(J) : \E i \in J : Chosen(strays, J)[k] = strays[i]
    BY ChosenStrays
  <2> QED
    BY <1>3, <2>1 DEF StraysMade
<1> QED
  BY <1>1, <1>2, <1>3

(* Every step keeps them.                                                  *)
LEMMA StraysMadeKept == IInv /\ Limits /\ StraysMade /\ [Next]_vars => StraysMade'
<1> SUFFICES ASSUME IInv, Limits, StraysMade, [Next]_vars PROVE StraysMade'
  OBVIOUS
<1>1. /\ made.points \in 0..MaxPoints /\ MaxPoints \in Nat /\ StraysOK(strays)
      /\ DOMAIN strays = 1..Len(strays)
      /\ made \in [points : 0..MaxPoints, routes : 0..MaxRoutes]
  BY NavAssumption, InvariantGives DEF IInv, TypeOK, StraysOK
<1>2. made' = made => Guids' = Guids
  BY DEF Guids
<1>3. {} \in SUBSET (1..Len(strays))
  OBVIOUS
<1>4. CASE /\ strays' \in {strays, <<>>}
           /\ made' = made \/ made' = [made EXCEPT !.points = @ + 1]
  <2>1. made'.points = made.points \/ made'.points = made.points + 1
    BY <1>1, <1>4
  <2>2. Guids \subseteq Guids'
    BY <1>1, <2>1 DEF Guids
  <2> HIDE DEF Guids
  <2> QED
    BY <1>1, <1>3, <1>4, <2>2, StraysStay
<1>5. CASE Drawings
  <2>1. PICK n \in Sizes :
           \/ \E s \in [1..n -> 0..Len(nav.obj)] : DrawRoute(s)
           \/ \E J \in SUBSET DOMAIN strays :
              \E s \in [1..n -> 0..Len(nav.obj) + Cardinality(J)] : DrawThroughStrays(J, s)
    BY <1>5 DEF Drawings
  <2> HIDE DEF Guids
  <2>2. CASE \E s \in [1..n -> 0..Len(nav.obj)] : DrawRoute(s)
    <3>1. Guids \subseteq Guids' /\ strays' = strays
      BY <2>2, RouteDrawnLimits DEF DrawRoute
    <3> QED
      BY <1>1, <1>3, <3>1, StraysStay
  <2>3. CASE \E J \in SUBSET DOMAIN strays :
                \E s \in [1..n -> 0..Len(nav.obj) + Cardinality(J)] : DrawThroughStrays(J, s)
    <3>1. PICK J \in SUBSET DOMAIN strays :
              Guids \subseteq Guids' /\ strays' = Chosen(strays, DOMAIN strays \ J)
      BY <2>3, StraysDrawnLimits DEF DrawThroughStrays
    <3> QED
      BY <1>1, <3>1, StraysStay
  <2> QED
    BY <2>1, <2>2, <2>3
<1>6. CASE \E j \in DOMAIN strays : DeleteStray(j)
  <2>1. PICK j \in DOMAIN strays : made' = made /\ strays' = Chosen(strays, DOMAIN strays \ {j})
    BY <1>6 DEF DeleteStray
  <2>2. Guids \subseteq Guids'
    BY <1>2, <2>1
  <2> HIDE DEF Guids
  <2> QED
    BY <1>1, <2>1, <2>2, StraysStay
<1>7. CASE Start
  <2> DEFINE w == Replayed
             S == Held(w) \ Shown(w)
  <2>1. strays' = Chosen(w.obj, S) /\ Guids' = Guids
    BY <1>2, <1>7 DEF Start, LeftOver
  <2> HIDE DEF Guids, Ids
  <2>2. Sound(w) /\ Limited(w, Guids, Ids)
    BY ReplayedLimited
  <2> HIDE DEF w
  <2>3. w \in Worlds
    BY <2>2 DEF Sound, Fits
  <2>4. S \in SUBSET (1..Len(w.obj))
    BY <2>3, HeldAre
  <2> HIDE DEF S
  <2>5. /\ Len(Chosen(w.obj, S)) = Cardinality(S)
        /\ \A k \in 1..Cardinality(S) : \E i \in S : Chosen(w.obj, S)[k] = w.obj[i]
    BY <2>3, <2>4, WorldTypes, ChosenIs
  <2>6. \A i \in S : w.obj[i].guid \in Guids
    BY <2>2, <2>4 DEF Limited
  <2> QED
    BY <2>1, <2>5, <2>6 DEF StraysMade
<1>8. CASE DropMark \/ DeleteAllRoutes \/ UNCHANGED vars \/ StartSave \/ FinishWrite \/ RemoveChanges \/ Crash
  <2>1. strays' \in {strays, <<>>} /\ (made' = made \/ made' = [made EXCEPT !.points = @ + 1])
    BY <1>8 DEF DropMark, DeleteAllRoutes, vars, StartSave, FinishWrite, RemoveChanges, Crash
  <2> QED
    BY <1>4, <2>1
<1>9. CASE \/ \E i \in DOMAIN nav.obj : MovePoint(i) \/ DeleteMark(i) \/ DeletePoint(i)
           \/ \E r \in Routes : RestyleRoute(r) \/ DeleteRoute(r) \/ \E i \in DOMAIN nav.obj : TakeOutPoint(r, i)
  <2>1. strays' = strays /\ made' = made
    BY <1>9 DEF MovePoint, DeleteMark, DeletePoint, RestyleRoute, DeleteRoute, TakeOutPoint
  <2> QED
    BY <1>4, <2>1
<1> QED
  BY <1>5, <1>6, <1>7, <1>8, <1>9, StepKinds

-----------------------------------------------------------------------------
(* Edits without a loss *)

(* A picture that nothing is unknown of. *)
Plain(names, here, pos, own, look) ==
    [names |-> names, here |-> here, pos |-> pos, own |-> own, look |-> look,
     known |-> Routes, behind |-> {}, left |-> {}, flagged |-> {}]

(* The fields of Plain.                                                    *)
LEMMA PlainFields ==
    ASSUME NEW names, NEW here, NEW pos, NEW own, NEW look
    PROVE  LET a == Plain(names, here, pos, own, look) IN
           /\ a.names = names /\ a.here = here /\ a.pos = pos /\ a.own = own /\ a.look = look
           /\ a.known = Routes /\ a.behind = {} /\ a.left = {} /\ a.flagged = {}
BY DEF Plain

(* The picture of a limited world is whole and bound.                      *)
LEMMA WholePicture ==
    ASSUME NEW w, NEW n, Picture(w, n), NEW S, NEW K, Limited(w, S, K), K \subseteq Routes
    PROVE  Whole(n) /\ Bound(n, S, K)
<1>1. Depicts(w, n) /\ n.known = Routes /\ n.names \in [Routes -> Seq(Nat)] /\ n.own \subseteq n.here
  BY DEF Picture, Clean
<1>2. /\ \A r \in Routes : \A g : Has(n.names[r], g) => g \in n.here
      /\ \A g \in n.own : g \in n.here => \E r \in Routes : Has(n.names[r], g)
  BY <1>1, PictureGives
<1>3. /\ w.look = n.look /\ \A r \in Routes : Len(w.pts[r]) = Len(n.names[r])
      /\ \A r \in Routes : w.pts[r] \in Seq(Nat)
      /\ \A g \in n.here : \E i \in 1..Len(w.obj) : w.obj[i].guid = g
  BY <1>1, WorldTypes DEF Depicts, RoutesFit, PointsFit, Sound, Fits
<1>4. \A r \in Routes : n.names[r] = <<>> <=> w.pts[r] = <<>>
  BY <1>1, <1>3
<1>5. \A r \in Routes : n.names[r] = <<>> => n.look[r] = 0
  BY <1>3, <1>4 DEF Limited
<1>6. \A r \in Routes : r \notin K => n.names[r] = <<>>
  BY <1>4 DEF Limited
<1>7. n.here \subseteq S
  BY <1>3 DEF Limited
<1> QED
  BY <1>1, <1>2, <1>5, <1>6, <1>7 DEF Whole, Bound

(* A picture of routes that are all known, with no object left over.        *)
Tidy(a) ==
    /\ a.known = Routes
    /\ a.left = {}
    /\ a.names \in [Routes -> Seq(Nat)]

(* A picture of what is held of the world that another one depicts.        *)
Keeps(w, a, m) ==
    /\ Picture(Compact(w, Held(w)), m)
    /\ m.names = a.names
    /\ m.here = a.here
    /\ m.pos = a.pos
    /\ m.look = a.look
    /\ m.own = a.own \cap a.here

(* The picture after an edit, when the objects are gone that nobody holds. *)
LEMMA HeldPicture ==
    ASSUME NEW w, NEW a, Depicts(w, a), Tidy(a)
    PROVE  \E m : Keeps(w, a, m)
<1> USE DEF Keeps, Tidy
<1> DEFINE m == Plain(a.names, a.here, a.pos, a.own \cap a.here, a.look)
           v == Compact(w, Held(w))
<1>1. /\ m.names = a.names /\ m.here = a.here /\ m.pos = a.pos /\ m.look = a.look
      /\ m.own = a.own \cap a.here /\ m.known = Routes /\ m.behind = {} /\ m.left = {} /\ m.flagged = {}
  BY PlainFields
<1> HIDE DEF m
<1>2. w \in Worlds /\ \A i \in 1..Len(w.obj) : w.obj[i].guid \in 1..MaxPoints
  <2>1. w \in Worlds /\ w.obj \in [1..Len(w.obj) -> Objects]
    BY WorldTypes DEF Depicts, Sound, Fits
  <2> QED
    BY <2>1 DEF Objects
<1>3. a.here \subseteq 1..MaxPoints
  BY <1>2 DEF Depicts, PointsFit
<1>4. \A i \in 1..Len(w.obj) : w.obj[i].listed => Live(w, i)
  BY DEF Depicts, OthersFit
<1>5. \A i \in 1..Len(w.obj) : In(w, i) => w.obj[i].listed
  BY DEF Depicts, RoutesFit, In, On, Has
<1>6. /\ Held(w) \in SUBSET (1..Len(w.obj))
      /\ \A i \in 1..Len(w.obj) : i \in Held(w) <=> w.obj[i].listed \/ In(w, i)
  BY <1>2, HeldAre
<1>7. \A i \in 1..Len(w.obj) : Live(w, i) \/ In(w, i) => i \in Held(w)
  BY <1>6 DEF Live
<1>8. \A i \in Held(w) : Live(w, i)
  BY <1>4, <1>5, <1>6
<1> DEFINE b == Plain(a.names, a.here, a.pos, a.own, a.look)
<1>9. /\ b.names = a.names /\ b.here = a.here /\ b.own = a.own /\ b.look = a.look /\ b.pos = a.pos
      /\ b.known = Routes /\ b.behind = {} /\ b.left = {} /\ b.flagged = {}
  BY PlainFields
<1> HIDE DEF b
<1>10. Depicts(v, b) /\ AllLive(v)
  BY <1>6, <1>7, <1>8, <1>9, CompactDepicted DEF AllLive
<1> HIDE DEF v
<1>11. Depicts(v, m)
  BY <1>1, <1>9, <1>10, Redepicted
<1>12. Clean(m)
  BY <1>1, <1>3 DEF Clean
<1>13. Picture(v, m)
  BY <1>10, <1>11, <1>12 DEF Picture
<1> QED
  BY <1>1, <1>13 DEF v

(* Lost(what, really) is empty only if it did not happen.                  *)
LEMMA NotLost ==
    ASSUME NEW what, NEW really, Lost(what, really) = {}
    PROVE  ~really
BY DEF Lost

(* An edit without a loss records nothing that a replay would take for something else. *)
LEMMA Lossless ==
    ASSUME IInv, NEW w, NEW recs \in Seq(Changes), NEW losses, Edit(w, recs, losses), lossy' = {}
    PROVE  /\ lossy = {} /\ losses = {} /\ nav' = Compact(w, Held(w)) /\ log' = log \o recs
           /\ file' = file /\ phase' = phase
           /\ \A k \in 1..Len(recs) : recs[k].kind = "wpt" => recs[k].pts[1].guid \notin Stale(log)
           /\ \A k \in 1..Len(recs) : recs[k].kind # "wpt" /\ recs[k].action # "delete" =>
                 \A j \in 1..Len(recs[k].pts) : recs[k].pts[j].guid \notin Stale(log)
<1> DEFINE P(g) == Orphaned(g)
           bad == \E c \in Range(recs) : /\ <<c.kind, c.action>> # <<"rte", "delete">>
                                         /\ \E rec \in Range(c.pts) : P(rec.guid)
<1>1. /\ lossy = {} /\ nav' = Compact(w, Held(w)) /\ log' = log \o recs /\ file' = file /\ phase' = phase
      /\ lossy' = lossy \cup losses \cup Lost("orphaned", bad)
  BY DEF Edit, Editable
<1>2. losses = {} /\ Lost("orphaned", bad) = {}
  BY <1>1
<1>3. ~bad
  BY <1>2, NotLost
<1>4. log \in Seq(Changes)
  BY FileTypes
<1>5. \A g : ~P(g) => g \notin Stale(log)
  BY <1>4, StaleOrphaned
<1> HIDE DEF P
<1>6. ASSUME NEW k \in 1..Len(recs), <<recs[k].kind, recs[k].action>> # <<"rte", "delete">>,
             NEW j \in DOMAIN recs[k].pts
      PROVE  recs[k].pts[j].guid \notin Stale(log)
  <2>1. recs[k] \in Range(recs) /\ recs[k].pts[j] \in Range(recs[k].pts)
    BY <1>6 DEF Range
  <2>2. ~P(recs[k].pts[j].guid)
    BY <1>3, <1>6, <2>1
  <2> QED
    BY <1>5, <2>2
<1>7. ASSUME NEW k \in 1..Len(recs), recs[k].kind = "wpt"
      PROVE  recs[k].pts[1].guid \notin Stale(log)
  <2>1. recs[k] \in Changes /\ "wpt" # "rte"
    OBVIOUS
  <2>2. 1 \in DOMAIN recs[k].pts
    BY <1>7, <2>1 DEF Changes
  <2>3. <<recs[k].kind, recs[k].action>> # <<"rte", "delete">>
    BY <1>7
  <2> QED
    BY <1>6, <2>2, <2>3
<1>8. ASSUME NEW k \in 1..Len(recs), recs[k].kind # "wpt", recs[k].action # "delete",
             NEW j \in 1..Len(recs[k].pts)
      PROVE  recs[k].pts[j].guid \notin Stale(log)
  <2>1. recs[k].pts \in Seq(Recs)
    BY <1>8, ChangeTypes
  <2>2. j \in DOMAIN recs[k].pts
    BY <2>1
  <2>3. <<recs[k].kind, recs[k].action>> # <<"rte", "delete">>
    BY <1>8
  <2> QED
    BY <1>6, <2>2, <2>3
<1> QED
  BY <1>1, <1>2, <1>7, <1>8

(* The change set mentions no GUID that was not made.                      *)
LEMMA MentionedMade ==
    ASSUME IInv, Limits
    PROVE  Mentioned(log) \subseteq Guids /\ log \in Seq(Changes)
<1>1. log \in Seq(Changes) /\ LogLimited(log, Guids, Ids)
  BY FileTypes DEF Limits
<1> QED
  BY <1>1 DEF LogLimited, ChangeLimited, Mentioned, Names

(* What an edit that loses nothing does to the picture and to the log. *)
Follows(n) ==
    \E m, R, recs :
        /\ recs \in Seq(Changes) /\ log' = log \o recs /\ Picture(nav', m)
        /\ Edited(n, m, Guids, Ids, Guids', Ids', R)
        /\ Replays(recs, n, m, Guids, Ids, Guids', Ids', R,
                   Stale(log), Mentioned(log), Stale(log'), Mentioned(log'))

(* The conditions of Edited, for the pictures of a step.                   *)
LEMMA FollowsFrom ==
    ASSUME IInv, Limits, IInv', Limits', NEW n, Picture(nav, n), NEW m, Picture(nav', m),
           Guids \subseteq Guids', Ids \subseteq Ids',
           NEW recs \in Seq(Changes), log' = log \o recs, NEW R, R \subseteq Ids',
           \A r \in Routes : r \notin R => m.names[r] = n.names[r] /\ m.look[r] = n.look[r],
           \A r \in Routes : r \in Ids => \A g : Has(m.names[r], g) => Has(n.names[r], g),
           \A g \in m.here : g \in Guids => g \in n.here,
           \A g \in n.here : g \in m.here => (g \in m.own <=> g \in n.own),
           NEW B2, NEW G2, B2 \subseteq Stale(log'), G2 \subseteq Mentioned(log'),
           Replays(recs, n, m, Guids, Ids, Guids', Ids', R, Stale(log), Mentioned(log), B2, G2)
    PROVE  Follows(n)
<1>1. Ids \subseteq Routes /\ Ids' \subseteq Routes
  <2>1. made.routes \in 0..MaxRoutes /\ made'.routes \in 0..MaxRoutes /\ MaxRoutes \in Nat
    BY NavAssumption DEF IInv, TypeOK
  <2> QED
    BY <2>1 DEF Ids, Routes
<1> HIDE DEF Guids, Ids
<1>2. Whole(n) /\ Bound(n, Guids, Ids)
  BY <1>1, WholePicture DEF Limits
<1>3. Whole(m) /\ Bound(m, Guids', Ids')
  <2>1. Limited(nav', Guids', Ids')
    BY DEF Limits
  <2> QED
    BY <1>1, <2>1, WholePicture
<1>4. Edited(n, m, Guids, Ids, Guids', Ids', R)
  BY <1>2, <1>3 DEF Edited, Descends
<1>5. Replays(recs, n, m, Guids, Ids, Guids', Ids', R, Stale(log), Mentioned(log), Stale(log'), Mentioned(log'))
  <2> DEFINE S == Guids'
             K == Ids'
             B == Stale(log)
             G == Mentioned(log)
             B3 == Stale(log')
             G3 == Mentioned(log')
  <2>1. Replays(recs, n, m, Guids, Ids, S, K, R, B, G, B2, G2) /\ B2 \subseteq B3 /\ G2 \subseteq G3
    OBVIOUS
  <2> HIDE DEF S, K, B, G, B3, G3
  <2>2. Replays(recs, n, m, Guids, Ids, S, K, R, B, G, B3, G3)
    BY <2>1, ReplaysMore
  <2> QED
    BY <2>2 DEF S, K, B, G, B3, G3
<1> QED
  BY <1>4, <1>5 DEF Follows

-----------------------------------------------------------------------------
(* Each edit, and what its records tell *)

(* A step that makes no GUID.                                              *)
LEMMA SameMade ==
    ASSUME IInv, made' = made
    PROVE  Guids' = Guids /\ Ids' = Ids /\ Guids \subseteq Guids' /\ Ids \subseteq Ids'
BY DEF Guids, Ids

(* What a picture is made of.                                              *)
LEMMA PictureFields ==
    ASSUME NEW w, NEW n, Picture(w, n)
    PROVE  /\ Depicts(w, n) /\ n.names \in [Routes -> Seq(Nat)] /\ n.own \subseteq n.here
           /\ n.here \subseteq 1..MaxPoints /\ 0 \notin n.here
           /\ n.known = Routes /\ n.behind = {} /\ n.left = {} /\ n.flagged = {}
           /\ \A i \in 1..Len(w.obj) : Live(w, i)
           /\ w.look = n.look
BY DEF Picture, Clean, AllLive, Depicts

(* A new mark.                                                             *)
LEMMA DropMarkFollows ==
    ASSUME IInv, Limits, IInv', Limits', DropMark, lossy' = {}, NEW n, Picture(nav, n)
    PROVE  Follows(n)
<1>1. PICK g, o, w, recs :
           /\ Edit(w, recs, {}) /\ g = made.points + 1 /\ g \in 1..MaxPoints
           /\ o \in Objects /\ o.guid = g /\ o.listed /\ o.isolated /\ ~o.inRoute /\ o.pos = 1
           /\ w = AddRoutePoint(nav, o) /\ Sound(w) /\ Len(w.obj) = Len(nav.obj) + 1
           /\ recs \in Seq(Changes) /\ Len(recs) = 1 /\ recs[1] = Wpt("add", w, Len(w.obj))
           /\ Wpt("add", w, Len(w.obj)) \in Changes
           /\ w.obj[Len(w.obj)] = o /\ Len(w.obj) \in 1..Len(w.obj)
           /\ made'.points = g /\ made'.routes = made.routes /\ g \in 0..MaxPoints
  BY DropMarkIs
<1>2. made.points \in 0..MaxPoints /\ made.routes \in 0..MaxRoutes /\ MaxRoutes \in Nat /\ MaxPoints \in Nat
  BY NavAssumption DEF IInv, TypeOK
<1>3. /\ Guids \subseteq Guids' /\ Ids' = Ids /\ Ids \subseteq Ids' /\ g \notin Guids /\ Guids' = Guids \cup {g}
  BY <1>1, <1>2 DEF Guids, Ids
<1>4. /\ nav' = Compact(w, Held(w)) /\ log' = log \o recs
  BY <1>1, Lossless
<1>5. /\ Depicts(nav, n) /\ n.names \in [Routes -> Seq(Nat)] /\ n.own \subseteq n.here
      /\ n.known = Routes /\ n.behind = {} /\ n.left = {} /\ n.flagged = {}
  BY PictureFields
<1>6. Ids \subseteq Routes /\ n.here \subseteq Guids
  <2>1. Ids \subseteq Routes
    BY <1>2 DEF Ids, Routes
  <2> HIDE DEF Guids, Ids
  <2>2. Bound(n, Guids, Ids)
    BY <2>1, WholePicture DEF Limits
  <2> QED
    BY <2>1, <2>2 DEF Bound
<1> HIDE DEF Guids, Ids
<1> DEFINE p == [h \in n.here \cup {g} |-> IF h = g THEN 1 ELSE n.pos[h]]
           a == Plain(n.names, n.here \cup {g}, p, n.own, n.look)
<1>7. /\ a.names = n.names /\ a.here = n.here \cup {g} /\ a.pos = p /\ a.own = n.own /\ a.look = n.look
      /\ a.known = Routes /\ a.behind = {} /\ a.left = {} /\ a.flagged = {}
  BY PlainFields
<1> HIDE DEF a
<1>8. g \notin n.here /\ p[g] = 1 /\ \A h \in n.here : p[h] = n.pos[h]
  BY <1>3, <1>6
<1> HIDE DEF p
<1>9. Depicts(w, a)
  <2>1. o.guid \notin n.here /\ o.guid \notin n.own
    BY <1>1, <1>5, <1>8
  <2>2. /\ a.here = n.here \cup {o.guid} /\ a.pos[o.guid] = o.pos /\ \A h \in n.here : a.pos[h] = n.pos[h]
        /\ a.known = n.known /\ a.flagged \subseteq n.flagged /\ n.behind \subseteq a.behind
        /\ n.left \subseteq a.left /\ (o.guid \in n.left => o.guid \in a.behind)
    BY <1>1, <1>5, <1>7, <1>8
  <2>3. WithMark(n, o, a)
    BY <1>1, <1>7, <2>1, <2>2 DEF WithMark
  <2>4. o \in Objects
    BY <1>1
  <2>5. Depicts(AddRoutePoint(nav, o), a)
    BY <1>5, <2>3, <2>4, MarkDepicted
  <2> QED
    BY <1>1, <2>5
<1>10. PICK m : /\ Picture(nav', m)
                /\ m.names = n.names /\ m.here = n.here \cup {g} /\ m.pos = p /\ m.look = n.look
                /\ m.own = n.own
  <2>1. n.own \cap (n.here \cup {g}) = n.own
    BY <1>5
  <2>2. Tidy(a)
    BY <1>5, <1>7 DEF Tidy
  <2>3. PICK m : Keeps(w, a, m)
    BY <1>9, <2>2, HeldPicture
  <2> QED
    BY <1>4, <1>7, <2>1, <2>3 DEF Keeps
<1>11. Replays(recs, n, m, Guids, Ids, Guids', Ids', {}, Stale(log), Mentioned(log), Stale(log), Mentioned(log))
  <2> DEFINE S == Guids'
             B == Stale(log)
             G == Mentioned(log)
             c == Wpt("add", w, Len(w.obj))
  <2>1. c.kind = "wpt" /\ c.action = "add" /\ c.guid = g /\ c.pts[1].guid = g /\ c.pts[1].pos = 1
    BY <1>1, MarkRecordIs
  <2>2. c \in Changes /\ c = recs[1] /\ Len(recs) = 1
    BY <1>1
  <2>3. G \subseteq Guids /\ S = Guids \cup {g}
    BY <1>3, MentionedMade
  <2> HIDE DEF c, G, B, S
  <2>4. Replays(recs, n, m, Guids, Ids, S, Ids, {}, B, G, B, G)
    BY <1>3, <1>8, <1>10, <2>1, <2>2, <2>3, ReplayAdd
  <2> QED
    BY <1>3, <2>4 DEF S, B, G
<1>12. Stale(log) \subseteq Stale(log') /\ Mentioned(log) \subseteq Mentioned(log')
  BY <1>1, <1>4, MentionedMade, LogMore
<1>13. \A h \in m.here : h \in Guids => h \in n.here
  BY <1>3, <1>10
<1> QED
  BY <1>1, <1>3, <1>4, <1>10, <1>11, <1>12, <1>13, FollowsFrom

(* A mark that is deleted.                                                 *)
LEMMA DeleteMarkFollows ==
    ASSUME IInv, Limits, IInv', Limits', NEW i \in DOMAIN nav.obj, DeleteMark(i), lossy' = {}, NEW n, Picture(nav, n)
    PROVE  Follows(n)
<1>1. PICK w, recs :
           /\ made' = made /\ i \in 1..Len(nav.obj) /\ ~In(nav, i)
           /\ w = RemoveRoutePoint(nav, i) /\ Sound(w) /\ Edit(w, recs, {})
           /\ recs \in Seq(Changes) /\ Len(recs) = 1 /\ recs[1] = Wpt("delete", nav, i)
           /\ Wpt("delete", nav, i) \in Changes
  BY DeleteMarkIs
<1>2. Guids' = Guids /\ Ids' = Ids /\ Guids \subseteq Guids' /\ Ids \subseteq Ids'
  BY <1>1, SameMade
<1> HIDE DEF Guids, Ids
<1>3. /\ nav' = Compact(w, Held(w)) /\ log' = log \o recs
      /\ \A k \in 1..Len(recs) : recs[k].kind = "wpt" => recs[k].pts[1].guid \notin Stale(log)
  BY <1>1, Lossless
<1>4. /\ Depicts(nav, n) /\ n.names \in [Routes -> Seq(Nat)] /\ n.own \subseteq n.here
      /\ n.known = Routes /\ n.behind = {} /\ n.left = {} /\ n.flagged = {}
      /\ Live(nav, i)
  BY <1>1, PictureFields
<1> DEFINE g == nav.obj[i].guid
           a == Plain(n.names, n.here \ {g}, n.pos, n.own, n.look)
<1>5. /\ g \in n.here /\ \A r \in Routes : ~Has(n.names[r], g)
      /\ g \notin n.own /\ \A r \in Routes : \A h : Has(n.names[r], h) => h \in n.here
  <2>1. \A r \in Routes : ~Has(n.names[r], g)
    BY <1>1, <1>4, PictureGives
  <2>2. g \in n.here /\ \A r \in Routes : \A h : Has(n.names[r], h) => h \in n.here
    BY <1>1, <1>4, PictureGives
  <2>3. g \notin n.own
    BY <1>4, <2>1, <2>2, PictureGives
  <2> QED
    BY <2>1, <2>2, <2>3
<1>6. /\ a.names = n.names /\ a.here = n.here \ {g} /\ a.pos = n.pos /\ a.own = n.own /\ a.look = n.look
      /\ a.known = Routes /\ a.behind = {} /\ a.left = {} /\ a.flagged = {}
  BY PlainFields
<1> HIDE DEF a
<1>7. Depicts(w, a)
  <2>1. Unlists(nav, n, i, a)
    BY <1>4, <1>5, <1>6 DEF Unlists
  <2>2. i \in 1..Len(nav.obj)
    BY <1>1
  <2>3. Depicts(RemoveRoutePoint(nav, i), a)
    BY <1>4, <2>1, <2>2, UnlistDepicted
  <2> QED
    BY <1>1, <2>3
<1>8. PICK m : /\ Picture(nav', m)
               /\ m.names = n.names /\ m.here = n.here \ {g} /\ m.pos = n.pos /\ m.look = n.look
               /\ m.own = n.own
  <2>1. n.own \cap (n.here \ {g}) = n.own
    BY <1>4, <1>5
  <2>2. Tidy(a)
    BY <1>4, <1>6 DEF Tidy
  <2>3. PICK m : Keeps(w, a, m)
    BY <1>7, <2>2, HeldPicture
  <2> QED
    BY <1>3, <1>6, <2>1, <2>3 DEF Keeps
<1>9. Replays(recs, n, m, Guids, Ids, Guids, Ids, {}, Stale(log), Mentioned(log), Stale(log), Mentioned(log))
  <2> DEFINE B == Stale(log)
             G == Mentioned(log)
             c == Wpt("delete", nav, i)
  <2>1. c.kind = "wpt" /\ c.action = "delete" /\ c.guid = g /\ c.pts[1].guid = g
    BY <1>1, MarkRecordIs
  <2>2. c \in Changes /\ c = recs[0 + 1] /\ Len(recs) = 0 + 1
    BY <1>1
  <2>3. g \notin B
    BY <1>1, <1>3, <2>1
  <2> HIDE DEF c, G, B
  <2>4. Shrinks(n, m, {}, g)
    BY <1>8 DEF Shrinks
  <2>5. Long(recs, 0) = {}
    BY DEF Long
  <2>6. \A q \in Routes : n.names[q] \in Seq(Nat) /\ \A h : Has(n.names[q], h) => h \in n.here
    BY <1>4, <1>5
  <2>7. \A k \in 1..0 : Leads(recs[k], n, n, Ids, B, G)
    OBVIOUS
  <2>8. {} = Long(recs, 0) \cup {}
    BY <2>5
  <2>9. g \notin m.here
    BY <1>8
  <2> HIDE DEF g
  <2> QED
    BY <1>5, <2>1, <2>2, <2>3, <2>4, <2>5, <2>6, <2>7, <2>8, <2>9, ReplayDelete DEF B, G
<1>10. Stale(log) \subseteq Stale(log') /\ Mentioned(log) \subseteq Mentioned(log')
  BY <1>1, <1>3, MentionedMade, LogMore
<1> HIDE DEF g
<1> QED
  BY <1>1, <1>2, <1>3, <1>8, <1>9, <1>10, FollowsFrom

(* A route that is deleted.                                                *)
LEMMA DeleteRouteFollows ==
    ASSUME IInv, Limits, IInv', Limits', NEW r \in Routes, DeleteRoute(r), lossy' = {}, NEW n, Picture(nav, n)
    PROVE  Follows(n)
<1>1. PICK w, recs :
           /\ made' = made /\ nav.pts[r] # <<>> /\ w = DropRoute(nav, r) /\ Sound(w)
           /\ recs \in Seq(Changes) /\ Len(recs) = 1 /\ recs[1] = Rte("delete", nav, r)
           /\ Rte("delete", nav, r) \in Changes /\ Edit(w, recs, {})
  BY DeleteRouteIs
<1>2. Guids' = Guids /\ Ids' = Ids /\ Guids \subseteq Guids' /\ Ids \subseteq Ids' /\ r \in Ids
  BY <1>1, SameMade, LimitsGive
<1> HIDE DEF Guids, Ids
<1>3. /\ nav' = Compact(w, Held(w)) /\ log' = log \o recs
  BY <1>1, Lossless
<1>4. /\ Depicts(nav, n) /\ n.names \in [Routes -> Seq(Nat)] /\ n.own \subseteq n.here
      /\ n.known = Routes /\ n.behind = {} /\ n.left = {} /\ n.flagged = {} /\ 0 \notin n.here
      /\ Sound(nav)
  BY PictureFields, InvariantGives DEF Belong
<1> DEFINE names == [q \in Routes |-> IF q \in {r} THEN <<>> ELSE n.names[q]]
           look == Bare(n, {r})
           a == Plain(names, n.here \ Gone(n, {r}), n.pos, n.own, look)
<1>5. /\ a.names = names /\ a.here = n.here \ Gone(n, {r}) /\ a.pos = n.pos /\ a.own = n.own /\ a.look = look
      /\ a.known = Routes /\ a.behind = {} /\ a.left = {} /\ a.flagged = {}
  <2> HIDE DEF names, look
  <2> QED
    BY PlainFields
<1> HIDE DEF a
<1>6. /\ names \in [Routes -> Seq(Nat)]
      /\ \A q \in Routes : names[q] = IF q \in {r} THEN <<>> ELSE n.names[q]
      /\ \A q \in Routes : look[q] = IF q \in {r} THEN 0 ELSE n.look[q]
      /\ look = Bare(n, {r})
  <2>1. <<>> \in Seq(Nat)
    OBVIOUS
  <2>2. names \in [Routes -> Seq(Nat)]
    BY <1>4, <2>1
  <2>3. \A q \in Routes : names[q] = IF q \in {r} THEN <<>> ELSE n.names[q]
    OBVIOUS
  <2>4. \A q \in Routes : look[q] = IF q \in {r} THEN 0 ELSE n.look[q]
    BY DEF Bare
  <2> HIDE DEF names
  <2> QED
    BY <2>2, <2>3, <2>4
<1> HIDE DEF names, look
<1>7. Depicts(w, a)
  <2>1. Depicts(DropRoutes(nav, {r}), a)
    <3>1. /\ \A q \in Routes : a.names[q] = IF q \in {r} THEN <<>> ELSE n.names[q]
          /\ a.look = Bare(n, {r})
          /\ a.known \subseteq n.known \cup {r} /\ a.flagged = n.flagged /\ a.behind = n.behind /\ a.left = n.left
      BY <1>4, <1>5, <1>6
    <3>2. Drops(n, {r}, a)
      BY <1>5, <3>1 DEF Drops
    <3> QED
      BY <1>4, <3>2, DropDepicted
  <2> QED
    BY <1>1, <2>1 DEF DropRoute
<1>8. PICK m : /\ Picture(nav', m)
               /\ m.names = names /\ m.here = n.here \ Gone(n, {r}) /\ m.pos = n.pos /\ m.look = look
               /\ m.own = n.own \cap m.here
  <2>1. Tidy(a)
    BY <1>5, <1>6 DEF Tidy
  <2>2. PICK m : Keeps(w, a, m)
    BY <1>7, <2>1, HeldPicture
  <2> QED
    BY <1>3, <1>5, <2>2 DEF Keeps
<1>9. Shrinks(n, m, {r}, 0)
  <2>1. \A i \in n.here : i \notin m.here => i \in n.own /\ \A q \in Routes : Has(n.names[q], i) => q \in {r}
    BY <1>8 DEF Gone
  <2> QED
    BY <1>6, <1>8, <2>1 DEF Shrinks
<1>10. /\ Replays(recs, n, m, Guids, Ids, Guids, Ids, {r}, Stale(log), Mentioned(log), Stale(log), Mentioned(log'))
       /\ Stale(log) \subseteq Stale(log')
  <2> DEFINE B == Stale(log)
             G == Mentioned(log)
             G2 == Mentioned(log')
             c == Rte("delete", nav, r)
  <2>1. c.kind # "wpt" /\ c.action = "delete" /\ c.guid = r /\ c.pts = Points(nav, r) /\ Len(c.pts) \in Nat
    BY <1>4, RouteRecordIs, WorldTypes DEF Sound, Fits
  <2>2. c \in Changes /\ c = recs[1] /\ Len(recs) = 1
    BY <1>1
  <2>3. /\ B \subseteq Stale(log') /\ G \subseteq G2
        /\ \A k \in 1..Len(recs) : recs[k].kind # "wpt" =>
              \A j \in 1..Len(recs[k].pts) : recs[k].pts[j].guid \in G2
    BY <1>1, <1>3, MentionedMade, LogMore
  <2>4. \A k \in 1..Len(c.pts) : c.pts[k].guid \in G2
    BY <2>1, <2>2, <2>3
  <2>5. \A k \in 1..Len(c.pts) : c.pts[k].shared = (c.pts[k].guid \notin n.own)
    <3>1. \A k \in 1..Len(Points(nav, r)) : Points(nav, r)[k].shared = (Points(nav, r)[k].guid \notin n.own)
      BY <1>4, RecordsShow
    <3> HIDE DEF c
    <3> QED
      BY <2>1, <3>1
  <2>6. \A k \in 1..Len(c.pts) : c.pts[k].guid \in m.here => c.pts[k].shared = (c.pts[k].guid \notin m.own)
    BY <1>8, <2>5
  <2> HIDE DEF c, G, B, G2
  <2>7. Shrinks(n, m, {c.guid}, 0) /\ {c.guid} = {r}
    BY <1>9, <2>1
  <2>8. Replays(recs, n, m, Guids, Ids, Guids, Ids, {c.guid}, B, G, B, G2)
    BY <1>4, <2>1, <2>2, <2>3, <2>4, <2>6, <2>7, ReplayDrop
  <2> QED
    BY <2>3, <2>7, <2>8 DEF B, G, G2
<1>11. /\ \A q \in Routes : q \notin {r} => m.names[q] = n.names[q] /\ m.look[q] = n.look[q]
       /\ \A q \in Routes : \A g : Has(m.names[q], g) => Has(n.names[q], g)
       /\ \A g \in n.here : g \in m.here => (g \in m.own <=> g \in n.own)
       /\ m.here \subseteq n.here
  <2>1. \A g : ~Has(<<>>, g)
    BY DEF Has
  <2> QED
    BY <1>6, <1>8, <2>1
<1> HIDE DEF a
<1> QED
  BY <1>1, <1>2, <1>3, <1>8, <1>10, <1>11, FollowsFrom

(* A point that moves. *)
LEMMA MovePointFollows ==
    ASSUME IInv, Limits, IInv', Limits', NEW i \in DOMAIN nav.obj, MovePoint(i), lossy' = {}, NEW n, Picture(nav, n)
    PROVE  Follows(n)
<1>0. PICK o, w, rs, recs, losses : Moving(i, o, w, rs, recs, losses)
  BY MovePointIs
<1>1. /\ made' = made /\ i \in 1..Len(nav.obj) /\ rs = Containers(nav, i) /\ rs \in SUBSET Routes
      /\ o \in Objects /\ o.guid = nav.obj[i].guid /\ o.pos = nav.obj[i].pos + 1 /\ o.pos \in 1..MaxVersion
      /\ w = At(nav, i, o.pos)
      /\ Sound(w) /\ w.pts = nav.pts /\ w.look = nav.look /\ Len(w.obj) = Len(nav.obj) /\ w.obj[i] = o
      /\ \A j \in 1..Len(nav.obj) : w.obj[j].guid = nav.obj[j].guid
      /\ recs \in Seq(Changes) /\ Edit(w, recs, losses)
      /\ nav.obj[i].inRoute => recs = RteUpdates(w, rs) /\ losses = Lost("restyled", Styled(nav, rs))
      /\ ~nav.obj[i].inRoute => Len(recs) = 1 /\ recs[1] = Wpt("update", w, i)
      /\ Wpt("update", w, i) \in Changes
  BY <1>0 DEF Moving
<1>2. Guids' = Guids /\ Ids' = Ids /\ Guids \subseteq Guids' /\ Ids \subseteq Ids'
  BY <1>1, SameMade
<1> HIDE DEF Guids, Ids
<1>3. /\ nav' = Compact(w, Held(w)) /\ log' = log \o recs /\ losses = {}
      /\ \A k \in 1..Len(recs) : recs[k].kind = "wpt" => recs[k].pts[1].guid \notin Stale(log)
      /\ \A k \in 1..Len(recs) : recs[k].kind # "wpt" /\ recs[k].action # "delete" =>
            \A j \in 1..Len(recs[k].pts) : recs[k].pts[j].guid \notin Stale(log)
  BY <1>1, Lossless
<1>4. /\ Depicts(nav, n) /\ n.names \in [Routes -> Seq(Nat)] /\ n.own \subseteq n.here
      /\ n.known = Routes /\ n.behind = {} /\ n.left = {} /\ n.flagged = {}
      /\ Live(nav, i) /\ nav.look = n.look /\ \A r \in Routes : Len(nav.pts[r]) = Len(n.names[r])
  <2>1. /\ Depicts(nav, n) /\ n.names \in [Routes -> Seq(Nat)] /\ n.own \subseteq n.here
        /\ n.known = Routes /\ n.behind = {} /\ n.left = {} /\ n.flagged = {} /\ nav.look = n.look
        /\ \A j \in 1..Len(nav.obj) : Live(nav, j)
    BY PictureFields
  <2>2. i \in 1..Len(nav.obj)
    BY <1>1
  <2>3. RoutesFit(nav, n)
    BY <2>1 DEF Depicts
  <2>4. \A r \in Routes : Len(nav.pts[r]) = Len(n.names[r])
    BY <2>3 DEF RoutesFit
  <2> QED
    BY <2>1, <2>2, <2>4
<1> DEFINE g == nav.obj[i].guid
           q == [h \in n.here |-> IF h = g THEN o.pos ELSE n.pos[h]]
           a == Plain(n.names, n.here, q, n.own, n.look)
<1>5. /\ g \in n.here /\ (In(nav, i) <=> \E r \in Routes : Has(n.names[r], g))
      /\ \A r \in Routes : On(nav.pts, r, i) <=> Has(n.names[r], g)
      /\ \A r \in Routes : \A h : Has(n.names[r], h) => h \in n.here
      /\ \A h \in n.own : \E r \in Routes : Has(n.names[r], h)
  BY <1>1, <1>4, PictureGives
<1>6. /\ a.names = n.names /\ a.here = n.here /\ a.pos = q /\ a.own = n.own /\ a.look = n.look
      /\ a.known = Routes /\ a.behind = {} /\ a.left = {} /\ a.flagged = {}
  BY PlainFields
<1> HIDE DEF a
<1>7. q[g] = o.pos /\ \A h \in n.here : h # g => q[h] = n.pos[h]
  BY <1>5
<1> HIDE DEF q
<1>8. Depicts(w, a)
  <2>1. Places(nav, n, i, o.pos, a)
    BY <1>4, <1>6, <1>7 DEF Places
  <2>2. i \in 1..Len(nav.obj) /\ o.pos \in 1..MaxVersion /\ w = At(nav, i, o.pos)
    BY <1>1
  <2>3. Depicts(At(nav, i, o.pos), a)
    BY <1>4, <2>1, <2>2, PositionDepicted
  <2> QED
    BY <2>2, <2>3
<1>9. PICK m : /\ Picture(nav', m)
               /\ m.names = n.names /\ m.here = n.here /\ m.pos = q /\ m.look = n.look
               /\ m.own = n.own
  <2>1. n.own \cap n.here = n.own
    BY <1>4
  <2>2. Tidy(a)
    BY <1>4, <1>6 DEF Tidy
  <2>3. PICK m : Keeps(w, a, m)
    BY <1>8, <2>2, HeldPicture
  <2> QED
    BY <1>3, <1>6, <2>1, <2>3 DEF Keeps
<1>10. /\ Stale(log) \subseteq Stale(log') /\ Mentioned(log) \subseteq Mentioned(log')
       /\ \A k \in 1..Len(recs) : recs[k].kind # "wpt" =>
             \A j \in 1..Len(recs[k].pts) : recs[k].pts[j].guid \in Mentioned(log')
       /\ \A k \in 1..Len(recs) : \A h \in Mentioned(log) :
             Moves(recs[k], h) => h \in Stale(log')
  BY <1>1, <1>3, MentionedMade, LogMore
<1>11. Belong(nav) /\ i \in DOMAIN nav.obj /\ NoneShort(nav.pts) /\ nav.obj[i].inRoute = (Containers(nav, i) # {})
  <2>1. nav.obj[i].inRoute = (Containers(nav, i) # {})
    BY DEF IInv, PointsBelong
  <2> QED
    BY <2>1, InvariantGives DEF Belong
<1>12. In(nav, i) <=> Containers(nav, i) # {}
  BY InvariantGives, ContainersAre
<1>13. CASE ~nav.obj[i].inRoute
  <2>1. ~In(nav, i)
    BY <1>11, <1>12, <1>13
  <2>2. g \notin n.own /\ \A r \in Routes : ~Has(n.names[r], g)
    BY <1>5, <2>1
  <2> DEFINE B == Stale(log)
             G == Mentioned(log)
             B2 == Stale(log')
             c == Wpt("update", w, i)
  <2>3. c.kind = "wpt" /\ c.action = "update" /\ c.guid = g /\ c.pts[1].guid = g /\ c.pts[1].pos = o.pos
    BY <1>1, MarkRecordIs
  <2>4. c \in Changes /\ c = recs[1] /\ Len(recs) = 1
    BY <1>1, <1>13
  <2>5. g \notin B
    BY <1>3, <2>3, <2>4
  <2>6. g \in G => g \in B2
    BY <1>10, <2>3, <2>4 DEF Moves
  <2>7. B \subseteq B2
    BY <1>10
  <2> HIDE DEF c, G, B, B2, g
  <2>8. m.pos[g] = o.pos /\ \A h \in n.here : h # g => m.pos[h] = n.pos[h]
    BY <1>7, <1>9
  <2>9. Replays(recs, n, m, Guids, Ids, Guids, Ids, {}, B, G, B2, G)
    BY <1>5, <1>9, <2>2, <2>3, <2>4, <2>5, <2>6, <2>7, <2>8, ReplayMove
  <2>10. Replays(recs, n, m, Guids, Ids, Guids', Ids', {}, Stale(log), Mentioned(log), Stale(log'), Mentioned(log))
    BY <1>2, <2>9 DEF B, G, B2
  <2> QED
    BY <1>1, <1>2, <1>3, <1>9, <1>10, <2>10, FollowsFrom
<1>14. CASE nav.obj[i].inRoute
  <2> DEFINE B == Stale(log)
             G == Mentioned(log)
             G2 == Mentioned(log')
             R == Long(recs, Len(recs))
  <2>1. rs # {} /\ \A r \in rs : Has(n.names[r], g) /\ r \in Ids
    <3>1. rs # {} /\ \A r \in rs : On(nav.pts, r, i)
      BY <1>1, <1>11, <1>14, InvariantGives, ContainersAre
    <3>2. \A r \in rs : r \in Ids
      BY <1>1, <3>1, LimitsGive
    <3> QED
      BY <1>1, <1>5, <3>1, <3>2
  <2>2. \A r \in rs : n.look[r] = 0
    <3>1. Lost("restyled", Styled(nav, rs)) = {}
      BY <1>1, <1>3, <1>14
    <3>2. ~Styled(nav, rs)
      BY <3>1, NotLost
    <3> QED
      BY <1>4, <3>2 DEF Styled
  <2>3. /\ Len(recs) \in Nat /\ \A k \in 1..Len(recs) : \E r \in rs : recs[k] = Rte("update", w, r)
        /\ Len(recs) >= 1
    <3>1. /\ Len(recs) \in Nat /\ \A k \in 1..Len(recs) : \E r \in rs : recs[k] = Rte("update", w, r)
          /\ \A r \in rs : \E k \in 1..Len(recs) : recs[k] = Rte("update", w, r)
      <4>1. recs = RteUpdates(w, rs) /\ Sound(w) /\ rs \in SUBSET Routes
        BY <1>1, <1>14
      <4>2. /\ Len(RteUpdates(w, rs)) \in Nat
            /\ \A k \in 1..Len(RteUpdates(w, rs)) : \E r \in rs : RteUpdates(w, rs)[k] = Rte("update", w, r)
            /\ \A r \in rs : \E k \in 1..Len(RteUpdates(w, rs)) : RteUpdates(w, rs)[k] = Rte("update", w, r)
        BY <4>1, UpdatesAre
      <4> QED
        BY <4>1, <4>2
    <3>2. \E k \in 1..Len(recs) : TRUE
      BY <2>1, <3>1
    <3> QED
      BY <3>1, <3>2
  <2>4. ASSUME NEW k \in 1..Len(recs) PROVE Leads(recs[k], n, m, Ids, B, G2) /\ recs[k].guid \in Ids
    <3>1. PICK r \in rs : recs[k] = Rte("update", w, r)
      BY <2>3
    <3> DEFINE c == Rte("update", w, r)
    <3>2. /\ c.kind # "wpt" /\ c.action = "update" /\ c.guid = r /\ c.pts = Points(w, r) /\ Len(c.pts) = Len(w.pts[r])
          /\ r \in Routes
      BY <1>1, RouteRecordIs
    <3>3. c \in Changes
      BY <1>1, <3>1
    <3>4. /\ Len(c.pts) = Len(n.names[r])
          /\ \A j \in 1..Len(c.pts) :
                /\ c.pts[j].guid = n.names[r][j] /\ c.pts[j].guid \in n.here /\ c.pts[j].pos = q[c.pts[j].guid]
                /\ c.pts[j].shared = (c.pts[j].guid \notin n.own)
      <4>1. /\ Len(Points(w, r)) = Len(a.names[r])
            /\ \A j \in 1..Len(Points(w, r)) :
                  /\ Points(w, r)[j].guid = a.names[r][j] /\ Points(w, r)[j].guid \in a.here
                  /\ Points(w, r)[j].pos = a.pos[Points(w, r)[j].guid]
                  /\ Points(w, r)[j].shared = (Points(w, r)[j].guid \notin a.own)
        BY <1>6, <1>8, <3>2, RecordsShow
      <4> HIDE DEF c
      <4> QED
        BY <1>6, <3>2, <4>1
    <3>5. Len(c.pts) >= 2
      <4>1. Len(n.names[r]) \in Nat /\ Len(n.names[r]) # 1
        BY <1>4, <1>11, <3>2 DEF NoneShort
      <4>2. Len(n.names[r]) # 0
        BY <2>1, <4>1 DEF Has
      <4>3. Len(c.pts) = Len(n.names[r])
        BY <3>4
      <4>4. \A l \in Nat : l # 1 /\ l # 0 => l >= 2
        OBVIOUS
      <4>5. Len(n.names[r]) >= 2
        BY <4>1, <4>2, <4>4, Zenon
      <4> HIDE DEF c
      <4> QED
        BY <4>3, <4>5
    <3>6. "update" # "delete"
      OBVIOUS
    <3>7. \A j \in 1..Len(c.pts) : c.pts[j].guid \notin B /\ c.pts[j].guid \in G2
      <4>1. recs[k] = c
        BY <3>1
      <4> HIDE DEF c
      <4> QED
        BY <1>3, <1>10, <3>2, <3>6, <4>1
    <3> HIDE DEF c, B, G2
    <3>8. \A h \in n.here : m.pos[h] = n.pos[h] \/ Has(m.names[r], h)
      BY <1>7, <1>9, <2>1
    <3>9. r \in Ids /\ n.look[r] = 0
      BY <2>1, <2>2
    <3>10. Leads(c, n, m, Ids, B, G2)
      BY <1>9, <3>2, <3>3, <3>4, <3>5, <3>6, <3>7, <3>8, <3>9 DEF Leads
    <3> QED
      BY <3>1, <3>2, <3>9, <3>10 DEF c
  <2>5. R \subseteq Ids
    BY <2>4 DEF Long
  <2>6. G \subseteq G2
    BY <1>10
  <2> HIDE DEF B, G, G2
  <2>7. Replays(recs, n, m, Guids, Ids, Guids, Ids, R, B, G, B, G2)
    BY <1>1, <1>9, <2>3, <2>4, <2>6, ReplayUpdates
  <2>8. Replays(recs, n, m, Guids, Ids, Guids', Ids', R, Stale(log), Mentioned(log), Stale(log), Mentioned(log'))
    BY <1>2, <2>7 DEF B, G, G2
  <2> HIDE DEF g, R
  <2> QED
    BY <1>1, <1>2, <1>3, <1>9, <1>10, <2>5, <2>8, FollowsFrom
<1> QED
  BY <1>13, <1>14

(* A point of routes that is deleted. *)
LEMMA DeletePointFollows ==
    ASSUME IInv, Limits, IInv', Limits', NEW i \in DOMAIN nav.obj, DeletePoint(i), lossy' = {}, NEW n, Picture(nav, n)
    PROVE  Follows(n)
<1>1. PICK v, w, rs, recs, ups, losses :
           /\ made' = made /\ i \in 1..Len(nav.obj) /\ rs = Containers(nav, i) /\ rs \in SUBSET Routes
           /\ v = RemovePoint(nav, rs, i) /\ w = DestroyWaypoint(nav, i)
           /\ Sound(v) /\ Len(v.obj) = Len(nav.obj) /\ Sound(w)
           /\ ups = RteUpdates(v, rs) /\ ups \in Seq(Changes)
           /\ recs \in Seq(Changes) /\ Edit(w, recs, losses) /\ Len(recs) = Len(ups) + 1 /\ Len(ups) \in Nat
           /\ \A k \in 1..Len(ups) : recs[k] = ups[k] /\ k \in 1..Len(recs)
           /\ recs[Len(ups) + 1] = Wpt("delete", v, i) /\ Wpt("delete", v, i) \in Changes
           /\ losses = Lost("restyled", Styled(nav, rs))
  BY DeletePointIs
<1>2. Guids' = Guids /\ Ids' = Ids /\ Guids \subseteq Guids' /\ Ids \subseteq Ids'
  BY <1>1, SameMade
<1> HIDE DEF Guids, Ids
<1>3. /\ nav' = Compact(w, Held(w)) /\ log' = log \o recs /\ losses = {}
      /\ \A k \in 1..Len(recs) : recs[k].kind = "wpt" => recs[k].pts[1].guid \notin Stale(log)
      /\ \A k \in 1..Len(recs) : recs[k].kind # "wpt" /\ recs[k].action # "delete" =>
            \A j \in 1..Len(recs[k].pts) : recs[k].pts[j].guid \notin Stale(log)
  BY <1>1, Lossless
<1>4. /\ Depicts(nav, n) /\ n.names \in [Routes -> Seq(Nat)] /\ n.own \subseteq n.here
      /\ n.known = Routes /\ n.behind = {} /\ n.left = {} /\ n.flagged = {}
      /\ Live(nav, i) /\ nav.look = n.look /\ \A r \in Routes : n.names[r] \in Seq(Nat)
  BY <1>1, PictureFields
<1> DEFINE g == nav.obj[i].guid
           S == Short(n, g)
           L == Less(n, g)
<1>5. /\ g \in n.here
      /\ \A r \in Routes : On(nav.pts, r, i) <=> Has(n.names[r], g)
      /\ \A r \in Routes : \A h : Has(n.names[r], h) => h \in n.here
      /\ \A h \in n.own : \E r \in Routes : Has(n.names[r], h)
  BY <1>1, <1>4, PictureGives
<1>6. \A r \in Routes : r \in rs <=> Has(n.names[r], g)
  BY <1>1, <1>5, InvariantGives, ContainersAre
<1>7. \A r \in Routes : Without(n.names[r], g) \in Seq(Nat) /\ \A h : Has(Without(n.names[r], g), h) <=> h # g /\ Has(n.names[r], h)
  BY <1>4, WithoutElements
<1>8. /\ \A r \in Routes : L[r] = IF r \in rs THEN Without(n.names[r], g) ELSE n.names[r]
      /\ \A r \in Routes : r \in S <=> r \in rs /\ Len(Without(n.names[r], g)) < 2
      /\ S \subseteq Routes
  BY <1>6 DEF Short, Less
<1>9. \A r \in Routes : L[r] \in Seq(Nat) /\ \A h : Has(L[r], h) <=> h # g /\ Has(n.names[r], h)
  BY <1>4, <1>6, <1>7, <1>8
<1>10. Dying(n, g) = {g} \cup {h \in n.own : /\ \E r \in Routes : r \in S /\ Has(L[r], h)
                            /\ \A r \in Routes : Has(L[r], h) => r \in S}
  BY DEF Dying
<1> DEFINE names == [r \in Routes |-> IF r \in S THEN <<>> ELSE L[r]]
           look == Bare(n, S)
           a == Plain(names, n.here \ Dying(n, g), n.pos, n.own \ {g}, look)
<1>11. /\ a.names = names /\ a.here = n.here \ Dying(n, g) /\ a.pos = n.pos /\ a.own = n.own \ {g} /\ a.look = look
       /\ a.known = Routes /\ a.behind = {} /\ a.left = {} /\ a.flagged = {}
  BY PlainFields
<1> HIDE DEF a
<1>12. /\ names \in [Routes -> Seq(Nat)]
       /\ \A r \in Routes : names[r] = IF r \in S THEN <<>> ELSE L[r]
       /\ \A r \in Routes : look[r] = IF r \in S THEN 0 ELSE n.look[r]
       /\ look = Bare(n, S)
  <2>1. <<>> \in Seq(Nat) /\ \A r \in Routes : L[r] \in Seq(Nat)
    BY <1>9
  <2>2. \A r \in Routes : names[r] = IF r \in S THEN <<>> ELSE L[r]
    OBVIOUS
  <2>3. \A r \in Routes : look[r] = IF r \in S THEN 0 ELSE n.look[r]
    BY DEF Bare
  <2> HIDE DEF S, L
  <2>4. names \in [Routes -> Seq(Nat)]
    BY <2>1
  <2> QED
    BY <2>2, <2>3, <2>4
<1>13. Depicts(w, a)
  <2>1. /\ \A r \in Routes : a.names[r] = IF r \in Short(n, g) THEN <<>> ELSE Less(n, g)[r]
        /\ a.look = Bare(n, Short(n, g))
    BY <1>11, <1>12
  <2>2. \A r \in Routes : n.names[r] \in Seq(Nat) /\ (Has(n.names[r], g) => r \in n.known)
    BY <1>4
  <2> HIDE DEF S, L, names, look
  <2>3. Destroys(nav, n, i, a)
    BY <1>4, <1>11, <2>1, <2>2 DEF Destroys
  <2>4. i \in 1..Len(nav.obj) /\ w = DestroyWaypoint(nav, i)
    BY <1>1
  <2>5. Depicts(DestroyWaypoint(nav, i), a)
    BY <1>4, <2>3, <2>4, DestroyDepicted
  <2> QED
    BY <2>4, <2>5
<1> HIDE DEF names, look
<1>14. PICK m : /\ Picture(nav', m)
                /\ m.names = names /\ m.here = n.here \ Dying(n, g) /\ m.pos = n.pos /\ m.look = look
                /\ m.own = (n.own \ {g}) \cap m.here
  <2> HIDE DEF S, L, g
  <2>1. Tidy(a)
    BY <1>11, <1>12 DEF Tidy
  <2>2. PICK m : Keeps(w, a, m)
    BY <1>13, <2>1, HeldPicture
  <2> QED
    BY <1>3, <1>11, <2>2 DEF Keeps
(* The world between the routes' records and the deletion. *)
<1> DEFINE between == [r \in Routes |-> IF r \in rs THEN Without(n.names[r], g) ELSE n.names[r]]
           b == Plain(between, n.here, n.pos, n.own \ {g}, n.look)
<1>15. /\ b.names = between /\ b.here = n.here /\ b.pos = n.pos /\ b.own = n.own \ {g} /\ b.look = n.look
       /\ b.known = Routes /\ b.behind = {} /\ b.left = {} /\ b.flagged = {}
  BY PlainFields
<1> HIDE DEF b
<1>16. \A r \in Routes : between[r] = IF r \in rs THEN Without(n.names[r], g) ELSE n.names[r]
  OBVIOUS
<1> HIDE DEF between
<1>17. Depicts(v, b)
  <2>1. \A h : h \in b.own <=> /\ h \in n.own
                               /\ h = nav.obj[i].guid => \E r \in Routes : r \notin rs /\ Has(n.names[r], h)
    BY <1>6, <1>15
  <2>2. /\ \A r \in Routes : r \in rs => /\ n.names[r] \in Seq(Nat)
                                         /\ Has(n.names[r], nav.obj[i].guid) => r \in n.known
        /\ \A r \in Routes : b.names[r] = IF r \in rs THEN Without(n.names[r], nav.obj[i].guid) ELSE n.names[r]
        /\ b.flagged \subseteq n.flagged /\ \A h \in b.flagged : h \in n.own => h \in b.own
        /\ b.known = n.known /\ b.behind = n.behind /\ b.left = n.left
    BY <1>4, <1>15, <1>16
  <2>3. Removes(nav, n, i, rs, b)
    BY <1>15, <2>1, <2>2 DEF Removes
  <2>4. i \in 1..Len(nav.obj) /\ v = RemovePoint(nav, rs, i)
    BY <1>1
  <2>5. Depicts(RemovePoint(nav, rs, i), b)
    BY <1>4, <2>3, <2>4, RemovedDepicted
  <2> QED
    BY <2>4, <2>5
<1>18. /\ Stale(log) \subseteq Stale(log') /\ Mentioned(log) \subseteq Mentioned(log')
       /\ \A k \in 1..Len(recs) : recs[k].kind # "wpt" =>
             \A j \in 1..Len(recs[k].pts) : recs[k].pts[j].guid \in Mentioned(log')
  BY <1>1, <1>3, MentionedMade, LogMore
<1> DEFINE B == Stale(log)
           G == Mentioned(log)
           G2 == Mentioned(log')
           N == Len(ups)
           x == Plain([r \in Routes |-> IF r \in S THEN n.names[r] ELSE L[r]], n.here, n.pos, n.own, n.look)
<1>19. /\ \A r \in Routes : x.names[r] = IF r \in S THEN n.names[r] ELSE L[r]
       /\ x.here = n.here /\ x.pos = n.pos /\ x.own = n.own /\ x.look = n.look
  BY PlainFields
<1> HIDE DEF x
<1>20. \A r \in rs : n.look[r] = 0 /\ r \in Ids
  <2>1. ~Styled(nav, rs)
    BY <1>1, <1>3, NotLost
  <2>2. \A r \in rs : On(nav.pts, r, i)
    BY <1>1, InvariantGives, ContainersAre
  <2>3. \A r \in rs : r \in Ids
    BY <1>1, <2>2, LimitsGive
  <2> QED
    BY <1>4, <2>1, <2>3 DEF Styled
<1>21. /\ \A k \in 1..N : \E r \in rs : recs[k] = Rte("update", v, r)
       /\ \A r \in rs : \E k \in 1..N : recs[k] = Rte("update", v, r)
  <2>1. /\ \A k \in 1..Len(RteUpdates(v, rs)) : \E r \in rs : RteUpdates(v, rs)[k] = Rte("update", v, r)
        /\ \A r \in rs : \E k \in 1..Len(RteUpdates(v, rs)) : RteUpdates(v, rs)[k] = Rte("update", v, r)
    <3>1. Sound(v) /\ rs \in SUBSET Routes
      BY <1>1
    <3> QED
      BY <3>1, UpdatesAre
  <2>2. ups = RteUpdates(v, rs) /\ \A k \in 1..Len(ups) : recs[k] = ups[k]
    BY <1>1
  <2>3. \A k \in 1..N : \E r \in rs : recs[k] = Rte("update", v, r)
    BY <2>1, <2>2
  <2>4. \A r \in rs : \E k \in 1..N : recs[k] = Rte("update", v, r)
    BY <2>1, <2>2
  <2> QED
    BY <2>3, <2>4
<1>22. ASSUME NEW r \in rs
       PROVE  LET c == Rte("update", v, r) IN
              /\ c.kind # "wpt" /\ c.action = "update" /\ c.guid = r /\ Len(c.pts) = Len(L[r]) /\ r \in Routes
              /\ \A j \in 1..Len(c.pts) :
                    /\ c.pts[j].guid = L[r][j] /\ c.pts[j].guid \in n.here /\ c.pts[j].pos = n.pos[c.pts[j].guid]
                    /\ c.pts[j].shared = (c.pts[j].guid \notin n.own)
  <2> DEFINE c == Rte("update", v, r)
  <2>1. /\ c.kind # "wpt" /\ c.action = "update" /\ c.guid = r /\ c.pts = Points(v, r)
        /\ r \in Routes
    BY <1>1, RouteRecordIs
  <2>2. /\ Len(Points(v, r)) = Len(b.names[r])
        /\ \A j \in 1..Len(Points(v, r)) :
              /\ Points(v, r)[j].guid = b.names[r][j] /\ Points(v, r)[j].guid \in b.here
              /\ Points(v, r)[j].pos = b.pos[Points(v, r)[j].guid]
              /\ Points(v, r)[j].shared = (Points(v, r)[j].guid \notin b.own)
    BY <1>15, <1>17, <2>1, RecordsShow
  <2>3. b.names[r] = L[r]
    BY <1>8, <1>15, <1>16, <2>1
  <2>4. L[r] \in Seq(Nat) /\ ~Has(L[r], g)
    BY <1>9, <2>1
  <2> HIDE DEF c, g, L
  <2>5. \A j \in 1..Len(L[r]) : L[r][j] # g
    BY <2>4 DEF Has
  <2>6. \A j \in 1..Len(c.pts) : c.pts[j].guid # g
    BY <2>1, <2>2, <2>3, <2>5
  <2>7. /\ c.kind # "wpt" /\ c.action = "update" /\ c.guid = r /\ Len(c.pts) = Len(L[r]) /\ r \in Routes
        /\ \A j \in 1..Len(c.pts) :
              /\ c.pts[j].guid = L[r][j] /\ c.pts[j].guid \in n.here /\ c.pts[j].pos = n.pos[c.pts[j].guid]
              /\ c.pts[j].shared = (c.pts[j].guid \notin n.own)
    BY <1>15, <2>1, <2>2, <2>3, <2>6
  <2> QED
    BY <2>7 DEF c
<1>23. \A r \in Routes : r \in rs /\ ~(r \in S) => Len(L[r]) >= 2
  <2>1. \A r \in Routes : r \in rs => L[r] = Without(n.names[r], g) /\ Len(L[r]) \in Nat
    BY <1>8, <1>9
  <2>2. \A r \in Routes : r \in rs /\ ~(r \in S) => ~(Len(L[r]) < 2)
    BY <1>8, <2>1
  <2> HIDE DEF L, S
  <2> QED
    BY <2>1, <2>2
<1>24. \A r \in Routes : r \in S => ~(Len(L[r]) >= 2)
  <2>1. \A r \in Routes : r \in S => Len(L[r]) < 2 /\ Len(L[r]) \in Nat
    BY <1>8, <1>9
  <2> HIDE DEF L, S
  <2> QED
    BY <2>1
<1> HIDE DEF S, L, g
<1>25. ASSUME NEW k \in 1..N PROVE Leads(recs[k], n, x, Ids, B, G2)
  <2>1. PICK r \in rs : recs[k] = Rte("update", v, r)
    BY <1>21
  <2> DEFINE c == Rte("update", v, r)
  <2>2. /\ c.kind # "wpt" /\ c.action = "update" /\ c.guid = r /\ Len(c.pts) = Len(L[r]) /\ r \in Routes
        /\ \A j \in 1..Len(c.pts) :
              /\ c.pts[j].guid = L[r][j] /\ c.pts[j].guid \in n.here /\ c.pts[j].pos = n.pos[c.pts[j].guid]
              /\ c.pts[j].shared = (c.pts[j].guid \notin n.own)
    BY <1>22
  <2>3. k \in 1..Len(recs) /\ recs[k] = c
    BY <1>1, <2>1
  <2>4. c \in Changes
    BY <1>1, <2>3
  <2> HIDE DEF c
  <2>5. "update" # "delete"
    OBVIOUS
  <2>6. \A j \in 1..Len(c.pts) : c.pts[j].guid \notin B /\ c.pts[j].guid \in G2
    BY <1>3, <1>18, <2>2, <2>3, <2>5
  <2> HIDE DEF B, G2
  <2>7. Len(c.pts) >= 2 => Len(x.names[r]) = Len(c.pts) /\ x.names[r] = L[r]
    BY <1>19, <1>24, <2>2
  <2> QED
    BY <1>19, <1>20, <2>2, <2>3, <2>4, <2>5, <2>6, <2>7 DEF Leads
<1>26. \A r \in Routes : r \in Long(recs, N) <=> r \in rs /\ ~(r \in S)
  <2>1. ASSUME NEW r \in Routes, r \in Long(recs, N) PROVE r \in rs /\ ~(r \in S)
    <3>1. PICK k \in 1..N : Len(recs[k].pts) >= 2 /\ recs[k].guid = r
      BY <2>1 DEF Long
    <3>2. PICK q \in rs : recs[k] = Rte("update", v, q)
      BY <1>21
    <3>3. q = r /\ Len(L[r]) >= 2
      BY <1>22, <3>1, <3>2
    <3> QED
      BY <1>24, <3>3
  <2>2. ASSUME NEW r \in Routes, r \in rs, ~(r \in S) PROVE r \in Long(recs, N)
    <3>1. PICK k \in 1..N : recs[k] = Rte("update", v, r)
      BY <1>21, <2>2
    <3>2. Len(recs[k].pts) >= 2 /\ recs[k].guid = r
      BY <1>22, <1>23, <2>2, <3>1
    <3> QED
      BY <3>2 DEF Long
  <2> QED
    BY <2>1, <2>2
<1>27. \A r : r \in Long(recs, N) => r \in Routes
  <2>1. ASSUME NEW k \in 1..N PROVE recs[k].guid \in Routes
    <3>1. PICK r \in rs : recs[k] = Rte("update", v, r)
      BY <1>21
    <3> QED
      BY <1>22, <3>1
  <2> QED
    BY <2>1 DEF Long
<1> DEFINE R == Long(recs, N) \cup S
<1>28. R \subseteq Ids /\ \A r \in Routes : r \in R <=> r \in rs
  BY <1>8, <1>20, <1>26, <1>27
<1>29. Shrinks(x, m, S, g)
  <2>1. \A h \in n.here : h \notin m.here =>
          h = g \/ (h \in n.own /\ \A r \in Routes : Has(x.names[r], h) => r \in S)
    BY <1>10, <1>14, <1>19
  <2>2. g \in Dying(n, g)
    BY <1>10
  <2>3. g \notin m.here
    BY <1>14, <2>2
  <2>4. \A h \in m.here : h \in m.own <=> h \in n.own
    BY <1>14, <2>3
  <2> QED
    BY <1>12, <1>14, <1>19, <2>1, <2>4 DEF Shrinks
<1>30. g \notin m.here
  <2>1. g \in Dying(n, g)
    BY <1>10
  <2> QED
    BY <1>14, <2>1
<1>31. /\ \A q \in Routes : q \notin R => m.names[q] = n.names[q] /\ m.look[q] = n.look[q]
       /\ \A q \in Routes : \A h : Has(m.names[q], h) => Has(n.names[q], h)
       /\ \A h \in n.here : h \in m.here => (h \in m.own <=> h \in n.own)
       /\ m.here \subseteq n.here
  <2>1. \A h : ~Has(<<>>, h)
    BY DEF Has
  <2>2. \A q \in Routes : m.names[q] = IF q \in S THEN <<>> ELSE L[q]
    BY <1>12, <1>14
  <2>3. \A q \in Routes : q \notin R => q \notin S /\ L[q] = n.names[q]
    BY <1>8, <1>28
  <2>4. \A q \in Routes : q \notin S => m.look[q] = n.look[q]
    BY <1>12, <1>14
  <2> QED
    BY <1>9, <1>14, <1>29, <1>30, <2>1, <2>2, <2>3, <2>4
<1>32. Replays(recs, n, m, Guids, Ids, Guids, Ids, R, B, G, B, G2)
  <2> DEFINE c == Wpt("delete", v, i)
  <2>1. c.kind = "wpt" /\ c.action = "delete" /\ c.guid = g /\ c.pts[1].guid = g
    <3>1. v.obj[i].guid = nav.obj[i].guid
      <4>1. Sound(nav)
        BY InvariantGives DEF Belong
      <4> QED
        BY <1>1, <4>1, PointRemoved
    <3> QED
      BY <3>1, MarkRecordIs DEF g
  <2>2. c \in Changes /\ c = recs[N + 1] /\ Len(recs) = N + 1 /\ N \in Nat
    BY <1>1
  <2>3. g \notin B
    <3>1. N + 1 \in 1..Len(recs)
      BY <2>2
    <3> QED
      BY <1>3, <2>1, <2>2, <3>1
  <2>4. N = 0 => x = n
    <3>1. \E r \in rs : TRUE
      <4>1. In(nav, i)
        <5>1. Containers(nav, i) # {}
          BY DEF DeletePoint
        <5> QED
          BY <5>1, InvariantGives, ContainersAre
      <4> QED
        BY <1>6, <4>1, <1>5, <1>1 DEF In, g
    <3>2. \E k \in 1..N : TRUE
      BY <1>21, <3>1
    <3> QED
      BY <2>2, <3>2
  <2>5. \A q \in Routes : x.names[q] \in Seq(Nat) /\ \A h : Has(x.names[q], h) => h \in n.here
    BY <1>4, <1>5, <1>9, <1>19
  <2>6. \A q \in Routes : q \notin Long(recs, N) => x.names[q] = n.names[q]
    BY <1>8, <1>19, <1>26
  <2>7. \A q \in Routes : \A h : h # g /\ Has(n.names[q], h) => Has(x.names[q], h)
    BY <1>9, <1>19
  <2>8. \A q \in Routes : q \in S <=> Has(x.names[q], g)
    BY <1>6, <1>8, <1>9, <1>19
  <2>9. \A q \in Routes : q \in S => Len(Without(x.names[q], g)) < 2 /\ q \notin Long(recs, N)
    BY <1>8, <1>19, <1>26
  <2>10. G \subseteq G2 /\ g \in n.here
    BY <1>5, <1>18 DEF g
  <2> HIDE DEF c, B, G, G2, N, R
  <2>11. R = Long(recs, N) \cup S
    BY DEF R
  <2> QED
    BY <1>19, <1>25, <1>29, <1>30, <2>1, <2>2, <2>3, <2>4, <2>5, <2>6, <2>7, <2>8, <2>9, <2>10, <2>11, ReplayDelete
<1> HIDE DEF R
<1>33. Replays(recs, n, m, Guids, Ids, Guids', Ids', R, Stale(log), Mentioned(log), Stale(log), Mentioned(log'))
  BY <1>2, <1>32
<1> QED
  BY <1>1, <1>2, <1>3, <1>14, <1>18, <1>28, <1>31, <1>33, FollowsFrom

(* A point that is taken out of a route. *)
LEMMA TakeOutFollows ==
    ASSUME IInv, Limits, IInv', Limits', NEW r \in Routes, NEW i \in DOMAIN nav.obj, TakeOutPoint(r, i),
           lossy' = {}, NEW n, Picture(nav, n)
    PROVE  Follows(n)
<1>0. PICK w, v, recs, losses : Taking(r, i, w, v, recs, losses)
  BY TakeOutPointIs
<1>1. /\ made' = made /\ i \in 1..Len(nav.obj) /\ On(nav.pts, r, i)
      /\ w = RemovePoint(nav, {r}, i) /\ v = DropRoute(w, r) /\ Sound(w) /\ Sound(v)
      /\ Len(w.obj) = Len(nav.obj) /\ w.pts[r] = Without(nav.pts[r], i) /\ Len(w.pts[r]) \in Nat
      /\ Rte("update", w, r) \in Changes /\ Rte("delete", w, r) \in Changes /\ recs \in Seq(Changes)
      /\ losses = Lost("taken", ~nav.obj[i].shared /\ Containers(nav, i) = {r})
                \cup Lost("restyled", Styled(nav, {r}))
      /\ Len(w.pts[r]) <= 1 =>
            /\ Edit(v, recs, losses) /\ Len(recs) = 3 /\ recs[1] = Rte("update", w, r)
            /\ recs[2] = Rte("delete", w, r) /\ recs[3] = Rte("delete", w, r)
      /\ ~(Len(w.pts[r]) <= 1) => Edit(w, recs, losses) /\ Len(recs) = 1 /\ recs[1] = Rte("update", w, r)
  BY <1>0 DEF Taking
<1>2. Guids' = Guids /\ Ids' = Ids /\ Guids \subseteq Guids' /\ Ids \subseteq Ids' /\ r \in Ids
  BY <1>1, SameMade, LimitsGive
<1> HIDE DEF Guids, Ids
<1> DEFINE z == IF Len(w.pts[r]) <= 1 THEN v ELSE w
<1>3. /\ nav' = Compact(z, Held(z)) /\ log' = log \o recs /\ losses = {}
      /\ \A k \in 1..Len(recs) : recs[k].kind # "wpt" /\ recs[k].action # "delete" =>
            \A j \in 1..Len(recs[k].pts) : recs[k].pts[j].guid \notin Stale(log)
  <2>1. Edit(z, recs, losses)
    BY <1>1
  <2> HIDE DEF z
  <2> QED
    BY <1>1, <2>1, Lossless
<1>4. /\ Depicts(nav, n) /\ n.names \in [Routes -> Seq(Nat)] /\ n.own \subseteq n.here /\ 0 \notin n.here
      /\ n.known = Routes /\ n.behind = {} /\ n.left = {} /\ n.flagged = {}
      /\ Live(nav, i) /\ nav.look = n.look /\ \A q \in Routes : n.names[q] \in Seq(Nat)
  BY <1>1, PictureFields
<1> DEFINE g == nav.obj[i].guid
<1>5. /\ g \in n.here
      /\ \A q \in Routes : On(nav.pts, q, i) <=> Has(n.names[q], g)
      /\ \A q \in Routes : \A h : Has(n.names[q], h) => h \in n.here
      /\ \A h \in n.own : \E q \in Routes : Has(n.names[q], h)
      /\ nav.obj[i].shared = (g \notin n.own)
  <2>1. In(nav, i)
    BY <1>1 DEF In
  <2> QED
    BY <1>1, <1>4, <2>1, PictureGives
<1>6. /\ g \in n.own => \E q \in Routes : q # r /\ Has(n.names[q], g)
      /\ n.look[r] = 0
  <2>1. /\ Lost("taken", ~nav.obj[i].shared /\ Containers(nav, i) = {r}) = {}
        /\ Lost("restyled", Styled(nav, {r})) = {}
    BY <1>1, <1>3
  <2>2. ~(~nav.obj[i].shared /\ Containers(nav, i) = {r}) /\ ~Styled(nav, {r})
    BY <2>1, NotLost
  <2>3. \A q \in Routes : q \in Containers(nav, i) <=> Has(n.names[q], g)
    BY <1>5, InvariantGives, ContainersAre
  <2>4. Containers(nav, i) \subseteq Routes /\ r \in Containers(nav, i)
    BY <1>1, InvariantGives, ContainersAre
  <2> QED
    BY <1>4, <1>5, <2>2, <2>3, <2>4 DEF Styled
<1> DEFINE names == [q \in Routes |-> IF q \in {r} THEN Without(n.names[q], g) ELSE n.names[q]]
           a == Plain(names, n.here, n.pos, n.own, n.look)
<1>7. /\ a.names = names /\ a.here = n.here /\ a.pos = n.pos /\ a.own = n.own /\ a.look = n.look
      /\ a.known = Routes /\ a.behind = {} /\ a.left = {} /\ a.flagged = {}
  BY PlainFields
<1> HIDE DEF a
<1>8. \A q \in Routes : Without(n.names[q], g) \in Seq(Nat) /\ \A h : Has(Without(n.names[q], g), h) <=> h # g /\ Has(n.names[q], h)
  BY <1>4, WithoutElements
<1>9. /\ names \in [Routes -> Seq(Nat)]
      /\ \A q \in Routes : names[q] = IF q \in {r} THEN Without(n.names[q], g) ELSE n.names[q]
  BY <1>4, <1>8
<1> HIDE DEF names
<1>10. \A q \in Routes : \A h : Has(names[q], h) <=> Has(n.names[q], h) /\ (q = r => h # g)
  BY <1>8, <1>9
<1>11. Depicts(w, a)
  <2>1. \A h : h \in a.own <=> /\ h \in n.own
                               /\ h = nav.obj[i].guid => \E q \in Routes : q \notin {r} /\ Has(n.names[q], h)
    BY <1>6, <1>7
  <2>2. /\ \A q \in Routes : q \in {r} => /\ n.names[q] \in Seq(Nat)
                                          /\ Has(n.names[q], nav.obj[i].guid) => q \in n.known
        /\ \A q \in Routes : a.names[q] = IF q \in {r} THEN Without(n.names[q], nav.obj[i].guid) ELSE n.names[q]
        /\ a.flagged \subseteq n.flagged /\ \A h \in a.flagged : h \in n.own => h \in a.own
        /\ a.known = n.known /\ a.behind = n.behind /\ a.left = n.left
    BY <1>4, <1>7, <1>9
  <2>3. Removes(nav, n, i, {r}, a)
    BY <1>7, <2>1, <2>2 DEF Removes
  <2>4. i \in 1..Len(nav.obj) /\ w = RemovePoint(nav, {r}, i)
    BY <1>1
  <2>5. Depicts(RemovePoint(nav, {r}, i), a)
    BY <1>4, <2>3, <2>4, RemovedDepicted
  <2> QED
    BY <2>4, <2>5
<1>12. /\ Stale(log) \subseteq Stale(log') /\ Mentioned(log) \subseteq Mentioned(log')
       /\ \A k \in 1..Len(recs) : recs[k].kind # "wpt" =>
             \A j \in 1..Len(recs[k].pts) : recs[k].pts[j].guid \in Mentioned(log')
  BY <1>1, <1>3, MentionedMade, LogMore
<1> DEFINE B == Stale(log)
           G == Mentioned(log)
           G2 == Mentioned(log')
<1>13. ASSUME NEW act
       PROVE  LET c == Rte(act, w, r) IN
              /\ c.kind # "wpt" /\ c.action = act /\ c.guid = r
              /\ Len(c.pts) = Len(names[r]) /\ Len(c.pts) = Len(w.pts[r])
              /\ \A j \in 1..Len(c.pts) :
                    /\ c.pts[j].guid = names[r][j] /\ c.pts[j].guid \in n.here /\ c.pts[j].pos = n.pos[c.pts[j].guid]
                    /\ c.pts[j].shared = (c.pts[j].guid \notin n.own)
  <2> DEFINE c == Rte(act, w, r)
  <2>1. /\ c.kind # "wpt" /\ c.action = act /\ c.guid = r /\ c.pts = Points(w, r) /\ Len(c.pts) = Len(w.pts[r])
    BY <1>1, RouteRecordIs
  <2>2. /\ Len(Points(w, r)) = Len(a.names[r])
        /\ \A j \in 1..Len(Points(w, r)) :
              /\ Points(w, r)[j].guid = a.names[r][j] /\ Points(w, r)[j].guid \in a.here
              /\ Points(w, r)[j].pos = a.pos[Points(w, r)[j].guid]
              /\ Points(w, r)[j].shared = (Points(w, r)[j].guid \notin a.own)
    BY <1>7, <1>11, RecordsShow
  <2> HIDE DEF c
  <2>3. /\ c.kind # "wpt" /\ c.action = act /\ c.guid = r
        /\ Len(c.pts) = Len(names[r]) /\ Len(c.pts) = Len(w.pts[r])
        /\ \A j \in 1..Len(c.pts) :
              /\ c.pts[j].guid = names[r][j] /\ c.pts[j].guid \in n.here /\ c.pts[j].pos = n.pos[c.pts[j].guid]
              /\ c.pts[j].shared = (c.pts[j].guid \notin n.own)
    BY <1>7, <2>1, <2>2
  <2> QED
    BY <2>3 DEF c
<1> HIDE DEF g
<1>14. CASE ~(Len(w.pts[r]) <= 1)
  <2>1. PICK m : /\ Picture(nav', m)
                 /\ m.names = names /\ m.here = n.here /\ m.pos = n.pos /\ m.look = n.look
                 /\ m.own = n.own
    <3>1. n.own \cap n.here = n.own /\ nav' = Compact(w, Held(w))
      BY <1>3, <1>4, <1>14
    <3> QED
      <4>1. Tidy(a)
        BY <1>7, <1>9 DEF Tidy
      <4>2. PICK m : Keeps(w, a, m)
        BY <1>11, <4>1, HeldPicture
      <4> QED
        BY <1>7, <3>1, <4>2 DEF Keeps
  <2> DEFINE c == Rte("update", w, r)
  <2>2. /\ c.kind # "wpt" /\ c.action = "update" /\ c.guid = r
        /\ Len(c.pts) = Len(names[r]) /\ Len(c.pts) = Len(w.pts[r])
        /\ \A j \in 1..Len(c.pts) :
              /\ c.pts[j].guid = names[r][j] /\ c.pts[j].guid \in n.here /\ c.pts[j].pos = n.pos[c.pts[j].guid]
              /\ c.pts[j].shared = (c.pts[j].guid \notin n.own)
    BY <1>13
  <2>3. c \in Changes /\ c = recs[1] /\ Len(recs) = 1
    BY <1>1, <1>14
  <2> HIDE DEF c
  <2>4. Len(c.pts) >= 2 /\ "update" # "delete"
    BY <1>1, <1>14, <2>2
  <2>5. \A j \in 1..Len(c.pts) : c.pts[j].guid \notin B /\ c.pts[j].guid \in G2
    BY <1>3, <1>12, <2>2, <2>3, <2>4
  <2>6. G \subseteq G2 /\ G \subseteq Guids
    BY <1>12, MentionedMade
  <2> HIDE DEF B, G, G2
  <2>7. Guids = Guids \cup {} /\ Ids = Ids \cup {c.guid} /\ m.here = n.here \cup {} /\ m.own = n.own \cup {}
    BY <1>2, <2>1, <2>2
  <2>8. /\ \A q \in Routes : q # c.guid => m.names[q] = n.names[q] /\ m.look[q] = n.look[q]
        /\ m.look[c.guid] = 0 /\ Len(m.names[c.guid]) = Len(c.pts)
        /\ \A k \in 1..Len(c.pts) :
               /\ m.names[c.guid][k] = c.pts[k].guid /\ m.pos[c.pts[k].guid] = c.pts[k].pos
               /\ c.pts[k].guid \in m.here /\ c.pts[k].shared = (c.pts[k].guid \notin m.own)
               /\ c.pts[k].guid \notin B /\ c.pts[k].guid \in G2
        /\ \A h \in n.here : m.pos[h] = n.pos[h]
    BY <1>6, <1>9, <2>1, <2>2, <2>5
  <2>9. Replays(recs, n, m, Guids, Ids, Guids, Ids, {c.guid}, B, G, B, G2)
    <3>1. \A h \in {} : h \notin Guids /\ Has(m.names[c.guid], h)
      OBVIOUS
    <3>2. /\ c.kind # "wpt" /\ c.action # "delete" /\ Len(c.pts) >= 2
      BY <2>2, <2>4
    <3>3. Redraws(n, c, m, {}, Guids, B, G2)
      BY <2>7, <2>8, <3>1, <3>2 DEF Redraws
    <3> QED
      BY <2>3, <2>6, <2>7, <3>3, ReplayUpdate
  <2>10. Replays(recs, n, m, Guids, Ids, Guids', Ids', {r}, Stale(log), Mentioned(log), Stale(log), Mentioned(log'))
    BY <1>2, <2>2, <2>9 DEF B, G, G2
  <2>11. /\ {r} \subseteq Ids' /\ \A q \in Routes : q \notin {r} => m.names[q] = n.names[q] /\ m.look[q] = n.look[q]
         /\ \A q \in Routes : q \in Ids => \A h : Has(m.names[q], h) => Has(n.names[q], h)
    BY <1>2, <1>9, <1>10, <2>1
  <2> HIDE DEF z
  <2> QED
    BY <1>1, <1>2, <1>3, <1>12, <2>1, <2>10, <2>11, FollowsFrom
<1>15. CASE Len(w.pts[r]) <= 1
  <2> DEFINE none == [q \in Routes |-> IF q \in {r} THEN <<>> ELSE a.names[q]]
             look == Bare(a, {r})
             b == Plain(none, n.here \ Gone(a, {r}), n.pos, n.own, look)
  <2>1. /\ b.names = none /\ b.here = n.here \ Gone(a, {r}) /\ b.pos = n.pos /\ b.own = n.own /\ b.look = look
        /\ b.known = Routes /\ b.behind = {} /\ b.left = {} /\ b.flagged = {}
    BY PlainFields
  <2> HIDE DEF b
  <2>2. /\ none \in [Routes -> Seq(Nat)]
        /\ \A q \in Routes : none[q] = IF q \in {r} THEN <<>> ELSE a.names[q]
        /\ \A q \in Routes : look[q] = IF q \in {r} THEN 0 ELSE a.look[q]
        /\ look = Bare(a, {r})
    <3>1. <<>> \in Seq(Nat) /\ a.names \in [Routes -> Seq(Nat)]
      BY <1>7, <1>9
    <3>2. none \in [Routes -> Seq(Nat)]
      BY <3>1
    <3>3. \A q \in Routes : none[q] = IF q \in {r} THEN <<>> ELSE a.names[q]
      OBVIOUS
    <3>4. \A q \in Routes : look[q] = IF q \in {r} THEN 0 ELSE a.look[q]
      BY DEF Bare
    <3> HIDE DEF none
    <3> QED
      BY <3>2, <3>3, <3>4
  <2> HIDE DEF none, look
  <2>3. Depicts(v, b)
    <3>1. /\ \A q \in Routes : b.names[q] = IF q \in {r} THEN <<>> ELSE a.names[q]
          /\ b.look = Bare(a, {r})
          /\ b.known \subseteq a.known \cup {r} /\ b.flagged = a.flagged /\ b.behind = a.behind /\ b.left = a.left
          /\ b.here = a.here \ Gone(a, {r}) /\ b.pos = a.pos /\ b.own = a.own
      BY <1>7, <2>1, <2>2
    <3>2. Drops(a, {r}, b)
      BY <3>1 DEF Drops
    <3>3. Depicts(DropRoutes(w, {r}), b)
      BY <1>11, <3>2, DropDepicted
    <3> QED
      BY <1>1, <3>3 DEF DropRoute
  <2>4. PICK m : /\ Picture(nav', m)
                 /\ m.names = none /\ m.here = n.here \ Gone(a, {r}) /\ m.pos = n.pos /\ m.look = look
                 /\ m.own = n.own \cap m.here
    <3>1. nav' = Compact(v, Held(v))
      BY <1>3, <1>15
    <3> QED
      <4>1. Tidy(b)
        BY <2>1, <2>2 DEF Tidy
      <4>2. PICK m : Keeps(v, b, m)
        BY <2>3, <4>1, HeldPicture
      <4> QED
        BY <2>1, <3>1, <4>2 DEF Keeps
  <2>5. Shrinks(n, m, {r}, 0)
    <3>1. ASSUME NEW h \in n.here, h \notin m.here
          PROVE  h \in n.own /\ \A q \in Routes : Has(n.names[q], h) => q \in {r}
      <4>1. h \in Gone(a, {r})
        BY <2>4, <3>1
      <4>2. h \in n.own /\ \A q \in Routes : Has(names[q], h) => q \in {r}
        BY <1>7, <4>1 DEF Gone
      <4> QED
        BY <1>10, <4>2
    <3>2. \A q \in Routes : m.names[q] = IF q \in {r} THEN <<>> ELSE n.names[q]
      BY <1>7, <1>9, <2>2, <2>4
    <3>3. \A q \in Routes : m.look[q] = IF q \in {r} THEN 0 ELSE n.look[q]
      BY <1>7, <2>2, <2>4
    <3> QED
      BY <2>4, <3>1, <3>2, <3>3 DEF Shrinks
  <2> DEFINE u == Rte("update", w, r)
             c == Rte("delete", w, r)
  <2>6. /\ u.kind # "wpt" /\ u.action = "update" /\ u.guid = r /\ Len(u.pts) = Len(w.pts[r])
        /\ \A j \in 1..Len(u.pts) : u.pts[j].shared = (u.pts[j].guid \notin n.own)
    BY <1>13
  <2>7. /\ c.kind # "wpt" /\ c.action = "delete" /\ c.guid = r
        /\ \A j \in 1..Len(c.pts) : c.pts[j].shared = (c.pts[j].guid \notin n.own)
    BY <1>13
  <2>8. u \in Changes /\ c \in Changes /\ u = recs[1] /\ c = recs[2] /\ c = recs[3] /\ Len(recs) = 3
    BY <1>1, <1>15
  <2> HIDE DEF u, c
  <2>9. Len(u.pts) < 2 /\ "update" # "delete"
    <3>1. Len(w.pts[r]) \in Nat /\ Len(w.pts[r]) <= 1 /\ Len(u.pts) = Len(w.pts[r])
      BY <1>1, <1>15, <2>6
    <3>2. \A l \in Nat : l <= 1 => l < 2
      OBVIOUS
    <3>3. Len(u.pts) < 2
      BY <3>1, <3>2, Zenon
    <3> QED
      BY <3>3
  <2>10. /\ \A j \in 1..Len(c.pts) : c.pts[j].guid \in G2
         /\ \A j \in 1..Len(u.pts) : u.pts[j].guid \in G2
    BY <1>12, <2>6, <2>7, <2>8
  <2>11. \A k \in 1..Len(c.pts) : c.pts[k].guid \in m.here => c.pts[k].shared = (c.pts[k].guid \notin m.own)
    BY <2>4, <2>7
  <2>12. G \subseteq G2 /\ c.guid \in Ids /\ Shrinks(n, m, {c.guid}, 0)
    BY <1>2, <1>12, <2>5, <2>7
  <2> HIDE DEF B, G, G2
  <2>13. Replays(recs, n, m, Guids, Ids, Guids, Ids, {c.guid}, B, G, B, G2)
    <3>1. /\ u.kind # "wpt" /\ u.action # "delete" /\ Len(u.pts) < 2
          /\ \A k \in 1..Len(u.pts) : u.pts[k].guid \in n.here => u.pts[k].shared = (u.pts[k].guid \notin n.own)
      BY <2>6, <2>9
    <3> QED
      BY <1>4, <2>7, <2>8, <2>10, <2>11, <2>12, <3>1, ReplayLast
  <2>14. Replays(recs, n, m, Guids, Ids, Guids', Ids', {r}, Stale(log), Mentioned(log), Stale(log), Mentioned(log'))
    BY <1>2, <2>7, <2>13 DEF B, G, G2
  <2>15. /\ {r} \subseteq Ids' /\ \A q \in Routes : q \notin {r} => m.names[q] = n.names[q] /\ m.look[q] = n.look[q]
         /\ \A q \in Routes : q \in Ids => \A h : Has(m.names[q], h) => Has(n.names[q], h)
         /\ \A h \in n.here : h \in m.here => (h \in m.own <=> h \in n.own)
         /\ m.here \subseteq n.here
    <3>1. \A h : ~Has(<<>>, h)
      BY DEF Has
    <3> QED
      BY <1>2, <2>4, <2>5, <3>1 DEF Shrinks
  <2> HIDE DEF z
  <2> QED
    BY <1>1, <1>2, <1>3, <1>12, <2>4, <2>14, <2>15, FollowsFrom
<1> QED
  BY <1>14, <1>15

-----------------------------------------------------------------------------
(* Drawing a route *)

(* The GUID of a stop, a new point or one that is there.                    *)
StopName(w, stop) == IF stop.old = 0 THEN stop.guid ELSE w.obj[stop.old].guid

(* The picture when the first k stops are drawn. *)
SoFar(a, w, r, stops, pos, k) ==
    Plain([q \in Routes |-> IF q = r THEN [j \in 1..k |-> StopName(w, stops[j])] ELSE a.names[q]],
          a.here \cup {stops[j].guid : j \in {x \in 1..k : stops[x].old = 0}}, pos, a.own, a.look)

(* The fields of the picture b when the first k stops are drawn.            *)
Reaches(b, a, w, r, stops, pos, k) ==
    /\ \A q \in Routes : q # r => b.names[q] = a.names[q]
    /\ b.names[r] \in Seq(Nat)
    /\ Len(b.names[r]) = k
    /\ \A j \in 1..k : b.names[r][j] = StopName(w, stops[j])
    /\ b.here = a.here \cup {stops[j].guid : j \in {x \in 1..k : stops[x].old = 0}}
    /\ b.pos = pos
    /\ b.own = a.own
    /\ b.look = a.look
    /\ b.known = Routes
    /\ b.behind = {}
    /\ b.left = {}
    /\ b.flagged = {}
    /\ b.names \in [Routes -> {b.names[q] : q \in Routes}]

(* The fields of SoFar.                                                    *)
LEMMA SoFarFields ==
    ASSUME NEW a, NEW w, NEW r \in Routes, NEW stops, NEW pos, NEW k \in Nat,
           \A j \in 1..k : StopName(w, stops[j]) \in Nat
    PROVE  Reaches(SoFar(a, w, r, stops, pos, k), a, w, r, stops, pos, k)
<1> DEFINE b == SoFar(a, w, r, stops, pos, k)
           names == [q \in Routes |-> IF q = r THEN [j \in 1..k |-> StopName(w, stops[j])] ELSE a.names[q]]
           here == a.here \cup {stops[j].guid : j \in {x \in 1..k : stops[x].old = 0}}
<1>1. /\ b.names = names /\ b.here = here /\ b.pos = pos /\ b.own = a.own /\ b.look = a.look
      /\ b.known = Routes /\ b.behind = {} /\ b.left = {} /\ b.flagged = {}
  <2> HIDE DEF names, here
  <2>1. b = Plain(names, here, pos, a.own, a.look)
    BY DEF SoFar, names, here
  <2> HIDE DEF b
  <2> QED
    BY <2>1, PlainFields
<1>2. names[r] \in [1..k -> Nat] /\ names[r] = [j \in 1..k |-> StopName(w, stops[j])]
  OBVIOUS
<1>3. \A q \in Routes : q # r => names[q] = a.names[q]
  OBVIOUS
<1>4. names \in [Routes -> {names[q] : q \in Routes}]
  OBVIOUS
<1> HIDE DEF b, names
<1>5. names[r] \in Seq(Nat) /\ Len(names[r]) = k
  BY <1>2, FunctionSeq
<1> HIDE DEF here
<1>6. /\ \A q \in Routes : q # r => b.names[q] = a.names[q]
      /\ b.names[r] \in Seq(Nat) /\ Len(b.names[r]) = k
      /\ \A j \in 1..k : b.names[r][j] = StopName(w, stops[j])
      /\ b.here = here
      /\ b.pos = pos /\ b.own = a.own /\ b.look = a.look
      /\ b.known = Routes /\ b.behind = {} /\ b.left = {} /\ b.flagged = {}
      /\ b.names \in [Routes -> {b.names[q] : q \in Routes}]
  BY <1>1, <1>2, <1>3, <1>4, <1>5
<1> QED
  BY <1>6 DEF b, here, Reaches

(* The first n objects show their points.                                  *)
AllThere(w, n) ==
    /\ n <= Len(w.obj)
    /\ \A i \in 1..n : Live(w, i)

(* A picture with a route that passes one stop more, a new point or one of  *)
(* the first n objects.                                                     *)
Passes(w, a, r, stop, n, b) ==
    /\ a.behind = {}
    /\ a.left = {}
    /\ stop.old \in 0..n
    /\ stop.old = 0 => /\ stop.guid \in 1..MaxPoints
                       /\ stop.guid \notin a.here
                       /\ stop.guid \in a.own
    /\ \A q \in Routes : q # r => b.names[q] = a.names[q]
    /\ Len(b.names[r]) = Len(a.names[r]) + 1
    /\ b.names[r][Len(a.names[r]) + 1] = StopName(w, stop)
    /\ \A m \in 1..Len(a.names[r]) : b.names[r][m] = a.names[r][m]
    /\ b.here = IF stop.old = 0 THEN a.here \cup {stop.guid} ELSE a.here
    /\ b.own = a.own
    /\ b.look = a.look
    /\ \A g \in a.here : b.pos[g] = a.pos[g]
    /\ stop.old = 0 => b.pos[stop.guid] = 1
    /\ b.known = a.known
    /\ b.flagged = a.flagged
    /\ b.behind = a.behind
    /\ b.left = a.left

(* The world x after some stops: its first n objects are those of w.        *)
Drawn(w, x, n, b) ==
    /\ Depicts(x, b)
    /\ n <= Len(x.obj)
    /\ \A i \in 1..n : Live(x, i) /\ x.obj[i].guid = w.obj[i].guid

(* The stops of a route that is new in the picture: objects that are there, *)
(* and different points that are not.                                       *)
Outlines(w, a, stops, pos) ==
    /\ Len(stops) \in Nat
    /\ AllThere(w, Len(w.obj))
    /\ \A k \in 1..Len(stops) :
           /\ stops[k].old \in 0..Len(w.obj)
           /\ stops[k].old = 0 => /\ stops[k].guid \in 1..MaxPoints
                                  /\ stops[k].guid \notin a.here
                                  /\ stops[k].guid \in a.own
                                  /\ pos[stops[k].guid] = 1
    /\ \A j, k \in 1..Len(stops) :
           stops[j].old = 0 /\ stops[k].old = 0 /\ stops[j].guid = stops[k].guid => j = k
    /\ \A g \in a.here : pos[g] = a.pos[g]

(* One stop. *)
LEMMA StopDepicted ==
    ASSUME NEW w, NEW a, Depicts(w, a), NEW r \in Routes, NEW stop, NEW n \in Nat, AllThere(w, n), NEW b,
           Passes(w, a, r, stop, n, b)
    PROVE  Drawn(w, Draw(w, r, stop), n, b)
<1> DEFINE x == Draw(w, r, stop)
<1>1. Sound(w) /\ Len(w.obj) \in Nat
  BY WorldTypes DEF Depicts, Sound, Fits
<1>4. n <= Len(w.obj) /\ \A i \in 1..n : Live(w, i)
  BY DEF AllThere
<1>5. /\ a.behind = {} /\ a.left = {} /\ stop.old \in 0..n
      /\ stop.old = 0 => stop.guid \in 1..MaxPoints /\ stop.guid \notin a.here /\ stop.guid \in a.own
  BY DEF Passes
<1>6. /\ \A q \in Routes : q # r => b.names[q] = a.names[q]
      /\ Len(b.names[r]) = Len(a.names[r]) + 1 /\ b.names[r][Len(a.names[r]) + 1] = StopName(w, stop)
      /\ \A m \in 1..Len(a.names[r]) : b.names[r][m] = a.names[r][m]
      /\ b.here = IF stop.old = 0 THEN a.here \cup {stop.guid} ELSE a.here
      /\ b.own = a.own /\ b.look = a.look
      /\ \A g \in a.here : b.pos[g] = a.pos[g]
      /\ stop.old = 0 => b.pos[stop.guid] = 1
      /\ b.known = a.known /\ b.flagged = a.flagged /\ b.behind = a.behind /\ b.left = a.left
  BY DEF Passes
<1>2. CASE stop.old # 0
  <2> DEFINE i == stop.old
  <2>1. i \in 1..Len(w.obj) /\ i \in 1..n /\ Live(w, i)
    BY <1>1, <1>2, <1>4, <1>5
  <2>2. x = AddPoint(w, r, i) /\ StopName(w, stop) = w.obj[i].guid
    BY <1>2 DEF Draw, StopName
  <2> HIDE DEF i, x
  <2>3. Depicts(x, b)
    <3>1. w.obj[i].guid \notin a.behind /\ b.here = a.here
      BY <1>2, <1>5, <1>6
    <3>2. Extends(w, a, r, i, b)
      BY <1>6, <2>2, <3>1 DEF Extends
    <3> QED
      BY <2>1, <2>2, <3>2, OldPointDepicted
  <2>4. /\ Len(x.obj) = Len(w.obj) /\ \A j : In(x, j) <=> In(w, j) \/ j = i
        /\ \A j \in 1..Len(w.obj) : j # i => x.obj[j] = w.obj[j]
        /\ \A j \in 1..Len(w.obj) : /\ x.obj[j].guid = w.obj[j].guid
                                    /\ x.obj[j].listed = w.obj[j].listed
    BY <1>1, <2>1, <2>2, PointAdded
  <2>5. \A j \in 1..n : Live(x, j) /\ x.obj[j].guid = w.obj[j].guid
    <3> TAKE j \in 1..n
    <3>1. j \in 1..Len(w.obj) /\ Live(w, j)
      BY <1>1, <1>4
    <3> QED
      BY <2>4, <3>1 DEF Live
  <2>6. Drawn(w, x, n, b)
    BY <1>4, <2>3, <2>4, <2>5 DEF Drawn
  <2> QED
    BY <2>6 DEF x
<1>3. CASE stop.old = 0
  <2> DEFINE rec == [guid |-> stop.guid, pos |-> 1, shared |-> FALSE]
             o == Object(rec)
             u == AddRoutePoint(w, o)
  <2>1. rec \in Recs /\ rec.guid = stop.guid /\ rec.pos = 1 /\ rec.shared = FALSE
    BY <1>3, <1>5, NavAssumption DEF Recs
  <2>2. x = AddPoint(u, r, Len(w.obj) + 1) /\ StopName(w, stop) = stop.guid
    BY <1>3 DEF Draw, StopName
  <2> HIDE DEF rec
  <2>3. /\ o \in Objects /\ o.listed /\ ~o.isolated /\ o.guid = stop.guid /\ o.pos = 1
        /\ o.shared = (stop.guid \notin a.own)
    BY <1>3, <1>5, <2>1, ObjectOf
  <2> HIDE DEF o, x
  <2>4. Depicts(x, b)
    <3>1. /\ o.guid \notin a.here /\ o.guid \notin a.left /\ o.shared = (o.guid \notin a.own)
          /\ b.names[r][Len(a.names[r]) + 1] = o.guid /\ b.here = a.here \cup {o.guid} /\ b.pos[o.guid] = o.pos
      BY <1>3, <1>5, <1>6, <2>2, <2>3
    <3>2. Begins(a, r, o, b)
      BY <1>6, <2>3, <3>1 DEF Begins
    <3>3. Depicts(AddPoint(AddRoutePoint(w, o), r, Len(w.obj) + 1), b)
      BY <2>3, <3>2, NewPointDepicted
    <3> QED
      BY <2>2, <3>3 DEF u
  <2>5. /\ Sound(u) /\ Len(u.obj) = Len(w.obj) + 1 /\ u.pts = w.pts
        /\ \A j \in 1..Len(w.obj) : u.obj[j] = w.obj[j]
    BY <1>1, <2>3, ObjectAdded
  <2> HIDE DEF u
  <2>6. Len(w.obj) + 1 \in 1..Len(u.obj)
    BY <1>1, <2>5
  <2>7. /\ Len(x.obj) = Len(u.obj) /\ \A j : In(x, j) <=> In(u, j) \/ j = Len(w.obj) + 1
        /\ \A j \in 1..Len(u.obj) : j # Len(w.obj) + 1 => x.obj[j] = u.obj[j]
    <3> DEFINE i == Len(w.obj) + 1
    <3>1. i \in 1..Len(u.obj) /\ x = AddPoint(u, r, i) /\ Sound(u)
      BY <2>2, <2>5, <2>6
    <3> HIDE DEF i
    <3>2. /\ Len(x.obj) = Len(u.obj) /\ \A j : In(x, j) <=> In(u, j) \/ j = i
          /\ \A j \in 1..Len(u.obj) : j # i => x.obj[j] = u.obj[j]
      BY <3>1, PointAdded
    <3> QED
      BY <3>2 DEF i
  <2>8. \A j : In(u, j) <=> In(w, j)
    BY <2>5 DEF In
  <2>9. \A j \in 1..n : Live(x, j) /\ x.obj[j].guid = w.obj[j].guid
    <3> TAKE j \in 1..n
    <3>1. j \in 1..Len(w.obj) /\ Live(w, j) /\ j \in 1..Len(u.obj) /\ j # Len(w.obj) + 1
      BY <1>1, <1>4, <2>5
    <3>2. x.obj[j] = w.obj[j]
      BY <2>5, <2>7, <3>1
    <3> QED
      BY <2>7, <2>8, <3>1, <3>2 DEF Live
  <2>10. Drawn(w, x, n, b)
    BY <1>1, <1>4, <2>4, <2>5, <2>7, <2>9 DEF Drawn
  <2> QED
    BY <2>10 DEF x
<1> QED
  BY <1>2, <1>3

(* DrawThrough, from the first stop to the last.                           *)
LEMMA DrawDepicted ==
    ASSUME NEW w, NEW a, Depicts(w, a), NoneLost(w), a.known = Routes, a.behind = {}, a.left = {}, a.flagged = {},
           NEW r \in Routes, a.names[r] = <<>>, NEW stops, NEW pos, Outlines(w, a, stops, pos)
    PROVE  Depicts(DrawThrough(w, r, stops), SoFar(a, w, r, stops, pos, Len(stops)))
<1> DEFINE n == Len(stops)
           l == Len(w.obj)
<1>0. /\ Len(stops) \in Nat /\ AllThere(w, Len(w.obj))
      /\ \A k \in 1..Len(stops) :
             /\ stops[k].old \in 0..Len(w.obj)
             /\ stops[k].old = 0 => /\ stops[k].guid \in 1..MaxPoints /\ stops[k].guid \notin a.here
                                    /\ stops[k].guid \in a.own /\ pos[stops[k].guid] = 1
      /\ \A j, k \in 1..Len(stops) : stops[j].old = 0 /\ stops[k].old = 0 /\ stops[j].guid = stops[k].guid => j = k
      /\ \A g \in a.here : pos[g] = a.pos[g]
  BY DEF Outlines
<1>1. /\ Sound(w) /\ l \in Nat /\ \A i \in 1..l : w.obj[i].guid \in 1..MaxPoints
  <2>1. Sound(w) /\ l \in Nat /\ w.obj \in [1..Len(w.obj) -> Objects]
    BY WorldTypes DEF Depicts, Sound, Fits
  <2> QED
    BY <2>1 DEF Objects
<1>2. PICK f : /\ f[0] = w /\ \A k \in 1..n : f[k] = Draw(f[k - 1], r, stops[k])
               /\ DrawThrough(w, r, stops) = f[n]
  <2>1. \A k \in 1..Len(stops) : /\ stops[k].old \in 0..Len(w.obj)
                                 /\ stops[k].old = 0 => stops[k].guid \in 1..MaxPoints
    BY <1>0
  <2>2. Sound(w) /\ Len(stops) \in Nat
    BY <1>0, <1>1
  <2>3. StopsRun(w, r, stops)
    BY <2>1, <2>2, PointsDrawn
  <2> QED
    BY <2>3 DEF StopsRun
<1>3. \A k \in 1..n : StopName(w, stops[k]) \in Nat
  <2> TAKE k \in 1..n
  <2>1. MaxPoints \in Nat
    BY NavAssumption
  <2>2. CASE stops[k].old = 0
    BY <1>0, <2>1, <2>2 DEF StopName
  <2>3. CASE stops[k].old # 0
    <3>1. stops[k].old \in 1..l
      BY <1>0, <1>1, <2>3
    <3> QED
      BY <1>1, <2>1, <2>3, <3>1 DEF StopName
  <2> QED
    BY <2>2, <2>3
<1> DEFINE P(k) == SoFar(a, w, r, stops, pos, k)
           Z == {k \in 0..n : Drawn(w, f[k], l, P(k))}
<1>4. ASSUME NEW k \in 0..n
      PROVE  /\ \A q \in Routes : q # r => P(k).names[q] = a.names[q]
             /\ Len(P(k).names[r]) = k
             /\ \A j \in 1..k : P(k).names[r][j] = StopName(w, stops[j])
             /\ P(k).here = a.here \cup {stops[j].guid : j \in {x \in 1..k : stops[x].old = 0}}
             /\ P(k).pos = pos /\ P(k).own = a.own /\ P(k).look = a.look
             /\ P(k).known = Routes /\ P(k).behind = {} /\ P(k).left = {} /\ P(k).flagged = {}
  <2>1. k \in Nat /\ \A j \in 1..k : StopName(w, stops[j]) \in Nat
    BY <1>0, <1>3
  <2>2. Reaches(P(k), a, w, r, stops, pos, k)
    BY <2>1, SoFarFields
  <2> HIDE DEF P
  <2> QED
    BY <2>2 DEF Reaches
<1> HIDE DEF P
<1>5. 0 \in Z
  <2>1. 0 \in 0..n
    BY <1>0
  <2>2. P(0).here = a.here
    <3>1. P(0).here = a.here \cup {stops[j].guid : j \in {x \in 1..0 : stops[x].old = 0}}
      BY <1>4, <2>1, Zenon
    <3>2. {x \in 1..0 : stops[x].old = 0} = {}
      OBVIOUS
    <3>3. {stops[j].guid : j \in {}} = {}
      OBVIOUS
    <3> QED
      BY <3>1, <3>2, <3>3
  <2>3. Len(a.names[r]) = 0 /\ Len(P(0).names[r]) = 0
    BY <1>4, <2>1
  <2>4. \A q \in Routes : /\ Len(P(0).names[q]) = Len(a.names[q])
                          /\ \A m \in 1..Len(a.names[q]) : P(0).names[q][m] = a.names[q][m]
                          /\ q \in P(0).known => q \in a.known
                          /\ \A m \in 1..Len(a.names[q]) :
                               q \notin a.known /\ a.names[q][m] \in P(0).own => a.names[q][m] \in a.own
    BY <1>4, <2>1, <2>3
  <2>5. /\ P(0).look = a.look /\ \A g \in a.here : P(0).pos[g] = a.pos[g] /\ (g \in P(0).own <=> g \in a.own)
        /\ P(0).flagged = {} /\ a.behind \subseteq P(0).behind /\ a.left \subseteq P(0).left
    BY <1>0, <1>4, <2>1
  <2>6. \A g \in P(0).flagged : g \notin a.left \/ (g \in a.flagged /\ (g \in P(0).own <=> g \in a.own))
    BY <2>5
  <2>7. Depicts(w, P(0))
    BY <2>2, <2>4, <2>5, <2>6, Redepicted
  <2>8. Drawn(w, w, l, P(0))
    BY <1>0, <1>1, <2>7 DEF Drawn, AllThere
  <2> QED
    BY <1>2, <2>1, <2>8
<1>6. ASSUME NEW k \in 1..n, k - 1 \in Z
      PROVE  k \in Z
  <2> DEFINE v == f[k - 1]
             c == P(k - 1)
             b == P(k)
             stop == stops[k]
  <2>1. k \in 0..n /\ k - 1 \in 0..n /\ k - 1 + 1 = k
    BY <1>0
  <2>2. /\ Depicts(v, c) /\ l <= Len(v.obj)
        /\ \A i \in 1..l : Live(v, i) /\ v.obj[i].guid = w.obj[i].guid
    <3>1. Drawn(w, v, l, c)
      BY <1>6
    <3> HIDE DEF v, c
    <3> QED
      BY <3>1 DEF Drawn
  <2>3. f[k] = Draw(v, r, stop)
    BY <1>2
  <2>4. /\ \A q \in Routes : q # r => b.names[q] = c.names[q]
        /\ Len(c.names[r]) = k - 1 /\ Len(b.names[r]) = Len(c.names[r]) + 1
        /\ b.names[r][Len(c.names[r]) + 1] = StopName(w, stop)
        /\ \A m \in 1..Len(c.names[r]) : b.names[r][m] = c.names[r][m]
    <3>1. \A q \in Routes : q # r => b.names[q] = c.names[q]
      BY <1>4, <2>1
    <3>2. /\ Len(c.names[r]) = k - 1 /\ \A j \in 1..(k - 1) : c.names[r][j] = StopName(w, stops[j])
      BY <1>4, <2>1
    <3>3. /\ Len(b.names[r]) = k /\ \A j \in 1..k : b.names[r][j] = StopName(w, stops[j])
      BY <1>4, <2>1
    <3> HIDE DEF b, c
    <3>4. \A j \in 1..(k - 1) : j \in 1..k
      OBVIOUS
    <3> QED
      BY <2>1, <3>1, <3>2, <3>3, <3>4
  <2>5. StopName(v, stop) = StopName(w, stop)
    <3>1. CASE stop.old = 0
      <4> HIDE DEF v, stop
      <4> QED
        BY <3>1 DEF StopName
    <3>2. CASE stop.old # 0
      <4>1. stop.old \in 0..l
        BY <1>0
      <4>2. stop.old \in 1..l
        BY <1>1, <3>2, <4>1
      <4> HIDE DEF v, stop
      <4> QED
        BY <2>2, <3>2, <4>2 DEF StopName
    <3> QED
      BY <3>1, <3>2
  <2>6. b.here = IF stop.old = 0 THEN c.here \cup {stop.guid} ELSE c.here
    <3>1. /\ c.here = a.here \cup {stops[j].guid : j \in {x \in 1..(k - 1) : stops[x].old = 0}}
          /\ b.here = a.here \cup {stops[j].guid : j \in {x \in 1..k : stops[x].old = 0}}
      BY <1>4, <2>1
    <3>2. \A x : x \in 1..k <=> x \in 1..(k - 1) \/ x = k
      BY <1>0
    <3> HIDE DEF b, c
    <3> QED
      BY <3>1, <3>2
  <2>7. stop.old = 0 => stop.guid \in 1..MaxPoints /\ stop.guid \notin c.here /\ stop.guid \in c.own
    <3> SUFFICES ASSUME stop.old = 0
                 PROVE  stop.guid \in 1..MaxPoints /\ stop.guid \notin c.here /\ stop.guid \in c.own
      OBVIOUS
    <3>1. c.here = a.here \cup {stops[j].guid : j \in {x \in 1..(k - 1) : stops[x].old = 0}} /\ c.own = a.own
      BY <1>4, <2>1
    <3>2. \A x \in 1..(k - 1) : x \in 1..n /\ x # k
      BY <1>0
    <3> HIDE DEF c
    <3>3. stop.guid \in 1..MaxPoints /\ stop.guid \notin a.here /\ stop.guid \in a.own
      BY <1>0
    <3>4. \A x \in 1..(k - 1) : stops[x].old = 0 => stops[x].guid # stop.guid
      BY <1>0, <3>2
    <3> QED
      BY <3>1, <3>3, <3>4
  <2>8. /\ b.own = c.own /\ b.look = c.look /\ b.known = c.known /\ b.flagged = c.flagged
        /\ b.behind = c.behind /\ b.left = c.left /\ c.behind = {} /\ c.left = {}
        /\ \A g \in c.here : b.pos[g] = c.pos[g]
        /\ stop.old = 0 => b.pos[stop.guid] = 1
    BY <1>0, <1>4, <2>1
  <2> HIDE DEF v, b, c
  <2>9. stop.old \in 0..l
    BY <1>0
  <2> HIDE DEF stop, l
  <2>10. AllThere(v, l)
    BY <2>2 DEF AllThere
  <2>11. Passes(v, c, r, stop, l, b)
    BY <2>4, <2>5, <2>6, <2>7, <2>8, <2>9 DEF Passes
  <2>12. Drawn(v, Draw(v, r, stop), l, b)
    BY <1>1, <2>2, <2>10, <2>11, StopDepicted
  <2>13. Drawn(w, f[k], l, b)
    BY <2>2, <2>3, <2>12 DEF Drawn
  <2> QED
    BY <2>1, <2>13 DEF b
<1>7. n \in Z
  <2> HIDE DEF Z
  <2>1. 0..n \subseteq Z
    BY <1>0, <1>5, <1>6, AllSteps
  <2>2. n \in 0..n
    BY <1>0
  <2> QED
    BY <2>1, <2>2
<1>8. Drawn(w, f[n], l, P(n))
  BY <1>7
<1> QED
  BY <1>2, <1>8 DEF P, Drawn

(* A route that is drawn. *)
LEMMA DrawRouteFollows ==
    ASSUME IInv, Limits, IInv', Limits', NEW len \in Sizes, NEW s \in [1..len -> 0..Len(nav.obj)],
           DrawRoute(s), lossy' = {}, NEW n, Picture(nav, n)
    PROVE  Follows(n)
<1>0. PICK r, fresh, c, stops, w, recs : Drawing(nav, {}, len, s, r, fresh, c, stops, w, recs)
  <2>1. DrawIn(nav, s, {}) /\ Sound(nav)
    BY InvariantGives DEF DrawRoute, Belong
  <2> QED
    BY <2>1, DrawInIs
<1>1. /\ len \in Nat /\ len >= 2 /\ Len(stops) = len /\ r = made.routes + 1 /\ r \in Routes
      /\ c \in Nat /\ made.points + c <= MaxPoints
      /\ made'.points = made.points + c /\ made'.routes = r
      /\ \A k \in 1..len : k \in fresh <=> s[k] = 0
      /\ \A k \in fresh : Rank(fresh, k) \in 1..c
      /\ \A k, m \in fresh : Rank(fresh, k) = Rank(fresh, m) => k = m
      /\ \A j \in 1..c : \E k \in fresh : Rank(fresh, k) = j
      /\ fresh \in SUBSET (1..len)
      /\ \A k \in 1..len : stops[k].old = s[k] /\ stops[k].guid = made.points + Rank(fresh, k)
      /\ \A k \in 1..len : stops[k].old \in 0..Len(nav.obj)
      /\ w = DrawThrough(nav, r, stops) /\ Sound(w)
      /\ recs \in Seq(Changes) /\ Len(recs) = 1 /\ recs[1] = Rte("add", w, r) /\ Edit(w, recs, {})
      /\ Rte("add", w, r) \in Changes
  BY <1>0 DEF Drawing
<1> DEFINE F == {made.points + j : j \in 1..c}
<1>2. /\ made.points \in Nat /\ made.routes \in Nat /\ MaxPoints \in Nat /\ MaxRoutes \in Nat
  BY NavAssumption DEF IInv, TypeOK
<1>3. /\ Guids' = Guids \cup F /\ Ids' = Ids \cup {r} /\ r \notin Ids /\ \A g \in F : g \notin Guids
      /\ F \subseteq 1..MaxPoints /\ Guids \subseteq Guids' /\ Ids \subseteq Ids' /\ r \in Ids' /\ Ids \subseteq Routes
  <2>1. /\ Guids' = 1..(made.points + c) /\ Ids' = 1..(made.routes + 1)
    BY <1>1 DEF Guids, Ids
  <2>2. \A g \in Nat : g \in 1..(made.points + c) <=> g \in 1..made.points \/ \E j \in 1..c : g = made.points + j
    <3>1. ASSUME NEW g \in 1..(made.points + c), ~(g \in 1..made.points) PROVE \E j \in 1..c : g = made.points + j
      <4>1. g - made.points \in 1..c /\ g = made.points + (g - made.points)
        BY <1>1, <1>2, <3>1
      <4> QED
        BY <4>1
    <3> QED
      BY <1>1, <1>2, <3>1
  <2>3. \A g \in F : g \in Nat /\ g \in 1..(made.points + c) /\ ~(g \in 1..made.points) /\ g \in 1..MaxPoints
    BY <1>1, <1>2
  <2>4. 1..(made.points + c) = 1..made.points \cup F
    BY <1>1, <1>2, <2>2, <2>3
  <2>5. 1..(made.routes + 1) = 1..made.routes \cup {r} /\ ~(r \in 1..made.routes)
    BY <1>1, <1>2
  <2>6. Ids \subseteq Routes
    <3>1. made.routes + 1 \in 1..MaxRoutes
      BY <1>1 DEF Routes
    <3> QED
      BY <1>2, <3>1 DEF Ids, Routes
  <2> HIDE DEF F
  <2> QED
    BY <2>1, <2>3, <2>4, <2>5, <2>6 DEF Guids, Ids
<1>4. \A k \in 1..len : stops[k].old = 0 => k \in fresh /\ stops[k].guid \in F
  BY <1>1
<1>5. \A g \in F : \E k \in 1..len : stops[k].old = 0 /\ stops[k].guid = g
  <2>1. ASSUME NEW j \in 1..c PROVE \E k \in 1..len : stops[k].old = 0 /\ stops[k].guid = made.points + j
    <3>1. PICK k \in fresh : Rank(fresh, k) = j
      BY <1>1
    <3>2. k \in 1..len
      BY <1>1, <3>1
    <3> QED
      BY <1>1, <3>1, <3>2
  <2> QED
    BY <2>1
<1>6. \A j, k \in 1..len : stops[j].old = 0 /\ stops[k].old = 0 /\ stops[j].guid = stops[k].guid => j = k
  <2>1. ASSUME NEW j \in 1..len, NEW k \in 1..len, stops[j].old = 0, stops[k].old = 0, stops[j].guid = stops[k].guid
        PROVE  j = k
    <3>1. j \in fresh /\ k \in fresh
      BY <1>4, <2>1
    <3>2. Rank(fresh, j) \in 1..c /\ Rank(fresh, k) \in 1..c
      BY <1>1, <3>1
    <3>3. made.points + Rank(fresh, j) = made.points + Rank(fresh, k)
      BY <1>1, <2>1
    <3>4. Rank(fresh, j) = Rank(fresh, k)
      BY <1>2, <3>2, <3>3
    <3> QED
      BY <1>1, <3>1, <3>4
  <2> QED
    BY <2>1
<1> HIDE DEF Guids, Ids, F
<1>7. /\ nav' = Compact(w, Held(w)) /\ log' = log \o recs
      /\ \A k \in 1..Len(recs) : recs[k].kind # "wpt" /\ recs[k].action # "delete" =>
            \A j \in 1..Len(recs[k].pts) : recs[k].pts[j].guid \notin Stale(log)
  BY <1>1, Lossless
<1>8. /\ Depicts(nav, n) /\ n.names \in [Routes -> Seq(Nat)] /\ n.own \subseteq n.here
      /\ n.known = Routes /\ n.behind = {} /\ n.left = {} /\ n.flagged = {}
      /\ \A i \in 1..Len(nav.obj) : Live(nav, i)
  BY PictureFields
<1>9. /\ n.here \subseteq Guids /\ n.names[r] = <<>> /\ n.look[r] = 0
  <2>1. Whole(n) /\ Bound(n, Guids, Ids)
    BY <1>3, WholePicture DEF Limits
  <2> QED
    BY <1>1, <1>3, <2>1 DEF Whole, Bound
<1>10. Belong(nav) /\ NoneLost(nav) /\ Len(nav.obj) \in Nat /\ \A i \in 1..Len(nav.obj) : nav.obj[i] \in Objects
  BY InvariantGives
<1> DEFINE pos == [g \in n.here \cup F |-> IF g \in F THEN 1 ELSE n.pos[g]]
           a == Plain(n.names, n.here, n.pos, n.own \cup F, n.look)
           b == SoFar(a, nav, r, stops, pos, len)
<1>11. /\ a.names = n.names /\ a.here = n.here /\ a.pos = n.pos /\ a.own = n.own \cup F /\ a.look = n.look
       /\ a.known = Routes /\ a.behind = {} /\ a.left = {} /\ a.flagged = {}
  BY PlainFields
<1> HIDE DEF a
<1>12. /\ \A g \in n.here : pos[g] = n.pos[g] /\ g \notin F
       /\ \A g \in F : pos[g] = 1
  BY <1>3, <1>9
<1> HIDE DEF pos
<1>13. Depicts(nav, a)
  BY <1>8, <1>11, <1>12, Redepicted
<1>14. ASSUME NEW k \in 1..len
       PROVE  /\ stops[k].old \in 0..Len(nav.obj)
              /\ stops[k].old = 0 => /\ stops[k].guid \in 1..MaxPoints /\ stops[k].guid \notin a.here
                                     /\ stops[k].guid \in a.own /\ pos[stops[k].guid] = 1
              /\ StopName(nav, stops[k]) \in Nat
  <2>1. stops[k].old \in 0..Len(nav.obj)
    BY <1>1
  <2>2. stops[k].old = 0 => stops[k].guid \in F
    BY <1>4
  <2>3. stops[k].old = 0 => /\ stops[k].guid \in 1..MaxPoints /\ stops[k].guid \notin a.here
                            /\ stops[k].guid \in a.own /\ pos[stops[k].guid] = 1
    BY <1>3, <1>11, <1>12, <2>2
  <2>4. stops[k].old # 0 => nav.obj[stops[k].old].guid \in Nat
    <3>1. ASSUME stops[k].old # 0 PROVE nav.obj[stops[k].old].guid \in Nat
      <4>1. stops[k].old \in 1..Len(nav.obj)
        BY <1>10, <2>1, <3>1
      <4>2. nav.obj[stops[k].old] \in Objects
        BY <1>10, <4>1
      <4> QED
        BY <1>2, <4>2 DEF Objects
    <3> QED
      BY <3>1
  <2>5. \A g : g \in 1..MaxPoints => g \in Nat
    BY <1>2
  <2>6. StopName(nav, stops[k]) \in Nat
    BY <2>3, <2>4, <2>5 DEF StopName
  <2> QED
    BY <2>1, <2>3, <2>6
<1>15. /\ \A q \in Routes : q # r => b.names[q] = n.names[q]
       /\ b.names[r] \in Seq(Nat) /\ Len(b.names[r]) = len
       /\ \A j \in 1..len : b.names[r][j] = StopName(nav, stops[j])
       /\ b.here = n.here \cup F /\ b.pos = pos /\ b.own = n.own \cup F /\ b.look = n.look
       /\ b.known = Routes /\ b.behind = {} /\ b.left = {} /\ b.flagged = {}
       /\ b.names \in [Routes -> Seq(Nat)]
  <2>1. len \in Nat
    BY <1>1
  <2>2. /\ \A q \in Routes : q # r => b.names[q] = a.names[q]
        /\ b.names[r] \in Seq(Nat) /\ Len(b.names[r]) = len
        /\ \A j \in 1..len : b.names[r][j] = StopName(nav, stops[j])
        /\ b.here = a.here \cup {stops[j].guid : j \in {x \in 1..len : stops[x].old = 0}}
        /\ b.pos = pos /\ b.own = a.own /\ b.look = a.look
        /\ b.known = Routes /\ b.behind = {} /\ b.left = {} /\ b.flagged = {}
        /\ b.names \in [Routes -> {b.names[q] : q \in Routes}]
    <3>1. \A j \in 1..len : StopName(nav, stops[j]) \in Nat
      BY <1>14
    <3>2. r \in Routes
      BY <1>1
    <3>3. Reaches(b, a, nav, r, stops, pos, len)
      BY <2>1, <3>1, <3>2, SoFarFields
    <3> HIDE DEF b
    <3> QED
      BY <3>3 DEF Reaches
  <2>3. {stops[j].guid : j \in {x \in 1..len : stops[x].old = 0}} = F
    BY <1>4, <1>5
  <2> HIDE DEF b
  <2>4. \A q \in Routes : b.names[q] \in Seq(Nat)
    BY <1>8, <1>11, <2>2
  <2> QED
    BY <1>11, <2>2, <2>3, <2>4
<1>16. Depicts(w, b)
  <2>1. \A g \in a.here : pos[g] = a.pos[g]
    BY <1>11, <1>12
  <2>2. Depicts(DrawThrough(nav, r, stops), SoFar(a, nav, r, stops, pos, Len(stops)))
    <3>1. a.names[r] = <<>> /\ Len(stops) \in Nat
      BY <1>1, <1>9, <1>11
    <3>2. \A k \in 1..Len(stops) :
               /\ stops[k].old \in 0..Len(nav.obj)
               /\ stops[k].old = 0 => /\ stops[k].guid \in 1..MaxPoints /\ stops[k].guid \notin a.here
                                      /\ stops[k].guid \in a.own
      BY <1>1, <1>14
    <3>3. \A k \in 1..Len(stops) : stops[k].old = 0 => pos[stops[k].guid] = 1
      BY <1>1, <1>14
    <3>4. \A j, k \in 1..Len(stops) : stops[j].old = 0 /\ stops[k].old = 0 /\ stops[j].guid = stops[k].guid => j = k
      BY <1>1, <1>6
    <3>5. AllThere(nav, Len(nav.obj))
      BY <1>8, <1>10 DEF AllThere
    <3>6. Outlines(nav, a, stops, pos)
      BY <2>1, <3>1, <3>2, <3>3, <3>4, <3>5 DEF Outlines
    <3>7. r \in Routes
      BY <1>1
    <3> QED
      BY <1>10, <1>11, <1>13, <3>1, <3>6, <3>7, DrawDepicted
  <2>3. w = DrawThrough(nav, r, stops) /\ Len(stops) = len
    BY <1>1
  <2> QED
    BY <2>2, <2>3
<1> HIDE DEF b
<1>17. PICK m : /\ Picture(nav', m)
                /\ m.names = b.names /\ m.here = n.here \cup F /\ m.pos = pos /\ m.look = n.look
                /\ m.own = n.own \cup F
  <2>1. (n.own \cup F) \cap (n.here \cup F) = n.own \cup F
    BY <1>8
  <2> QED
    <3>1. Tidy(b)
      BY <1>15 DEF Tidy
    <3>2. PICK m : Keeps(w, b, m)
      BY <1>16, <3>1, HeldPicture
    <3> QED
      BY <1>7, <1>15, <2>1, <3>2 DEF Keeps
<1>18. /\ Stale(log) \subseteq Stale(log') /\ Mentioned(log) \subseteq Mentioned(log') /\ Mentioned(log) \subseteq Guids
       /\ \A k \in 1..Len(recs) : recs[k].kind # "wpt" =>
             \A j \in 1..Len(recs[k].pts) : recs[k].pts[j].guid \in Mentioned(log')
  <2>1. log \in Seq(Changes) /\ Mentioned(log) \subseteq Guids
    BY MentionedMade
  <2> QED
    BY <1>1, <1>7, <2>1, LogMore
<1> DEFINE e == Rte("add", w, r)
<1>19. /\ e.kind # "wpt" /\ e.action = "add" /\ e.guid = r /\ e.pts = Points(w, r)
  BY <1>1, RouteRecordIs
<1>20. /\ Len(Points(w, r)) = Len(b.names[r])
       /\ \A k \in 1..Len(Points(w, r)) :
             /\ Points(w, r)[k].guid = b.names[r][k] /\ Points(w, r)[k].guid \in b.here
             /\ Points(w, r)[k].pos = b.pos[Points(w, r)[k].guid]
             /\ Points(w, r)[k].shared = (Points(w, r)[k].guid \notin b.own)
  <2>1. r \in Routes
    BY <1>1
  <2>2. b.known = Routes
    BY <1>15
  <2> QED
    BY <1>16, <2>1, <2>2, RecordsShow
<1>21. e \in Changes /\ e = recs[1] /\ Len(recs) = 1 /\ 1 \in 1..Len(recs)
  BY <1>1
<1> HIDE DEF e
<1>22. Len(e.pts) = len /\ Len(e.pts) >= 2
  BY <1>1, <1>15, <1>19, <1>20
<1>23. "add" # "delete"
  OBVIOUS
<1>24. \A k \in 1..Len(e.pts) : e.pts[k].guid \notin Stale(log) /\ e.pts[k].guid \in Mentioned(log')
  BY <1>7, <1>18, <1>19, <1>21, <1>23
<1>25. \A k \in 1..Len(e.pts) :
               /\ m.names[r][k] = e.pts[k].guid /\ m.pos[e.pts[k].guid] = e.pts[k].pos
               /\ e.pts[k].guid \in m.here /\ e.pts[k].shared = (e.pts[k].guid \notin m.own)
  BY <1>15, <1>17, <1>19, <1>20
<1>26. \A g \in F : g \notin Guids /\ Has(m.names[r], g)
  <2>1. ASSUME NEW g \in F PROVE Has(m.names[r], g)
    <3>1. PICK k \in 1..len : stops[k].old = 0 /\ stops[k].guid = g
      BY <1>5
    <3>2. m.names[r][k] = g
      BY <1>15, <1>17, <3>1 DEF StopName
    <3> QED
      BY <1>15, <1>17, <3>2 DEF Has
  <2> QED
    BY <1>3, <2>1
<1>27. Replays(recs, n, m, Guids, Ids, Guids', Ids', {r}, Stale(log), Mentioned(log), Stale(log), Mentioned(log'))
  <2> DEFINE Old == Guids
             Old2 == Guids'
             K2 == Ids'
             B == Stale(log)
             G == Mentioned(log)
             G2 == Mentioned(log')
  <2>1. /\ G \subseteq Old /\ Old2 = Old \cup F /\ K2 = Ids \cup {r} /\ G \subseteq G2
        /\ \A g \in F : g \notin Old
    BY <1>3, <1>18
  <2>2. \A k \in 1..Len(e.pts) : e.pts[k].guid \notin B /\ e.pts[k].guid \in G2
    BY <1>24
  <2>3. \A q \in Routes : q # e.guid => m.names[q] = n.names[q] /\ m.look[q] = n.look[q]
    BY <1>15, <1>17, <1>19
  <2>4. m.look[e.guid] = 0 /\ Len(m.names[e.guid]) = Len(e.pts)
    BY <1>9, <1>15, <1>17, <1>19, <1>22
  <2>5. \A g \in n.here : m.pos[g] = n.pos[g]
    BY <1>12, <1>17
  <2>6. \A g \in F : g \notin Old /\ Has(m.names[e.guid], g)
    BY <1>19, <1>26
  <2>7. \A k \in 1..Len(e.pts) :
               /\ m.names[e.guid][k] = e.pts[k].guid /\ m.pos[e.pts[k].guid] = e.pts[k].pos
               /\ e.pts[k].guid \in m.here /\ e.pts[k].shared = (e.pts[k].guid \notin m.own)
               /\ e.pts[k].guid \notin B /\ e.pts[k].guid \in G2
    BY <1>19, <1>25, <2>2
  <2>8. K2 = Ids \cup {e.guid} /\ e.kind # "wpt" /\ e.action # "delete"
    BY <1>19, <2>1
  <2> HIDE DEF Old, Old2, K2, B, G, G2
  <2>9. Redraws(n, e, m, F, Old, B, G2)
    BY <1>17, <1>22, <2>3, <2>4, <2>5, <2>6, <2>7, <2>8 DEF Redraws
  <2>10. Replays(recs, n, m, Old, Ids, Old2, K2, {e.guid}, B, G, B, G2)
    BY <1>21, <2>1, <2>8, <2>9, ReplayUpdate
  <2> QED
    BY <1>19, <2>10 DEF Old, Old2, K2, B, G, G2
<1>28. /\ \A q \in Routes : q \notin {r} => m.names[q] = n.names[q] /\ m.look[q] = n.look[q]
       /\ \A q \in Routes : q \in Ids => \A g : Has(m.names[q], g) => Has(n.names[q], g)
       /\ \A g \in m.here : g \in Guids => g \in n.here
       /\ \A g \in n.here : g \in m.here => (g \in m.own <=> g \in n.own)
       /\ {r} \subseteq Ids'
  BY <1>3, <1>12, <1>15, <1>17
<1> QED
  BY <1>1, <1>3, <1>7, <1>17, <1>18, <1>27, <1>28, FollowsFrom

-----------------------------------------------------------------------------
(* All edits; longer change sets *)

(* The steps of the user. *)
Editing ==
    \/ DropMark \/ DeleteAllRoutes
    \/ \E i \in DOMAIN nav.obj : MovePoint(i) \/ DeleteMark(i) \/ DeletePoint(i)
    \/ Drawings
    \/ \E j \in DOMAIN strays : DeleteStray(j)
    \/ \E r \in Routes : \/ RestyleRoute(r) \/ DeleteRoute(r)
                         \/ \E i \in DOMAIN nav.obj : TakeOutPoint(r, i)

(* The steps of the user, and the others.                                  *)
LEMMA StepIs ==
    ASSUME [Next]_vars
    PROVE  Editing \/ StartSave \/ FinishWrite \/ RemoveChanges \/ Crash \/ Start \/ UNCHANGED vars
BY StepKinds DEF Editing

(* The user edits while the program is up; the document stays as it is.    *)
LEMMA EditingStays ==
    ASSUME Editing
    PROVE  phase = "up" /\ phase' = "up" /\ file' = file /\ lossy = {}
<1> DEFINE Stays == phase = "up" /\ phase' = "up" /\ file' = file /\ lossy = {}
<1>1. ASSUME NEW w, NEW recs, NEW losses, phase = "up", Edit(w, recs, losses) PROVE Stays
  BY <1>1 DEF Edit, Editable
<1> HIDE DEF Stays
<1>2. ASSUME DropMark PROVE Stays
  BY <1>1, <1>2 DEF DropMark
<1>3. ASSUME DeleteAllRoutes PROVE Stays
  BY <1>1, <1>3 DEF DeleteAllRoutes
<1>4. ASSUME NEW i \in DOMAIN nav.obj, MovePoint(i) \/ DeleteMark(i) \/ DeletePoint(i) PROVE Stays
  BY <1>1, <1>4 DEF MovePoint, DeleteMark, DeletePoint
<1>5. ASSUME Drawings PROVE Stays
  <2>1. ASSUME NEW base, NEW s, NEW losses, DrawIn(base, s, losses) PROVE Stays
    BY <1>1, <2>1 DEF DrawIn
  <2> QED
    BY <1>5, <2>1 DEF Drawings, DrawRoute, DrawThroughStrays
<1>6. ASSUME NEW r \in Routes, RestyleRoute(r) \/ DeleteRoute(r) PROVE Stays
  BY <1>1, <1>6 DEF RestyleRoute, DeleteRoute
<1>7. ASSUME NEW r \in Routes, NEW i \in DOMAIN nav.obj, TakeOutPoint(r, i) PROVE Stays
  BY <1>1, <1>7 DEF TakeOutPoint
<1>8. ASSUME NEW j \in DOMAIN strays, DeleteStray(j) PROVE Stays
  BY <1>1, <1>8 DEF DeleteStray
<1>9. Stays
  BY <1>2, <1>3, <1>4, <1>5, <1>6, <1>7, <1>8 DEF Editing
<1> QED
  BY <1>9 DEF Stays

(* Whatever the user does without a loss, its records tell. *)
LEMMA EditingFollows ==
    ASSUME IInv, Limits, IInv', Limits', Editing, lossy' = {}, NEW n, Picture(nav, n)
    PROVE  Follows(n)
<1>1. CASE DropMark
  BY <1>1, DropMarkFollows
<1>2. ASSUME NEW w, NEW recs, NEW losses, Edit(w, recs, losses) PROVE losses = {}
  BY <1>2 DEF Edit
<1>3. CASE DeleteAllRoutes
  <2>1. {"wiped"} = {}
    BY <1>2, <1>3 DEF DeleteAllRoutes
  <2> QED
    BY <2>1
<1>4. ASSUME NEW i \in DOMAIN nav.obj, MovePoint(i) \/ DeleteMark(i) \/ DeletePoint(i) PROVE Follows(n)
  BY <1>4, MovePointFollows, DeleteMarkFollows, DeletePointFollows
<1>5. ASSUME Drawings PROVE Follows(n)
  <2>1. PICK len \in Sizes :
           \/ \E s \in [1..len -> 0..Len(nav.obj)] : DrawRoute(s)
           \/ \E J \in SUBSET DOMAIN strays :
              \E s \in [1..len -> 0..Len(nav.obj) + Cardinality(J)] : DrawThroughStrays(J, s)
    BY <1>5 DEF Drawings
  <2>2. ASSUME NEW J, NEW s, DrawThroughStrays(J, s) PROVE FALSE
    <3>1. {"reused"} = {}
      BY <1>2, <2>2 DEF DrawThroughStrays, DrawIn
    <3> QED
      BY <3>1
  <2> QED
    BY <2>1, <2>2, DrawRouteFollows
<1>6. ASSUME NEW r \in Routes, RestyleRoute(r) PROVE Follows(n)
  <2>1. {"restyled"} = {}
    BY <1>2, <1>6 DEF RestyleRoute
  <2> QED
    BY <2>1
<1>7. ASSUME NEW r \in Routes, DeleteRoute(r) PROVE Follows(n)
  BY <1>7, DeleteRouteFollows
<1>8. ASSUME NEW r \in Routes, NEW i \in DOMAIN nav.obj, TakeOutPoint(r, i) PROVE Follows(n)
  BY <1>8, TakeOutFollows
<1>9. ASSUME NEW j \in DOMAIN strays, DeleteStray(j) PROVE Follows(n)
  <2>1. {"reused"} = {}
    BY <1>2, <1>9 DEF DeleteStray
  <2> QED
    BY <2>1
<1> QED
  BY <1>1, <1>3, <1>4, <1>5, <1>6, <1>7, <1>8, <1>9 DEF Editing

(* The records of a longer change set are applied one after the other. *)
LEMMA ChangesMore ==
    ASSUME NEW w, Sound(w), NoneShort(w.pts), NEW l \in Seq(Changes), NEW recs \in Seq(Changes)
    PROVE  \E h : /\ h[0] = ApplyChanges(w, l) /\ \A k \in 1..Len(recs) : h[k] = Apply(h[k - 1], recs[k])
                  /\ ApplyChanges(w, l \o recs) = h[Len(recs)]
<1> DEFINE all == l \o recs
           N == Len(l)
           M == Len(recs)
<1>1. /\ all \in Seq(Changes) /\ N \in Nat /\ M \in Nat /\ Len(all) = N + M
      /\ \A k \in 1..N : all[k] = l[k] /\ k \in 1..Len(all)
      /\ \A k \in 1..M : all[N + k] = recs[k] /\ N + k \in 1..Len(all)
  BY Concatenated
<1> HIDE DEF all
<1>2. PICK f : /\ f[0] = w /\ \A k \in 1..N : f[k] = Apply(f[k - 1], l[k])
               /\ ApplyChanges(w, l) = f[N]
  <2>1. ChangesRun(w, l)
    BY ChangesApplied
  <2> QED
    BY <2>1 DEF ChangesRun
<1>3. PICK g : /\ g[0] = w /\ \A k \in 1..Len(all) : g[k] = Apply(g[k - 1], all[k])
               /\ ApplyChanges(w, all) = g[Len(all)]
  <2>1. ChangesRun(w, all)
    BY <1>1, ChangesApplied
  <2> QED
    BY <2>1 DEF ChangesRun
<1> HIDE DEF N, M
<1> DEFINE K == {k \in 0..N : f[k] = g[k]}
<1>4. 0 \in K
  BY <1>1, <1>2, <1>3
<1>5. ASSUME NEW k \in 1..N, k - 1 \in K PROVE k \in K
  <2>1. f[k] = Apply(f[k - 1], l[k]) /\ g[k] = Apply(g[k - 1], all[k]) /\ all[k] = l[k] /\ f[k - 1] = g[k - 1]
    BY <1>1, <1>2, <1>3, <1>5
  <2>2. k \in 0..N
    BY <1>1
  <2> QED
    BY <2>1, <2>2
<1> HIDE DEF K
<1>6. 0..N \subseteq K
  BY <1>1, <1>4, <1>5, AllSteps
<1>7. f[N] = g[N]
  <2>1. N \in 0..N
    BY <1>1
  <2> QED
    BY <1>6, <2>1 DEF K
<1> DEFINE h == [k \in 0..M |-> g[N + k]]
<1>8. h[0] = ApplyChanges(w, l)
  <2>1. 0 \in 0..M /\ N + 0 = N
    BY <1>1
  <2> QED
    BY <1>2, <1>7, <2>1
<1>9. ASSUME NEW k \in 1..M PROVE h[k] = Apply(h[k - 1], recs[k])
  <2>1. k \in 0..M /\ k - 1 \in 0..M /\ (N + k) - 1 = N + (k - 1)
    BY <1>1
  <2>2. g[N + k] = Apply(g[(N + k) - 1], all[N + k]) /\ all[N + k] = recs[k]
    BY <1>1, <1>3
  <2>3. h[k] = g[N + k] /\ h[k - 1] = g[N + (k - 1)]
    BY <2>1
  <2> HIDE DEF h
  <2> QED
    BY <2>1, <2>2, <2>3
<1>10. ApplyChanges(w, all) = h[M]
  <2>1. M \in 0..M
    BY <1>1
  <2> QED
    BY <1>1, <1>3, <2>1
<1> QED
  BY <1>8, <1>9, <1>10 DEF all, M

-----------------------------------------------------------------------------
(* What a start loads *)

(* Every object that the document makes is shown. *)
LEMMA LoadedLive ==
    ASSUME NEW doc \in Docs, NoneShort(doc.routes)
    PROVE  AllLive(LoadAllGPXObjects(doc))
<1>0. /\ doc.marks \in Seq(Recs) /\ Len(doc.marks) \in Nat
      /\ \A r \in Routes : doc.routes[r] \in Seq(Recs) /\ Len(doc.routes[r]) \in Nat
      /\ MaxRoutes \in Nat /\ Routes = 1..MaxRoutes
  BY NavAssumption DEF Docs, Routes
<1>1. Sound(LoadMarks(doc)) /\ AllLive(LoadMarks(doc))
  <2>1. PICK f : /\ f[0] = Empty /\ \A k \in 1..Len(doc.marks) : f[k] = LoadMark(f[k - 1], doc.marks[k])
                 /\ LoadMarks(doc) = f[Len(doc.marks)]
    <3>1. MarksRun(doc)
      BY MarksLoaded
    <3> QED
      BY <3>1 DEF MarksRun
  <2> DEFINE done == {k \in 0..Len(doc.marks) : Sound(f[k]) /\ AllLive(f[k])}
  <2>2. 0 \in done
    <3>1. AllLive(Empty)
      BY DEF AllLive, Empty
    <3> QED
      BY <1>0, <2>1, <3>1, EmptySound
  <2>3. ASSUME NEW k \in 1..Len(doc.marks), k - 1 \in done PROVE k \in done
    <3> DEFINE w == f[k - 1]
               rec == doc.marks[k]
               o == [Object(rec) EXCEPT !.isolated = TRUE]
    <3>1. Sound(w) /\ AllLive(w) /\ f[k] = LoadMark(w, rec) /\ rec \in Recs
      <4>1. Sound(f[k - 1]) /\ AllLive(f[k - 1])
        BY <2>3
      <4>2. f[k] = LoadMark(f[k - 1], doc.marks[k])
        BY <2>1, <2>3
      <4>3. doc.marks[k] \in Recs
        BY <1>0, <2>3
      <4> QED
        BY <4>1, <4>2, <4>3
    <3>2. f[k] = w \/ f[k] = AddRoutePoint(w, o)
      BY <3>1 DEF LoadMark
    <3>3. o \in Objects /\ ~o.inRoute /\ o.isolated /\ o.listed
      BY <3>1, ObjectOf DEF Object
    <3> HIDE DEF w, o, rec
    <3>4. AllLive(AddRoutePoint(w, o))
      <4>1. LET v == AddRoutePoint(w, o)
                n == Len(w.obj) IN
            /\ Len(v.obj) = n + 1 /\ v.pts = w.pts /\ v.obj[n + 1] = o /\ \A j \in 1..n : v.obj[j] = w.obj[j]
        BY <3>1, <3>3, ObjectAdded
      <4>2. Len(w.obj) \in Nat
        BY <3>1, WorldTypes DEF Sound, Fits
      <4> DEFINE v == AddRoutePoint(w, o)
      <4>3. ASSUME NEW i \in 1..Len(v.obj) PROVE Live(v, i)
        <5>1. i \in 1..Len(w.obj) \/ i = Len(w.obj) + 1
          BY <4>1, <4>2
        <5> HIDE DEF v
        <5>2. CASE i \in 1..Len(w.obj)
          BY <3>1, <4>1, <5>2 DEF v, AllLive, Live, In
        <5>3. CASE i = Len(w.obj) + 1
          BY <3>3, <4>1, <5>3 DEF v, Live
        <5> QED
          BY <5>1, <5>2, <5>3
      <4> QED
        BY <4>3 DEF AllLive
    <3>5. Sound(f[k]) /\ AllLive(f[k])
      BY <3>1, <3>2, <3>4, MarkLoaded
    <3> QED
      BY <3>5
  <2> HIDE DEF done
  <2>4. 0..Len(doc.marks) \subseteq done
    BY <1>0, <2>2, <2>3, AllSteps
  <2>5. Len(doc.marks) \in 0..Len(doc.marks)
    BY <1>0
  <2> QED
    BY <2>1, <2>4, <2>5 DEF done
<1>2. ASSUME NEW w, Sound(w), AllLive(w), NEW r \in Routes
      PROVE  Sound(LoadRoute(w, doc, r)) /\ AllLive(LoadRoute(w, doc, r))
  <2> DEFINE recs == doc.routes[r]
             N == Len(recs)
  <2>1. PICK f : /\ f[0] = w /\ \A k \in 1..N : f[k] = LoadRoutePoint(f[k - 1], r, recs[k])
                 /\ LoadRoute(w, doc, r) = [f[N] EXCEPT !.look[r] = doc.look[r]]
    <3>1. RouteRun(w, doc, r)
      BY <1>2, RouteLoaded
    <3> QED
      BY <3>1 DEF RouteRun
  <2>2. Sound(LoadRoute(w, doc, r))
    BY <1>2, RouteLoaded
  <2>3. N \in Nat /\ recs \in Seq(Recs) /\ N = Len(recs)
    BY <1>0
  <2> DEFINE done == {k \in 0..N : Sound(f[k]) /\ AllLive(f[k])}
  <2> HIDE DEF recs, N
  <2>4. 0 \in done
    BY <1>2, <2>1, <2>3
  <2>5. ASSUME NEW k \in 1..N, k - 1 \in done PROVE k \in done
    <3> DEFINE v == f[k - 1]
               rec == recs[k]
               o == Object(rec)
               u == AddRoutePoint(v, o)
    <3>1. Sound(v) /\ AllLive(v) /\ f[k] = LoadRoutePoint(v, r, rec) /\ rec \in Recs
      BY <2>1, <2>3, <2>5
    <3>2. f[k] = IF Named(v, rec.guid) # {} THEN AddPoint(v, r, Existing(v, rec.guid))
                 ELSE AddPoint(u, r, Len(v.obj) + 1)
      BY <3>1 DEF LoadRoutePoint
    <3>3. o \in Objects /\ ~o.isolated /\ o.listed
      BY <3>1, ObjectOf DEF Object
    <3>4. /\ Sound(u) /\ Len(u.obj) = Len(v.obj) + 1 /\ Len(v.obj) \in Nat /\ u.pts = v.pts
          /\ u.obj[Len(v.obj) + 1] = o /\ \A j \in 1..Len(v.obj) : u.obj[j] = v.obj[j]
      <4> HIDE DEF v, o
      <4> QED
        BY <3>1, <3>3, ObjectAdded, WorldTypes DEF Sound, Fits
    <3>5. Named(v, rec.guid) # {} => Existing(v, rec.guid) \in 1..Len(v.obj)
      <4> HIDE DEF v, rec
      <4> QED
        BY <3>1, FirstNamed DEF Sound, Fits
    <3> HIDE DEF u, v, rec, o
    <3>6. ASSUME NEW x, Sound(x), NEW i \in 1..Len(x.obj), x.obj[i].listed,
                 \A j \in 1..Len(x.obj) : j = i \/ Live(x, j)
          PROVE  Sound(AddPoint(x, r, i)) /\ AllLive(AddPoint(x, r, i))
      <4>1. LET y == AddPoint(x, r, i) IN
            /\ Sound(y) /\ Len(y.obj) = Len(x.obj)
            /\ \A j : In(y, j) <=> In(x, j) \/ j = i
            /\ \A j \in 1..Len(x.obj) : j # i => y.obj[j] = x.obj[j]
            /\ \A j \in 1..Len(x.obj) : y.obj[j].listed = x.obj[j].listed
        BY <3>6, PointAdded
      <4> DEFINE y == AddPoint(x, r, i)
      <4>2. \A j \in 1..Len(y.obj) : Live(y, j)
        <5> HIDE DEF y
        <5> QED
          BY <3>6, <4>1 DEF y, Live
      <4> QED
        BY <4>1, <4>2 DEF AllLive
    <3>7. CASE Named(v, rec.guid) # {}
      <4> DEFINE i == Existing(v, rec.guid)
      <4>1. i \in 1..Len(v.obj) /\ v.obj[i].listed /\ \A j \in 1..Len(v.obj) : j = i \/ Live(v, j)
        BY <3>1, <3>5, <3>7 DEF AllLive, Live
      <4> HIDE DEF i
      <4>2. Sound(AddPoint(v, r, i)) /\ AllLive(AddPoint(v, r, i))
        BY <3>1, <3>6, <4>1
      <4>3. Sound(f[k]) /\ AllLive(f[k])
        BY <3>2, <3>7, <4>2 DEF i
      <4> QED
        BY <4>3
    <3>8. CASE ~(Named(v, rec.guid) # {})
      <4> DEFINE i == Len(v.obj) + 1
      <4>1. i \in 1..Len(u.obj) /\ u.obj[i].listed
        BY <3>3, <3>4
      <4>2. ASSUME NEW j \in 1..Len(u.obj), j # i PROVE Live(u, j)
        <5>1. j \in 1..Len(v.obj)
          BY <3>4, <4>2
        <5> QED
          BY <3>1, <3>4, <5>1 DEF AllLive, Live, In
      <4> HIDE DEF i
      <4>3. Sound(AddPoint(u, r, i)) /\ AllLive(AddPoint(u, r, i))
        BY <3>4, <3>6, <4>1, <4>2
      <4>4. Sound(f[k]) /\ AllLive(f[k])
        BY <3>2, <3>8, <4>3 DEF i
      <4> QED
        BY <4>4
    <3> QED
      BY <3>7, <3>8
  <2> HIDE DEF done
  <2>6. 0..N \subseteq done
    BY <2>3, <2>4, <2>5, AllSteps
  <2>7. Sound(f[N]) /\ AllLive(f[N])
    <3>1. N \in 0..N
      BY <2>3
    <3> QED
      BY <2>6, <3>1 DEF done
  <2> DEFINE x == f[N]
             v == LoadRoute(w, doc, r)
  <2>8. v.obj = x.obj /\ v.pts = x.pts
    <3>1. x \in Worlds /\ v = [x EXCEPT !.look[r] = doc.look[r]]
      BY <2>1, <2>7 DEF Sound, Fits
    <3> HIDE DEF x, v
    <3> QED
      BY <3>1 DEF Worlds
  <2> HIDE DEF x, v
  <2>9. AllLive(x)
    BY <2>7 DEF x
  <2>10. AllLive(v)
    BY <2>8, <2>9 DEF AllLive, Live, In
  <2> QED
    BY <2>2, <2>10 DEF v
<1>3. PICK f : /\ f[0] = LoadMarks(doc) /\ \A k \in 1..MaxRoutes : f[k] = LoadRoute(f[k - 1], doc, k)
               /\ LoadAllGPXObjects(doc) = f[MaxRoutes]
  <2>1. DocumentRun(doc)
    BY DocumentLoaded
  <2> QED
    BY <2>1 DEF DocumentRun
<1> DEFINE done == {k \in 0..MaxRoutes : Sound(f[k]) /\ AllLive(f[k])}
<1>4. 0 \in done
  BY <1>0, <1>1, <1>3
<1>5. ASSUME NEW k \in 1..MaxRoutes, k - 1 \in done PROVE k \in done
  <2>1. Sound(f[k - 1]) /\ AllLive(f[k - 1]) /\ f[k] = LoadRoute(f[k - 1], doc, k) /\ k \in Routes
    BY <1>0, <1>3, <1>5
  <2> QED
    BY <1>2, <2>1
<1> HIDE DEF done
<1>6. 0..MaxRoutes \subseteq done
  BY <1>0, <1>4, <1>5, AllSteps
<1>7. MaxRoutes \in 0..MaxRoutes
  BY <1>0
<1> QED
  BY <1>3, <1>6, <1>7 DEF done

(* What a start loads and shows has one picture, unless it is damaged. *)
LEMMA ShownWhole ==
    ASSUME NEW w, Sound(w), NoneShort(w.pts), AllLive(w), ~Damaged(Compact(w, Shown(w)))
    PROVE  \E n : Picture(w, n) /\ Picture(Compact(w, Shown(w)), n)
<1> DEFINE keep == Shown(w)
           v == Compact(w, keep)
<1>1. /\ w \in Worlds /\ Len(w.obj) \in Nat /\ DOMAIN w.obj = 1..Len(w.obj)
  BY WorldTypes DEF Sound, Fits
<1>2. keep = 1..Len(w.obj)
  <2>1. \A i \in 1..Len(w.obj) : i \in Held(w) /\ i \in Shown(w)
    BY <1>1, HeldAre DEF AllLive, Live
  <2> QED
    BY <1>1, <2>1, HeldAre
<1> HIDE DEF keep
<1>3. /\ Sound(v) /\ \A i \in keep : /\ Rank(keep, i) \in 1..Len(v.obj)
                                     /\ Sorted(keep)[Rank(keep, i)] = i
      /\ \A k \in 1..Len(v.obj) : v.obj[k] = w.obj[Sorted(keep)[k]]
  BY <1>2, CompactIs
<1>4. DOMAIN v.obj = 1..Len(v.obj)
  <2> HIDE DEF v
  <2> QED
    BY <1>3, WorldTypes DEF Sound, Fits
<1>5. ~Damaged(v)
  BY DEF keep
<1> HIDE DEF v
<1>6. \A i \in 1..Len(w.obj) : \E k \in 1..Len(v.obj) : k = Rank(keep, i) /\ v.obj[k] = w.obj[i]
  BY <1>2, <1>3
<1>7. ~Damaged(w)
  <2>1. ASSUME NEW i \in 1..Len(w.obj), NEW j \in 1..Len(w.obj), i # j, w.obj[i].guid = w.obj[j].guid
        PROVE  FALSE
    <3>1. PICK k \in 1..Len(v.obj) : k = Rank(keep, i) /\ v.obj[k] = w.obj[i]
      BY <1>6
    <3>2. PICK m \in 1..Len(v.obj) : m = Rank(keep, j) /\ v.obj[m] = w.obj[j]
      BY <1>6
    <3>3. k # m
      BY <1>2, <1>3, <2>1, <3>1, <3>2
    <3> QED
      BY <1>4, <1>5, <2>1, <3>1, <3>2, <3>3 DEF Damaged
  <2>2. \A i \in 1..Len(w.obj) : w.obj[i].listed
    BY DEF AllLive, Live
  <2> QED
    BY <1>1, <2>1, <2>2 DEF Damaged
<1>8. Belong(w)
  BY DEF Belong, AllPlaced, AllLive, Live
<1>9. PICK n : Picture(w, n)
  BY <1>7, <1>8, PictureExists
<1>10. Depicts(w, n) /\ Clean(n)
  BY <1>9 DEF Picture
<1>11. Depicts(v, n) /\ AllLive(v)
  <2>1. /\ keep \in SUBSET (1..Len(w.obj)) /\ \A i \in keep : Live(w, i)
        /\ \A i \in 1..Len(w.obj) : Live(w, i) \/ In(w, i) => i \in keep
    BY <1>2 DEF AllLive
  <2>2. Depicts(v, n) /\ \A i \in 1..Len(v.obj) : Live(v, i)
    BY <1>10, <2>1, CompactDepicted DEF v
  <2> QED
    BY <2>2 DEF AllLive
<1>12. Picture(v, n)
  BY <1>10, <1>11 DEF Picture
<1> QED
  BY <1>9, <1>12 DEF v, keep

-----------------------------------------------------------------------------
(* The change set, before and after a save *)

(* The document of a start. *)
Base(doc) == IF doc = Torn THEN Empty ELSE LoadAllGPXObjects(doc)

(* The change set brings what was saved before it, the world "base", to n. *)
Since(n, base, l, Old, K) ==
    \E f, T : /\ Whole(f) /\ T \subseteq K /\ Before(f, n, Old, T)
              /\ Core(ApplyChanges(base, l), n, f, Old, K, T, Stale(l), Mentioned(l), n.here, {})

(* Applied to what is saved after it, the change set spoils nothing. *)
Again(n, l, Old, K) ==
    \A w, f : Picture(w, f) /\ NoneShort(w.pts) /\ Whole(f) /\ Descends(f, n, Old, K) =>
        \E T : /\ T \subseteq K
               /\ Core(ApplyChanges(w, l), n, f, Old, K, T, Stale(l), Mentioned(l), n.here \cap f.here, f.here)

(* An empty change set.                                                    *)
LEMMA NoChanges ==
    ASSUME NEW w, Sound(w), NoneShort(w.pts)
    PROVE  ApplyChanges(w, <<>>) = w
<1>1. <<>> \in Seq(Changes) /\ Len(<<>>) = 0
  OBVIOUS
<1>2. PICK f : f[0] = w /\ ApplyChanges(w, <<>>) = f[Len(<<>>)]
  <2>1. ChangesRun(w, <<>>)
    BY <1>1, ChangesApplied
  <2> QED
    BY <2>1 DEF ChangesRun
<1> QED
  BY <1>1, <1>2

(* Of what is just saved.                                                  *)
LEMMA SinceAtFirst ==
    ASSUME NEW w, NEW n, Picture(w, n), NoneShort(w.pts), NEW Old, NEW K, Whole(n), Bound(n, Old, K)
    PROVE  Since(n, w, <<>>, Old, K)
<1>1. Depicts(w, n) /\ n.known = Routes /\ n.behind = {} /\ n.left = {} /\ n.flagged = {} /\ Sound(w)
  BY DEF Picture, Clean, Depicts
<1>2. ApplyChanges(w, <<>>) = w
  BY <1>1, NoChanges
<1>3. n.here \subseteq Old /\ K \subseteq Routes
  BY DEF Bound
<1> DEFINE B == Stale(<<>>)
           G == Mentioned(<<>>)
<1> HIDE DEF B, G
<1>4. Core(w, n, n, Old, K, {}, B, G, n.here, {})
  BY <1>1, <1>3, CoreFrom
<1>5. Before(n, n, Old, {})
  BY <1>3 DEF Before
<1> QED
  BY <1>2, <1>4, <1>5 DEF Since, B, G

(* An empty change set spoils nothing.                                     *)
LEMMA AgainAtFirst ==
    ASSUME NEW n, Whole(n), NEW Old, NEW K, K \subseteq Routes
    PROVE  Again(n, <<>>, Old, K)
<1> SUFFICES ASSUME NEW w, NEW f, Picture(w, f), NoneShort(w.pts), Whole(f), Descends(f, n, Old, K)
             PROVE  Core(ApplyChanges(w, <<>>), n, f, Old, K, {}, Stale(<<>>), Mentioned(<<>>), n.here \cap f.here, f.here)
  BY DEF Again
<1>1. Depicts(w, f) /\ f.known = Routes /\ f.behind = {} /\ f.left = {} /\ f.flagged = {} /\ Sound(w)
  BY DEF Picture, Clean, Depicts
<1>2. ApplyChanges(w, <<>>) = w
  BY <1>1, NoChanges
<1>3. /\ \A g \in f.here : g \in f.own <=> g \in n.own \cup f.own
      /\ \A g \in f.here : g \in Old => g \in n.here
  <2>1. n.own \subseteq n.here
    BY DEF Whole
  <2> QED
    BY <2>1 DEF Descends
<1> DEFINE B == Stale(<<>>)
           G == Mentioned(<<>>)
<1> HIDE DEF B, G
<1>4. Core(w, n, f, Old, K, {}, B, G, n.here \cap f.here, f.here)
  BY <1>1, <1>3, CoreFrom
<1> QED
  BY <1>2, <1>4 DEF B, G

(* An edit without a loss, seen from what was saved before it.             *)
LEMMA SinceMore ==
    ASSUME NEW n, NEW base, Sound(base), NoneShort(base.pts), NEW l \in Seq(Changes), NEW Old, NEW K,
           Since(n, base, l, Old, K), NEW recs \in Seq(Changes), NEW m, NEW Old2, NEW K2, NEW R,
           Edited(n, m, Old, K, Old2, K2, R), NEW l2, l2 = l \o recs,
           Replays(recs, n, m, Old, K, Old2, K2, R, Stale(l), Mentioned(l), Stale(l2), Mentioned(l2))
    PROVE  Since(m, base, l2, Old2, K2)
<1> DEFINE B == Stale(l)
           G == Mentioned(l)
           B2 == Stale(l2)
           G2 == Mentioned(l2)
<1>1. PICK f, T : /\ Whole(f) /\ T \subseteq K /\ Before(f, n, Old, T)
                  /\ Core(ApplyChanges(base, l), n, f, Old, K, T, B, G, n.here, {})
  BY DEF Since
<1>2. PICK h : /\ h[0] = ApplyChanges(base, l) /\ \A k \in 1..Len(recs) : h[k] = Apply(h[k - 1], recs[k])
               /\ ApplyChanges(base, l2) = h[Len(recs)]
  BY ChangesMore
<1> HIDE DEF B, G, B2, G2
<1>3. /\ Fitting(TRUE, n, f, Old, K, T, n.here, {})
      /\ Fitting(TRUE, m, f, Old2, K2, T \cup R, m.here, {})
      /\ Before(f, m, Old2, T \cup R)
  BY <1>1, BeforeEdited
<1>4. Core(h[0], n, f, Old, K, T, B, G, n.here, {})
  BY <1>1, <1>2
<1>5. Replays(recs, n, m, Old, K, Old2, K2, R, B, G, B2, G2)
  BY DEF B, G, B2, G2
<1>6. Core(h[Len(recs)], m, f, Old2, K2, T \cup R, B2, G2, m.here, {})
  BY <1>2, <1>3, <1>4, <1>5 DEF Replays
<1>7. T \cup R \subseteq K2
  BY <1>1 DEF Edited
<1>8. Core(ApplyChanges(base, l2), m, f, Old2, K2, T \cup R, Stale(l2), Mentioned(l2), m.here, {})
  BY <1>2, <1>6 DEF B2, G2
<1> QED
  BY <1>1, <1>3, <1>7, <1>8 DEF Since

(* An edit without a loss, seen from what is saved after it.               *)
LEMMA AgainMore ==
    ASSUME NEW n, NEW l \in Seq(Changes), NEW Old, NEW K,
           Again(n, l, Old, K), NEW recs \in Seq(Changes), NEW m, NEW Old2, NEW K2, NEW R,
           Edited(n, m, Old, K, Old2, K2, R), NEW l2, l2 = l \o recs,
           Replays(recs, n, m, Old, K, Old2, K2, R, Stale(l), Mentioned(l), Stale(l2), Mentioned(l2))
    PROVE  Again(m, l2, Old2, K2)
<1> SUFFICES ASSUME NEW w, NEW f, Picture(w, f), NoneShort(w.pts), Whole(f), Descends(f, m, Old2, K2)
             PROVE  \E T : /\ T \subseteq K2
                           /\ Core(ApplyChanges(w, l2), m, f, Old2, K2, T, Stale(l2), Mentioned(l2),
                                   m.here \cap f.here, f.here)
  BY DEF Again
<1>1. /\ Descends(f, n, Old, K)
      /\ \A T : T \subseteq K =>
            /\ Fitting(FALSE, n, f, Old, K, T, n.here \cap f.here, f.here)
            /\ Fitting(FALSE, m, f, Old2, K2, T \cup R, m.here \cap f.here, f.here)
  BY DescendsEdited
<1> DEFINE B == Stale(l)
           G == Mentioned(l)
           B2 == Stale(l2)
           G2 == Mentioned(l2)
<1>2. PICK T : /\ T \subseteq K
               /\ Core(ApplyChanges(w, l), n, f, Old, K, T, B, G, n.here \cap f.here, f.here)
  BY <1>1 DEF Again
<1>3. Sound(w)
  BY DEF Picture, Depicts
<1>4. PICK h : /\ h[0] = ApplyChanges(w, l) /\ \A k \in 1..Len(recs) : h[k] = Apply(h[k - 1], recs[k])
               /\ ApplyChanges(w, l2) = h[Len(recs)]
  BY <1>3, ChangesMore
<1> HIDE DEF B, G, B2, G2
<1>5. Core(h[0], n, f, Old, K, T, B, G, n.here \cap f.here, f.here)
  BY <1>2, <1>4
<1>6. Replays(recs, n, m, Old, K, Old2, K2, R, B, G, B2, G2)
  BY DEF B, G, B2, G2
<1>7. /\ Fitting(FALSE, n, f, Old, K, T, n.here \cap f.here, f.here)
      /\ Fitting(FALSE, m, f, Old2, K2, T \cup R, m.here \cap f.here, f.here)
  BY <1>1, <1>2
<1>8. Core(h[Len(recs)], m, f, Old2, K2, T \cup R, B2, G2, m.here \cap f.here, f.here)
  BY <1>4, <1>5, <1>6, <1>7 DEF Replays
<1>9. T \cup R \subseteq K2
  BY <1>2 DEF Edited
<1>10. Core(ApplyChanges(w, l2), m, f, Old2, K2, T \cup R, Stale(l2), Mentioned(l2), m.here \cap f.here, f.here)
  BY <1>4, <1>8 DEF B2, G2
<1> QED
  BY <1>9, <1>10

(* A world that differs from n in nothing that is shown. *)
LEMMA CoreSeen ==
    ASSUME NEW w, NEW n, NEW f, NEW Old, NEW K, NEW T, NEW B, NEW G, NEW L, NEW E,
           Core(w, n, f, Old, K, T, B, G, L, E), Whole(n), Bound(n, Old, K), n.look \in [Routes -> 0..1],
           n.names \in [Routes -> Seq(Nat)],
           n.here \subseteq L, f.here \subseteq Old,
           \A r \in Routes : r \notin T => f.names[r] = n.names[r] /\ f.look[r] = n.look[r],
           \A g \in n.here : g \in E => f.pos[g] = n.pos[g]
    PROVE  View(Compact(w, Shown(w))) = Shows(n)
<1>1. PICK H, P :
        /\ Depicts(w, Pic(n, f, K, T, B, G, H, P))
        /\ L \subseteq H /\ \A g \in H : g \in Old => g \in n.here
        /\ \A g : g \notin Old => (g \in H <=> g \in f.here)
        /\ \A g \in L : P[g] = n.pos[g] \/ (g \in E /\ P[g] = f.pos[g])
  BY DEF Core
<1>2. H = n.here /\ \A g \in n.here : P[g] = n.pos[g]
  BY <1>1
<1> DEFINE a == Pic(n, f, K, T, B, G, H, P)
<1>3. /\ \A r \in Routes : a.names[r] = n.names[r]
      /\ a.look = n.look /\ a.here = n.here /\ a.known = K /\ a.pos = P
  <2>1. /\ \A r \in Routes : a.names[r] = IF r \in T THEN n.names[r] ELSE f.names[r]
        /\ a.look = [r \in Routes |-> IF r \in T THEN n.look[r] ELSE f.look[r]]
        /\ a.here = H /\ a.pos = P /\ a.known = K
    BY PicFields
  <2> HIDE DEF a
  <2>2. a.look = [r \in Routes |-> n.look[r]]
    BY <2>1
  <2> QED
    BY <1>2, <2>1, <2>2
<1>4. Depicts(w, a)
  BY <1>1
<1> HIDE DEF a
<1>5. Sound(w) /\ w \in Worlds /\ Len(w.obj) \in Nat
  BY <1>4, WorldTypes DEF Depicts, Sound, Fits
<1>6. ASSUME NEW i \in 1..Len(w.obj), In(w, i) PROVE Live(w, i)
  <2>1. PICK r \in Routes : On(w.pts, r, i)
    BY <1>6 DEF In
  <2>2. PICK m \in 1..Len(w.pts[r]) : w.pts[r][m] = i
    BY <2>1 DEF On, Has
  <2>3. /\ Len(w.pts[r]) = Len(n.names[r])
        /\ w.obj[i].listed \/ r \notin K
    BY <1>3, <1>4, <2>2 DEF Depicts, RoutesFit
  <2>4. r \in K
    <3>1. Len(n.names[r]) = 0 => FALSE
      BY <2>2, <2>3
    <3> QED
      BY <3>1 DEF Bound
  <2> QED
    BY <1>6, <2>3, <2>4 DEF Live
<1> DEFINE keep == Shown(w)
<1>7. /\ keep \in SUBSET (1..Len(w.obj))
      /\ \A i \in 1..Len(w.obj) : Live(w, i) \/ In(w, i) => i \in keep
      /\ \A i \in keep : Live(w, i)
  <2>1. /\ Held(w) \in SUBSET (1..Len(w.obj)) /\ Shown(w) \in SUBSET Held(w)
        /\ \A i \in 1..Len(w.obj) : /\ i \in Held(w) <=> w.obj[i].listed \/ In(w, i)
                                    /\ i \in Shown(w) <=> /\ i \in Held(w)
                                                          /\ w.obj[i].isolated \/ In(w, i)
    BY <1>5, HeldAre
  <2> QED
    BY <1>6, <2>1 DEF Live
<1> HIDE DEF keep
<1> DEFINE b == Plain(a.names, a.here, a.pos, a.own, a.look)
<1>8. /\ b.names = a.names /\ b.here = a.here /\ b.pos = a.pos /\ b.own = a.own /\ b.look = a.look
      /\ b.known = Routes
  BY PlainFields
<1> HIDE DEF b
<1> DEFINE v == Compact(w, keep)
<1>9. Depicts(v, b) /\ AllLive(v)
  <2>1. Depicts(v, b) /\ \A i \in 1..Len(v.obj) : Live(v, i)
    BY <1>4, <1>7, <1>8, CompactDepicted
  <2> QED
    BY <2>1 DEF AllLive
<1> HIDE DEF v
<1>10. View(v) = Shows(b)
  BY <1>8, <1>9, PictureSeen
<1>11. Shows(b) = Shows(n)
  <2>1. b.here = n.here /\ b.look = n.look /\ \A g \in n.here : b.pos[g] = n.pos[g]
    BY <1>2, <1>3, <1>8
  <2>2. ASSUME NEW r \in Routes
        PROVE  /\ Len(b.names[r]) = Len(n.names[r])
               /\ \A m \in 1..Len(n.names[r]) : b.names[r][m] = n.names[r][m]
               /\ \A m \in 1..Len(n.names[r]) : n.names[r][m] \in n.here
    <3>1. \A m \in 1..Len(n.names[r]) : Has(n.names[r], n.names[r][m])
      BY DEF Has
    <3>2. b.names[r] = n.names[r]
      BY <1>3, <1>8
    <3> QED
      BY <3>1, <3>2 DEF Whole
  <2> QED
    BY <2>1, <2>2, SameShown
<1> QED
  BY <1>10, <1>11 DEF v, keep

-----------------------------------------------------------------------------
(* The inductive invariant, and recovery *)

(* While nothing is lost, the change set brings the document to what the   *)
(* user sees, and what he sees, when it is saved, is not changed by it.    *)
Kept(n) ==
    /\ Picture(nav, n) /\ Again(n, log, Guids, Ids)
    /\ phase = "up" => Since(n, Base(file), log, Guids, Ids)
    /\ phase = "down" => Since(n, Base(file), log, Guids, Ids) \/ file = CreateAllGPXObjects(nav)

RInv ==
    /\ Limits /\ (phase = "written" => file = CreateAllGPXObjects(nav))
    /\ lossy = {} => \E n : Kept(n)

(* What a start reads out of any document.                                 *)
LEMMA BaseSound ==
    ASSUME NEW doc \in Docs \cup {Torn}, doc # Torn => NoneShort(doc.routes)
    PROVE  Sound(Base(doc)) /\ NoneShort(Base(doc).pts) /\ AllLive(Base(doc))
<1>1. CASE doc = Torn
  <2>1. AllLive(Empty)
    BY DEF AllLive, Empty
  <2> QED
    BY <1>1, <2>1, EmptySound DEF Base
<1>2. CASE doc # Torn
  <2>1. doc \in Docs /\ NoneShort(doc.routes) /\ Base(doc) = LoadAllGPXObjects(doc)
    BY <1>2 DEF Base
  <2> QED
    BY <2>1, DocumentLoaded, LoadedLive
<1> QED
  BY <1>1, <1>2

(* What is saved is loaded as it was. *)
LEMMA SavedDepicted ==
    ASSUME NEW w, NEW n, Picture(w, n), Belong(w)
    PROVE  LET doc == CreateAllGPXObjects(w) IN
           /\ Picture(Base(doc), n) /\ NoneShort(Base(doc).pts) /\ Picture(LoadAllGPXObjects(doc), n)
           /\ n.look \in [Routes -> 0..1] /\ n.names \in [Routes -> Seq(Nat)]
<1> DEFINE doc == CreateAllGPXObjects(w)
<1>1. doc \in Docs /\ NoneShort(doc.routes) /\ Tells(doc, n)
  BY DocumentShows
<1> HIDE DEF doc
<1>2. Depicts(w, n) /\ Clean(n) /\ n.known = Routes /\ w.look = n.look /\ w \in Worlds
      /\ n.names \in [Routes -> Seq(Nat)]
  BY DEF Picture, Clean, Depicts, Belong, Sound, Fits
<1>3. n.look \in [Routes -> 0..1]
  BY <1>2, WorldTypes
<1>4. \A r \in Routes : \A g : Has(n.names[r], g) => g \in n.here
  BY <1>2, PictureGives
<1>5. Picture(LoadAllGPXObjects(doc), n)
  BY <1>1, <1>2, <1>3, <1>4, DocumentDepicted
<1>6. doc # Torn
  <2>1. DOMAIN doc = {"marks", "routes", "look"}
    BY <1>1 DEF Docs
  <2>2. DOMAIN Torn = {"torn"}
    BY DEF Torn
  <2>3. "marks" \in {"marks", "routes", "look"} /\ "marks" \notin {"torn"}
    OBVIOUS
  <2> QED
    BY <2>1, <2>2, <2>3
<1>7. Base(doc) = LoadAllGPXObjects(doc)
  BY <1>6 DEF Base
<1>8. NoneShort(LoadAllGPXObjects(doc).pts)
  BY <1>1, DocumentLoaded
<1> QED
  BY <1>2, <1>3, <1>5, <1>7, <1>8 DEF doc

(* The picture of what is in memory.                                       *)
LEMMA KeptWhole ==
    ASSUME IInv, Limits, NEW n, Picture(nav, n)
    PROVE  Whole(n) /\ Bound(n, Guids, Ids) /\ Ids \subseteq Routes
<1>1. Ids \subseteq Routes
  <2>1. made.points \in 0..MaxPoints /\ made.routes \in 0..MaxRoutes
    BY FileTypes
  <2>2. made.points >= made.points /\ made.routes >= made.routes
    BY <2>1, NavAssumption
  <2> QED
    BY <2>1, <2>2, MadeMore
<1>2. Limited(nav, Guids, Ids)
  BY DEF Limits
<1> HIDE DEF Guids, Ids
<1> QED
  BY <1>1, <1>2, WholePicture

(* The invariant holds at first.                                           *)
LEMMA InitialKept ==
    ASSUME Init, IInv, Limits
    PROVE  RInv
<1>1. /\ nav = Empty /\ file = CreateAllGPXObjects(nav) /\ log = <<>> /\ phase = "up"
  BY DEF Init
<1>2. ~Damaged(nav)
  BY <1>1 DEF Damaged, Empty
<1>3. Belong(nav)
  BY InvariantGives
<1>4. PICK n : Picture(nav, n)
  BY <1>2, <1>3, PictureExists
<1>5. Whole(n) /\ Bound(n, Guids, Ids) /\ Ids \subseteq Routes
  BY <1>4, KeptWhole
<1> HIDE DEF Guids, Ids
<1>6. Picture(Base(file), n) /\ NoneShort(Base(file).pts)
  BY <1>1, <1>3, <1>4, SavedDepicted
<1>7. Since(n, Base(file), log, Guids, Ids) /\ Again(n, log, Guids, Ids)
  BY <1>1, <1>5, <1>6, SinceAtFirst, AgainAtFirst
<1>8. phase # "written" /\ phase # "down"
  BY <1>1
<1> QED
  BY <1>4, <1>7, <1>8 DEF RInv, Kept

(* The user keeps it.                                                      *)
LEMMA EditingKept ==
    ASSUME IInv, RInv, IInv', Limits', Editing
    PROVE  RInv'
<1>1. phase = "up" /\ phase' = "up" /\ file' = file /\ lossy = {}
  BY EditingStays
<1>2. phase' # "written" /\ phase' # "down"
  BY <1>1
<1>3. ASSUME lossy' = {} PROVE \E m : Kept(m)'
  <2>1. PICK n : Kept(n)
    BY <1>1 DEF RInv
  <2>2. Picture(nav, n) /\ Again(n, log, Guids, Ids) /\ Since(n, Base(file), log, Guids, Ids)
    BY <1>1, <2>1 DEF Kept
  <2>3. Follows(n)
    <3>1. Limits
      BY DEF RInv
    <3> QED
      BY <1>3, <2>2, <3>1, EditingFollows
  <2>4. PICK m, R, recs :
          /\ recs \in Seq(Changes) /\ log' = log \o recs /\ Picture(nav', m)
          /\ Edited(n, m, Guids, Ids, Guids', Ids', R)
          /\ Replays(recs, n, m, Guids, Ids, Guids', Ids', R,
                     Stale(log), Mentioned(log), Stale(log'), Mentioned(log'))
    BY <2>3 DEF Follows
  <2>5. /\ log \in Seq(Changes) /\ Sound(Base(file)) /\ NoneShort(Base(file).pts)
    BY FileTypes, BaseSound
  <2> DEFINE S == Guids
             K == Ids
             S2 == Guids'
             K2 == Ids'
             l2 == log'
  <2> HIDE DEF S, K, S2, K2, l2
  <2>6. /\ l2 = log \o recs /\ Edited(n, m, S, K, S2, K2, R)
        /\ Replays(recs, n, m, S, K, S2, K2, R, Stale(log), Mentioned(log), Stale(l2), Mentioned(l2))
        /\ Again(n, log, S, K) /\ Since(n, Base(file), log, S, K)
    BY <2>2, <2>4 DEF S, K, S2, K2, l2
  <2>7. Again(m, l2, S2, K2)
    BY <2>4, <2>5, <2>6, AgainMore
  <2>8. Since(m, Base(file), l2, S2, K2)
    BY <2>4, <2>5, <2>6, SinceMore
  <2>9. Again(m, log', Guids', Ids') /\ Since(m, Base(file'), log', Guids', Ids')
    BY <1>1, <2>7, <2>8 DEF S2, K2, l2
  <2>10. Kept(m)'
    BY <1>2, <2>4, <2>9 DEF Kept
  <2> QED
    BY <2>10
<1> QED
  BY <1>2, <1>3 DEF RInv

(* So do the first two steps of a save, and a crash.                       *)
LEMMA SavingKept ==
    ASSUME IInv, RInv, Limits', StartSave \/ FinishWrite \/ Crash \/ UNCHANGED vars
    PROVE  RInv'
<1>1. nav' = nav /\ log' = log /\ made' = made
  BY DEF StartSave, FinishWrite, Crash, vars
<1>2. Guids' = Guids /\ Ids' = Ids
  BY <1>1 DEF Guids, Ids
<1> HIDE DEF Guids, Ids
<1>3. CASE StartSave
  <2>1. phase' # "written" /\ phase' # "up" /\ phase' # "down" /\ lossy' = lossy
    BY <1>3 DEF StartSave
  <2>2. ASSUME NEW n, Kept(n) PROVE Kept(n)'
    BY <1>1, <1>2, <2>1, <2>2 DEF Kept
  <2> QED
    BY <2>1, <2>2 DEF RInv
<1>4. CASE FinishWrite
  <2>1. phase' # "up" /\ phase' # "down" /\ lossy' = lossy /\ file' = CreateAllGPXObjects(nav')
    BY <1>1, <1>4 DEF FinishWrite
  <2>2. ASSUME NEW n, Kept(n) PROVE Kept(n)'
    BY <1>1, <1>2, <2>1, <2>2 DEF Kept
  <2> QED
    BY <2>1, <2>2 DEF RInv
<1>5. CASE Crash
  <2>1. /\ phase' # "written" /\ phase' # "up" /\ file' = file /\ phase # "down"
        /\ lossy' = lossy \cup Lost("torn", phase = "writing") \cup Lost("applied", phase = "applied")
    BY <1>5 DEF Crash
  <2>2. ASSUME lossy' = {} PROVE lossy = {} /\ phase \in {"up", "written"}
    <3>1. lossy = {} /\ Lost("torn", phase = "writing") = {} /\ Lost("applied", phase = "applied") = {}
      BY <2>1, <2>2
    <3>2. phase # "writing" /\ phase # "applied"
      BY <3>1, NotLost
    <3>3. phase \in Phases
      BY FileTypes
    <3> QED
      BY <2>1, <3>1, <3>2, <3>3 DEF Phases
  <2>3. ASSUME NEW n, Kept(n), phase \in {"up", "written"} PROVE Kept(n)'
    <3>1. Since(n, Base(file), log, Guids, Ids) \/ file = CreateAllGPXObjects(nav)
      BY <2>3 DEF Kept, RInv
    <3> QED
      BY <1>1, <1>2, <2>1, <2>3, <3>1 DEF Kept
  <2> QED
    BY <2>1, <2>2, <2>3 DEF RInv
<1>6. CASE UNCHANGED vars
  <2>1. phase' = phase /\ file' = file /\ lossy' = lossy
    BY <1>6 DEF vars
  <2>2. ASSUME NEW n, Kept(n) PROVE Kept(n)'
    BY <1>1, <1>2, <2>1, <2>2 DEF Kept
  <2> QED
    BY <1>1, <2>1, <2>2 DEF RInv
<1> QED
  BY <1>3, <1>4, <1>5, <1>6

(* The change set is removed when the document tells everything.           *)
LEMMA RemovingKept ==
    ASSUME IInv, RInv, Limits', RemoveChanges
    PROVE  RInv'
<1>1. /\ phase = "written" /\ nav' = nav /\ made' = made /\ file' = file /\ log' = <<>>
      /\ phase' \in {"up", "down"} /\ lossy' = Lost("damaged", Damaged(nav))
  BY DEF RemoveChanges
<1>2. Guids' = Guids /\ Ids' = Ids /\ phase' # "written"
  BY <1>1 DEF Guids, Ids
<1>3. file = CreateAllGPXObjects(nav) /\ Limits
  BY <1>1 DEF RInv
<1>4. ASSUME lossy' = {} PROVE \E n : Kept(n)'
  <2>1. ~Damaged(nav)
    BY <1>1, <1>4, NotLost
  <2>2. Belong(nav)
    BY InvariantGives
  <2>3. PICK n : Picture(nav, n)
    BY <2>1, <2>2, PictureExists
  <2>4. Whole(n) /\ Bound(n, Guids, Ids) /\ Ids \subseteq Routes
    BY <1>3, <2>3, KeptWhole
  <2> HIDE DEF Guids, Ids
  <2>5. Picture(Base(file), n) /\ NoneShort(Base(file).pts)
    BY <1>3, <2>2, <2>3, SavedDepicted
  <2>6. Since(n, Base(file), <<>>, Guids, Ids) /\ Again(n, <<>>, Guids, Ids)
    BY <2>4, <2>5, SinceAtFirst, AgainAtFirst
  <2>7. Kept(n)'
    BY <1>1, <1>2, <2>3, <2>6 DEF Kept
  <2> QED
    BY <2>7
<1> QED
  BY <1>2, <1>4 DEF RInv

(* A start whose result is not damaged.                                    *)
LEMMA StartKept ==
    ASSUME IInv, RInv, IInv', Limits', Start
    PROVE  RInv'
<1>1. /\ nav' = Restored /\ log' = <<>> /\ made' = made /\ file' = file
      /\ phase' = IF log = <<>> THEN "up" ELSE "applied"
      /\ lossy' = Lost("damaged", Damaged(nav'))
  BY DEF Start
<1>2. Guids' = Guids /\ Ids' = Ids /\ phase' # "written" /\ phase' # "down"
  BY <1>1 DEF Guids, Ids
<1>3. ASSUME lossy' = {} PROVE \E n : Kept(n)'
  <2>1. ~Damaged(nav')
    BY <1>1, <1>3, NotLost
  <2>2. Belong(nav')
    <3>1. /\ Sound(Base(file)) /\ NoneShort(Base(file).pts)
      BY FileTypes, BaseSound
    <3> DEFINE w == ApplyChanges(Base(file), log)
    <3>2. Restored = Compact(w, Shown(w))
      BY DEF Restored, Replayed, Base
    <3>3. Sound(w) /\ NoneShort(w.pts)
      BY <3>1, FileTypes, ChangesApplied
    <3> HIDE DEF w
    <3> QED
      BY <1>1, <3>2, <3>3, KeptShown
  <2>3. \E n : Picture(nav', n) /\ (log = <<>> => Picture(Base(file), n) /\ NoneShort(Base(file).pts))
    <3>1. CASE log = <<>>
      <4> DEFINE w == Base(file)
      <4>1. /\ Sound(w) /\ NoneShort(w.pts) /\ AllLive(w)
        BY FileTypes, BaseSound
      <4>2. Restored = Compact(ApplyChanges(w, log), Shown(ApplyChanges(w, log)))
        BY DEF Restored, Replayed, Base
      <4> HIDE DEF w
      <4>3. nav' = Compact(w, Shown(w))
        BY <1>1, <3>1, <4>1, <4>2, NoChanges
      <4>4. PICK n : Picture(w, n) /\ Picture(Compact(w, Shown(w)), n)
        BY <2>1, <4>1, <4>3, ShownWhole
      <4>5. Picture(nav', n) /\ Picture(Base(file), n) /\ NoneShort(Base(file).pts)
        BY <4>1, <4>3, <4>4 DEF w
      <4> QED
        BY <4>5
    <3>2. CASE log # <<>>
      <4>1. \E n : Picture(nav', n)
        <5> DEFINE w == nav'
        <5>1. Belong(w) /\ ~Damaged(w)
          BY <2>1, <2>2
        <5> HIDE DEF w
        <5>2. \E n : Picture(w, n)
          BY <5>1, PictureExists
        <5> QED
          BY <5>2 DEF w
      <4> QED
        BY <3>2, <4>1
    <3> QED
      BY <3>1, <3>2
  <2>4. PICK n : Picture(nav', n) /\ (log = <<>> => Picture(Base(file), n) /\ NoneShort(Base(file).pts))
    BY <2>3
  <2>5. Whole(n) /\ Bound(n, Guids, Ids) /\ Ids \subseteq Routes
    <3>1. Ids \subseteq Routes
      <4>1. made.points \in 0..MaxPoints /\ made.routes \in 0..MaxRoutes
        BY FileTypes
      <4>2. made.points >= made.points /\ made.routes >= made.routes
        BY <4>1, NavAssumption
      <4> QED
        BY <4>1, <4>2, MadeMore
    <3> DEFINE w == nav'
    <3>2. Limited(w, Guids, Ids) /\ Picture(w, n)
      BY <1>2, <2>4 DEF Limits
    <3> HIDE DEF w, Guids, Ids
    <3> QED
      BY <3>1, <3>2, WholePicture
  <2> HIDE DEF Guids, Ids
  <2>6. Again(n, <<>>, Guids, Ids)
    BY <2>5, AgainAtFirst
  <2>7. phase' = "up" => Since(n, Base(file), <<>>, Guids, Ids)
    <3>1. ASSUME phase' = "up" PROVE log = <<>>
      <4>1. "applied" # "up"
        OBVIOUS
      <4> QED
        BY <1>1, <3>1, <4>1
    <3> QED
      BY <2>4, <2>5, <3>1, SinceAtFirst
  <2>8. Kept(n)'
    BY <1>1, <1>2, <2>4, <2>6, <2>7 DEF Kept
  <2> QED
    BY <2>8
<1> QED
  BY <1>2, <1>3 DEF RInv

(* Every step keeps the invariant.                                         *)
LEMMA StepKept ==
    ASSUME IInv, RInv, StraysMade, IInv', [Next]_vars
    PROVE  RInv' /\ StraysMade'
<1>1. Limits'
  <2>1. Limits
    BY DEF RInv
  <2> QED
    BY <2>1, LimitsKept
<1>2. Editing \/ StartSave \/ FinishWrite \/ RemoveChanges \/ Crash \/ Start \/ UNCHANGED vars
  BY StepIs
<1>3. StraysMade'
  BY StraysMadeKept DEF RInv
<1> QED
  BY <1>1, <1>2, <1>3, EditingKept, SavingKept, RemovingKept, StartKept

(* The invariant implies what the start promises.                          *)
LEMMA InvariantRecovers ==
    ASSUME IInv, RInv
    PROVE  Recoverable
<1> SUFFICES ASSUME phase \in {"up", "written", "down"}, lossy = {} PROVE View(Restored) = View(nav)
  BY DEF Recoverable
<1>1. PICK n : Kept(n)
  BY DEF RInv
<1>2. Picture(nav, n) /\ Belong(nav) /\ Limits
  BY <1>1, InvariantGives DEF Kept, RInv
<1>3. Whole(n) /\ Bound(n, Guids, Ids) /\ Ids \subseteq Routes
  BY <1>2, KeptWhole
<1> HIDE DEF Guids, Ids
<1>4. n.look \in [Routes -> 0..1] /\ n.names \in [Routes -> Seq(Nat)]
  BY <1>2, SavedDepicted
<1>5. View(nav) = Shows(n)
  BY <1>2, PictureSeen DEF Picture, Clean
<1> DEFINE B == Stale(log)
           G == Mentioned(log)
<1>6. ASSUME NEW w, Restored = Compact(w, Shown(w)), NEW f, NEW T, NEW E,
             Core(w, n, f, Guids, Ids, T, B, G, n.here, E), f.here \subseteq Guids,
             \A r \in Routes : r \notin T => f.names[r] = n.names[r] /\ f.look[r] = n.look[r],
             \A g \in n.here : g \in E => f.pos[g] = n.pos[g]
      PROVE  View(Restored) = View(nav)
  <2> HIDE DEF B, G
  <2>1. View(Compact(w, Shown(w))) = Shows(n)
    BY <1>3, <1>4, <1>6, CoreSeen
  <2> QED
    BY <1>5, <1>6, <2>1
<1>7. CASE Since(n, Base(file), log, Guids, Ids)
  <2> DEFINE w == ApplyChanges(Base(file), log)
  <2>1. Restored = Compact(w, Shown(w))
    BY DEF Restored, Replayed, Base
  <2>2. PICK f, T : /\ Before(f, n, Guids, T)
                    /\ Core(w, n, f, Guids, Ids, T, B, G, n.here, {})
    BY <1>7 DEF Since
  <2>3. /\ f.here \subseteq Guids
        /\ \A r \in Routes : r \notin T => f.names[r] = n.names[r] /\ f.look[r] = n.look[r]
    BY <2>2 DEF Before
  <2> HIDE DEF w, B, G
  <2> QED
    BY <1>6, <2>1, <2>2, <2>3
<1>8. CASE file = CreateAllGPXObjects(nav)
  <2> DEFINE w == ApplyChanges(Base(file), log)
  <2>1. Restored = Compact(w, Shown(w))
    BY DEF Restored, Replayed, Base
  <2>2. Picture(Base(file), n) /\ NoneShort(Base(file).pts)
    BY <1>2, <1>8, SavedDepicted
  <2>3. Descends(n, n, Guids, Ids) /\ n.here \cap n.here = n.here
    BY DEF Descends
  <2>4. Again(n, log, Guids, Ids)
    BY <1>1 DEF Kept
  <2>5. PICK T : Core(w, n, n, Guids, Ids, T, B, G, n.here, n.here)
    BY <1>3, <2>2, <2>3, <2>4 DEF Again
  <2>6. n.here \subseteq Guids
    BY <1>3 DEF Bound
  <2> HIDE DEF w, B, G
  <2> QED
    BY <1>6, <2>1, <2>5, <2>6
<1>9. Since(n, Base(file), log, Guids, Ids) \/ file = CreateAllGPXObjects(nav)
  BY <1>1 DEF Kept, RInv
<1> QED
  BY <1>7, <1>8, <1>9

(* "We crashed last time ... Let's reconstruct the unsaved changes" (MyConfig::LoadNavObjects): wherever  *)
(* the program dies, the next start shows every mark and route as the user left it, unless he did since   *)
(* the last save what the change set cannot tell.                                                        *)
THEOREM NothingLost == Spec => []Recoverable
<1>1. Init => IInv /\ RInv /\ StraysMade
  BY InitiallyIInv, InitialLimits, InitialKept, InitialStrays
<1>2. (IInv /\ RInv /\ StraysMade) /\ [Next]_vars => (IInv /\ RInv /\ StraysMade)'
  BY StepKeeps, StepKept
<1>3. IInv /\ RInv /\ StraysMade => Recoverable
  BY InvariantRecovers
<1> QED
  BY <1>1, <1>2, <1>3, PTL DEF Spec
=============================================================================
