--------------------------- MODULE NavObjectStore ---------------------------
(***************************************************************************)
(* The user's marks and routes, the document they are saved in             *)
(* (navobj.xml) and the change set that is written between two saves       *)
(* (navobj.xml.changes), from which a start after a crash reconstructs     *)
(* what was not saved.                                                     *)
(*                                                                         *)
(*   MyConfig               src/src/navutil.cpp                            *)
(*   NavObjectCollection1,                                                 *)
(*   NavObjectChanges       src/src/NavObjectCollection.cpp                *)
(*   Routeman, WayPointman  src/src/routeman.cpp                           *)
(*   Route                  src/src/Route.cpp                              *)
(*                                                                         *)
(* A "world" is the program's memory: obj, the list of point objects in    *)
(* WayPointman's order (two of them may carry one GUID), pts, the points   *)
(* of each route by their index in obj, and look, the colour, style and    *)
(* description of each route.                                              *)
(***************************************************************************)
EXTENDS Naturals, Sequences, FiniteSets, SequencesExt

CONSTANTS MaxPoints,   \* bound on the GUIDs of points ever made
          MaxRoutes,   \* bound on the GUIDs of routes ever made
          MaxRefs,     \* bound on the points of all routes together
          MaxVersion,  \* bound on the positions a point takes
          Movers,      \* the GUIDs of the points that are moved
          MaxLog,      \* bound on the records between two saves
          MaxStrays    \* bound on the left-over objects beside which the user edits

ASSUME NavAssumption ==
    /\ {MaxPoints, MaxRoutes, MaxRefs, MaxLog, MaxStrays} \subseteq Nat
    /\ MaxVersion \in Nat \ {0}
    /\ Movers \subseteq 1..MaxPoints

VARIABLES nav,     \* the world in memory (while the program is down: when it died)
          file,    \* navobj.xml
          log,     \* navobj.xml.changes
          phase,   \* what the program is doing
          made,    \* the GUIDs given out so far; CreateGUID never repeats one
          lossy,   \* what happened since the last save that a crash would undo
          strays   \* the listed points in no route that a replay left flagged in-route

vars == <<nav, file, log, phase, made, lossy, strays>>

Routes  == 1..MaxRoutes
Losses  == {"taken", "restyled", "wiped", "orphaned", "torn", "applied", "damaged",
             "reused"}
Phases  == {"down", "up", "applied", "writing", "written"}
Torn    == [torn |-> TRUE]   \* a document the parser rejects

\* A point as GPXCreateWpt writes it.
Record(o) == [guid |-> o.guid, pos |-> o.pos, shared |-> o.shared]

\* A point as GPXLoadWaypoint1 makes it, before it is put into the list.
Object(rec) == [guid |-> rec.guid, pos |-> rec.pos, shared |-> rec.shared,
                listed |-> TRUE, isolated |-> FALSE, inRoute |-> FALSE]

Empty == [obj |-> <<>>, pts |-> [r \in Routes |-> <<>>], look |-> [r \in Routes |-> 0]]

-----------------------------------------------------------------------------
(* Sets of numbers and sequences *)

Rank(S, i) == Cardinality({j \in S : j <= i})

\* The numbers of S in order.
Sorted(S) == [k \in 1..Cardinality(S) |-> CHOOSE i \in S : Rank(S, i) = k]

\* The elements of s at the places of S.
Chosen(s, S) == [k \in 1..Cardinality(S) |-> s[Sorted(S)[k]]]

\* What is left of s without the elements that are i.
Without(s, i) ==
    LET rest == Sorted({k \in DOMAIN s : s[k] # i})
    IN  [k \in DOMAIN rest |-> s[rest[k]]]

\* op(... op(op(w, s[1]), s[2]) ...)
InTurn(op(_, _), w, s) ==
    LET after[k \in 0..Len(s)] == IF k = 0 THEN w ELSE op(after[k - 1], s[k])
    IN  after[Len(s)]

-----------------------------------------------------------------------------
(* Worlds *)

Containers(w, i) == {r \in Routes : i \in Range(w.pts[r])}

Named(w, g) == {i \in DOMAIN w.obj : w.obj[i].listed /\ w.obj[i].guid = g}

\* WaypointExists(guid): the first of the list.
Existing(w, g) == CHOOSE i \in Named(w, g) : \A j \in Named(w, g) : i <= j

AddRoutePoint(w, o) == [w EXCEPT !.obj = Append(@, o)]
RemoveRoutePoint(w, i) == [w EXCEPT !.obj[i].listed = FALSE]

\* A mark that becomes part of a route is shared.
AddPoint(w, r, i) ==
    [w EXCEPT !.obj[i].shared   = @ \/ w.obj[i].isolated,
              !.obj[i].isolated = FALSE,
              !.obj[i].inRoute  = TRUE,
              !.pts[r]          = Append(@, i)]

\* Routeman::DeleteRoute, of one route after the other: the points of no other
\* route go with them, but those that are shared become isolated marks.
DropRoutes(w, rs) ==
    LET own == {i \in DOMAIN w.obj : /\ w.obj[i].inRoute
                                     /\ Containers(w, i) # {} /\ Containers(w, i) \subseteq rs}
    IN  [w EXCEPT
            !.pts  = [r \in Routes |-> IF r \in rs THEN <<>> ELSE w.pts[r]],
            !.look = [r \in Routes |-> IF r \in rs THEN 0 ELSE w.look[r]],
            !.obj  = [i \in DOMAIN w.obj |->
                LET o == w.obj[i]
                IN  IF i \notin own THEN o
                    ELSE [o EXCEPT !.inRoute  = FALSE,
                                   !.isolated = o.isolated \/ o.shared,
                                   !.shared   = FALSE,
                                   !.listed   = o.listed /\ o.shared]]]

DropRoute(w, r) == DropRoutes(w, {r})

\* The world when the point has left the routes of rs.
Left(w, rs, i) ==
    [w EXCEPT !.pts = [r \in Routes |-> IF r \in rs THEN Without(w.pts[r], i) ELSE w.pts[r]]]

\* Route::RemovePoint, from one route after the other: a point of no other
\* route becomes an isolated mark.
RemovePoint(w, rs, i) ==
    LET v == Left(w, rs, i)
    IN  IF Containers(v, i) # {} THEN v
        ELSE [v EXCEPT !.obj[i].inRoute = FALSE, !.obj[i].isolated = TRUE]

\* The first half of WayPointman::DestroyWaypoint.
LeaveRoutes(w, i) ==
    IF Containers(w, i) = {} THEN w ELSE RemovePoint(w, Containers(w, i), i)

\* WayPointman::DestroyWaypoint: the point leaves its routes, those left with
\* less than two points are deleted, and so is the point.
DestroyWaypoint(w, i) ==
    LET v == LeaveRoutes(w, i)
    IN  RemoveRoutePoint(DropRoutes(v, {r \in Containers(w, i) : Len(v.pts[r]) < 2}), i)

\* The objects that the list or a route still holds, and those of them that
\* are shown and saved (CreateNavObjGPXPoints and CreateNavObjGPXRoutes).
Held(w)  == {i \in DOMAIN w.obj : w.obj[i].listed \/ Containers(w, i) # {}}
Shown(w) == {i \in Held(w) : w.obj[i].isolated \/ Containers(w, i) # {}}

\* The world without the other objects.
Compact(w, keep) ==
    LET order == Sorted(keep)
    IN  [w EXCEPT !.obj = [k \in DOMAIN order |-> w.obj[order[k]]],
                  !.pts = [r \in Routes |-> [m \in DOMAIN w.pts[r] |-> Rank(keep, w.pts[r][m])]]]

-----------------------------------------------------------------------------
(* The document *)

Points(w, r) == [k \in DOMAIN w.pts[r] |-> Record(w.obj[w.pts[r][k]])]

CreateAllGPXObjects(w) ==
    LET marks == Sorted({i \in DOMAIN w.obj : w.obj[i].listed /\ w.obj[i].isolated})
    IN  [marks  |-> [k \in DOMAIN marks |-> Record(w.obj[marks[k]])],
         routes |-> [r \in Routes |-> Points(w, r)],
         look   |-> w.look]

\* A mark of the same name and position is taken for the same mark.
LoadMark(w, rec) ==
    IF \E i \in Named(w, rec.guid) : w.obj[i].pos = rec.pos THEN w
    ELSE AddRoutePoint(w, [Object(rec) EXCEPT !.isolated = TRUE])

\* GPXLoadRoute1 keeps the point object that has the GUID already.
LoadRoutePoint(w, r, rec) ==
    IF Named(w, rec.guid) # {} THEN AddPoint(w, r, Existing(w, rec.guid))
    ELSE AddPoint(AddRoutePoint(w, Object(rec)), r, Len(w.obj) + 1)

LoadRoute(w, doc, r) ==
    [InTurn(LAMBDA v, rec : LoadRoutePoint(v, r, rec), w, doc.routes[r])
        EXCEPT !.look[r] = doc.look[r]]

LoadMarks(doc) == InTurn(LoadMark, Empty, doc.marks)

LoadAllGPXObjects(doc) ==
    InTurn(LAMBDA w, r : LoadRoute(w, doc, r), LoadMarks(doc), [r \in Routes |-> r])

-----------------------------------------------------------------------------
(* The change set *)

Wpt(action, w, i) == [kind |-> "wpt", action |-> action, guid |-> w.obj[i].guid,
                      pts |-> <<Record(w.obj[i])>>]
Rte(action, w, r) == [kind |-> "rte", action |-> action, guid |-> r, pts |-> Points(w, r)]

\* One record for each route of rs.
RteUpdates(w, rs) ==
    LET order == Sorted(rs)
    IN  [k \in DOMAIN order |-> Rte("update", w, order[k])]

\* NavObjectChanges::ApplyChanges, a mark.
ApplyWpt(w, c) ==
    LET mark  == [Object(c.pts[1]) EXCEPT !.isolated = TRUE]
        found == Named(w, c.guid) # {}
        old   == Existing(w, c.guid)
    IN  CASE c.action = "add"    -> IF found THEN w ELSE AddRoutePoint(w, mark)
          [] c.action = "update" -> AddRoutePoint(IF found THEN RemoveRoutePoint(w, old) ELSE w,
                                                  mark)
          [] c.action = "delete" -> IF found THEN DestroyWaypoint(w, old) ELSE w

\* The first object that has the GUID moves to where the record says, and
\* joins the route.
PutPoint(w, r, rec) ==
    LET i == Existing(w, rec.guid)
    IN  AddPoint([w EXCEPT !.obj[i].pos = rec.pos], r, i)

PutPoints(w, r, recs) == InTurn(LAMBDA v, rec : PutPoint(v, r, rec), w, recs)

\* The old route stays and the points are added to it.
UpdateRouteA_Mutant(w, r, recs) == IF Len(recs) < 2 THEN w ELSE PutPoints(w, r, recs)

\* UpdateRouteA: a new route with the GUID of the old one, through the first
\* object that has each GUID; nothing is taken over from the old route.
UpdateRouteA(w, r, recs) ==
    IF Len(recs) < 2 THEN w ELSE PutPoints(DropRoute(w, r), r, recs)

\* Nobody flags the objects that the record makes.
ApplyRte_Mutant(w, c) ==
    LET loaded == [k \in DOMAIN c.pts |-> Object(c.pts[k])]
        v      == [w EXCEPT !.obj = @ \o loaded]
    IN  IF c.action = "delete" THEN DropRoute(v, c.guid) ELSE UpdateRouteA(v, c.guid, c.pts)

\* ApplyChanges, a route: GPXLoadRoute1 first puts an object of its own into
\* the list for every point of the record, flagged in-route, and nobody takes it
\* out again.
ApplyRte(w, c) ==
    LET loaded == [k \in DOMAIN c.pts |-> [Object(c.pts[k]) EXCEPT !.inRoute = TRUE]]
        v      == [w EXCEPT !.obj = @ \o loaded]
    IN  IF c.action = "delete" THEN DropRoute(v, c.guid) ELSE UpdateRouteA(v, c.guid, c.pts)

Apply(w, c) == IF c.kind = "wpt" THEN ApplyWpt(w, c) ELSE ApplyRte(w, c)

ApplyChanges(w, l) == InTurn(Apply, w, l)

\* What a start makes of the two files: all it puts into the list, ...
Replayed == ApplyChanges(IF file = Torn THEN Empty ELSE LoadAllGPXObjects(file), log)

\* ... the marks and the routes among it, ...
Restored == LET w == Replayed IN Compact(w, Shown(w))

\* ... and the objects that the route records left over.  They stay in the
\* list until the program ends: no file has them, but the user can meet them.
LeftOver == LET w == Replayed IN Chosen(w.obj, Held(w) \ Shown(w))

-----------------------------------------------------------------------------
(* Editing *)

Lost(what, really) == IF really THEN {what} ELSE {}

\* What a start may leave that never fits the document again: two objects
\* with one GUID, or a route through an object that is not in the list.
Damaged(w) == \/ \E i, j \in DOMAIN w.obj : i # j /\ w.obj[i].guid = w.obj[j].guid
              \/ \E i \in DOMAIN w.obj : ~w.obj[i].listed

\* Routes whose look a replay of their records would lose.
Styled(w, rs) == \E r \in rs : w.look[r] # 0

\* A replayed record finds the object that a route record left in the list:
\* an update of the mark took the real one to the end.
Orphaned(g) ==
    \E k, m \in DOMAIN log :
        /\ k < m /\ log[m].kind = "wpt" /\ log[m].action = "update" /\ log[m].guid = g
        /\ log[k].kind = "rte" /\ \E n \in DOMAIN log[k].pts : log[k].pts[n].guid = g

\* No further edit is modelled after one that a crash would undo, until that is
\* saved or lost.
Editable == lossy = {} /\ Len(strays) <= MaxStrays

\* An edit: the new world, the records it writes and what a crash would undo.
Edit(w, records, losses) ==
    /\ Editable /\ Len(log) + Len(records) <= MaxLog
    /\ nav' = Compact(w, Held(w))
    /\ log' = log \o records
    /\ lossy' = lossy \cup losses \cup Lost("orphaned",
          \E c \in Range(records) : /\ <<c.kind, c.action>> # <<"rte", "delete">>
                                   /\ \E rec \in Range(c.pts) : Orphaned(rec.guid))
    /\ UNCHANGED <<file, phase>>

\* The GUID is taken before the counter moves.
DropMark_Mutant ==
    /\ phase = "up" /\ made.points < MaxPoints
    /\ LET w == AddRoutePoint(nav, [Object([guid |-> made.points, pos |-> 1, shared |-> FALSE])
                                        EXCEPT !.isolated = TRUE])
       IN  Edit(w, <<Wpt("add", w, Len(w.obj))>>, {})
    /\ made' = [made EXCEPT !.points = @ + 1] /\ UNCHANGED strays

DropMark ==
    /\ phase = "up" /\ made.points < MaxPoints
    /\ LET g == made.points + 1
           w == AddRoutePoint(nav, [Object([guid |-> g, pos |-> 1, shared |-> FALSE])
                                        EXCEPT !.isolated = TRUE])
       IN  Edit(w, <<Wpt("add", w, Len(w.obj))>>, {})
    /\ made' = [made EXCEPT !.points = @ + 1] /\ UNCHANGED strays

\* The end of a drag, or the properties dialog.
MovePoint(i) ==
    /\ phase = "up" /\ nav.obj[i].guid \in Movers /\ nav.obj[i].pos < MaxVersion
    /\ LET w  == [nav EXCEPT !.obj[i].pos = @ + 1]
           rs == Containers(nav, i)
       IN  IF nav.obj[i].inRoute
           THEN Edit(w, RteUpdates(w, rs), Lost("restyled", Styled(nav, rs)))
           ELSE Edit(w, <<Wpt("update", w, i)>>, {})
    /\ UNCHANGED <<made, strays>>

DeleteMark(i) ==
    /\ phase = "up" /\ Containers(nav, i) = {}
    /\ Edit(RemoveRoutePoint(nav, i), <<Wpt("delete", nav, i)>>, {})
    /\ UNCHANGED <<made, strays>>

\* DestroyWaypoint writes a record for every route the point leaves and one
\* for the point, none for the routes it deletes.
DeletePoint(i) ==
    /\ phase = "up" /\ Containers(nav, i) # {}
    /\ LET v  == LeaveRoutes(nav, i)
           rs == Containers(nav, i)
       IN  Edit(DestroyWaypoint(nav, i), Append(RteUpdates(v, rs), Wpt("delete", v, i)),
                Lost("restyled", Styled(nav, rs)))
    /\ UNCHANGED <<made, strays>>

\* One more point of a route: an object that exists, or a new one.
Draw(w, r, stop) ==
    IF stop.old # 0 THEN AddPoint(w, r, stop.old)
    ELSE AddPoint(AddRoutePoint(w, Object([guid |-> stop.guid, pos |-> 1, shared |-> FALSE])),
                  r, Len(w.obj) + 1)

DrawThrough(w, r, stops) == InTurn(LAMBDA v, stop : Draw(v, r, stop), w, stops)

\* A new route through objects of the world and new ones (0).
DrawIn(world, s, losses) ==
    LET r     == made.routes + 1
        fresh == {k \in DOMAIN s : s[k] = 0}
        old   == {k \in DOMAIN s : s[k] # 0}
        stops == [k \in DOMAIN s |-> [old |-> s[k], guid |-> made.points + Rank(fresh, k)]]
        w     == DrawThrough(world, r, stops)
    IN  /\ phase = "up" /\ made.routes < MaxRoutes
        /\ made.points + Cardinality(fresh) <= MaxPoints
        /\ \A k, m \in old : k # m => s[k] # s[m]
        /\ Edit(w, <<Rte("add", w, r)>>, losses)
        /\ made' = [points |-> made.points + Cardinality(fresh), routes |-> r]

DrawRoute(s) == DrawIn(nav, s, {}) /\ UNCHANGED strays

\* The left-over objects at J as a new route takes them in: each is in no
\* route, so that it is offered as a nearby point and becomes a shared one.
Taken(J) ==
    LET s == Chosen(strays, J) IN [k \in DOMAIN s |-> [s[k] EXCEPT !.shared = TRUE]]

\* A new route through some of the objects that a replay left over.
DrawThroughStrays(J, s) ==
    /\ Len(nav.obj) + 1..Len(nav.obj) + Cardinality(J) \subseteq Range(s)
    /\ DrawIn([nav EXCEPT !.obj = @ \o Taken(J)], s, {"reused"})
    /\ strays' = Chosen(strays, DOMAIN strays \ J)

\* The list of marks shows those that are shared, and deletes them.
DeleteStray(j) ==
    /\ phase = "up" /\ strays[j].shared
    /\ LET w == AddRoutePoint(nav, strays[j])
       IN  Edit(nav, <<Wpt("delete", w, Len(w.obj))>>, {"reused"})
    /\ strays' = Chosen(strays, DOMAIN strays \ {j}) /\ UNCHANGED made

RestyleRoute(r) ==
    /\ phase = "up" /\ nav.pts[r] # <<>> /\ nav.look[r] = 0
    /\ LET w == [nav EXCEPT !.look[r] = 1]
       IN  Edit(w, <<Rte("update", w, r)>>, {"restyled"})
    /\ UNCHANGED <<made, strays>>

\* Routeman::RemovePointFromRoute; a route of one point is deleted, and both
\* it and Routeman::DeleteRoute write a record of that.
TakeOutPoint(r, i) ==
    /\ phase = "up" /\ i \in Range(nav.pts[r])
    /\ LET w      == RemovePoint(nav, {r}, i)
           losses == Lost("taken", ~nav.obj[i].shared /\ Containers(nav, i) = {r})
                     \cup Lost("restyled", Styled(nav, {r}))
       IN  IF Len(w.pts[r]) <= 1
           THEN Edit(DropRoute(w, r), <<Rte("update", w, r), Rte("delete", w, r), Rte("delete", w, r)>>,
                    losses)
           ELSE Edit(w, <<Rte("update", w, r)>>, losses)
    /\ UNCHANGED <<made, strays>>

DeleteRoute(r) ==
    /\ phase = "up" /\ nav.pts[r] # <<>>
    /\ Edit(DropRoute(nav, r), <<Rte("delete", nav, r)>>, {})
    /\ UNCHANGED <<made, strays>>

\* The change set is not told.
DeleteAllRoutes ==
    /\ phase = "up" /\ \E r \in Routes : nav.pts[r] # <<>>
    /\ Edit(DropRoutes(nav, Routes), <<>>, {"wiped"})
    /\ UNCHANGED <<made, strays>>

-----------------------------------------------------------------------------
(* Saving, dying and starting again *)

\* UpdateNavObj (when the program exits, when a track ends, when a change set
\* was applied): SaveFile truncates the document, ...
StartSave ==
    /\ phase \in {"up", "applied"}
    /\ phase' = "writing" /\ file' = Torn
    /\ UNCHANGED <<nav, log, made, lossy, strays>>

\* ... writes it, ...
FinishWrite ==
    /\ phase = "writing"
    /\ phase' = "written" /\ file' = CreateAllGPXObjects(nav)
    /\ UNCHANGED <<nav, log, made, lossy, strays>>

\* ... and the change set is removed; the program goes on, or it was the exit.
RemoveChanges ==
    /\ phase = "written"
    /\ phase' \in {"up", "down"}
    /\ log' = <<>> /\ lossy' = Lost("damaged", Damaged(nav))
    /\ strays' = IF phase' = "down" THEN <<>> ELSE strays
    /\ UNCHANGED <<nav, file, made>>

Crash ==
    /\ phase # "down"
    /\ phase' = "down"
    /\ lossy' = lossy \cup Lost("torn", phase = "writing") \cup Lost("applied", phase = "applied")
    /\ strays' = <<>>
    /\ UNCHANGED <<nav, file, log, made>>

\* LoadNavObjects: the change set is removed before it is applied and the
\* result is saved afterwards.
Start ==
    /\ phase = "down"
    /\ nav' = Restored /\ strays' = LeftOver /\ log' = <<>>
    /\ phase' = IF log = <<>> THEN "up" ELSE "applied"
    /\ lossy' = Lost("damaged", Damaged(nav'))
    /\ UNCHANGED <<file, made>>

Init ==
    /\ nav = Empty /\ file = CreateAllGPXObjects(Empty) /\ log = <<>>
    /\ phase = "up" /\ made = [points |-> 0, routes |-> 0] /\ lossy = {}
    /\ strays = <<>>

Next ==
    \/ DropMark \/ DeleteAllRoutes
    \/ \E i \in DOMAIN nav.obj : MovePoint(i) \/ DeleteMark(i) \/ DeletePoint(i)
    \/ /\ phase = "up" /\ Editable
       /\ \E n \in 2..MaxRefs - Len(FlattenSeq(nav.pts)) :
             \/ \E s \in [1..n -> 0..Len(nav.obj)] : DrawRoute(s)
             \/ \E J \in (SUBSET DOMAIN strays) \ {{}} :
                \E s \in [1..n -> 0..Len(nav.obj) + Cardinality(J)] : DrawThroughStrays(J, s)
    \/ \E j \in DOMAIN strays : DeleteStray(j)
    \/ \E r \in Routes : \/ RestyleRoute(r) \/ DeleteRoute(r)
                         \/ \E i \in DOMAIN nav.obj : TakeOutPoint(r, i)
    \/ StartSave \/ FinishWrite \/ RemoveChanges \/ Crash \/ Start

Spec == Init /\ [][Next]_vars

-----------------------------------------------------------------------------
(* Properties *)

Recs    == [guid : 1..MaxPoints, pos : 1..MaxVersion, shared : BOOLEAN]
Objects == [guid : 1..MaxPoints, pos : 1..MaxVersion, shared : BOOLEAN,
            listed : BOOLEAN, isolated : BOOLEAN, inRoute : BOOLEAN]
Worlds  == [obj : Seq(Objects), pts : [Routes -> Seq(Nat)], look : [Routes -> 0..1]]
Docs    == [marks : Seq(Recs), routes : [Routes -> Seq(Recs)], look : [Routes -> 0..1]]

Actions == {"add", "update", "delete"}
Changes == [kind : {"wpt"}, action : Actions, guid : 1..MaxPoints, pts : [1..1 -> Recs]]
           \cup [kind : {"rte"}, action : Actions, guid : Routes, pts : Seq(Recs)]

\* Type invariant.
TypeOK ==
    /\ nav \in Worlds /\ \A r \in Routes : Range(nav.pts[r]) \subseteq DOMAIN nav.obj
    /\ file \in Docs \cup {Torn}
    /\ log \in Seq(Changes) /\ Len(log) <= MaxLog
    /\ phase \in Phases
    /\ made \in [points : 0..MaxPoints, routes : 0..MaxRoutes]
    /\ lossy \subseteq Losses /\ strays \in Seq(Objects)

\* What the user sees: how often each mark is there, and each route.
View(w) ==
    LET Mark(i) == w.obj[i].isolated /\ Containers(w, i) = {}
    IN  [marks  |-> [g \in 1..MaxPoints |->
                        LET at == {i \in DOMAIN w.obj : Mark(i) /\ w.obj[i].guid = g}
                        IN  [number |-> Cardinality(at), at |-> {w.obj[i].pos : i \in at}]],
         routes |-> [r \in Routes |-> [k \in DOMAIN w.pts[r] |->
                        [guid |-> w.obj[w.pts[r][k]].guid, pos |-> w.obj[w.pts[r][k]].pos]]],
         look   |-> w.look]

\* "We crashed last time ... Let's reconstruct the unsaved changes"
\* (LoadNavObjects): whenever the program dies, between two edits or between
\* the two files of a save, and whether or not the changes are in the document
\* already, the next start shows every mark and route as the user left it,
\* unless he did since the last save what the change set cannot tell.
Recoverable ==
    (phase \in {"up", "written", "down"} /\ lossy = {}) => View(Restored) = View(nav)

\* Whatever is edited, crashes and is reconstructed, every route has two
\* points at least, a point of a route is flagged in-route and is no isolated
\* mark, and only a replay leaves points that are neither; these keep their
\* place in the list and their flag until a route takes them in or the program
\* ends, and no edit makes more of them (Route::AddPoint, RemovePoint,
\* Routeman::DeleteRoute and WayPointman::DestroyWaypoint keep three flags).
PointsBelong ==
    /\ \A r \in Routes : Len(nav.pts[r]) # 1
    /\ \A i \in DOMAIN nav.obj :
          /\ nav.obj[i].inRoute = (Containers(nav, i) # {})
          /\ nav.obj[i].isolated = (Containers(nav, i) = {})
    /\ \A k \in DOMAIN strays : strays[k].listed /\ strays[k].inRoute /\ ~strays[k].isolated
=============================================================================
