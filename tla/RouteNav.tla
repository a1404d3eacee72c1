------------------------------ MODULE RouteNav ------------------------------
(***************************************************************************)
(* Routes, the points they share, and the following of one active route.   *)
(*                                                                         *)
(*   Routeman, WayPointman        src/src/routeman.cpp                     *)
(*   Route                        src/src/Route.cpp                        *)
(*   the chart's pop-up menus     src/src/canvasMenu.cpp                   *)
(*   mouse handling of a chart    src/src/chcanv.cpp                       *)
(*   the route manager dialog     src/src/routemanagerdialog.cpp           *)
(*                                                                         *)
(* Everything happens on the main thread.  What interleaves is the timer   *)
(* that calls UpdateProgress with the commands of the user, and with the   *)
(* modal question a drag may end in.                                       *)
(*                                                                         *)
(* Objects are reached by plain pointers from many places, so the model    *)
(* keeps the life of every point.  The handlers are nested calls that      *)
(* rewrite the same objects: each is an operator from a state w of the     *)
(* navigation objects to the state it leaves.                              *)
(*                                                                         *)
(* A definition whose name ends in _Mutant is the one that follows it with *)
(* a plausible bug; it is no part of the specification.                    *)
(***************************************************************************)
EXTENDS Naturals, FiniteSets, Sequences, SequencesExt

CONSTANTS
    Points,       \* RoutePoint objects
    Marks,        \* the points that exist at first, as isolated marks
    Routes,       \* Route objects
    MaxLen,       \* bound: points in one route
    ArrivalOnly,  \* g_bAdvanceRouteWaypointOnArrivalOnly
    Habits,       \* what the user of an instance does, see below
    HERE,         \* the virtual waypoint pRouteActivatePoint
    NONE          \* NULL

(* "loop"    reuses points of a route in the same route (closed polygons)  *)
(* "switch"  activates a route in the dialog while another one is active   *)
(* "ponder"  lets time pass before answering the question of a drag        *)
ASSUME NavAssumption ==
    /\ IsFiniteSet(Points) /\ IsFiniteSet(Routes)
    /\ Marks \subseteq Points
    /\ MaxLen \in Nat \ {0}
    /\ ArrivalOnly \in BOOLEAN
    /\ Habits \subseteq {"loop", "switch", "ponder"}
    /\ NONE \notin Points \union Routes
    /\ HERE \notin Points \union {NONE}

VARIABLES
    nav,      \* the objects: see NavType
    leg,      \* m_arrival_test, and whether m_arrival_min has been measured
    mouse,    \* m_pMouseRoute, the route being drawn
    asked,    \* the drag waiting for "Replace this RoutePoint ...?", or NONE
    wiping    \* DeleteAllWaypoints is at work: "no", "all" or "unused"

vars == <<nav, leg, mouse, asked, wiping>>

Unmeasured == [away |-> 0, measured |-> FALSE]

(* "retired": out of the manager's list, the object still exists.          *)
PointLife == {"unborn", "live", "retired", "deleted"}

NavType ==
    [life     : [Points -> PointLife],
     inRoute  : SUBSET Points,                \* m_bIsInRoute
     isolated : SUBSET Points,                \* m_bIsolatedMark
     shared   : SUBSET Points,                \* m_bsharedMark
     actPts   : SUBSET Points,                \* m_bIsActive
     listed   : SUBSET Routes,                \* pRouteList
     pts      : [Routes -> Seq(Points)],      \* pRoutePointList
     temp     : SUBSET Routes,                \* m_bDeleteOnArrival
     actRts   : SUBSET Routes,                \* m_bRtIsActive
     rtePoint : [Routes -> Points \union {NONE}], \* m_pRouteActivePoint
     route    : Routes \union {NONE},         \* pActiveRoute
     point    : Points \union {NONE},         \* pActivePoint
     begin    : Points \union {HERE, NONE},   \* pActiveRouteSegmentBeginPoint
     virtual  : BOOLEAN]                      \* pRouteActivatePoint # NULL

Drag == [point : Points, onto : Points, routes : SUBSET Routes]

-----------------------------------------------------------------------------
(* Lookups *)

\* 1-based, 0 if the point is not there.
IndexOf(s, p) == SelectInSeq(s, LAMBDA q : q = p)

Containers(w, p) == {r \in w.listed : p \in Range(w.pts[r])}

NoRepeat(s) == \A i, j \in 1..Len(s) : i # j => s[i] # s[j]

\* May a route of this instance have these points?
Allowed(s) == Len(s) =< MaxLen /\ ("loop" \in Habits \/ NoRepeat(s))

-----------------------------------------------------------------------------
(* Routeman and Route, as state transformers *)

(* An isolated mark that becomes part of a route is shared from then on.   *)
AddPoint(w, r, p) ==
    [w EXCEPT !.life[p]  = "live",
              !.shared   = IF p \in w.isolated THEN @ \union {p} ELSE @,
              !.isolated = @ \ {p},
              !.inRoute  = @ \union {p},
              !.pts[r]   = Append(@, p)]

DeactivateRoute_Mutant(w) ==     \* the flag of the point is left set
    [w EXCEPT !.actRts   = @ \ {w.route},
              !.rtePoint = [r \in Routes |-> IF r = w.route THEN NONE ELSE @[r]],
              !.route    = NONE,
              !.point    = NONE,
              !.virtual  = FALSE]

DeactivateRoute_Mutant2(w) ==    \* pActivePoint is not reset
    [w EXCEPT !.actPts   = @ \ {w.point},
              !.actRts   = @ \ {w.route},
              !.rtePoint = [r \in Routes |-> IF r = w.route THEN NONE ELSE @[r]],
              !.route    = NONE,
              !.virtual  = FALSE]

(* The virtual waypoint is deleted; pActiveRouteSegmentBeginPoint is left. *)
DeactivateRoute(w) ==
    [w EXCEPT !.actPts   = @ \ {w.point},
              !.actRts   = @ \ {w.route},
              !.rtePoint = [r \in Routes |-> IF r = w.route THEN NONE ELSE @[r]],
              !.route    = NONE,
              !.point    = NONE,
              !.virtual  = FALSE]

(* The point before the target, or a virtual one at the ship's position if *)
(* the target is the first point.                                          *)
SegmentBegin(w, r, p) ==
    LET k == IndexOf(w.pts[r], p)
    IN  IF k = 0 THEN w.begin ELSE IF k = 1 THEN HERE ELSE w.pts[r][k - 1]

ActivateRoutePoint(w, r, p) ==
    [w EXCEPT !.route       = r,
              !.point       = p,
              !.rtePoint[r] = p,
              !.actPts      = (@ \ Range(w.pts[r])) \union {p},
              !.begin       = SegmentBegin(w, r, p),
              !.virtual     = @ \/ SegmentBegin(w, r, p) = HERE]

ActivateRoute(w, r, p) ==
    [ActivateRoutePoint(w, r, p) EXCEPT !.actRts = @ \union {r}]

\* Is there a point after the active one, as ActivateNextPoint counts?
HasNext(w) == IndexOf(w.pts[w.route], w.point) + 1 =< Len(w.pts[w.route])

ActivateNextPoint_Mutant(w) ==   \* off by one: the same point again
    LET next == w.pts[w.route][IndexOf(w.pts[w.route], w.point)]
    IN  [w EXCEPT !.actPts            = (@ \ {w.point}) \union {next},
                  !.begin             = w.point,
                  !.rtePoint[w.route] = next,
                  !.point             = next]

(* The case that returns true.                                             *)
ActivateNextPoint(w) ==
    LET next == w.pts[w.route][IndexOf(w.pts[w.route], w.point) + 1]
    IN  [w EXCEPT !.actPts            = (@ \ {w.point}) \union {next},
                  !.begin             = w.point,
                  !.rtePoint[w.route] = next,
                  !.point             = next]

RemovePoint_Mutant(w, r, p) ==   \* the active route is not deactivated
    LET v == [w EXCEPT !.pts[r] = RemoveFirst(@, p)]
    IN  IF Containers(v, p) # {} THEN v
        ELSE [v EXCEPT !.inRoute = @ \ {p}, !.isolated = @ \union {p}]

RemovePoint_Mutant2(w, r, p) ==  \* no isolated mark is made of the point
    LET d == IF p \in w.actPts /\ r \in w.actRts THEN DeactivateRoute(w) ELSE w
        v == [d EXCEPT !.pts[r] = RemoveFirst(@, p)]
    IN  IF Containers(v, p) # {} THEN v ELSE [v EXCEPT !.inRoute = @ \ {p}]

(* Removing its active point deactivates an active route.  A point that is *)
(* in no other route becomes an isolated mark.                             *)
RemovePoint(w, r, p) ==
    LET d == IF p \in w.actPts /\ r \in w.actRts THEN DeactivateRoute(w) ELSE w
        v == [d EXCEPT !.pts[r] = RemoveFirst(@, p)]
    IN  IF Containers(v, p) # {} THEN v
        ELSE [v EXCEPT !.inRoute = @ \ {p}, !.isolated = @ \union {p}]

(* `delete prp`: what the flags of a dead point say no longer matters.     *)
Free(w, ps) ==
    [w EXCEPT !.life     = [p \in Points |-> IF p \in ps THEN "deleted" ELSE @[p]],
              !.inRoute  = @ \ ps,
              !.isolated = @ \ ps,
              !.shared   = @ \ ps,
              !.actPts   = @ \ ps]

Unlist(w, rs) ==
    [w EXCEPT !.listed   = @ \ rs,
              !.pts      = [r \in Routes |-> IF r \in rs THEN <<>> ELSE @[r]],
              !.temp     = @ \ rs,
              !.actRts   = @ \ rs,
              !.rtePoint = [r \in Routes |-> IF r \in rs THEN NONE ELSE @[r]]]

(* DeleteRoute for each of rs in turn.  The points that no other route     *)
(* uses are deleted, except shared ones: they are isolated marks again.    *)
DeleteRoutes(w, rs) ==
    LET d   == IF w.route \in rs THEN DeactivateRoute(w) ELSE w
        v   == Unlist(d, rs)
        own == {p \in (UNION {Range(w.pts[r]) : r \in rs}) \intersect d.inRoute :
                   Containers(v, p) = {}}
    IN  Free([v EXCEPT !.inRoute  = @ \ own,
                       !.isolated = @ \union (own \intersect d.shared),
                       !.shared   = @ \ own],
             own \ d.shared)

(* DestroyWaypoint takes the point out of every route that has it (once    *)
(* per route), then deletes the routes this leaves with less than two      *)
(* points, then takes the point off the manager's list.                    *)
DestroyWaypoint(w, p) ==
    LET rs   == Containers(w, p)
        d    == IF p \in w.actPts /\ rs \intersect w.actRts # {}
                THEN DeactivateRoute(w) ELSE w
        v    == [d EXCEPT !.pts = [r \in Routes |-> IF r \in rs THEN RemoveFirst(@[r], p)
                                                   ELSE @[r]]]
        u    == IF rs = {} \/ Containers(v, p) # {} THEN v
                ELSE [v EXCEPT !.inRoute = @ \ {p}, !.isolated = @ \union {p}]
        gone == DeleteRoutes(u, {r \in rs : Len(u.pts[r]) < 2})
    IN  [gone EXCEPT !.life[p] = IF @ = "deleted" THEN @ ELSE "retired"]

-----------------------------------------------------------------------------
(* Commands of the user.  A route is only drawn while nothing else is      *)
(* asked of the chart.                                                     *)

Idle == mouse = NONE /\ asked = NONE /\ wiping = "no"

(* The active leg starts afresh: m_arrival_test and m_arrival_min.         *)
Become(w) ==
    /\ nav' = w
    /\ leg' = IF <<w.route, w.point>> = <<nav.route, nav.point>> THEN leg ELSE Unmeasured
    /\ UNCHANGED <<mouse, asked, wiping>>

\* A click on an existing point reuses it: outside all routes it is shared.
Place(w, r, p) ==
    LET v == IF w.life[p] = "live" /\ Containers(w, p) = {}
             THEN [w EXCEPT !.shared = @ \union {p}] ELSE w
    IN  AddPoint(v, r, p)

StartRoute(r, p) ==
    /\ Idle
    /\ r \notin nav.listed
    /\ nav.life[p] \in {"unborn", "live"}
    /\ nav' = Place([nav EXCEPT !.listed = @ \union {r}], r, p)
    /\ mouse' = r
    /\ UNCHANGED <<leg, asked, wiping>>

AppendPoint(p) ==
    /\ mouse # NONE
    /\ nav.life[p] \in {"unborn", "live"}
    /\ p # Last(nav.pts[mouse])
    /\ Allowed(Append(nav.pts[mouse], p))
    /\ nav' = Place(nav, mouse, p)
    /\ UNCHANGED <<leg, mouse, asked, wiping>>

(* A route of one point is deleted when its drawing ends.                  *)
FinishRoute ==
    /\ mouse # NONE
    /\ nav' = IF Len(nav.pts[mouse]) > 1 THEN nav ELSE DeleteRoutes(nav, {mouse})
    /\ mouse' = NONE
    /\ UNCHANGED <<leg, asked, wiping>>

(* "Insert Waypoint" on the segment that starts at p.                      *)
InsertPointAfter(r, p, q) ==
    /\ Idle
    /\ r \in nav.listed /\ p \in Range(nav.pts[r]) /\ nav.life[q] = "unborn"
    /\ IndexOf(nav.pts[r], p) < Len(nav.pts[r])
    /\ Len(nav.pts[r]) < MaxLen
    /\ Become([nav EXCEPT !.life[q] = "live",
                          !.inRoute = @ \union {q},
                          !.pts[r]  = InsertAt(@, IndexOf(@, p) + 1, q)])

(* "Remove from Route", offered for routes of more than two points.        *)
RemovePointFromRoute(r, p) ==
    /\ Idle
    /\ r \in nav.listed /\ p \in Range(nav.pts[r])
    /\ Len(nav.pts[r]) > 2
    /\ LET w == RemovePoint(nav, r, p)
       IN  Become(IF Len(w.pts[r]) =< 1 THEN DeleteRoutes(w, {r}) ELSE w)

(* "Delete" of a point: the object is not freed.                           *)
DeletePoint(p) ==
    /\ Idle
    /\ nav.life[p] = "live"
    /\ Become(DestroyWaypoint(nav, p))

DeleteRoute(r) ==
    /\ Idle
    /\ r \in nav.listed
    /\ Become(DeleteRoutes(nav, {r}))

Reversed(r) ==
    /\ Idle
    /\ r \in nav.listed
    /\ Become([nav EXCEPT !.pts[r] = Reverse(@)])

(* "Activate" in the pop-up menu: any point may be the best one.           *)
MenuActivate(r, p) ==
    /\ Idle
    /\ r \in nav.listed \ nav.actRts /\ p \in Range(nav.pts[r])
    /\ Become(ActivateRoute(IF nav.route = NONE THEN nav ELSE DeactivateRoute(nav), r, p))

(* OnRteActivateClick looks at the flag of its route only, and does not    *)
(* deactivate the route that is active.                                    *)
DialogActivate(r, p) ==
    /\ Idle
    /\ r \in nav.listed \ nav.actRts /\ p \in Range(nav.pts[r])
    /\ nav.route = NONE \/ "switch" \in Habits
    /\ Become(ActivateRoute(nav, r, p))

(* "Deactivate" in the menu, or the same button of the dialog.             *)
Deactivate(r) ==
    /\ Idle
    /\ r \in nav.listed \intersect nav.actRts
    /\ Become(DeactivateRoute(nav))

MenuActivatePoint(r, p) ==
    /\ Idle
    /\ r \in nav.listed /\ r = nav.route /\ p \in Range(nav.pts[r])
    /\ p # nav.rtePoint[r]
    /\ Become(ActivateRoutePoint(nav, r, p))

(* "Activate Next Waypoint" and Ctrl-N.                                    *)
SkipToNextPoint ==
    /\ Idle
    /\ nav.route # NONE /\ HasNext(nav)
    /\ nav' = ActivateNextPoint(nav)
    /\ leg' = Unmeasured
    /\ UNCHANGED <<mouse, asked, wiping>>

(* ZeroCurrentXTEToActivePoint resets m_arrival_min, not m_arrival_test.   *)
ZeroXTE ==
    /\ Idle
    /\ nav.route # NONE
    /\ nav' = [nav EXCEPT !.virtual = TRUE, !.begin = HERE]
    /\ leg' = [leg EXCEPT !.measured = FALSE]
    /\ UNCHANGED <<mouse, asked, wiping>>

(* "Navigate To This": a temporary route from here to an existing point.   *)
GotoWaypoint(r, p, q) ==
    /\ Idle
    /\ r \notin nav.listed /\ nav.life[p] = "unborn" /\ nav.life[q] = "live"
    /\ MaxLen >= 2
    /\ LET w == AddPoint(AddPoint([nav EXCEPT !.listed = @ \union {r},
                                              !.temp   = @ \union {r}], r, p), r, q)
           v == [w EXCEPT !.shared = @ \union {q}]
       IN  Become(ActivateRoute(IF v.route = NONE THEN v ELSE DeactivateRoute(v), r, q))

-----------------------------------------------------------------------------
(* The end of dragging a route point onto another one *)

\* The first occurrence of p gives way to q.
Replace(s, p, q) == [s EXCEPT ![IndexOf(s, p)] = q]

(* The point may replace itself by q unless it is active now, or q would   *)
(* be twice in one of several routes; of a single route it may be.         *)
DropPoint(p, q) ==
    /\ Idle
    /\ p # q /\ nav.life[p] = "live" /\ nav.life[q] = "live"
    /\ p \notin nav.actPts
    /\ LET rs == Containers(nav, p)
       IN  /\ rs # {}
           /\ \/ q \in nav.isolated
              \/ \A r \in rs : q \notin Range(nav.pts[r])
              \/ Cardinality(rs) = 1
           /\ \A r \in rs : Allowed(Replace(nav.pts[r], p, q))
           /\ asked' = [point |-> p, onto |-> q, routes |-> rs]
    /\ UNCHANGED <<nav, leg, mouse, wiping>>

ReplacePoint_Mutant ==           \* the flags of the new point are not set
    /\ asked # NONE
    /\ LET p == asked.point
           q == asked.onto
           rs == asked.routes \intersect nav.listed
           w == [nav EXCEPT
                    !.pts      = [r \in Routes |-> IF r \in rs THEN Replace(@[r], p, q)
                                                  ELSE @[r]]]
       IN  nav' = Free(w, {p})
    /\ asked' = NONE
    /\ UNCHANGED <<leg, mouse, wiping>>

ReplacePoint_Mutant2 ==          \* the mark dropped on is not made a shared one
    /\ asked # NONE
    /\ LET p == asked.point
           q == asked.onto
           rs == asked.routes \intersect nav.listed
           w == [nav EXCEPT
                    !.isolated = @ \ {q},
                    !.inRoute  = @ \union {q},
                    !.pts      = [r \in Routes |-> IF r \in rs THEN Replace(@[r], p, q)
                                                  ELSE @[r]]]
       IN  nav' = Free(w, {p})
    /\ asked' = NONE
    /\ UNCHANGED <<leg, mouse, wiping>>

(* Yes: q takes the place of p in the routes found when the drag began, if *)
(* they are still there, and p is deleted.                                 *)
ReplacePoint ==
    /\ asked # NONE
    /\ LET p == asked.point
           q == asked.onto
           rs == asked.routes \intersect nav.listed
           w == [nav EXCEPT
                    !.shared   = IF q \in nav.isolated THEN @ \union {q} ELSE @,
                    !.isolated = @ \ {q},
                    !.inRoute  = @ \union {q},
                    !.pts      = [r \in Routes |-> IF r \in rs THEN Replace(@[r], p, q)
                                                  ELSE @[r]]]
       IN  nav' = Free(w, {p})
    /\ asked' = NONE
    /\ UNCHANGED <<leg, mouse, wiping>>

KeepPoint ==
    /\ asked # NONE
    /\ asked' = NONE
    /\ UNCHANGED <<nav, leg, mouse, wiping>>

-----------------------------------------------------------------------------
(* WayPointman::DeleteAllWaypoints: the loop runs to its end on the main   *)
(* thread; a step is one turn of it.                                       *)

Condemned(mode) ==
    {p \in Points : nav.life[p] = "live" /\ (p \notin nav.inRoute
                                             \/ (mode = "all" /\ p \in nav.shared))}

DeleteAllWaypoints(mode) ==
    /\ Idle
    /\ wiping' = mode
    /\ UNCHANGED <<nav, leg, mouse, asked>>

WipePoint_Mutant(p) ==           \* the point is not taken out of its routes
    /\ wiping # "no" /\ p \in Condemned(wiping)
    /\ nav' = Free(nav, {p})
    /\ leg' = leg
    /\ UNCHANGED <<mouse, asked, wiping>>

WipePoint(p) ==
    /\ wiping # "no" /\ p \in Condemned(wiping)
    /\ nav' = Free(DestroyWaypoint(nav, p), {p})
    /\ leg' = IF nav'.route = nav.route THEN leg ELSE Unmeasured
    /\ UNCHANGED <<mouse, asked, wiping>>

WipeEnds ==
    /\ wiping # "no" /\ Condemned(wiping) = {}
    /\ wiping' = "no"
    /\ UNCHANGED <<nav, leg, mouse, asked>>

-----------------------------------------------------------------------------
(* UpdateProgress, once a second *)

\* Where the ship is: inside the arrival circle's line, moving away from it,
\* or neither.
Fixes == {"inside", "away", "closing"}

\* m_arrival_min is 1e6 until it is measured: nothing is farther than that.
MovesAway(fix) == fix = "away" /\ leg.measured

Edited(r) == asked # NONE /\ r \in asked.routes

(* DoAdvance: at the end of the route it is deactivated, and a temporary   *)
(* one is deleted unless a drag has hold of it.                            *)
DoAdvance(w) ==
    IF HasNext(w) THEN ActivateNextPoint(w)
    ELSE IF w.route \in w.temp /\ ~Edited(w.route)
         THEN DeleteRoutes(DeactivateRoute(w), {w.route})
         ELSE DeactivateRoute(w)

(* Arrival: in the circle, or moving away for the third time in a row.     *)
Arrives(fix) ==
    \/ fix = "inside"
    \/ MovesAway(fix) /\ leg.away >= 2 /\ ~ArrivalOnly

\* The count begins anew with every fix.
Counted_Mutant(fix) == IF MovesAway(fix) THEN 1 ELSE 0

(* m_arrival_test after a fix; above 2 one value stands for all.           *)
Counted(fix) == IF ~MovesAway(fix) THEN 0 ELSE IF leg.away < 3 THEN leg.away + 1 ELSE 3

\* Timers run while the user thinks about the question of a drag.
TimerRuns == wiping = "no" /\ (asked # NONE => "ponder" \in Habits)

UpdateProgress(fix) ==
    /\ TimerRuns
    /\ nav.route # NONE
    /\ IF Arrives(fix)
       THEN nav' = DoAdvance(nav) /\ leg' = Unmeasured
       ELSE /\ leg' = [away |-> Counted(fix), measured |-> TRUE]
            /\ nav' = nav
    /\ UNCHANGED <<mouse, asked, wiping>>

-----------------------------------------------------------------------------
(* Specification *)

Init ==
    /\ nav = [life     |-> [p \in Points |-> IF p \in Marks THEN "live" ELSE "unborn"],
              inRoute  |-> {},
              isolated |-> Marks,
              shared   |-> {},
              actPts   |-> {},
              listed   |-> {},
              pts      |-> [r \in Routes |-> <<>>],
              temp     |-> {},
              actRts   |-> {},
              rtePoint |-> [r \in Routes |-> NONE],
              route    |-> NONE,
              point    |-> NONE,
              begin    |-> NONE,
              virtual  |-> FALSE]
    /\ leg = Unmeasured
    /\ mouse = NONE
    /\ asked = NONE
    /\ wiping = "no"

Edit ==
    \/ FinishRoute
    \/ \E p \in Points : AppendPoint(p) \/ DeletePoint(p)
    \/ \E r \in Routes : DeleteRoute(r) \/ Reversed(r)
    \/ \E r \in Routes, p \in Points : StartRoute(r, p) \/ RemovePointFromRoute(r, p)
    \/ \E r \in Routes, p, q \in Points : InsertPointAfter(r, p, q)

Follow ==
    \/ SkipToNextPoint
    \/ ZeroXTE
    \/ \E r \in Routes : Deactivate(r)
    \/ \E r \in Routes, p \in Points :
          MenuActivate(r, p) \/ DialogActivate(r, p) \/ MenuActivatePoint(r, p)
    \/ \E r \in Routes, p, q \in Points : GotoWaypoint(r, p, q)

DragAndDrop ==
    \/ ReplacePoint
    \/ KeepPoint
    \/ \E p, q \in Points : DropPoint(p, q)

Wipe ==
    \/ WipeEnds
    \/ \E mode \in {"all", "unused"} : DeleteAllWaypoints(mode)
    \/ \E p \in Points : WipePoint(p)

Sail == \E fix \in Fixes : UpdateProgress(fix)

Next == Edit \/ Follow \/ DragAndDrop \/ Wipe \/ Sail

Spec == Init /\ [][Next]_vars

(* The loop of DeleteAllWaypoints comes to its end, and the user answers   *)
(* the question of a drag; he need not do anything else.  Where the ship   *)
(* goes is no matter of fairness: the properties below have it as premise. *)
Fairness ==
    /\ WF_vars(ReplacePoint \/ KeepPoint)
    /\ WF_vars(WipeEnds \/ \E p \in Points : WipePoint(p))

FairSpec == Spec /\ Fairness

-----------------------------------------------------------------------------
(* Properties *)

TypeOK ==
    /\ nav \in NavType
    /\ nav.route = NONE <=> nav.point = NONE
    /\ leg \in [away : 0..3, measured : BOOLEAN]
    /\ mouse \in nav.listed \union {NONE}
    /\ asked \in Drag \union {NONE}
    /\ wiping \in {"no", "all", "unused"}

(* While a route is followed, pActiveRoute is a listed route, pActivePoint *)
(* a living point of it, and the flags and m_pRouteActivePoint by which    *)
(* RemovePoint and the menus recognise them agree: editing a route, one it *)
(* shares points with, or its points cannot pull them from under           *)
(* UpdateProgress (routeman.cpp:443).                                      *)
ActiveRouteIntact ==
    nav.route # NONE =>
        /\ nav.route \in nav.listed \intersect nav.actRts
        /\ nav.point \in Range(nav.pts[nav.route]) \intersect nav.actPts
        /\ nav.life[nav.point] = "live"
        /\ nav.rtePoint[nav.route] = nav.point

(* Every point of a listed route exists and is in the manager's list: the  *)
(* deletion of one route, or of all marks, never frees a point that        *)
(* another route still draws (routeman.cpp:894, 2266).                     *)
RoutePointsAlive ==
    \A r \in nav.listed : \A p \in Range(nav.pts[r]) : nav.life[p] = "live"

(* m_bIsInRoute, on which DeleteAllWaypoints and the route manager rely,   *)
(* says exactly whether some listed route has the point.                   *)
InRouteFlagExact ==
    \A p \in Points : nav.life[p] = "live" =>
        (p \in nav.inRoute <=> Containers(nav, p) # {})

(* No point is lost when the objects are saved: routes are saved with      *)
(* their points, other points only if they are isolated marks              *)
(* (NavObjectCollection.cpp:1311).                                         *)
NothingUnsaved ==
    \A p \in Points : nav.life[p] = "live" =>
        p \in nav.isolated \/ Containers(nav, p) # {}

(* What the menus, the dialog and RemovePoint look at is what Routeman      *)
(* follows: the flags "active" of routes and points in the list.           *)
FlagsExact ==
    /\ nav.actRts = {nav.route} \ {NONE}
    /\ \A p \in nav.actPts : nav.life[p] = "live" => p = nav.point

(* The flags get out of step with Routeman in one way only: by the dialog's *)
(* activating a route while another is active, without deactivating it.    *)
FlagsFollow ==
    [][FlagsExact => \/ FlagsExact'
                     \/ nav.route # NONE /\ nav'.route \notin {NONE, nav.route}]_vars

(* Deleting a route never deletes a mark: a point that was a mark before it *)
(* became part of a route is one again afterwards (routeman.cpp:920),      *)
(* however many routes it has been put in, dragged onto or taken out of.   *)
MarksSurvive ==
    [][\A r \in Routes, p \in Marks :
          DeleteRoute(r) /\ nav.life[p] = "live" => nav'.life[p] = "live"]_vars

(* Once the user leaves it alone, a ship that arrives at one point after   *)
(* another, whatever other fixes come between, ends up at the end of the   *)
(* active route (DoAdvance, "at the end?").                                *)
RouteEnds ==
    <>[][Sail]_vars /\ WF_vars(UpdateProgress("inside"))
        => []<>(nav.route = NONE)

(* So does a ship that never enters an arrival circle but passes one point *)
(* after another by ("have been moving away for 2 seconds.  If so, we      *)
(* should declare Arrival", routeman.cpp:539), whatever count an earlier   *)
(* leg, another route or a reset cross-track error has left.               *)
PassedPointsCount ==
    ~ArrivalOnly /\ <>[][UpdateProgress("away")]_vars /\ WF_vars(UpdateProgress("away"))
        => []<>(nav.route = NONE)
=============================================================================
