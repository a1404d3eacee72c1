----------------------------- MODULE UndoStack -----------------------------
(***************************************************************************)
(* Undo of waypoint edits (src/src/undo.cpp) and the handlers of a chart   *)
(* canvas that record, undo and invalidate actions (src/src/canvasMenu.cpp,*)
(* src/src/chcanv.cpp, src/src/routeman.cpp).                              *)
(*                                                                         *)
(* The stack holds raw pointers to points, newest action first; the first  *)
(* stackpointer actions have been undone.  An action may own its point:    *)
(* deleting the action deletes the point.  The waypoint list, the select   *)
(* list and the route point to the same points.                            *)
(*                                                                         *)
(* The configuration, the select item a move keeps, the stacks of other    *)
(* canvases and the other flags of points (see RouteNav) are left out.     *)
(***************************************************************************)
EXTENDS Naturals, Sequences, SequencesExt

CONSTANTS
  Points,     \* the RoutePoint objects
  NONE,       \* no candidate
  Depth,      \* depthSetting, 10 in the code
  Longest,    \* bound on the points of the route
  Habits      \* what the run lets happen, see below

(***************************************************************************)
(* "mid"     undo and redo while a point is being dragged                  *)
(* "loop"    a route may be led through one of its own points again        *)
(***************************************************************************)
ASSUME ConstantsAssumption ==
  /\ NONE \notin Points /\ Depth \in Nat \ {0} /\ Longest \in Nat
  /\ Habits \subseteq {"mid", "loop"}

VARIABLE u   \* the points, the lists, the route and the stack

vars == <<u>>

(***************************************************************************)
(* life: a point is created and freed once.  listed: m_pWayPointList,      *)
(* where a nearby point is looked for.  shown: the select list, where a    *)
(* point to drag or delete is looked for.  iso, shared: the flags          *)
(* m_bIsolatedMark and m_bIsShared.  pos: one of two positions.  route:    *)
(* the points of the route of the run.  drawing: m_routeState > 0.  A move *)
(* keeps in at the position it started from.                               *)
(***************************************************************************)
Action == [type : {"create", "delete", "move", "append"}, point : Points,
           own : {"orphan", "copy", "parent"}, at : 0 .. 1]

ASSUME NoneAssumption == NONE \notin [act : Action]

State ==
  [life : [Points -> {"none", "live", "freed"}],
   listed : SUBSET Points, shown : SUBSET Points,
   iso : SUBSET Points, shared : SUBSET Points,
   pos : [Points -> 0 .. 1], route : Seq(Points), drawing : BOOLEAN,
   stack : Seq(Action), sp : Nat, cand : {NONE} \cup [act : Action]]

(* The fields have their types, the stack is no deeper than its setting,   *)
(* and no more actions are undone than it holds.                           *)
TypeOK ==
  u \in State /\ Len(u.stack) <= Depth /\ u.sp <= Len(u.stack)

Init ==
  u = [life |-> [p \in Points |-> "none"], listed |-> {}, shown |-> {},
       iso |-> {}, shared |-> {}, pos |-> [p \in Points |-> 0],
       route |-> <<>>, drawing |-> FALSE,
       stack |-> <<>>, sp |-> 0, cand |-> NONE]

-----------------------------------------------------------------------------
(* Points and the route *)

InRoute(w, p) == Contains(w.route, p)
Unused == {p \in Points : u.life[p] = "none"}

(* RoutePoint::RoutePoint and AddSelectableRoutePoint. *)
Made(w, p) == [w EXCEPT !.life[p] = "live", !.listed = @ \cup {p},
                        !.shown = @ \cup {p}]

(* delete of each of ps: ~RoutePoint takes it off the waypoint list. *)
Free(w, ps) ==
  [w EXCEPT !.life = [p \in Points |-> IF p \in ps THEN "freed" ELSE @[p]],
            !.listed = @ \ ps]

(* Route::AddPoint: an isolated mark that enters a route is shared. *)
AddPoint(w, p) ==
  [w EXCEPT !.route = Append(@, p), !.iso = @ \ {p},
            !.shared = IF p \in w.iso THEN @ \cup {p} ELSE @]

(* Route::RemovePoint: the first occurrence goes; the rest is shown again. *)
RemovePoint(w, p) ==
  LET rest == RemoveFirst(w.route, p) IN
  [w EXCEPT !.route = rest, !.shown = @ \cup ToSet(rest),
            !.iso = IF Contains(rest, p) THEN @ ELSE @ \cup {p}]

(* Routeman::DeleteRoute: shared points become marks, the others go. *)
Scrap(w) ==
  LET ps == ToSet(w.route) IN
  [Free(w, ps \ w.shared) EXCEPT
     !.shown = @ \ (ps \ w.shared), !.iso = @ \cup (ps \cap w.shared),
     !.shared = @ \ ps, !.route = <<>>]

-----------------------------------------------------------------------------
(* The stack *)

(* ~UndoAction of each of acts. *)
Owned(acts) == {a.point : a \in {b \in acts :
                  b.own = "orphan" /\ b.type \in {"delete", "append"}}}

Undone(w) == SubSeq(w.stack, 1, w.sp)

ForgetUndone(w) ==
  [w EXCEPT !.stack = SubSeq(@, w.sp + 1, Len(@)), !.sp = 0]

(* Mutant: points that an undone deletion has put back are freed. *)
InvalidateRedo_Mutant(w) ==
  ForgetUndone(Free(w, Owned(ToSet(Undone(w)))))

(* The undone actions are deleted; an undone deletion has been made to     *)
(* forget its point before.                                                *)
InvalidateRedo(w) ==
  ForgetUndone(Free(w, Owned({a \in ToSet(Undone(w)) : a.type # "delete"})))

InvalidateUndo(w) == [w EXCEPT !.stack = <<>>, !.sp = 0]

(* A candidate in the way is dropped, and nothing is recorded. *)
BeforeUndoableAction(w, act) ==
  IF w.cand # NONE
    THEN [w EXCEPT !.cand = NONE]
    ELSE [InvalidateRedo(w) EXCEPT !.cand = [act |-> act]]

(* Mutant: the stack grows by one more. *)
AfterUndoableAction_Mutant(w) ==
  IF w.cand = NONE THEN w
  ELSE [w EXCEPT !.stack = Cons(w.cand.act,
                             SubSeq(@, 1, IF Len(@) > Depth THEN Depth ELSE Len(@))),
                 !.cand = NONE]

(* The oldest action leaves a full stack (and is not deleted). *)
AfterUndoableAction(w) ==
  IF w.cand = NONE THEN w
  ELSE [w EXCEPT !.stack = Cons(w.cand.act,
                             SubSeq(@, 1, IF Len(@) >= Depth THEN Depth - 1 ELSE Len(@))),
                 !.cand = NONE]

Record(w, type, p, own) ==
  BeforeUndoableAction(w, [type |-> type, point |-> p, own |-> own, at |-> w.pos[p]])

(* doUndoDeleteWaypoint and doRedoDeleteWaypoint. *)
On(w, p)  == [w EXCEPT !.listed = @ \cup {p}, !.shown = @ \cup {p}]
Off(w, p) == [w EXCEPT !.listed = @ \ {p}, !.shown = @ \ {p}]

Swap(w, i) == [w EXCEPT !.pos[w.stack[i].point] = w.stack[i].at,
                        !.stack[i].at = w.pos[w.stack[i].point]]

AnythingToUndo(w) == Len(w.stack) > w.sp
AnythingToRedo(w) == w.sp > 0

(* doUndoAppendWaypoint: a new point leaves the lists too. *)
TakeOut(w, a) ==
  LET v == RemovePoint(w, a.point) IN
  IF a.own = "orphan" THEN Off(v, a.point)
                      ELSE [v EXCEPT !.shown = @ \cup {a.point}]

(* doRedoAppendWaypoint: a new point is shown again, but not listed. *)
RedoAppend(w, a) ==
  AddPoint(IF a.own = "orphan" THEN [w EXCEPT !.shown = @ \cup {a.point}] ELSE w,
           a.point)

UndoLastAction(w) ==
  LET a == w.stack[w.sp + 1]
      v == CASE a.type = "create" -> Off(w, a.point)
             [] a.type = "delete" -> On(w, a.point)
             [] a.type = "move"   -> Swap(w, w.sp + 1)
             [] OTHER -> TakeOut(w, a)
  IN [v EXCEPT !.sp = @ + 1]

(* Mutant: redoing the creation of a mark deletes it as undoing does. *)
RedoNextAction_Mutant(w) ==
  LET a == w.stack[w.sp]
      v == CASE a.type \in {"create", "delete"} -> Off(w, a.point)
             [] a.type = "move"   -> Swap(w, w.sp)
             [] OTHER -> RedoAppend(w, a)
  IN [v EXCEPT !.sp = @ - 1]

RedoNextAction(w) ==
  LET a == w.stack[w.sp]
      v == CASE a.type = "create" -> On(w, a.point)
             [] a.type = "delete" -> Off(w, a.point)
             [] a.type = "move"   -> Swap(w, w.sp)
             [] OTHER -> RedoAppend(w, a)
  IN [v EXCEPT !.sp = @ - 1]

-----------------------------------------------------------------------------
(* The handlers of marks *)

(* From the canvas menu, or from the AIS dialogs and messages at any time. *)
DropMark(p) ==
  /\ p \in Unused
  /\ u' = AfterUndoableAction(
            Record([Made(u, p) EXCEPT !.iso = @ \cup {p}], "create", p, "parent"))

DeleteMark(p) ==
  /\ ~u.drawing /\ u.cand = NONE /\ p \in u.shown /\ ~InRoute(u, p)
  /\ u' = AfterUndoableAction(Off(Record(u, "delete", p, "orphan"), p))

(* The first movement of a drag, and its end. *)
BeginDrag(p) ==
  /\ ~u.drawing /\ u.cand = NONE /\ p \in u.shown
  /\ u' = [Record(u, "move", p, "copy") EXCEPT !.pos[p] = 1 - @]

EndDrag ==
  /\ u.cand # NONE
  /\ u' = AfterUndoableAction(u)

(* A route point dropped on the listed point q: q replaces the first       *)
(* occurrence of the point, which is deleted, and the stack is emptied.    *)
EndDragOnto(q) ==
  /\ u.cand # NONE
  /\ LET p == u.cand.act.point
         route == ReplaceAt(u.route, SelectInSeq(u.route, LAMBDA r : r = p), q)
     IN
     /\ InRoute(u, p) /\ q \in u.listed \ {p}
     /\ InRoute(u, q) => "loop" \in Habits
     /\ u' = InvalidateUndo(AfterUndoableAction(Free(
               [u EXCEPT !.route = route, !.iso = @ \ {q},
                         !.shared = IF q \in u.iso THEN @ \cup {q} ELSE @,
                         !.shown = (@ \ {p}) \cup ToSet(route)],
               {p})))

Undo ==
  /\ AnythingToUndo(u) /\ (u.cand = NONE \/ "mid" \in Habits)
  /\ u' = UndoLastAction(u)

Redo ==
  /\ AnythingToRedo(u) /\ (u.cand = NONE \/ "mid" \in Habits)
  /\ u' = RedoNextAction(u)

-----------------------------------------------------------------------------
(* The handlers of routes *)

(* The first point of a route is not an undoable action. *)
StartRoute(p) ==
  /\ ~u.drawing /\ u.cand = NONE /\ u.route = <<>>
  /\ p \in Unused \cup u.listed
  /\ u' = [AddPoint(IF p \in Unused THEN Made(u, p)
                                    ELSE [u EXCEPT !.shared = @ \cup {p}], p)
             EXCEPT !.drawing = TRUE]

ContinueRoute ==                    \* m_bAppendingRoute
  /\ ~u.drawing /\ u.cand = NONE /\ u.route # <<>>
  /\ u' = [u EXCEPT !.drawing = TRUE]

AppendNew(p) ==
  /\ u.drawing /\ u.cand = NONE /\ p \in Unused /\ Len(u.route) < Longest
  /\ u' = AfterUndoableAction(
            AddPoint(Record(Made(u, p), "append", p, "orphan"), p))

(* SetShared only if no route has the point. *)
AppendExisting(p) ==
  /\ u.drawing /\ u.cand = NONE /\ Len(u.route) < Longest
  /\ p \in u.listed /\ u.route # <<>> /\ p # Last(u.route)
  /\ InRoute(u, p) => "loop" \in Habits
  /\ u' = AfterUndoableAction(AddPoint(Record(
            [u EXCEPT !.shared = IF InRoute(u, p) THEN @ ELSE @ \cup {p}],
            "append", p, "parent"), p))

(* Mutant: the actions on the points of a scrapped route are kept. *)
FinishRoute_Mutant ==
  /\ u.drawing
  /\ u' = [(IF Len(u.route) < 2 THEN Scrap(u) ELSE u) EXCEPT !.drawing = FALSE]

FinishRoute ==
  /\ u.drawing
  /\ u' = InvalidateUndo(
            [(IF Len(u.route) < 2 THEN Scrap(u) ELSE u) EXCEPT !.drawing = FALSE])

DeleteRoute ==
  /\ ~u.drawing /\ u.cand = NONE /\ u.route # <<>>
  /\ u' = InvalidateUndo(Scrap(u))

(* "Remove from Route" in the menu of a point, offered if two others stay; *)
(* the stack is not told.                                                  *)
RemovePointFromRoute(p) ==
  /\ ~u.drawing /\ u.cand = NONE /\ InRoute(u, p) /\ Len(u.route) > 2
  /\ u' = [RemovePoint(u, p) EXCEPT !.shown = @ \cup {p}]

(* "Delete" in that menu.  The point is taken off its route and the lists; *)
(* a route of one point is deleted, and that point freed unless it is      *)
(* shared.  The stack is not told.                                         *)
DestroyWaypoint(p) ==
  /\ ~u.drawing /\ u.cand = NONE /\ InRoute(u, p)
  /\ LET v == RemovePoint(u, p) IN
     u' = Off(IF Len(v.route) < 2 THEN Scrap(v) ELSE v, p)

Next ==
  \/ \E p \in Points : \/ DropMark(p) \/ DeleteMark(p)
                       \/ BeginDrag(p) \/ EndDragOnto(p)
  \/ EndDrag \/ Undo \/ Redo
  \/ \E p \in Points : StartRoute(p) \/ AppendNew(p) \/ AppendExisting(p)
  \/ ContinueRoute \/ FinishRoute \/ DeleteRoute
  \/ \E p \in Points : RemovePointFromRoute(p) \/ DestroyWaypoint(p)

Spec == Init /\ [][Next]_vars

-----------------------------------------------------------------------------
(* Properties *)

(* What the stack frees is in use nowhere: a point on the waypoint list,   *)
(* on the select list or in the route has not been freed ("Make sure we    *)
(* are not deleting any objects pointed to by potential redo actions",     *)
(* undo.cpp:231).                                                          *)
NoShownPointFreed ==
  \A p \in u.listed \cup u.shown \cup ToSet(u.route) : u.life[p] = "live"

(* What undo or redo puts back on a list or into the route, and what the   *)
(* stack may still free, has not been freed under it: only the record of a *)
(* move may name a freed point.  It may: Delete in the menu of one of two  *)
(* route points frees the other (canvasMenu.cpp:1603), and undoing a move  *)
(* of that one then writes to freed memory.                                *)
PutBackAlive ==
  /\ \A i \in 1 .. Len(u.stack) :
       u.stack[i].type # "move" => u.life[u.stack[i].point] = "live"
  /\ u.cand # NONE => u.life[u.cand.act.point] = "live"

(* The state, but for the waypoint list and the shared flag of ps, and for *)
(* whether the points of the route are shown: any undo shows them again.   *)
But(w, ps) == [w EXCEPT !.listed = @ \ ps, !.shared = @ \ ps,
                        !.shown = @ \cup ToSet(w.route)]

NewIn(a) == IF a.type = "append" /\ a.own = "orphan" THEN {a.point} ELSE {}

(* Undo and redo are each other's inverse: redoing what has just been      *)
(* undone restores flags, lists, positions, route and stack, and so does   *)
(* undoing what has just been redone.  The one exception is the code's:    *)
(* a new point whose append is redone is not listed again and is shared.   *)
UndoRedoInverse ==
  u.cand = NONE =>
    /\ AnythingToUndo(u) =>
         LET ps == NewIn(u.stack[u.sp + 1]) IN
         But(RedoNextAction(UndoLastAction(u)), ps) = But(u, ps)
    /\ AnythingToRedo(u) =>
         LET ps == NewIn(u.stack[u.sp]) IN
         But(UndoLastAction(RedoNextAction(u)), ps) = But(u, ps)
=============================================================================
