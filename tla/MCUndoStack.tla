----------------------------- MODULE MCUndoStack -----------------------------
(* Instances of UndoStack. *)
EXTENDS UndoStack

CONSTANTS p1, p2, p3, p4

Symmetry == Permutations(Points)
=============================================================================
