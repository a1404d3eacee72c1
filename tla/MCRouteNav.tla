----------------------------- MODULE MCRouteNav -----------------------------
(* Instances of RouteNav for TLC.                                          *)
EXTENDS RouteNav

CONSTANTS m1, p1, p2, p3, r1, r2

\* Marks and new points are two classes; routes are all alike.
Symmetry == Permutations(Points \ Marks) \union Permutations(Routes)
=============================================================================
