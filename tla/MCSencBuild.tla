---------------------------- MODULE MCSencBuild ----------------------------
(* Instances of SencBuild for TLC.  Two chart objects of one cell are what *)
(* closing a chart and opening it again makes of it.                       *)
EXTENDS SencBuild

CONSTANTS c1, c2, c3, p1, p2, p3

TwoCharts   == {c1, c2}
ThreeCharts == {c1, c2, c3}

SameCell   == [c \in TwoCharts |-> p1]
TwoCells   == [c \in TwoCharts |-> IF c = c1 THEN p1 ELSE p2]
Reopened   == [c \in ThreeCharts |-> IF c = c3 THEN p2 ELSE p1]
ThreeCells == [c \in ThreeCharts |-> CASE c = c1 -> p1 [] c = c2 -> p2 [] c = c3 -> p3]

\* Charts and cells are exchanged together, so that PathOf is respected.
Swap(f, g) == [v \in ThreeCharts \union {p1, p2, p3} |->
                 IF v \in ThreeCharts THEN f[v] ELSE g[v]]
CellSymmetry == {Swap(f, [p \in {p1, p2, p3} |->
                    ThreeCells[f[CHOOSE c \in ThreeCharts : ThreeCells[c] = p]]]) :
                    f \in Permutations(ThreeCharts)}
=============================================================================
