-------------------------- MODULE FrontierClusters --------------------------
(***************************************************************************)
(* What the explorer is promised of an occupancy grid, whatever the search *)
(* that finds it: every connected piece of the edge of the known world is  *)
(* looked at once; a piece that is large enough, and has a cell the robot  *)
(* can stand on, is offered through such a cell, the nearest to its        *)
(* centroid.                                                               *)
(***************************************************************************)
EXTENDS Integers, Sequences, FiniteSets, FiniteSetsExt

CONSTANTS Width, Height,    \* of the grid
          Grids,            \* the occupancy grids to look at
          min_size, min_clear

VARIABLES data, covered, clusters

FREE_MAX == 25
OCC_MIN == 65
UNKNOWN == -1

Cells == 0 .. Width * Height - 1
Col(c) == c % Width
Row(c) == c \div Width
Square(n) == n * n
Distance2(c, d) == Square(Col(c) - Col(d)) + Square(Row(c) - Row(d))

Free(c) == data[c] \in 0 .. FREE_MAX
Occupied(c) == data[c] >= OCC_MIN
Frontier == {c \in Cells :
               Free(c) /\ \E d \in Cells : Distance2(c, d) = 1 /\ data[d] = UNKNOWN}

\* The 8-connected components: the smallest sets closed under neighbourhood.
Touch(c, d) == Distance2(c, d) <= 2
Closed(S) == \A c \in S, d \in Frontier : Touch(c, d) => d \in S
Components ==
  LET closed == {S \in SUBSET Frontier : S # {} /\ Closed(S)}
  IN  {S \in closed : \A R \in closed : R \subseteq S => R = S}

Standable(c) ==
  \A d \in Cells : Occupied(d) => Distance2(c, d) > Square(min_clear)
Goals(S) == IF min_clear > 0 THEN {c \in S : Standable(c)} ELSE S

\* The distance to the centroid of S, scaled by the size of S.
OffCentre(c, S) ==
  Square(Cardinality(S) * Col(c) - MapThenSumSet(Col, S))
  + Square(Cardinality(S) * Row(c) - MapThenSumSet(Row, S))
Central(S) == {c \in Goals(S) : \A d \in Goals(S) : OffCentre(c, S) <= OffCentre(d, S)}

Worthwhile(S) == Cardinality(S) >= min_size /\ Goals(S) # {}

Init == data \in Grids /\ covered = {} /\ clusters = <<>>

Look(S) ==
  /\ S \cap covered = {}
  /\ covered' = covered \cup S
  /\ IF Worthwhile(S)
     THEN \E c \in Central(S) : clusters' = Append(clusters, <<c, Cardinality(S)>>)
     ELSE UNCHANGED clusters
  /\ UNCHANGED data

Next == \E S \in Components : Look(S)
vars == <<data, covered, clusters>>
Safety == Init /\ [][Next]_vars
Spec == Safety /\ WF_vars(Next)
=============================================================================
