-------------------------- MODULE MCFindFrontiers --------------------------
EXTENDS FindFrontiers, FiniteSets
(* Every grid of unknown and just free enough cells and at most one cell   *)
(* that is just occupied.                                                  *)
MCGrids == {g \in [Indices -> {UNKNOWN, FREE_MAX, OCC_MIN}] :
              Cardinality({i \in Indices : g[i] = OCC_MIN}) <= 1}
=============================================================================
