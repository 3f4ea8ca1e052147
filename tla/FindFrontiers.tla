--------------------------- MODULE FindFrontiers ---------------------------
(***************************************************************************)
(* find_frontiers() of scripts/frontier_lib.py: the breadth-first search   *)
(* over the cells of an occupancy grid, one cell of the queue per step, in *)
(* the order of the code.                                                  *)
(***************************************************************************)
EXTENDS Integers, Sequences, SequencesExt

CONSTANTS Width, Height,    \* of the grid
          Grids,            \* the occupancy grids to search
          min_size, min_clear

ASSUME GridAssumption ==
  /\ Width \in Nat \ {0} /\ Height \in Nat \ {0} /\ min_size \in Nat /\ min_clear \in Nat
  /\ Grids \subseteq [0 .. Width * Height - 1 -> Int]

VARIABLES data,         \* the occupancy grid, row by row
          start,        \* the outer loop
          queue, cells, \* the cluster being gathered
          seen,
          clusters      \* found so far: <<representative, size>>

vars == <<data, start, queue, cells, seen, clusters>>

FREE_MAX == 25
OCC_MIN == 65
UNKNOWN == -1
Indices == 0 .. Width * Height - 1

X(i) == i % Width
Y(i) == i \div Width

(* A slip: the last column is not stopped at the edge.                     *)
is_frontier_wraps(i) ==
  /\ data[i] >= 0 /\ data[i] <= FREE_MAX
  /\ \/ X(i) > 0 /\ data[i - 1] = UNKNOWN
     \/ i < Width * Height - 1 /\ data[i + 1] = UNKNOWN
     \/ Y(i) > 0 /\ data[i - Width] = UNKNOWN
     \/ Y(i) < Height - 1 /\ data[i + Width] = UNKNOWN

(* A free cell next to an unknown one.                                     *)
is_frontier(i) ==
  /\ data[i] >= 0 /\ data[i] <= FREE_MAX
  /\ \/ X(i) > 0 /\ data[i - 1] = UNKNOWN
     \/ X(i) < Width - 1 /\ data[i + 1] = UNKNOWN
     \/ Y(i) > 0 /\ data[i - Width] = UNKNOWN
     \/ Y(i) < Height - 1 /\ data[i + Width] = UNKNOWN

InGrid(x, y) == x \in 0 .. Width - 1 /\ y \in 0 .. Height - 1

(* No wall within radius cells of index.                                   *)
has_clearance(index, radius) ==
  \A dy, dx \in -radius .. radius :
    \/ dx * dx + dy * dy > radius * radius
    \/ ~InGrid(X(index) + dx, Y(index) + dy)
    \/ data[(Y(index) + dy) * Width + X(index) + dx] < OCC_MIN

(* The neighbours the inner loops add to the queue, column by column.      *)
New(i, dx, dy) ==
  LET j == (Y(i) + dy) * Width + X(i) + dx
  IN  IF InGrid(X(i) + dx, Y(i) + dy) /\ is_frontier(j) /\ j \notin seen THEN <<j>>
      ELSE <<>>
Column(i, dx) == New(i, dx, -1) \o New(i, dx, 0) \o New(i, dx, 1)
Unseen(i) == Column(i, -1) \o Column(i, 0) \o Column(i, 1)

(* The sort key, the squared distance to the centroid, times the square of *)
(* the size: the model compares exactly what the code compares in floats.  *)
Total(f(_), s) == FoldLeft(LAMBDA acc, c : acc + f(c), 0, s)
key(c) ==
  LET dx == Len(cells) * X(c) - Total(X, cells)
      dy == Len(cells) * Y(c) - Total(Y, cells)
  IN  dx * dx + dy * dy

(* The places of cells nearest to the centroid, of those in K; sorted() is *)
(* stable, so the first of the nearest comes first.                        *)
Nearest(K) ==
  cells[CHOOSE k \in K : \A j \in K :
          \/ key(cells[k]) < key(cells[j])
          \/ key(cells[k]) = key(cells[j]) /\ k <= j]

(* A slip: the clearance is asked of the central cell only.                *)
ranked_central ==
  IF min_clear > 0 /\ ~has_clearance(Nearest(DOMAIN cells), min_clear) THEN {}
  ELSE DOMAIN cells

(* The places of the cells a goal may stand on.                            *)
ranked == {k \in DOMAIN cells : min_clear > 0 => has_clearance(cells[k], min_clear)}

Init ==
  /\ data \in Grids /\ start = 0 /\ queue = <<>> /\ cells = <<>>
  /\ seen = {} /\ clusters = <<>>

Idle == queue = <<>> /\ cells = <<>> /\ start \in Indices

SkipStart ==
  /\ Idle /\ (~is_frontier(start) \/ start \in seen)
  /\ start' = start + 1
  /\ UNCHANGED <<data, queue, cells, seen, clusters>>

SeedStart ==
  /\ Idle /\ is_frontier(start) /\ start \notin seen
  /\ queue' = <<start>> /\ seen' = seen \cup {start}
  /\ UNCHANGED <<data, start, cells, clusters>>

(* A slip: cells are marked when they leave the queue.                     *)
VisitCellLate ==
  /\ queue # <<>>
  /\ cells' = Append(cells, Head(queue))
  /\ queue' = Tail(queue) \o Unseen(Head(queue))
  /\ seen' = seen \cup {Head(queue)}
  /\ UNCHANGED <<data, start, clusters>>

(* Take a cell from the queue and mark and queue its neighbours.           *)
VisitCell ==
  /\ queue # <<>>
  /\ cells' = Append(cells, Head(queue))
  /\ queue' = Tail(queue) \o Unseen(Head(queue))
  /\ seen' = seen \cup ToSet(Unseen(Head(queue)))
  /\ UNCHANGED <<data, start, clusters>>

(* Offer the cluster if it is large enough and the robot can stand in it.  *)
CloseCluster ==
  /\ queue = <<>> /\ cells # <<>>
  /\ clusters' = IF Len(cells) < min_size \/ ranked = {} THEN clusters
                 ELSE Append(clusters, <<Nearest(ranked), Len(cells)>>)
  /\ cells' = <<>> /\ start' = start + 1
  /\ UNCHANGED <<data, queue, seen>>

Next == SkipStart \/ SeedStart \/ VisitCell \/ CloseCluster
Spec == Init /\ [][Next]_vars /\ WF_vars(Next)

-----------------------------------------------------------------------------
(* A cell is in the queue or in the cluster at most once, all of them seen;*)
(* the queue never outgrows the grid.                                      *)
TypeOK ==
  /\ data \in Grids /\ start \in 0 .. Width * Height
  /\ queue \in Seq(Indices) /\ cells \in Seq(Indices) /\ seen \subseteq Indices
  /\ ToSet(cells \o queue) \subseteq seen /\ IsInjective(cells \o queue)
  /\ clusters \in Seq(Indices \X (1 .. Width * Height))

(* What was looked at is what was seen, but for the cluster being gathered.*)
Clusters == INSTANCE FrontierClusters WITH covered <- seen \ ToSet(cells \o queue)

(* The search keeps the promise: each step of it either gathers cells or   *)
(* looks at exactly one whole component that was not looked at before, and *)
(* none is left out.                                                       *)
ImplementsClusters == Clusters!Spec

(* The explorer stops when the list is empty, so it must be empty exactly  *)
(* when no component is worth a goal.                                      *)
EmptyMeansDone ==
  start = Width * Height =>
    ((clusters = <<>>) <=> \A S \in Clusters!Components : ~Clusters!Worthwhile(S))
=============================================================================
