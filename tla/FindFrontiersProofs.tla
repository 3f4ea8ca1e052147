------------------------ MODULE FindFrontiersProofs ------------------------
(***************************************************************************)
(* Proofs about FindFrontiers, for any grid and any limits: the search     *)
(* implements FrontierClusters, and its list is empty exactly when no      *)
(* component of the frontier is worth a goal.                              *)
(***************************************************************************)
EXTENDS FindFrontiers, FiniteSetTheorems, SequenceTheorems, TLAPS

-----------------------------------------------------------------------------
(* ---- squares and grid coordinates ---- *)

(* A square bounds its root.                                               *)
LEMMA Roots ==
  ASSUME NEW a \in Int, NEW r \in Nat, a * a <= r * r
  PROVE  a \in -r .. r
<1>1. ASSUME a > r PROVE FALSE
  <2>1. a * a > r * r
    BY <1>1
  <2> QED BY <2>1
<1>2. ASSUME -a > r PROVE FALSE
  <2>1. (-a) * (-a) > r * r
    BY <1>2
  <2> QED BY <2>1
<1> QED BY <1>1, <1>2

LEMMA SmallSquares ==
  ASSUME NEW a \in Int, NEW b \in Int
  PROVE  /\ a * a \in Nat
         /\ a * a + b * b <= 2 <=> a \in -1 .. 1 /\ b \in -1 .. 1
         /\ a * a + b * b = 1 <=>
              \/ a = 0 /\ b \in {-1, 1}
              \/ b = 0 /\ a \in {-1, 1}
<1>1. a * a \in Nat /\ b * b \in Nat
  OBVIOUS
<1>2. a * a <= 2 => a \in -1 .. 1
  <2>1. a * a <= 2 => a * a < 2 * 2
    OBVIOUS
  <2>2. a \notin -1 .. 1 => a >= 2 \/ -a >= 2
    OBVIOUS
  <2>3. a >= 2 => a * a >= 2 * 2
    OBVIOUS
  <2>4. -a >= 2 => (-a) * (-a) >= 2 * 2
    OBVIOUS
  <2> QED BY <2>1, <2>2, <2>3, <2>4
<1>3. b * b <= 2 => b \in -1 .. 1
  <2>1. b * b <= 2 => b * b < 2 * 2
    OBVIOUS
  <2>2. b \notin -1 .. 1 => b >= 2 \/ -b >= 2
    OBVIOUS
  <2>3. b >= 2 => b * b >= 2 * 2
    OBVIOUS
  <2>4. -b >= 2 => (-b) * (-b) >= 2 * 2
    OBVIOUS
  <2> QED BY <2>1, <2>2, <2>3, <2>4
<1>4. a * a + b * b <= 2 => a * a <= 2 /\ b * b <= 2
  BY <1>1
<1>5. a \in -1 .. 1 => (a = 0 /\ a * a = 0) \/ (a \in {-1, 1} /\ a * a = 1)
  <2>1. a \in -1 .. 1 => a = 0 \/ a = 1 \/ a = -1
    OBVIOUS
  <2>2. 0 * 0 = 0 /\ 1 * 1 = 1 /\ (-1) * (-1) = 1
    OBVIOUS
  <2> QED BY <2>1, <2>2
<1>6. b \in -1 .. 1 => (b = 0 /\ b * b = 0) \/ (b \in {-1, 1} /\ b * b = 1)
  <2>1. b \in -1 .. 1 => b = 0 \/ b = 1 \/ b = -1
    OBVIOUS
  <2>2. 0 * 0 = 0 /\ 1 * 1 = 1 /\ (-1) * (-1) = 1
    OBVIOUS
  <2> QED BY <2>1, <2>2
<1> QED BY <1>1, <1>2, <1>3, <1>4, <1>5, <1>6

(* A cell's index is its row times the width, and its column.              *)
LEMMA Coordinates ==
  ASSUME NEW i \in Indices
  PROVE  /\ X(i) \in 0 .. Width - 1 /\ Y(i) \in 0 .. Height - 1
         /\ i = Y(i) * Width + X(i)
<1>1. i \in Nat /\ i < Width * Height /\ Width \in Nat \ {0} /\ Height \in Nat
  BY GridAssumption DEF Indices
<1>2. X(i) \in 0 .. Width - 1 /\ Y(i) \in Nat /\ i = Y(i) * Width + X(i)
  BY <1>1 DEF X, Y
<1>3. Y(i) < Height
  <2> SUFFICES ASSUME Y(i) >= Height PROVE FALSE
    BY <1>1, <1>2
  <2>1. Y(i) * Width >= Height * Width
    BY <1>1, <1>2
  <2> QED BY <1>1, <1>2, <2>1
<1> QED BY <1>1, <1>2, <1>3

LEMMA IndexOf ==
  ASSUME NEW x \in 0 .. Width - 1, NEW y \in 0 .. Height - 1
  PROVE  /\ y * Width + x \in Indices
         /\ X(y * Width + x) = x /\ Y(y * Width + x) = y
<1>1. Width \in Nat \ {0} /\ Height \in Nat \ {0} /\ x \in Nat /\ y \in Nat
  BY GridAssumption
<1>2. y * Width + x < Width * Height
  <2>1. (y + 1) * Width <= Height * Width
    BY <1>1
  <2>2. (y + 1) * Width = y * Width + Width
    BY <1>1
  <2> QED BY <1>1, <2>1, <2>2
<1>3. y * Width + x \in Nat
  BY <1>1
<1>4. (y * Width + x) % Width = x /\ (y * Width + x) \div Width = y
  BY <1>1
<1> QED BY <1>1, <1>2, <1>3, <1>4 DEF Indices, X, Y

-----------------------------------------------------------------------------
(* ---- the words of the two modules ---- *)

LEMMA SameWords ==
  /\ Clusters!Cells = Indices /\ Clusters!UNKNOWN = UNKNOWN
  /\ \A c : Clusters!Col(c) = X(c) /\ Clusters!Row(c) = Y(c)
  /\ \A S : Clusters!Cardinality(S) = Cardinality(S)
<1>1. \A S : Clusters!Cardinality(S) = Cardinality(S)
  BY DEF Clusters!Cardinality, Cardinality
<1> QED BY <1>1 DEF Clusters!Cells, Indices, Clusters!UNKNOWN, UNKNOWN, Clusters!Col, X,
                   Clusters!Row, Y

(* Touching cells are a step apart in each direction.                      *)
LEMMA Touching ==
  ASSUME NEW i \in Indices, NEW j \in Indices
  PROVE  /\ Clusters!Touch(i, j) <=> X(j) - X(i) \in -1 .. 1 /\ Y(j) - Y(i) \in -1 .. 1
         /\ Clusters!Distance2(i, j) = 1 <=>
              \/ X(j) = X(i) /\ Y(j) - Y(i) \in {-1, 1}
              \/ Y(j) = Y(i) /\ X(j) - X(i) \in {-1, 1}
<1> DEFINE a == X(i) - X(j)
           b == Y(i) - Y(j)
<1>1. /\ a \in Int /\ b \in Int /\ X(i) \in Int /\ X(j) \in Int
      /\ Y(i) \in Int /\ Y(j) \in Int
  BY Coordinates
<1>2. Clusters!Distance2(i, j) = a * a + b * b
  BY SameWords DEF Clusters!Distance2, Clusters!Square
<1>3. /\ a * a + b * b <= 2 <=> a \in -1 .. 1 /\ b \in -1 .. 1
      /\ a * a + b * b = 1 <=>
           \/ a = 0 /\ b \in {-1, 1}
           \/ b = 0 /\ a \in {-1, 1}
  <2> HIDE DEF a, b
  <2> QED BY <1>1, SmallSquares
<1>4. /\ a \in -1 .. 1 <=> X(j) - X(i) \in -1 .. 1
      /\ b \in -1 .. 1 <=> Y(j) - Y(i) \in -1 .. 1
      /\ a \in {-1, 1} <=> X(j) - X(i) \in {-1, 1}
      /\ b \in {-1, 1} <=> Y(j) - Y(i) \in {-1, 1}
      /\ a = 0 <=> X(j) = X(i)
      /\ b = 0 <=> Y(j) = Y(i)
  BY <1>1
<1> HIDE DEF a, b
<1> QED BY <1>2, <1>3, <1>4 DEF Clusters!Touch

LEMMA TouchSymmetric ==
  ASSUME NEW i \in Indices, NEW j \in Indices, Clusters!Touch(i, j)
  PROVE  Clusters!Touch(j, i)
<1>1. X(i) \in Int /\ X(j) \in Int /\ Y(i) \in Int /\ Y(j) \in Int
  BY Coordinates
<1> QED BY <1>1, Touching

(* The code's frontier is the promised one.                                *)
LEMMA FrontierIs ==
  ASSUME data \in [Indices -> Int], NEW i \in Indices
  PROVE  is_frontier(i) <=> i \in Clusters!Frontier
<1> DEFINE x == X(i)
           y == Y(i)
           Edge == \E d \in Indices : Clusters!Distance2(i, d) = 1 /\ data[d] = UNKNOWN
<1>1. /\ x \in 0 .. Width - 1 /\ y \in 0 .. Height - 1 /\ i = y * Width + x
      /\ Width \in Nat \ {0} /\ Height \in Nat \ {0} /\ i \in Nat
  BY Coordinates, GridAssumption DEF Indices
<1>2. i \in Clusters!Frontier <=> data[i] >= 0 /\ data[i] <= FREE_MAX /\ Edge
  BY SameWords DEF Clusters!Frontier, Clusters!Free, FREE_MAX, Clusters!FREE_MAX
<1> HIDE DEF x, y
<1>3. ASSUME NEW dx \in -1 .. 1, NEW dy \in -1 .. 1, InGrid(x + dx, y + dy),
             dx * dx + dy * dy = 1,
             NEW d, d = i + dy * Width + dx, data[d] = UNKNOWN
      PROVE  Edge
  <2>1. d = (y + dy) * Width + x + dx /\ dx \in Int /\ dy \in Int
    BY <1>1, <1>3
  <2>2. /\ X(i) + dx \in 0 .. Width - 1 /\ Y(i) + dy \in 0 .. Height - 1
        /\ d = (Y(i) + dy) * Width + X(i) + dx
    BY <1>3, <2>1 DEF x, y, InGrid
  <2>3. d \in Indices /\ X(d) = X(i) + dx /\ Y(d) = Y(i) + dy
    <3>1. PICK u, v : u = X(i) + dx /\ v = Y(i) + dy
      OBVIOUS
    <3>2. u \in 0 .. Width - 1 /\ v \in 0 .. Height - 1 /\ d = v * Width + u
      BY <1>1, <2>1, <2>2, <3>1 DEF x, y
    <3>3. d \in Indices /\ X(d) = u /\ Y(d) = v
      BY <3>2, IndexOf
    <3> QED BY <3>1, <3>3
  <2>4. X(d) - X(i) = dx /\ Y(d) - Y(i) = dy
    BY <1>1, <2>1, <2>3 DEF x, y
  <2>5. Clusters!Distance2(i, d) = 1
    BY <1>1, <1>3, <2>1, <2>3, <2>4, Touching, SmallSquares DEF x, y
  <2> QED BY <1>3, <2>3, <2>5
<1>4. ASSUME is_frontier(i) PROVE Edge
  <2>1. CASE x > 0 /\ data[i - 1] = UNKNOWN
    <3>1. InGrid(x + (-1), y + 0) /\ i + 0 * Width + (-1) = i - 1
          /\ (-1) * (-1) + 0 * 0 = 1
      BY <1>1, <2>1 DEF InGrid
    <3> QED BY <1>3, <2>1, <3>1
  <2>2. CASE x < Width - 1 /\ data[i + 1] = UNKNOWN
    <3>1. InGrid(x + 1, y + 0) /\ i + 0 * Width + 1 = i + 1 /\ 1 * 1 + 0 * 0 = 1
      BY <1>1, <2>2 DEF InGrid
    <3> QED BY <1>3, <2>2, <3>1
  <2>3. CASE y > 0 /\ data[i - Width] = UNKNOWN
    <3>1. InGrid(x + 0, y + (-1)) /\ i + (-1) * Width + 0 = i - Width
          /\ 0 * 0 + (-1) * (-1) = 1
      BY <1>1, <2>3 DEF InGrid
    <3> QED BY <1>3, <2>3, <3>1
  <2>4. CASE y < Height - 1 /\ data[i + Width] = UNKNOWN
    <3>1. InGrid(x + 0, y + 1) /\ i + 1 * Width + 0 = i + Width /\ 0 * 0 + 1 * 1 = 1
      BY <1>1, <2>4 DEF InGrid
    <3> QED BY <1>3, <2>4, <3>1
  <2> QED BY <1>4, <2>1, <2>2, <2>3, <2>4 DEF is_frontier, x, y
<1>5. ASSUME Edge, data[i] >= 0, data[i] <= FREE_MAX PROVE is_frontier(i)
  <2>1. PICK d \in Indices : Clusters!Distance2(i, d) = 1 /\ data[d] = UNKNOWN
    BY <1>5
  <2>2. /\ X(d) \in 0 .. Width - 1 /\ Y(d) \in 0 .. Height - 1
        /\ d = Y(d) * Width + X(d)
    BY Coordinates
  <2>3. \/ X(d) = x /\ Y(d) - y \in {-1, 1}
        \/ Y(d) = y /\ X(d) - x \in {-1, 1}
    BY <2>1, Touching DEF x, y
  <2>4. CASE X(d) = x /\ Y(d) - y = -1
    <3>1. y > 0 /\ Y(d) = y - 1
      BY <1>1, <2>2, <2>4
    <3>2. d = i - Width
      BY <1>1, <2>2, <2>4, <3>1
    <3> QED BY <1>5, <2>1, <3>1, <3>2 DEF is_frontier, y
  <2>5. CASE X(d) = x /\ Y(d) - y = 1
    <3>1. y < Height - 1 /\ Y(d) = y + 1
      BY <1>1, <2>2, <2>5
    <3>2. d = i + Width
      BY <1>1, <2>2, <2>5, <3>1
    <3> QED BY <1>5, <2>1, <3>1, <3>2 DEF is_frontier, y
  <2>6. CASE Y(d) = y /\ X(d) - x = -1
    <3>1. x > 0 /\ d = i - 1
      BY <1>1, <2>2, <2>6
    <3> QED BY <1>5, <2>1, <3>1 DEF is_frontier, x
  <2>7. CASE Y(d) = y /\ X(d) - x = 1
    <3>1. x < Width - 1 /\ d = i + 1
      BY <1>1, <2>2, <2>7
    <3> QED BY <1>5, <2>1, <3>1 DEF is_frontier, x
  <2> QED BY <2>3, <2>4, <2>5, <2>6, <2>7
<1>6. is_frontier(i) => data[i] >= 0 /\ data[i] <= FREE_MAX
  BY DEF is_frontier
<1> QED BY <1>2, <1>4, <1>5, <1>6

(* The code's clearance is the promised one.                               *)
LEMMA ClearanceIs ==
  ASSUME data \in [Indices -> Int], NEW i \in Indices
  PROVE  has_clearance(i, min_clear) <=> Clusters!Standable(i)
<1> DEFINE x == X(i)
           y == Y(i)
           r == min_clear
<1>1. /\ x \in 0 .. Width - 1 /\ y \in 0 .. Height - 1 /\ r \in Nat
      /\ Width \in Nat \ {0} /\ Height \in Nat \ {0}
  BY Coordinates, GridAssumption
<1>2. \A d \in Indices : Clusters!Distance2(i, d) =
        (x - X(d)) * (x - X(d)) + (y - Y(d)) * (y - Y(d))
  BY SameWords DEF Clusters!Distance2, Clusters!Square
<1>3. Clusters!Standable(i) <=>
        \A d \in Indices : data[d] >= OCC_MIN => Clusters!Distance2(i, d) > r * r
  BY SameWords
  DEF Clusters!Standable, Clusters!Square, Clusters!Occupied, OCC_MIN, Clusters!OCC_MIN
<1>4. ASSUME has_clearance(i, r), NEW d \in Indices, data[d] >= OCC_MIN
      PROVE  Clusters!Distance2(i, d) > r * r
  <2> DEFINE a == X(d) - x
             b == Y(d) - y
  <2>1. /\ X(d) \in 0 .. Width - 1 /\ Y(d) \in 0 .. Height - 1
        /\ d = Y(d) * Width + X(d)
    BY Coordinates
  <2>2. a \in Int /\ b \in Int /\ x + a = X(d) /\ y + b = Y(d)
    BY <1>1, <2>1
  <2>3. Clusters!Distance2(i, d) = a * a + b * b
    <3>1. x - X(d) = -a /\ y - Y(d) = -b
      BY <1>1, <2>1
    <3>2. (-a) * (-a) = a * a /\ (-b) * (-b) = b * b
      BY <2>2
    <3> QED BY <1>2, <3>1, <3>2
  <2> HIDE DEF a, b
  <2>4. SUFFICES ASSUME a * a + b * b <= r * r PROVE FALSE
    <3>1. a * a \in Int /\ b * b \in Int /\ r * r \in Int
      BY <1>1, <2>2
    <3> HIDE DEF r
    <3> QED BY <2>3, <2>4, <3>1
  <2>5. a * a \in Nat /\ b * b \in Nat
    BY <2>2, SmallSquares
  <2>6. a * a <= r * r /\ b * b <= r * r
    BY <1>1, <2>4, <2>5
  <2>7. a \in -r .. r /\ b \in -r .. r
    BY <1>1, <2>2, <2>6, Roots
  <2>8. \/ a * a + b * b > r * r
        \/ ~InGrid(x + a, y + b)
        \/ data[(y + b) * Width + x + a] < OCC_MIN
    BY <1>4, <2>7 DEF has_clearance
  <2>9. InGrid(x + a, y + b)
    BY <2>1, <2>2 DEF InGrid
  <2>10. (y + b) * Width + x + a = d
    <3>1. (y + b) * Width + x + a = Y(d) * Width + (x + a)
      BY <1>1, <2>1, <2>2
    <3> QED BY <2>1, <2>2, <3>1
  <2>11. data[d] < OCC_MIN
    BY <1>1, <2>2, <2>4, <2>5, <2>8, <2>9, <2>10
  <2> QED BY <1>4, <2>11 DEF OCC_MIN
<1>5. ASSUME \A d \in Indices : data[d] >= OCC_MIN => Clusters!Distance2(i, d) > r * r,
             NEW b \in -r .. r, NEW a \in -r .. r,
             a * a + b * b <= r * r, InGrid(x + a, y + b)
      PROVE  data[(y + b) * Width + x + a] < OCC_MIN
  <2>1. a \in Int /\ b \in Int
    BY <1>1
  <2>2. PICK u, v : u = x + a /\ v = y + b
    OBVIOUS
  <2>3. PICK d : d = v * Width + u
    OBVIOUS
  <2>4. u \in 0 .. Width - 1 /\ v \in 0 .. Height - 1
    BY <1>5, <2>2 DEF InGrid
  <2>5. d \in Indices /\ X(d) = u /\ Y(d) = v
    BY <2>3, <2>4, IndexOf
  <2>6. x - X(d) = -a /\ y - Y(d) = -b
    BY <1>1, <2>1, <2>2, <2>5
  <2>7. (-a) * (-a) = a * a /\ (-b) * (-b) = b * b
    BY <2>1
  <2>8. Clusters!Distance2(i, d) = a * a + b * b
    BY <1>2, <2>5, <2>6, <2>7
  <2>9. a * a + b * b \in Int /\ r * r \in Int /\ data[d] \in Int
    BY <1>1, <2>1, <2>5
  <2>10. data[d] < OCC_MIN
    BY <1>5, <2>5, <2>8, <2>9 DEF OCC_MIN
  <2>11. (y + b) * Width + x + a = d
    BY <1>1, <2>1, <2>2, <2>3
  <2> QED BY <2>10, <2>11
<1>6. has_clearance(i, r) <=>
        \A b, a \in -r .. r :
          a * a + b * b <= r * r /\ InGrid(x + a, y + b)
          => data[(y + b) * Width + x + a] < OCC_MIN
  <2>1. \A a, b \in -r .. r : a * a + b * b > r * r <=> ~(a * a + b * b <= r * r)
    BY <1>1
  <2> QED BY <2>1 DEF has_clearance
<1> HIDE DEF r, x, y
<1>7. has_clearance(i, r) <=> Clusters!Standable(i)
  BY <1>3, <1>4, <1>5, <1>6
<1> QED BY <1>7 DEF r

-----------------------------------------------------------------------------
(* ---- sequences without repeats ---- *)

LEMMA Singles ==
  ASSUME NEW S, NEW e \in S
  PROVE  /\ <<e>> \in Seq(S) /\ ToSet(<<e>>) = {e} /\ IsInjective(<<e>>)
         /\ <<>> \in Seq(S) /\ ToSet(<<>>) = {} /\ IsInjective(<<>>)
<1>1. <<e>> \in Seq(S) /\ DOMAIN <<e>> = {1} /\ <<e>>[1] = e
  OBVIOUS
<1>2. <<>> \in Seq(S) /\ DOMAIN <<>> = {}
  OBVIOUS
<1> QED BY <1>1, <1>2 DEF ToSet, IsInjective

(* What a sequence of two parts holds, and when it has no repeats.         *)
LEMMA Joined ==
  ASSUME NEW S, NEW s \in Seq(S), NEW t \in Seq(S)
  PROVE  /\ s \o t \in Seq(S) /\ ToSet(s \o t) = ToSet(s) \cup ToSet(t)
         /\ IsInjective(s) /\ IsInjective(t) /\ ToSet(s) \cap ToSet(t) = {}
            => IsInjective(s \o t)
<1> DEFINE u == s \o t
           m == Len(s)
           n == Len(t)
<1>1. /\ m \in Nat /\ DOMAIN s = 1 .. m /\ n \in Nat /\ DOMAIN t = 1 .. n
  BY LenProperties
<1>2. /\ u \in Seq(S) /\ Len(u) = m + n
      /\ \A i \in 1 .. m + n : u[i] = IF i <= m THEN s[i] ELSE t[i - m]
  BY ConcatProperties
<1>3. DOMAIN u = 1 .. m + n
  BY <1>2, LenProperties
<1> HIDE DEF u, m, n
<1>4. ToSet(u) = ToSet(s) \cup ToSet(t)
  <2>1. \A i \in 1 .. m : i \in 1 .. m + n /\ u[i] = s[i]
    BY <1>1, <1>2
  <2>2. \A i \in 1 .. n : i + m \in 1 .. m + n /\ u[i + m] = t[i]
    <3> SUFFICES ASSUME NEW i \in 1 .. n PROVE i + m \in 1 .. m + n /\ u[i + m] = t[i]
      OBVIOUS
    <3>1. i + m \in 1 .. m + n /\ ~(i + m <= m) /\ (i + m) - m = i
      BY <1>1
    <3> QED BY <1>2, <3>1
  <2>3. /\ ToSet(s) = {s[i] : i \in 1 .. m} /\ ToSet(t) = {t[i] : i \in 1 .. n}
        /\ ToSet(u) = {u[i] : i \in 1 .. m + n}
    BY <1>1, <1>3 DEF ToSet
  <2>4. \A i \in 1 .. m + n : u[i] \in ToSet(s) \cup ToSet(t)
    <3> SUFFICES ASSUME NEW i \in 1 .. m + n PROVE u[i] \in ToSet(s) \cup ToSet(t)
      OBVIOUS
    <3>1. CASE i <= m
      <4>1. i \in 1 .. m /\ u[i] = s[i]
        BY <1>1, <1>2, <3>1
      <4> QED BY <2>3, <4>1
    <3>2. CASE ~(i <= m)
      <4>1. i - m \in 1 .. n /\ u[i] = t[i - m]
        BY <1>1, <1>2, <3>2
      <4> QED BY <2>3, <4>1
    <3> QED BY <3>1, <3>2
  <2>5. \A e \in ToSet(s) \cup ToSet(t) : e \in ToSet(u)
    BY <2>1, <2>2, <2>3
  <2>6. \A e \in ToSet(u) : e \in ToSet(s) \cup ToSet(t)
    BY <2>3, <2>4
  <2> QED BY <2>5, <2>6
<1>5. ASSUME IsInjective(s), IsInjective(t), ToSet(s) \cap ToSet(t) = {}
      PROVE  IsInjective(u)
  <2> SUFFICES ASSUME NEW i \in 1 .. m + n, NEW j \in 1 .. m + n, u[i] = u[j]
               PROVE  i = j
    BY <1>3 DEF IsInjective
  <2>1. CASE i <= m /\ j <= m
    <3>1. i \in 1 .. m /\ j \in 1 .. m /\ s[i] = s[j]
      BY <1>1, <1>2, <2>1
    <3> QED BY <1>1, <1>5, <3>1 DEF IsInjective
  <2>2. CASE ~(i <= m) /\ ~(j <= m)
    <3>1. i - m \in 1 .. n /\ j - m \in 1 .. n /\ t[i - m] = t[j - m]
      BY <1>1, <1>2, <2>2
    <3>2. i - m = j - m
      BY <1>1, <1>5, <3>1 DEF IsInjective
    <3> QED BY <1>1, <3>2
  <2>3. CASE i <= m /\ ~(j <= m)
    <3>1. i \in 1 .. m /\ j - m \in 1 .. n /\ s[i] = t[j - m]
      BY <1>1, <1>2, <2>3
    <3> QED BY <1>1, <1>5, <3>1 DEF ToSet
  <2>4. CASE ~(i <= m) /\ j <= m
    <3>1. i - m \in 1 .. n /\ j \in 1 .. m /\ t[i - m] = s[j]
      BY <1>1, <1>2, <2>4
    <3> QED BY <1>1, <1>5, <3>1 DEF ToSet
  <2> QED BY <2>1, <2>2, <2>3, <2>4
<1>6. /\ u \in Seq(S) /\ ToSet(u) = ToSet(s) \cup ToSet(t)
      /\ IsInjective(s) /\ IsInjective(t) /\ ToSet(s) \cap ToSet(t) = {}
         => IsInjective(u)
  BY <1>2, <1>4, <1>5
<1> QED BY <1>6 DEF u

(* The neighbour one step away, if it is to be queued.                     *)
Wanted(i, dx, dy) ==
  {j \in Clusters!Frontier \ seen : X(j) = X(i) + dx /\ Y(j) = Y(i) + dy}

LEMMA NewIs ==
  ASSUME data \in [Indices -> Int], NEW i \in Indices, NEW dx \in Int, NEW dy \in Int
  PROVE  /\ New(i, dx, dy) \in Seq(Indices) /\ IsInjective(New(i, dx, dy))
         /\ ToSet(New(i, dx, dy)) = Wanted(i, dx, dy)
<1>1. PICK u, v : u = X(i) + dx /\ v = Y(i) + dy
  OBVIOUS
<1>2. PICK j : j = (Y(i) + dy) * Width + X(i) + dx
  OBVIOUS
<1>3. u \in Int /\ v \in Int /\ Width \in Nat /\ j = v * Width + u
  <2>1. X(i) \in Int /\ Y(i) \in Int /\ Width \in Nat
    BY Coordinates, GridAssumption
  <2>2. (Y(i) + dy) * Width + X(i) + dx = (Y(i) + dy) * Width + (X(i) + dx)
    BY <2>1
  <2> QED BY <1>1, <1>2, <2>1, <2>2
<1>4. Clusters!Frontier \subseteq Indices
  BY SameWords DEF Clusters!Frontier
<1>5. CASE InGrid(u, v) /\ is_frontier(j) /\ j \notin seen
  <2>1. j \in Indices /\ X(j) = u /\ Y(j) = v
    BY <1>3, <1>5, IndexOf DEF InGrid
  <2>2. New(i, dx, dy) = <<j>>
    BY <1>1, <1>2, <1>5 DEF New
  <2>3. j \in Clusters!Frontier
    BY <1>5, <2>1, FrontierIs
  <2>4. \A k \in Indices : X(k) = u /\ Y(k) = v => k = j
    BY <1>3, Coordinates
  <2>5. Wanted(i, dx, dy) = {j}
    BY <1>1, <1>4, <1>5, <2>1, <2>3, <2>4 DEF Wanted
  <2> QED BY <2>1, <2>2, <2>5, Singles
<1>6. CASE ~(InGrid(u, v) /\ is_frontier(j) /\ j \notin seen)
  <2>1. New(i, dx, dy) = <<>>
    BY <1>1, <1>2, <1>6 DEF New
  <2>2. ASSUME NEW k \in Wanted(i, dx, dy) PROVE FALSE
    <3>1. k \in Clusters!Frontier /\ k \in Indices /\ k \notin seen /\ X(k) = u /\ Y(k) = v
      BY <1>1, <1>4 DEF Wanted
    <3>2. InGrid(u, v) /\ k = v * Width + u
      BY <3>1, Coordinates DEF InGrid
    <3>3. is_frontier(k)
      BY <3>1, FrontierIs
    <3> QED BY <1>3, <1>6, <3>1, <3>2, <3>3
  <2> QED BY <2>1, <2>2, Singles
<1> QED BY <1>5, <1>6

(* Three sequences in a row.                                               *)
LEMMA JoinedThree ==
  ASSUME NEW S, NEW a \in Seq(S), NEW b \in Seq(S), NEW c \in Seq(S),
         IsInjective(a), IsInjective(b), IsInjective(c),
         ToSet(a) \cap ToSet(b) = {}, (ToSet(a) \cup ToSet(b)) \cap ToSet(c) = {}
  PROVE  /\ a \o b \o c \in Seq(S) /\ IsInjective(a \o b \o c)
         /\ ToSet(a \o b \o c) = ToSet(a) \cup ToSet(b) \cup ToSet(c)
<1>1. /\ a \o b \in Seq(S) /\ ToSet(a \o b) = ToSet(a) \cup ToSet(b)
      /\ IsInjective(a \o b)
  BY Joined
<1>2. PICK d : d = a \o b
  OBVIOUS
<1>3. /\ d \o c \in Seq(S) /\ ToSet(d \o c) = ToSet(d) \cup ToSet(c)
      /\ IsInjective(d \o c)
  <2>1. d \in Seq(S) /\ IsInjective(d) /\ ToSet(d) \cap ToSet(c) = {}
    BY <1>1, <1>2
  <2> QED BY <2>1, Joined
<1> QED BY <1>1, <1>2, <1>3

LEMMA ColumnIs ==
  ASSUME data \in [Indices -> Int], NEW i \in Indices, NEW dx \in Int
  PROVE  /\ Column(i, dx) \in Seq(Indices) /\ IsInjective(Column(i, dx))
         /\ ToSet(Column(i, dx)) =
              Wanted(i, dx, -1) \cup Wanted(i, dx, 0) \cup Wanted(i, dx, 1)
<1> DEFINE a == New(i, dx, -1)
           b == New(i, dx, 0)
           c == New(i, dx, 1)
<1>1. /\ a \in Seq(Indices) /\ IsInjective(a) /\ ToSet(a) = Wanted(i, dx, -1)
      /\ b \in Seq(Indices) /\ IsInjective(b) /\ ToSet(b) = Wanted(i, dx, 0)
      /\ c \in Seq(Indices) /\ IsInjective(c) /\ ToSet(c) = Wanted(i, dx, 1)
  BY NewIs
<1>2. \A e, f \in {-1, 0, 1} : e # f => Wanted(i, dx, e) \cap Wanted(i, dx, f) = {}
  <2>1. Y(i) \in Int
    BY Coordinates
  <2>2. \A e, f \in {-1, 0, 1} : e # f => Y(i) + e # Y(i) + f
    BY <2>1
  <2> QED BY <2>2 DEF Wanted
<1>3. Column(i, dx) = a \o b \o c
  BY DEF Column
<1> HIDE DEF a, b, c
<1>4. ToSet(a) \cap ToSet(b) = {} /\ (ToSet(a) \cup ToSet(b)) \cap ToSet(c) = {}
  <2>1. /\ Wanted(i, dx, -1) \cap Wanted(i, dx, 0) = {}
        /\ Wanted(i, dx, -1) \cap Wanted(i, dx, 1) = {}
        /\ Wanted(i, dx, 0) \cap Wanted(i, dx, 1) = {}
    BY <1>2
  <2> QED BY <1>1, <2>1
<1>5. /\ a \o b \o c \in Seq(Indices) /\ IsInjective(a \o b \o c)
      /\ ToSet(a \o b \o c) = ToSet(a) \cup ToSet(b) \cup ToSet(c)
  BY <1>1, <1>4, JoinedThree
<1> QED BY <1>1, <1>3, <1>5

(* The inner loops queue, once each, the frontier cells touching the cell  *)
(* that were not seen before.                                              *)
LEMMA UnseenIs ==
  ASSUME data \in [Indices -> Int], NEW i \in Indices
  PROVE  /\ Unseen(i) \in Seq(Indices) /\ IsInjective(Unseen(i))
         /\ ToSet(Unseen(i)) = {j \in Clusters!Frontier : Clusters!Touch(i, j)} \ seen
<1> DEFINE a == Column(i, -1)
           b == Column(i, 0)
           c == Column(i, 1)
           Third(dx) == Wanted(i, dx, -1) \cup Wanted(i, dx, 0) \cup Wanted(i, dx, 1)
<1>1. /\ a \in Seq(Indices) /\ IsInjective(a) /\ ToSet(a) = Third(-1)
      /\ b \in Seq(Indices) /\ IsInjective(b) /\ ToSet(b) = Third(0)
      /\ c \in Seq(Indices) /\ IsInjective(c) /\ ToSet(c) = Third(1)
  <2>1. \A dx \in {-1, 0, 1} :
          /\ Column(i, dx) \in Seq(Indices) /\ IsInjective(Column(i, dx))
          /\ ToSet(Column(i, dx)) = Third(dx)
    BY ColumnIs
  <2> HIDE DEF Third
  <2> QED BY <2>1
<1>2. X(i) \in Int /\ Y(i) \in Int
  BY Coordinates
<1>3. \A e, f \in {-1, 0, 1} : e # f => Third(e) \cap Third(f) = {}
  <2>1. \A e, f \in {-1, 0, 1} : e # f => X(i) + e # X(i) + f
    BY <1>2
  <2>2. \A e : \A j \in Third(e) : X(j) = X(i) + e
    BY DEF Wanted
  <2> HIDE DEF Third
  <2> QED BY <2>1, <2>2
<1>4. Unseen(i) = a \o b \o c
  BY DEF Unseen
<1> HIDE DEF a, b, c
<1>5. ToSet(a) \cap ToSet(b) = {} /\ (ToSet(a) \cup ToSet(b)) \cap ToSet(c) = {}
  <2> HIDE DEF Third
  <2>1. Third(-1) \cap Third(0) = {} /\ Third(-1) \cap Third(1) = {}
        /\ Third(0) \cap Third(1) = {}
    BY <1>3
  <2> QED BY <1>1, <2>1
<1>6. /\ a \o b \o c \in Seq(Indices) /\ IsInjective(a \o b \o c)
      /\ ToSet(a \o b \o c) = ToSet(a) \cup ToSet(b) \cup ToSet(c)
  <2>1. /\ a \in Seq(Indices) /\ b \in Seq(Indices) /\ c \in Seq(Indices)
        /\ IsInjective(a) /\ IsInjective(b) /\ IsInjective(c)
    BY <1>1
  <2> QED BY <1>5, <2>1, JoinedThree
<1>7. Third(-1) \cup Third(0) \cup Third(1)
        = {j \in Clusters!Frontier : Clusters!Touch(i, j)} \ seen
  <2>1. ASSUME NEW j \in Clusters!Frontier
        PROVE  Clusters!Touch(i, j) <=>
                 \E dx, dy \in {-1, 0, 1} : X(j) = X(i) + dx /\ Y(j) = Y(i) + dy
    <3>1. j \in Indices
      BY SameWords DEF Clusters!Frontier
    <3>2. X(j) \in Int /\ Y(j) \in Int
      BY <3>1, Coordinates
    <3>3. Clusters!Touch(i, j) <=> X(j) - X(i) \in -1 .. 1 /\ Y(j) - Y(i) \in -1 .. 1
      BY <3>1, Touching
    <3>4. \A p, q \in Int : p - q \in -1 .. 1 <=> \E d \in {-1, 0, 1} : p = q + d
      <4>1. \A p, q \in Int : p - q \in -1 .. 1 =>
              p = q + (-1) \/ p = q + 0 \/ p = q + 1
        OBVIOUS
      <4> QED BY <4>1
    <3> QED BY <1>2, <3>2, <3>3, <3>4
  <2>2. \A j : j \in Third(-1) \cup Third(0) \cup Third(1) <=>
          /\ j \in Clusters!Frontier \ seen
          /\ \E dx, dy \in {-1, 0, 1} : X(j) = X(i) + dx /\ Y(j) = Y(i) + dy
    BY DEF Wanted
  <2> HIDE DEF Third
  <2> QED BY <2>1, <2>2
<1> QED BY <1>1, <1>4, <1>6, <1>7

-----------------------------------------------------------------------------
(* ---- sums over finite sets, in any order ---- *)

(* Induction over the numbers, as a statement about a set of them.         *)
LEMMA AllNumbers ==
  ASSUME NEW G \in SUBSET Nat, 0 \in G, \A n \in G : n + 1 \in G
  PROVE  G = Nat
<1> SUFFICES ASSUME G # Nat PROVE FALSE
  OBVIOUS
<1> DEFINE B == Nat \ G
<1>1. B \subseteq Nat /\ B # {}
  OBVIOUS
<1> DEFINE R == {ss \in Nat \X Nat : ss[1] < ss[2]}
<1>2. PICK m \in B : \A k \in B : ~(<<k, m>> \in R)
  <2>1. IsWellFoundedOn(R, Nat)
    BY NatLessThanWellFounded DEF OpToRel
  <2> HIDE DEF B, R
  <2> QED BY <1>1, <2>1, WFMin
<1>3. m - 1 \in Nat /\ m - 1 < m
  <2>1. m \in Nat /\ m # 0
    OBVIOUS
  <2> QED BY <2>1
<1>4. m - 1 \notin B
  <2> SUFFICES ASSUME m - 1 \in B PROVE FALSE
    OBVIOUS
  <2>1. <<m - 1, m>> \in R
    BY <1>3
  <2> QED BY <1>2, <2>1
<1>5. (m - 1) + 1 = m
  OBVIOUS
<1> QED BY <1>3, <1>4, <1>5

(* The greatest of some of the first numbers is one of them.               *)
LEMMA MaxIsIn ==
  ASSUME NEW n \in Nat, NEW s \in SUBSET (1 .. n), s # {}
  PROVE  Max(s) \in s
<1> DEFINE Bound == {k \in Nat : \A t \in SUBSET s :
                       t # {} /\ (\A x \in t : x <= k) => \E m \in t : \A x \in t : m >= x}
<1>1. 0 \in Bound
  <2>1. \A x \in s : ~(x <= 0)
    OBVIOUS
  <2> QED BY <2>1
<1>2. ASSUME NEW k \in Bound PROVE k + 1 \in Bound
  <2> SUFFICES ASSUME NEW t \in SUBSET s, t # {}, \A x \in t : x <= k + 1
               PROVE  \E m \in t : \A x \in t : m >= x
    OBVIOUS
  <2>1. CASE k + 1 \in t
    BY <2>1
  <2>2. CASE k + 1 \notin t
    <3>1. \A x \in t : x <= k
      BY <2>2
    <3> QED BY <3>1
  <2> QED BY <2>1, <2>2
<1>3. n \in Bound
  <2> HIDE DEF Bound
  <2>1. Bound \in SUBSET Nat
    BY DEF Bound
  <2> QED BY <1>1, <1>2, <2>1, AllNumbers
<1>4. \E m \in s : \A x \in s : m >= x
  BY <1>3
<1> QED BY <1>4 DEF Max

(* h adds f over any part of S, whichever element is taken first.          *)
IsSum(h, f, S) ==
  /\ h \in [SUBSET S -> Int] /\ h[{}] = 0
  /\ \A s \in SUBSET S : \A x \in s : h[s] = f[x] + h[s \ {x}]

LEMMA SumExists ==
  ASSUME NEW S, IsFiniteSet(S), NEW f \in [S -> Int]
  PROVE  \E h : IsSum(h, f, S)
<1> DEFINE G == {n \in Nat : \A T \in SUBSET S :
                   Cardinality(T) = n => \E h : IsSum(h, f, T)}
<1>0. \A T \in SUBSET S : IsFiniteSet(T) /\ Cardinality(T) \in Nat
  BY FS_Subset, FS_CardinalityType
<1>1. 0 \in G
  <2> SUFFICES ASSUME NEW T \in SUBSET S, Cardinality(T) = 0 PROVE \E h : IsSum(h, f, T)
    OBVIOUS
  <2>1. T = {}
    BY <1>0, FS_EmptySet
  <2>2. IsSum([s \in SUBSET T |-> 0], f, T)
    BY <2>1 DEF IsSum
  <2> QED BY <2>2
<1>2. ASSUME NEW n \in G PROVE n + 1 \in G
  <2> SUFFICES ASSUME NEW T \in SUBSET S, Cardinality(T) = n + 1
               PROVE  \E h : IsSum(h, f, T)
    OBVIOUS
  <2>1. PICK z : z \in T
    <3>1. n \in Nat /\ n + 1 # 0
      OBVIOUS
    <3>2. T # {}
      BY <3>1, FS_EmptySet
    <3> QED BY <3>2
  <2>2. PICK h : IsSum(h, f, T \ {z})
    <3>1. Cardinality(T \ {z}) = n
      BY <1>0, <2>1, FS_RemoveElement
    <3> QED BY <3>1
  <2> DEFINE g == [s \in SUBSET T |-> IF z \in s THEN f[z] + h[s \ {z}] ELSE h[s]]
  <2>3. g \in [SUBSET T -> Int]
    <3> SUFFICES ASSUME NEW s \in SUBSET T
                 PROVE  (IF z \in s THEN f[z] + h[s \ {z}] ELSE h[s]) \in Int
      OBVIOUS
    <3>1. f[z] \in Int /\ h[s \ {z}] \in Int /\ (z \notin s => h[s] \in Int)
      BY <2>1, <2>2 DEF IsSum
    <3> QED BY <3>1
  <2>4. g[{}] = 0
    BY <2>2 DEF IsSum
  <2>5. ASSUME NEW s \in SUBSET T, NEW x \in s PROVE g[s] = f[x] + g[s \ {x}]
    <3>1. CASE x = z
      <4>1. g[s] = f[z] + h[s \ {z}] /\ g[s \ {z}] = h[s \ {z}]
        BY <3>1
      <4> QED BY <3>1, <4>1
    <3>2. CASE x # z /\ z \notin s
      <4>1. g[s] = h[s] /\ g[s \ {x}] = h[s \ {x}] /\ s \in SUBSET (T \ {z})
        BY <3>2
      <4> QED BY <2>2, <4>1 DEF IsSum
    <3>3. CASE x # z /\ z \in s
      <4>1. PICK r : r = s \ {z}
        OBVIOUS
      <4>2. r \in SUBSET (T \ {z}) /\ x \in r /\ (s \ {x}) \ {z} = r \ {x}
        BY <3>3, <4>1
      <4>3. h[r] = f[x] + h[r \ {x}]
        BY <2>2, <4>2 DEF IsSum
      <4>4. g[s] = f[z] + h[r] /\ g[s \ {x}] = f[z] + h[r \ {x}]
        <5>1. s \ {x} \in SUBSET T /\ z \in s \ {x}
          BY <3>3
        <5> QED BY <3>3, <4>1, <4>2, <5>1
      <4>5. f[z] \in Int /\ f[x] \in Int /\ h[r \ {x}] \in Int
        BY <2>1, <2>2, <4>2 DEF IsSum
      <4> HIDE DEF g
      <4> QED BY <4>3, <4>4, <4>5
    <3> QED BY <3>1, <3>2, <3>3
  <2> HIDE DEF g
  <2>6. IsSum(g, f, T)
    BY <2>3, <2>4, <2>5 DEF IsSum
  <2> QED BY <2>6
<1>3. Cardinality(S) \in G
  <2> HIDE DEF G
  <2>1. G \in SUBSET Nat
    BY DEF G
  <2> QED BY <1>0, <1>1, <1>2, <2>1, AllNumbers
<1> QED BY <1>3

(* Two functions that agree on a set as soon as they agree on it without   *)
(* one of its elements are equal.                                          *)
LEMMA SameByRemoval ==
  ASSUME NEW S, IsFiniteSet(S), NEW g, NEW h, g[{}] = h[{}],
         \A s \in SUBSET S : s # {} =>
           \E x \in s : g[s \ {x}] = h[s \ {x}] => g[s] = h[s]
  PROVE  g[S] = h[S]
<1> DEFINE G == {n \in Nat : \A T \in SUBSET S : Cardinality(T) = n => g[T] = h[T]}
<1>0. \A T \in SUBSET S : IsFiniteSet(T) /\ Cardinality(T) \in Nat
  BY FS_Subset, FS_CardinalityType
<1>1. 0 \in G
  BY <1>0, FS_EmptySet
<1>2. ASSUME NEW n \in G PROVE n + 1 \in G
  <2> SUFFICES ASSUME NEW T \in SUBSET S, Cardinality(T) = n + 1 PROVE g[T] = h[T]
    OBVIOUS
  <2>0. n \in Nat /\ n + 1 # 0 /\ (n + 1) - 1 = n
    OBVIOUS
  <2>1. T # {}
    BY <2>0, FS_EmptySet
  <2>2. PICK x \in T : g[T \ {x}] = h[T \ {x}] => g[T] = h[T]
    BY <2>1
  <2>3. Cardinality(T \ {x}) = n
    BY <1>0, <2>0, FS_RemoveElement
  <2> QED BY <2>2, <2>3
<1>3. Cardinality(S) \in G
  <2> HIDE DEF G
  <2>1. G \in SUBSET Nat
    BY DEF G
  <2> QED BY <1>0, <1>1, <1>2, <2>1, AllNumbers
<1> QED BY <1>3

(* g adds e up over S an arbitrary element at a time, as the library does. *)
AnyOf(s) == CHOOSE x \in s : TRUE
SumOfSet(g, e, S) ==
  \A s \in SUBSET S : g[s] = IF s = {} THEN 0 ELSE e[AnyOf(s)] + g[s \ {AnyOf(s)}]

(* Any such g ends with the sum.                                           *)
LEMMA SetSum ==
  ASSUME NEW S, IsFiniteSet(S), NEW e, NEW h, IsSum(h, e, S)
  PROVE  /\ SumOfSet(h, e, S)
         /\ \A g : SumOfSet(g, e, S) => g[S] = h[S]
<1>1. \A s \in SUBSET S : s # {} => AnyOf(s) \in s
  BY DEF AnyOf
<1>2. SumOfSet(h, e, S)
  BY <1>1 DEF IsSum, SumOfSet
<1>3. ASSUME NEW g, SumOfSet(g, e, S) PROVE g[S] = h[S]
  <2>1. g[{}] = h[{}]
    BY <1>2, <1>3 DEF SumOfSet
  <2>2. ASSUME NEW s \in SUBSET S, s # {}
        PROVE  \E x \in s : g[s \ {x}] = h[s \ {x}] => g[s] = h[s]
    <3>1. /\ g[s] = e[AnyOf(s)] + g[s \ {AnyOf(s)}]
          /\ h[s] = e[AnyOf(s)] + h[s \ {AnyOf(s)}]
      BY <1>2, <1>3, <2>2 DEF SumOfSet
    <3>2. g[s \ {AnyOf(s)}] = h[s \ {AnyOf(s)}] => g[s] = h[s]
      BY <3>1
    <3> QED BY <1>1, <2>2, <3>2
  <2> QED BY <2>1, <2>2, SameByRemoval
<1> QED BY <1>2, <1>3

(* g adds e up over what the list t holds, from its last element down.     *)
SumOfList(g, e, t) ==
  \A d \in SUBSET DOMAIN t :
    g[d] = IF d = {} THEN 0 ELSE g[d \ {Max(d)}] + e[t[Max(d)]]

(* Over a list without repeats it ends with the sum over the set of what   *)
(* the list holds.                                                         *)
LEMMA ListSum ==
  ASSUME NEW S, NEW t \in Seq(S), IsInjective(t),
         NEW e \in [ToSet(t) -> Int], NEW h, IsSum(h, e, ToSet(t))
  PROVE  /\ \E H \in [SUBSET DOMAIN t -> Int] : SumOfList(H, e, t)
         /\ \A g : SumOfList(g, e, t) => g[DOMAIN t] = h[ToSet(t)]
<1> DEFINE D == DOMAIN t
           img(d) == {t[i] : i \in d}
           H == [d \in SUBSET D |-> h[img(d)]]
<1>1. Len(t) \in Nat /\ D = 1 .. Len(t) /\ ToSet(t) = img(D)
  BY LenProperties DEF ToSet
<1>2. IsFiniteSet(D)
  <2> HIDE DEF D
  <2> QED BY <1>1, FS_Interval
<1>3. \A d \in SUBSET D : d # {} => Max(d) \in d
  <2> HIDE DEF D
  <2> QED BY <1>1, MaxIsIn
<1>4. \A d \in SUBSET D : \A i \in d :
        /\ img(d \ {i}) = img(d) \ {t[i]} /\ img(d) \in SUBSET ToSet(t)
        /\ t[i] \in img(d)
  BY DEF ToSet, IsInjective
<1>5. ASSUME NEW d \in SUBSET D, NEW i \in d
      PROVE  H[d] = H[d \ {i}] + e[t[i]]
  <2>1. d \ {i} \in SUBSET D
    OBVIOUS
  <2>2. H[d] = h[img(d)] /\ H[d \ {i}] = h[img(d) \ {t[i]}]
    <3>1. img(d \ {i}) = img(d) \ {t[i]}
      BY <1>4
    <3> HIDE DEF img
    <3> QED BY <2>1, <3>1
  <2>3. img(d) \in SUBSET ToSet(t) /\ t[i] \in img(d)
    BY <1>4
  <2> HIDE DEF H, img
  <2>4. h[img(d)] = e[t[i]] + h[img(d) \ {t[i]}]
    BY <2>3 DEF IsSum
  <2>5. h[img(d) \ {t[i]}] \in Int /\ e[t[i]] \in Int
    BY <2>3 DEF IsSum
  <2> QED BY <2>2, <2>4, <2>5
<1>6. H[{}] = 0
  <2>1. img({}) = {}
    OBVIOUS
  <2> HIDE DEF img
  <2> QED BY <2>1 DEF IsSum
<1>7. H \in [SUBSET D -> Int]
  <2>1. \A d \in SUBSET D : h[img(d)] \in Int
    <3>1. \A d \in SUBSET D : img(d) \in SUBSET ToSet(t)
      BY DEF ToSet
    <3> HIDE DEF img
    <3> QED BY <3>1 DEF IsSum
  <2> HIDE DEF img
  <2> QED BY <2>1
<1>8. H[D] = h[ToSet(t)]
  <2> HIDE DEF img
  <2> QED BY <1>1
<1> HIDE DEF H, img
<1>9. SumOfList(H, e, t)
  BY <1>3, <1>5, <1>6 DEF SumOfList
<1>10. ASSUME NEW g, SumOfList(g, e, t) PROVE g[D] = H[D]
  <2>1. g[{}] = H[{}]
    BY <1>6, <1>10 DEF SumOfList
  <2>2. ASSUME NEW d \in SUBSET D, d # {}
        PROVE  \E i \in d : g[d \ {i}] = H[d \ {i}] => g[d] = H[d]
    <3>1. /\ g[d] = g[d \ {Max(d)}] + e[t[Max(d)]]
          /\ H[d] = H[d \ {Max(d)}] + e[t[Max(d)]]
      BY <1>9, <1>10, <2>2 DEF SumOfList
    <3>2. g[d \ {Max(d)}] = H[d \ {Max(d)}] => g[d] = H[d]
      BY <3>1
    <3> QED BY <1>3, <2>2, <3>2
  <2> HIDE DEF D
  <2> QED BY <1>2, <2>1, <2>2, SameByRemoval
<1> QED BY <1>7, <1>8, <1>9, <1>10

(* The set of what a list of cells holds is finite, and as large as the    *)
(* list is long if none repeats.                                           *)
LEMMA ListSize ==
  ASSUME NEW t \in Seq(Indices)
  PROVE  /\ ToSet(t) \subseteq Indices /\ IsFiniteSet(ToSet(t))
         /\ IsInjective(t) =>
              Len(t) = Cardinality(ToSet(t)) /\ Len(t) \in 0 .. Width * Height
<1> DEFINE n == Len(t)
<1>1. /\ n \in Nat /\ DOMAIN t = 1 .. n /\ t \in [1 .. n -> Indices]
      /\ ToSet(t) = {t[i] : i \in 1 .. n}
  <2>1. t \in [1 .. Len(t) -> Indices] /\ Len(t) \in Nat
    BY LenProperties
  <2> QED BY <2>1 DEF ToSet
<1> HIDE DEF n
<1>2. ToSet(t) \subseteq Indices
  BY <1>1
<1>3. IsFiniteSet(Indices) /\ Cardinality(Indices) = Width * Height /\ Width * Height \in Nat
  <2>1. Width \in Nat \ {0} /\ Height \in Nat \ {0}
    BY GridAssumption
  <2>2. Width * Height \in Nat
    BY <2>1
  <2>3. PICK m : m = Width * Height
    OBVIOUS
  <2>4. IsFiniteSet(0 .. m - 1) /\ Cardinality(0 .. m - 1) = m
    <3>1. m \in Nat /\ 0 \in Int /\ m - 1 \in Int
      BY <2>2, <2>3
    <3>2. /\ IsFiniteSet(0 .. m - 1)
          /\ Cardinality(0 .. m - 1) = IF 0 > m - 1 THEN 0 ELSE m - 1 - 0 + 1
      BY <3>1, FS_Interval
    <3> QED BY <3>1, <3>2
  <2> QED BY <2>2, <2>3, <2>4 DEF Indices
<1>4. IsFiniteSet(ToSet(t)) /\ Cardinality(ToSet(t)) <= Width * Height
  BY <1>2, <1>3, FS_Subset
<1>5. ASSUME IsInjective(t) PROVE Cardinality(ToSet(t)) = n
  <2>1. t \in Bijection(1 .. n, ToSet(t))
    BY <1>1, <1>5 DEF Bijection, Injection, Surjection, IsInjective
  <2>2. ExistsBijection(1 .. n, ToSet(t))
    BY <2>1 DEF ExistsBijection
  <2>3. IsFiniteSet(1 .. n) /\ Cardinality(1 .. n) = n
    <3>1. /\ IsFiniteSet(1 .. n)
          /\ Cardinality(1 .. n) = IF 1 > n THEN 0 ELSE n - 1 + 1
      BY <1>1, FS_Interval
    <3> QED BY <1>1, <3>1
  <2> QED BY <2>2, <2>3, FS_Bijection
<1> QED BY <1>1, <1>2, <1>3, <1>4, <1>5 DEF n

(* The code sorts by the promised distance to the centroid.                *)
LEMMA KeyIs ==
  ASSUME cells \in Seq(Indices), IsInjective(cells), NEW c \in Indices
  PROVE  key(c) = Clusters!OffCentre(c, ToSet(cells)) /\ key(c) \in Nat
<1> DEFINE S == ToSet(cells)
<1>1. /\ S \subseteq Indices /\ IsFiniteSet(S) /\ Len(cells) = Cardinality(S)
      /\ Len(cells) \in Nat
  BY ListSize
<1>2. \A i \in Indices : X(i) \in Int /\ Y(i) \in Int
  BY Coordinates
<1>3. Total(X, cells) = Clusters!MapThenSumSet(X, S) /\ Total(X, cells) \in Int
  <2> DEFINE e == [i \in S |-> X(i)]
             D == DOMAIN cells
             Up(g) == [s \in SUBSET S |->
                         IF s = {} THEN 0 ELSE X(AnyOf(s)) + g[s \ {AnyOf(s)}]]
             Down(g) == [d \in SUBSET D |->
                           IF d = {} THEN 0 ELSE g[d \ {Max(d)}] + X(cells[Max(d)])]
             set == CHOOSE g : g = Up(g)
             list == CHOOSE g : g = Down(g)
  <2>1. Clusters!MapThenSumSet(X, S) = set[S]
    BY DEF Clusters!MapThenSumSet, Clusters!MapThenFoldSet, AnyOf
  <2>2. Total(X, cells) = list[D]
    BY DEF Total, FoldLeft, MapThenFoldSet
  <2>3. e \in [S -> Int]
    BY <1>1, <1>2
  <2>4. PICK h : IsSum(h, e, S)
    <3> HIDE DEF e, S
    <3> QED BY <1>1, <2>3, SumExists
  <2>5. h \in [SUBSET S -> Int]
    BY <2>4 DEF IsSum
  <2>6. SumOfSet(h, e, S) /\ \A g : SumOfSet(g, e, S) => g[S] = h[S]
    <3> HIDE DEF e, S
    <3> QED BY <1>1, <2>4, SetSum
  <2>7. /\ \E H \in [SUBSET D -> Int] : SumOfList(H, e, cells)
        /\ \A g : SumOfList(g, e, cells) => g[D] = h[S]
    <3> HIDE DEF e
    <3> QED BY <2>3, <2>4, ListSum
  <2>8. \A s \in SUBSET S : s # {} => e[AnyOf(s)] = X(AnyOf(s))
    BY DEF AnyOf
  <2>9. \A d \in SUBSET D : d # {} => e[cells[Max(d)]] = X(cells[Max(d)])
    <3>1. \A d \in SUBSET D : d # {} => Max(d) \in D
      <4>1. Len(cells) \in Nat /\ D = 1 .. Len(cells)
        BY LenProperties
      <4> HIDE DEF D
      <4> QED BY <4>1, MaxIsIn
    <3> QED BY <3>1 DEF ToSet
  <2> HIDE DEF e, S, D
  <2>10. set = Up(set)
    <3>1. h = Up(h)
      BY <2>5, <2>6, <2>8 DEF SumOfSet
    <3> HIDE DEF Up
    <3> QED BY <3>1
  <2>11. list = Down(list)
    <3>1. PICK H \in [SUBSET D -> Int] : SumOfList(H, e, cells)
      BY <2>7
    <3>2. H = Down(H)
      BY <2>9, <3>1 DEF SumOfList, D
    <3> HIDE DEF Down
    <3> QED BY <3>2
  <2> HIDE DEF set, list
  <2>12. SumOfSet(set, e, S)
    BY <2>8, <2>10 DEF SumOfSet
  <2>13. SumOfList(list, e, cells)
    BY <2>9, <2>11 DEF SumOfList, D
  <2> QED BY <2>1, <2>2, <2>5, <2>6, <2>7, <2>12, <2>13
<1>4. Total(Y, cells) = Clusters!MapThenSumSet(Y, S) /\ Total(Y, cells) \in Int
  <2> DEFINE e == [i \in S |-> Y(i)]
             D == DOMAIN cells
             Up(g) == [s \in SUBSET S |->
                         IF s = {} THEN 0 ELSE Y(AnyOf(s)) + g[s \ {AnyOf(s)}]]
             Down(g) == [d \in SUBSET D |->
                           IF d = {} THEN 0 ELSE g[d \ {Max(d)}] + Y(cells[Max(d)])]
             set == CHOOSE g : g = Up(g)
             list == CHOOSE g : g = Down(g)
  <2>1. Clusters!MapThenSumSet(Y, S) = set[S]
    BY DEF Clusters!MapThenSumSet, Clusters!MapThenFoldSet, AnyOf
  <2>2. Total(Y, cells) = list[D]
    BY DEF Total, FoldLeft, MapThenFoldSet
  <2>3. e \in [S -> Int]
    BY <1>1, <1>2
  <2>4. PICK h : IsSum(h, e, S)
    <3> HIDE DEF e, S
    <3> QED BY <1>1, <2>3, SumExists
  <2>5. h \in [SUBSET S -> Int]
    BY <2>4 DEF IsSum
  <2>6. SumOfSet(h, e, S) /\ \A g : SumOfSet(g, e, S) => g[S] = h[S]
    <3> HIDE DEF e, S
    <3> QED BY <1>1, <2>4, SetSum
  <2>7. /\ \E H \in [SUBSET D -> Int] : SumOfList(H, e, cells)
        /\ \A g : SumOfList(g, e, cells) => g[D] = h[S]
    <3> HIDE DEF e
    <3> QED BY <2>3, <2>4, ListSum
  <2>8. \A s \in SUBSET S : s # {} => e[AnyOf(s)] = Y(AnyOf(s))
    BY DEF AnyOf
  <2>9. \A d \in SUBSET D : d # {} => e[cells[Max(d)]] = Y(cells[Max(d)])
    <3>1. \A d \in SUBSET D : d # {} => Max(d) \in D
      <4>1. Len(cells) \in Nat /\ D = 1 .. Len(cells)
        BY LenProperties
      <4> HIDE DEF D
      <4> QED BY <4>1, MaxIsIn
    <3> QED BY <3>1 DEF ToSet
  <2> HIDE DEF e, S, D
  <2>10. set = Up(set)
    <3>1. h = Up(h)
      BY <2>5, <2>6, <2>8 DEF SumOfSet
    <3> HIDE DEF Up
    <3> QED BY <3>1
  <2>11. list = Down(list)
    <3>1. PICK H \in [SUBSET D -> Int] : SumOfList(H, e, cells)
      BY <2>7
    <3>2. H = Down(H)
      BY <2>9, <3>1 DEF SumOfList, D
    <3> HIDE DEF Down
    <3> QED BY <3>2
  <2> HIDE DEF set, list
  <2>12. SumOfSet(set, e, S)
    BY <2>8, <2>10 DEF SumOfSet
  <2>13. SumOfList(list, e, cells)
    BY <2>9, <2>11 DEF SumOfList, D
  <2> QED BY <2>1, <2>2, <2>5, <2>6, <2>7, <2>12, <2>13
<1>5. /\ Clusters!MapThenSumSet(Clusters!Col, S) = Clusters!MapThenSumSet(X, S)
      /\ Clusters!MapThenSumSet(Clusters!Row, S) = Clusters!MapThenSumSet(Y, S)
  BY DEF Clusters!MapThenSumSet, Clusters!MapThenFoldSet, Clusters!Col, Clusters!Row, X, Y
<1> DEFINE dx == Len(cells) * X(c) - Total(X, cells)
           dy == Len(cells) * Y(c) - Total(Y, cells)
<1>6. dx \in Int /\ dy \in Int
  <2>1. PICK n, p, q : n = Len(cells) /\ p = X(c) /\ q = Y(c)
    OBVIOUS
  <2>2. PICK t, r : t = Total(X, cells) /\ t \in Int /\ r = Total(Y, cells) /\ r \in Int
    BY <1>3, <1>4, Zenon
  <2>3. n \in Int /\ p \in Int /\ q \in Int
    BY <1>1, <1>2, <2>1
  <2>4. t \in Int /\ r \in Int
    BY <2>2, Zenon
  <2>5. n * p - t \in Int /\ n * q - r \in Int
    BY <2>3, <2>4
  <2> QED BY <2>1, <2>2, <2>5, Zenon
<1>7. key(c) = dx * dx + dy * dy
  BY DEF key
<1>8. Clusters!OffCentre(c, S) = dx * dx + dy * dy
  BY <1>1, <1>3, <1>4, <1>5, SameWords DEF Clusters!OffCentre, Clusters!Square
<1> HIDE DEF dx, dy, S
<1>9. key(c) = Clusters!OffCentre(c, S) /\ key(c) \in Nat
  BY <1>6, <1>7, <1>8
<1> QED BY <1>9 DEF S

-----------------------------------------------------------------------------
(* ---- the goal of a cluster ---- *)

LEMMA Least ==
  ASSUME NEW B \in SUBSET Nat, B # {}
  PROVE  \E m \in B : \A k \in B : m <= k
<1> DEFINE G == {n \in Nat : \A k \in B : n <= k}
<1> SUFFICES ASSUME \A m \in B : \E k \in B : ~(m <= k) PROVE FALSE
  OBVIOUS
<1>1. 0 \in G
  OBVIOUS
<1>2. ASSUME NEW n \in G PROVE n + 1 \in G
  <2>1. \A k \in B : n <= k /\ n # k
    OBVIOUS
  <2>2. \A k \in Nat : n <= k /\ n # k => n + 1 <= k
    OBVIOUS
  <2> QED BY <2>1, <2>2
<1>3. G = Nat
  <2>1. G \in SUBSET Nat
    OBVIOUS
  <2> HIDE DEF G
  <2> QED BY <1>1, <1>2, <2>1, AllNumbers
<1>4. PICK k \in B : TRUE
  OBVIOUS
<1>5. k + 1 \in G
  BY <1>3
<1> QED BY <1>5

(* The first of the sorted list is a goal as central as any other.         *)
LEMMA Chosen ==
  ASSUME data \in [Indices -> Int], cells \in Seq(Indices), IsInjective(cells)
  PROVE  /\ ranked = {} <=> Clusters!Goals(ToSet(cells)) = {}
         /\ ranked # {} => /\ Nearest(ranked) \in Indices
                           /\ Nearest(ranked) \in Clusters!Central(ToSet(cells))
<1> DEFINE S == ToSet(cells)
           K == ranked
<1>1. /\ Len(cells) \in Nat /\ DOMAIN cells = 1 .. Len(cells)
      /\ \A k \in DOMAIN cells : cells[k] \in Indices /\ cells[k] \in S
      /\ S = {cells[k] : k \in DOMAIN cells}
  BY LenProperties, ElementOfSeq DEF ToSet
<1>2. Clusters!Goals(S) = {cells[k] : k \in K}
  <2>1. \A k \in DOMAIN cells :
          has_clearance(cells[k], min_clear) <=> Clusters!Standable(cells[k])
    BY <1>1, ClearanceIs
  <2>2. Clusters!Goals(S) = {c \in S : min_clear > 0 => Clusters!Standable(c)}
    BY DEF Clusters!Goals
  <2> HIDE DEF S
  <2> QED BY <1>1, <2>1, <2>2 DEF ranked
<1>3. \A k \in K : k \in DOMAIN cells /\ k \in Nat
  BY <1>1 DEF ranked
<1> HIDE DEF K
<1>4. \A k \in DOMAIN cells : key(cells[k]) \in Nat
  <2>1. \A c \in Indices : key(c) \in Nat
    BY KeyIs
  <2> QED BY <1>1, <2>1
<1>5. ASSUME K # {}
      PROVE  \E k \in K : \A j \in K :
               \/ key(cells[k]) < key(cells[j])
               \/ key(cells[k]) = key(cells[j]) /\ k <= j
  <2> DEFINE B == {key(cells[k]) : k \in K}
  <2>1. B \in SUBSET Nat /\ B # {}
    BY <1>3, <1>4, <1>5
  <2>2. PICK m \in B : \A b \in B : m <= b
    <3> HIDE DEF B
    <3> QED BY <2>1, Least
  <2> DEFINE N == {k \in K : key(cells[k]) = m}
  <2>3. N \in SUBSET Nat /\ N # {}
    BY <1>3
  <2>4. PICK k \in N : \A j \in N : k <= j
    <3> HIDE DEF N
    <3> QED BY <2>3, Least
  <2>5. ASSUME NEW j \in K
        PROVE  \/ key(cells[k]) < key(cells[j])
               \/ key(cells[k]) = key(cells[j]) /\ k <= j
    <3>1. key(cells[k]) = m /\ m \in Nat /\ m <= key(cells[j]) /\ key(cells[j]) \in Nat
      BY <1>3, <1>4, <2>2, <2>4
    <3>2. CASE j \in N
      BY <2>4, <3>1, <3>2
    <3>3. CASE j \notin N
      BY <3>1, <3>3
    <3> QED BY <3>2, <3>3
  <2> QED BY <2>4, <2>5
<1>6. ASSUME K # {} PROVE Nearest(K) \in Indices /\ Nearest(K) \in Clusters!Central(S)
  <2> DEFINE First(k) == \A j \in K : \/ key(cells[k]) < key(cells[j])
                                      \/ key(cells[k]) = key(cells[j]) /\ k <= j
             k == CHOOSE k \in K : First(k)
  <2>1. k \in K /\ First(k)
    BY <1>5, <1>6
  <2>2. Nearest(K) = cells[k]
    BY DEF Nearest
  <2> HIDE DEF k
  <2>3. \A j \in K : key(cells[k]) <= key(cells[j])
    BY <1>3, <1>4, <2>1
  <2>4. \A j \in K : key(cells[j]) = Clusters!OffCentre(cells[j], S)
    BY <1>1, <1>3, KeyIs
  <2> HIDE DEF S
  <2> QED BY <1>1, <1>2, <1>3, <2>1, <2>2, <2>3, <2>4 DEF Clusters!Central
<1> HIDE DEF S
<1>7. /\ K = {} <=> Clusters!Goals(S) = {}
      /\ K # {} => Nearest(K) \in Indices /\ Nearest(K) \in Clusters!Central(S)
  BY <1>2, <1>6
<1> QED BY <1>7 DEF K, S

-----------------------------------------------------------------------------
(* ---- components ---- *)

LEMMA ComponentIs ==
  ASSUME NEW S
  PROVE  S \in Clusters!Components <=>
           /\ S \in SUBSET Clusters!Frontier /\ S # {} /\ Clusters!Closed(S)
           /\ \A R \in SUBSET Clusters!Frontier :
                R # {} /\ Clusters!Closed(R) /\ R \subseteq S => R = S
BY DEF Clusters!Components

(* A closed set holds all of a component or nothing of it.                 *)
LEMMA ComponentWhole ==
  ASSUME NEW S \in Clusters!Components, NEW R \in SUBSET Clusters!Frontier,
         Clusters!Closed(R), S \cap R # {}
  PROVE  S \subseteq R
<1>1. S \cap R \in SUBSET Clusters!Frontier /\ Clusters!Closed(S \cap R)
  BY ComponentIs DEF Clusters!Closed
<1>2. S \cap R = S
  BY <1>1, ComponentIs
<1> QED BY <1>2

-----------------------------------------------------------------------------
(* ---- the inductive invariant ---- *)

Cur == ToSet(cells \o queue)
Covered == seen \ Cur

Types ==
  /\ data \in Grids /\ start \in 0 .. Width * Height
  /\ queue \in Seq(Indices) /\ cells \in Seq(Indices)
  /\ clusters \in Seq(Indices \X (1 .. Width * Height))
  /\ IsInjective(cells \o queue) /\ Cur \subseteq seen /\ seen \subseteq Clusters!Frontier

(* What was looked at has no neighbour outside; the neighbours of what left*)
(* the queue are seen; the cluster being gathered is all of one component. *)
Whole ==
  /\ \A c \in Covered, d \in Clusters!Frontier : Clusters!Touch(c, d) => d \in Covered
  /\ \A c \in ToSet(cells), d \in Clusters!Frontier : Clusters!Touch(c, d) => d \in seen
  /\ \A R \in SUBSET Clusters!Frontier :
       Clusters!Closed(R) /\ R \cap Cur # {} => Cur \subseteq R

(* The outer loop leaves no cell behind, and gathers the cluster of start. *)
NoneLeftOut ==
  /\ \A i \in Clusters!Frontier : i < start => i \in seen
  /\ Cur # {} => start \in Indices /\ start \in Cur

(* The list is empty as long as nothing worth a goal was looked at.        *)
Offered ==
  clusters = <<>> <=>
    \A S \in Clusters!Components : S \subseteq Covered => ~Clusters!Worthwhile(S)

SearchInv == Types /\ Whole /\ NoneLeftOut /\ Offered

LEMMA GridType ==
  ASSUME data \in Grids
  PROVE  data \in [Indices -> Int]
BY GridAssumption DEF Indices

(* Nothing but the grid decides what is a frontier, a component, a goal.   *)
LEMMA SameGrid ==
  ASSUME UNCHANGED data
  PROVE  /\ Clusters!Frontier' = Clusters!Frontier
         /\ Clusters!Components' = Clusters!Components
         /\ \A S : Clusters!Closed(S)' <=> Clusters!Closed(S)
         /\ \A S : Clusters!Worthwhile(S)' <=> Clusters!Worthwhile(S)
<1>1. Clusters!Frontier' = Clusters!Frontier
  BY DEF Clusters!Frontier, Clusters!Free
<1>2. \A S : Clusters!Closed(S)' <=> Clusters!Closed(S)
  BY <1>1 DEF Clusters!Closed
<1>3. Clusters!Components' = Clusters!Components
  BY <1>1, <1>2 DEF Clusters!Components
<1>4. \A c : Clusters!Standable(c)' <=> Clusters!Standable(c)
  BY DEF Clusters!Standable, Clusters!Occupied
<1>5. \A S : Clusters!Goals(S)' = Clusters!Goals(S)
  BY <1>4 DEF Clusters!Goals
<1>6. \A S : Clusters!Worthwhile(S)' <=> Clusters!Worthwhile(S)
  BY <1>5 DEF Clusters!Worthwhile
<1> QED BY <1>1, <1>2, <1>3, <1>6

(* The cluster being gathered, and whether there is one.                   *)
LEMMA CurIs ==
  ASSUME queue \in Seq(Indices), cells \in Seq(Indices)
  PROVE  /\ cells \o queue \in Seq(Indices)
         /\ Cur = ToSet(cells) \cup ToSet(queue)
         /\ Cur = {} <=> queue = <<>> /\ cells = <<>>
         /\ queue = <<>> => cells \o queue = cells /\ Cur = ToSet(cells)
         /\ Cur \subseteq Indices
<1>1. cells \o queue \in Seq(Indices) /\ Cur = ToSet(cells) \cup ToSet(queue)
  BY Joined DEF Cur
<1>2. \A t \in Seq(Indices) : ToSet(t) = {} <=> t = <<>>
  <2> SUFFICES ASSUME NEW t \in Seq(Indices), t # <<>> PROVE ToSet(t) # {}
    BY DEF ToSet
  <2>1. Len(t) \in Nat \ {0} /\ DOMAIN t = 1 .. Len(t)
    BY EmptySeq, LenProperties
  <2>2. 1 \in DOMAIN t
    BY <2>1
  <2>3. t[1] \in ToSet(t)
    BY <2>2 DEF ToSet
  <2> QED BY <2>3
<1>3. queue = <<>> => cells \o queue = cells
  BY ConcatEmptySeq
<1>4. Cur \subseteq Indices
  BY <1>1, ListSize
<1> QED BY <1>1, <1>2, <1>3, <1>4 DEF Cur

-----------------------------------------------------------------------------
(* ---- the steps ---- *)

LEMMA SearchInit ==
  ASSUME Init
  PROVE  SearchInv /\ Covered = {}
<1>1. /\ data \in Grids /\ start = 0 /\ queue = <<>> /\ cells = <<>>
      /\ seen = {} /\ clusters = <<>>
  BY DEF Init
<1>2. start \in 0 .. Width * Height
  <2>1. Width \in Nat /\ Height \in Nat
    BY GridAssumption
  <2>2. Width * Height \in Nat
    BY <2>1
  <2> QED BY <1>1, <2>2
<1>3. queue \in Seq(Indices) /\ cells \in Seq(Indices)
  BY <1>1
<1>4. cells \o queue = <<>> /\ Cur = {}
  BY <1>1, <1>3, CurIs
<1>5. IsInjective(cells \o queue)
  BY <1>4 DEF IsInjective
<1>6. ToSet(cells) = {}
  BY <1>1 DEF ToSet
<1>7. clusters \in Seq(Indices \X (1 .. Width * Height))
  BY <1>1
<1>8. Types
  BY <1>1, <1>2, <1>3, <1>4, <1>5, <1>7 DEF Types
<1>9. Covered = {}
  BY <1>1 DEF Covered
<1>10. Whole
  BY <1>4, <1>6, <1>9 DEF Whole
<1>11. NoneLeftOut
  <2>1. \A i \in Clusters!Frontier : ~(i < 0)
    BY SameWords DEF Clusters!Frontier, Indices
  <2> QED BY <1>1, <1>4, <2>1 DEF NoneLeftOut
<1>12. Offered
  BY <1>1, <1>9, ComponentIs DEF Offered
<1> QED BY <1>8, <1>9, <1>10, <1>11, <1>12 DEF SearchInv

(* A cell that starts no cluster changes nothing that was gathered.        *)
LEMMA SkipStep ==
  ASSUME SearchInv, SkipStart
  PROVE  SearchInv' /\ UNCHANGED Clusters!vars
<1>1. /\ queue = <<>> /\ cells = <<>> /\ start \in Indices
      /\ ~is_frontier(start) \/ start \in seen
      /\ start' = start + 1
      /\ UNCHANGED <<data, queue, cells, seen, clusters>>
  BY DEF SkipStart, Idle
<1>2. /\ data \in [Indices -> Int] /\ Types /\ Whole /\ NoneLeftOut /\ Offered
      /\ queue \in Seq(Indices) /\ cells \in Seq(Indices)
  BY GridType DEF SearchInv, Types
<1>3. Cur' = Cur /\ Covered' = Covered /\ Clusters!Frontier' = Clusters!Frontier
  BY <1>1, SameGrid DEF Cur, Covered
<1>4. start' \in 0 .. Width * Height
  <2>1. Width * Height \in Nat
    BY GridAssumption
  <2> QED BY <1>1, <2>1 DEF Indices
<1>5. Types'
  BY <1>1, <1>2, <1>3, <1>4 DEF Types
<1>6. Whole'
  <2>1. ToSet(cells)' = ToSet(cells)
    BY <1>1
  <2> QED BY <1>1, <1>2, <1>3, <2>1, SameGrid DEF Whole
<1>7. NoneLeftOut'
  <2>1. Cur' = {}
    BY <1>1, <1>2, <1>3, CurIs
  <2>2. start \in Clusters!Frontier => start \in seen
    BY <1>1, <1>2, FrontierIs
  <2>3. \A i \in Clusters!Frontier : i < start + 1 => i < start \/ i = start
    <3>1. Clusters!Frontier \subseteq Int /\ start \in Int
      BY <1>1, SameWords DEF Clusters!Frontier, Indices
    <3> QED BY <3>1
  <2> QED BY <1>1, <1>2, <1>3, <2>1, <2>2, <2>3 DEF NoneLeftOut
<1>8. Offered'
  BY <1>1, <1>2, <1>3, SameGrid DEF Offered
<1> QED BY <1>1, <1>3, <1>5, <1>6, <1>7, <1>8 DEF SearchInv, Clusters!vars, Covered, Cur

(* The first cell of a cluster.                                            *)
LEMMA SeedStep ==
  ASSUME SearchInv, SeedStart
  PROVE  SearchInv' /\ UNCHANGED Clusters!vars
<1>1. /\ queue = <<>> /\ cells = <<>> /\ start \in Indices
      /\ is_frontier(start) /\ start \notin seen
      /\ queue' = <<start>> /\ seen' = seen \cup {start}
      /\ UNCHANGED <<data, start, cells, clusters>>
  BY DEF SeedStart, Idle
<1>2. /\ data \in [Indices -> Int] /\ Types /\ Whole /\ NoneLeftOut /\ Offered
      /\ queue \in Seq(Indices) /\ cells \in Seq(Indices)
  BY GridType DEF SearchInv, Types
<1>3. Cur = {} /\ Covered = seen
  BY <1>1, <1>2, CurIs DEF Covered
<1>4. /\ queue' \in Seq(Indices) /\ cells' \o queue' = <<start>> /\ Cur' = {start}
      /\ IsInjective(cells' \o queue') /\ ToSet(cells)' = {}
  <2>1. <<start>> \in Seq(Indices) /\ ToSet(<<start>>) = {start} /\ IsInjective(<<start>>)
    BY <1>1, Singles
  <2>2. cells' \o queue' = <<start>>
    BY <1>1, <2>1, ConcatEmptySeq
  <2>3. ToSet(cells)' = {}
    BY <1>1 DEF ToSet
  <2> QED BY <1>1, <2>1, <2>2, <2>3 DEF Cur
<1>5. Covered' = Covered
  BY <1>1, <1>3, <1>4 DEF Covered
<1>6. start \in Clusters!Frontier /\ Clusters!Frontier' = Clusters!Frontier
  BY <1>1, <1>2, FrontierIs, SameGrid
<1>7. Types'
  BY <1>1, <1>2, <1>4, <1>6 DEF Types
<1>8. Whole'
  BY <1>1, <1>2, <1>4, <1>5, <1>6, SameGrid DEF Whole
<1>9. NoneLeftOut'
  BY <1>1, <1>2, <1>4, <1>6 DEF NoneLeftOut
<1>10. Offered'
  BY <1>1, <1>2, <1>5, SameGrid DEF Offered
<1> QED BY <1>1, <1>5, <1>7, <1>8, <1>9, <1>10 DEF SearchInv, Clusters!vars, Covered, Cur

(* The head of a list moves to the end of another, and more is queued.     *)
LEMMA HeadMoved ==
  ASSUME NEW S, NEW q \in Seq(S), q # <<>>, NEW c \in Seq(S), NEW u \in Seq(S)
  PROVE  /\ Head(q) \in S /\ Head(q) \in ToSet(q)
         /\ Append(c, Head(q)) \in Seq(S)
         /\ ToSet(Append(c, Head(q))) = ToSet(c) \cup {Head(q)}
         /\ Tail(q) \o u \in Seq(S)
         /\ Append(c, Head(q)) \o (Tail(q) \o u) = (c \o q) \o u
<1>1. PICK h, r : h = Head(q) /\ r = Tail(q)
  OBVIOUS
<1>2. h \in S /\ r \in Seq(S)
  BY <1>1, HeadTailProperties
<1>3. PICK k : k = <<h>>
  OBVIOUS
<1>4. k \in Seq(S) /\ ToSet(k) = {h}
  BY <1>2, <1>3, Singles
<1>5. q = k \o r
  BY <1>1, <1>3
<1>6. Append(c, h) = c \o k
  BY <1>2, <1>3, AppendIsConcat
<1>7. /\ c \o k \in Seq(S) /\ ToSet(c \o k) = ToSet(c) \cup ToSet(k)
      /\ r \o u \in Seq(S) /\ ToSet(k \o r) = ToSet(k) \cup ToSet(r)
  BY <1>2, <1>4, Joined
<1>8. (c \o k) \o (r \o u) = ((c \o k) \o r) \o u
  <2>1. PICK m : m = c \o k
    OBVIOUS
  <2>2. (m \o r) \o u = m \o (r \o u)
    BY <1>2, <1>7, <2>1, ConcatAssociative
  <2> QED BY <2>1, <2>2
<1>9. (c \o k) \o r = c \o (k \o r)
  BY <1>2, <1>4, ConcatAssociative
<1> QED BY <1>1, <1>2, <1>4, <1>5, <1>6, <1>7, <1>8, <1>9

(* A cell leaves the queue, and its unseen neighbours join it.             *)
LEMMA VisitStep ==
  ASSUME SearchInv, VisitCell
  PROVE  SearchInv' /\ UNCHANGED Clusters!vars
<1> DEFINE h == Head(queue)
           u == Unseen(h)
           N == {j \in Clusters!Frontier : Clusters!Touch(h, j)}
<1>1. /\ queue # <<>>
      /\ cells' = Append(cells, h) /\ queue' = Tail(queue) \o u /\ seen' = seen \cup ToSet(u)
      /\ UNCHANGED <<data, start, clusters>>
  BY DEF VisitCell
<1>2. /\ data \in [Indices -> Int] /\ Types /\ Whole /\ NoneLeftOut /\ Offered
      /\ queue \in Seq(Indices) /\ cells \in Seq(Indices)
  BY GridType DEF SearchInv, Types
<1>3. h \in Indices /\ h \in ToSet(queue)
  BY <1>1, <1>2, HeadMoved
<1>4. u \in Seq(Indices) /\ IsInjective(u) /\ ToSet(u) = N \ seen
  <2> HIDE DEF h
  <2> QED BY <1>2, <1>3, UnseenIs
<1> HIDE DEF u, N
<1>5. /\ cells' \in Seq(Indices) /\ queue' \in Seq(Indices)
      /\ cells' \o queue' = (cells \o queue) \o u
      /\ ToSet(cells)' = ToSet(cells) \cup {h}
  <2>1. /\ Append(cells, h) \in Seq(Indices) /\ Tail(queue) \o u \in Seq(Indices)
        /\ ToSet(Append(cells, h)) = ToSet(cells) \cup {h}
        /\ Append(cells, h) \o (Tail(queue) \o u) = (cells \o queue) \o u
    <3>1. /\ queue # <<>> /\ queue \in Seq(Indices) /\ cells \in Seq(Indices)
          /\ u \in Seq(Indices)
      BY <1>1, <1>2, <1>4
    <3> QED BY <3>1, HeadMoved
  <2> HIDE DEF h
  <2> QED BY <1>1, <2>1
<1> HIDE DEF h
<1>6. h \in Cur /\ Cur \subseteq seen /\ seen \subseteq Clusters!Frontier
  BY <1>2, <1>3, CurIs DEF Types
<1>7. Cur' = Cur \cup (N \ seen) /\ IsInjective(cells' \o queue')
  <2>1. PICK o : o = cells \o queue
    OBVIOUS
  <2>2. o \in Seq(Indices) /\ ToSet(o) = Cur /\ IsInjective(o) /\ Cur \cap ToSet(u) = {}
    BY <1>2, <1>4, <1>6, <2>1, CurIs DEF Cur, Types
  <2>3. ToSet(o \o u) = Cur \cup ToSet(u) /\ IsInjective(o \o u)
    BY <1>4, <2>2, Joined
  <2>4. cells' \o queue' = o \o u
    BY <1>5, <2>1
  <2> QED BY <1>4, <2>3, <2>4 DEF Cur
<1>8. seen' = seen \cup N /\ Covered' = Covered
  BY <1>1, <1>4, <1>6, <1>7 DEF Covered
<1>9. Clusters!Frontier' = Clusters!Frontier /\ N \subseteq Clusters!Frontier
  BY <1>1, SameGrid DEF N
<1>10. Types'
  BY <1>1, <1>2, <1>5, <1>6, <1>7, <1>8, <1>9 DEF Types
<1>11. Whole'
  <2>1. \A c \in Covered, d \in Clusters!Frontier : Clusters!Touch(c, d) => d \in Covered
    BY <1>2 DEF Whole
  <2>2. \A c \in ToSet(cells)', d \in Clusters!Frontier :
          Clusters!Touch(c, d) => d \in seen'
    BY <1>2, <1>5, <1>8 DEF Whole, N
  <2>3. ASSUME NEW R \in SUBSET Clusters!Frontier, Clusters!Closed(R), R \cap Cur' # {}
        PROVE  Cur' \subseteq R
    <3>1. h \in Clusters!Frontier
      BY <1>6
    <3>2. R \cap Cur # {}
      <4>1. PICK x : x \in R /\ (x \in Cur \/ x \in N)
        BY <1>7, <2>3
      <4>2. CASE x \in N
        <5>1. Clusters!Touch(x, h)
          <6>1. x \in Indices /\ Clusters!Touch(h, x)
            BY <4>2, SameWords DEF N, Clusters!Frontier
          <6> QED BY <1>3, <6>1, TouchSymmetric
        <5>2. h \in R
          BY <2>3, <3>1, <4>1, <5>1 DEF Clusters!Closed
        <5> QED BY <1>6, <5>2
      <4> QED BY <4>1, <4>2
    <3>3. Cur \subseteq R
      BY <1>2, <2>3, <3>2 DEF Whole
    <3>4. N \subseteq R
      BY <1>6, <2>3, <3>3 DEF N, Clusters!Closed
    <3> QED BY <1>7, <3>3, <3>4
  <2> QED BY <1>1, <1>8, <1>9, <2>1, <2>2, <2>3, SameGrid DEF Whole
<1>12. NoneLeftOut'
  <2>1. Cur # {}
    BY <1>6
  <2> QED BY <1>1, <1>2, <1>7, <1>8, <1>9, <2>1 DEF NoneLeftOut
<1>13. Offered'
  BY <1>1, <1>2, <1>8, SameGrid DEF Offered
<1> QED BY <1>1, <1>8, <1>10, <1>11, <1>12, <1>13 DEF SearchInv, Clusters!vars, Covered, Cur

(* The cluster gathered when the queue runs dry is one whole component,    *)
(* none of it looked at before.                                            *)
LEMMA GatheredIsComponent ==
  ASSUME SearchInv, queue = <<>>, cells # <<>>
  PROVE  /\ Cur = ToSet(cells) /\ Cur \in Clusters!Components
         /\ Cur \cap Covered = {} /\ seen = Covered \cup Cur
         /\ Len(cells) = Cardinality(Cur) /\ Len(cells) \in 1 .. Width * Height
<1>1. /\ Types /\ Whole /\ queue \in Seq(Indices) /\ cells \in Seq(Indices)
  BY DEF SearchInv, Types
<1>2. Cur = ToSet(cells) /\ Cur # {} /\ IsInjective(cells)
  BY <1>1, CurIs DEF Types
<1>3. /\ Cur \subseteq seen /\ seen \subseteq Clusters!Frontier
      /\ Clusters!Frontier \subseteq Indices
  BY <1>1, SameWords DEF Types, Clusters!Frontier
<1>4. Cur \cap Covered = {} /\ seen = Covered \cup Cur
  BY <1>3 DEF Covered
<1>5. Clusters!Closed(Cur)
  <2> SUFFICES ASSUME NEW c \in Cur, NEW d \in Clusters!Frontier, Clusters!Touch(c, d)
               PROVE  d \in Cur
    BY DEF Clusters!Closed
  <2>1. d \in seen
    BY <1>1, <1>2 DEF Whole
  <2>2. Clusters!Touch(d, c)
    BY <1>3, TouchSymmetric
  <2>3. d \notin Covered
    BY <1>1, <1>3, <1>4, <2>2 DEF Whole
  <2> QED BY <1>4, <2>1, <2>3
<1>6. Cur \in Clusters!Components
  <2>1. ASSUME NEW R \in SUBSET Clusters!Frontier, R # {}, Clusters!Closed(R),
               R \subseteq Cur
        PROVE  R = Cur
    BY <1>1, <2>1 DEF Whole
  <2> QED BY <1>2, <1>3, <1>5, <2>1, ComponentIs
<1>7. Len(cells) = Cardinality(Cur) /\ Len(cells) \in 1 .. Width * Height
  <2>1. Len(cells) \in Nat \ {0}
    BY <1>1, EmptySeq
  <2>2. Len(cells) = Cardinality(ToSet(cells)) /\ Len(cells) \in 0 .. Width * Height
    BY <1>1, <1>2, ListSize
  <2> QED BY <1>2, <2>1, <2>2
<1> QED BY <1>2, <1>4, <1>6, <1>7

(* The cluster is offered or not: exactly one component is looked at.      *)
LEMMA CloseStep ==
  ASSUME SearchInv, CloseCluster
  PROVE  SearchInv' /\ Clusters!Look(Cur) /\ Cur \in Clusters!Components
<1> DEFINE Offer == <<Nearest(ranked), Len(cells)>>
<1>1. /\ queue = <<>> /\ cells # <<>>
      /\ clusters' = IF Len(cells) < min_size \/ ranked = {} THEN clusters
                     ELSE Append(clusters, Offer)
      /\ cells' = <<>> /\ start' = start + 1
      /\ UNCHANGED <<data, queue, seen>>
  BY DEF CloseCluster
<1>2. /\ data \in [Indices -> Int] /\ Types /\ Whole /\ NoneLeftOut /\ Offered
      /\ queue \in Seq(Indices) /\ cells \in Seq(Indices)
      /\ clusters \in Seq(Indices \X (1 .. Width * Height))
  BY GridType DEF SearchInv, Types
<1>3. /\ Cur = ToSet(cells) /\ Cur \in Clusters!Components
      /\ Cur \cap Covered = {} /\ seen = Covered \cup Cur
      /\ Len(cells) = Cardinality(Cur) /\ Len(cells) \in 1 .. Width * Height
  BY <1>1, GatheredIsComponent
<1>4. /\ ranked = {} <=> Clusters!Goals(Cur) = {}
      /\ ranked # {} => /\ Nearest(ranked) \in Indices
                        /\ Nearest(ranked) \in Clusters!Central(Cur)
  <2>1. IsInjective(cells)
    BY <1>1, <1>2, CurIs DEF Types
  <2> QED BY <1>2, <1>3, <2>1, Chosen
<1>5. Clusters!Worthwhile(Cur) <=> ~(Len(cells) < min_size \/ ranked = {})
  <2>1. min_size \in Nat /\ Len(cells) \in Nat
    BY <1>3, GridAssumption
  <2>2. Clusters!Worthwhile(Cur) <=> Len(cells) >= min_size /\ Clusters!Goals(Cur) # {}
    BY <1>3, SameWords DEF Clusters!Worthwhile
  <2> QED BY <1>4, <2>1, <2>2
<1> HIDE DEF Offer
<1>6. clusters' = IF Clusters!Worthwhile(Cur) THEN Append(clusters, Offer) ELSE clusters
  BY <1>1, <1>5
<1>7. /\ Clusters!Worthwhile(Cur) => Offer \in Indices \X (1 .. Width * Height)
      /\ clusters' \in Seq(Indices \X (1 .. Width * Height))
      /\ clusters' = <<>> <=> clusters = <<>> /\ ~Clusters!Worthwhile(Cur)
  <2>1. Clusters!Worthwhile(Cur) => Offer \in Indices \X (1 .. Width * Height)
    BY <1>3, <1>4, <1>5 DEF Offer
  <2>2. PICK T : T = Indices \X (1 .. Width * Height)
    OBVIOUS
  <2>3. \A e \in T : Append(clusters, e) \in Seq(T) /\ Append(clusters, e) # <<>>
    <3>1. clusters \in Seq(T)
      BY <1>2, <2>2
    <3> QED BY <3>1, AppendProperties
  <2> QED BY <1>2, <1>6, <2>1, <2>2, <2>3
<1>8. cells' \o queue' = <<>> /\ Cur' = {} /\ Covered' = seen /\ ToSet(cells)' = {}
      /\ IsInjective(cells' \o queue') /\ cells' \in Seq(Indices)
  <2>1. cells' = <<>> /\ queue' = <<>> /\ <<>> \in Seq(Indices)
    BY <1>1
  <2>2. cells' \o queue' = <<>>
    BY <2>1, ConcatEmptySeq
  <2>3. ToSet(<<>>) = {} /\ IsInjective(<<>>)
    BY DEF ToSet, IsInjective
  <2>4. Cur' = {} /\ ToSet(cells)' = {}
    BY <2>1, <2>2, <2>3 DEF Cur
  <2>5. Covered' = seen
    BY <1>1, <2>4 DEF Covered
  <2> QED BY <2>1, <2>2, <2>3, <2>4, <2>5
<1>9. /\ Clusters!Frontier' = Clusters!Frontier /\ Clusters!Frontier \subseteq Int
      /\ Cur \subseteq seen /\ seen \subseteq Clusters!Frontier /\ Clusters!Closed(Cur)
      /\ Cur # {} /\ start \in Indices /\ start \in Cur
  <2>1. Cur # {} /\ Clusters!Closed(Cur)
    BY <1>3, ComponentIs
  <2>2. Clusters!Frontier \subseteq Int
    BY SameWords DEF Clusters!Frontier, Indices
  <2> QED BY <1>1, <1>2, <2>1, <2>2, SameGrid DEF Types, NoneLeftOut
<1>10. Types'
  <2>1. start + 1 \in 0 .. Width * Height
    <3>1. Width * Height \in Nat
      BY GridAssumption
    <3> QED BY <1>9, <3>1 DEF Indices
  <2> QED BY <1>1, <1>2, <1>7, <1>8, <1>9, <2>1 DEF Types
<1>11. Whole'
  <2>1. \A c \in seen, d \in Clusters!Frontier : Clusters!Touch(c, d) => d \in seen
    BY <1>2, <1>3, <1>9 DEF Whole, Clusters!Closed
  <2> QED BY <1>8, <1>9, <2>1 DEF Whole
<1>12. NoneLeftOut'
  <2>1. \A i \in Clusters!Frontier : i < start + 1 => i < start \/ i = start
    <3>1. start \in Int
      BY <1>9 DEF Indices
    <3> QED BY <1>9, <3>1
  <2> QED BY <1>1, <1>2, <1>8, <1>9, <2>1 DEF NoneLeftOut
<1>13. Offered'
  <2>1. ASSUME NEW S \in Clusters!Components
        PROVE  S \subseteq seen <=> S = Cur \/ S \subseteq Covered
    <3>1. CASE S \cap Cur = {}
      <4>1. S # {}
        BY ComponentIs
      <4> QED BY <1>3, <3>1, <4>1
    <3>2. CASE S \cap Cur # {}
      <4>1. S \subseteq Cur /\ Cur \subseteq S
        BY <1>3, <3>2, ComponentIs, ComponentWhole
      <4> QED BY <1>3, <1>9, <4>1
    <3> QED BY <3>1, <3>2
  <2>2. Offered' <=>
          (clusters' = <<>> <=>
             \A S \in Clusters!Components : S \subseteq seen => ~Clusters!Worthwhile(S))
    BY <1>1, <1>8, SameGrid DEF Offered
  <2> QED BY <1>2, <1>3, <1>7, <2>1, <2>2 DEF Offered
<1>14. Clusters!Look(Cur)
  <2>1. Clusters!Worthwhile(Cur) =>
          \E c \in Clusters!Central(Cur) :
            clusters' = Append(clusters, <<c, Clusters!Cardinality(Cur)>>)
    BY <1>3, <1>4, <1>5, <1>6, SameWords DEF Offer
  <2>2. /\ Cur \cap (seen \ ToSet(cells \o queue)) = {}
        /\ (seen \ ToSet(cells \o queue))' = (seen \ ToSet(cells \o queue)) \cup Cur
    BY <1>3, <1>8 DEF Covered, Cur
  <2> QED BY <1>1, <1>6, <2>1, <2>2 DEF Clusters!Look
<1> QED BY <1>3, <1>10, <1>11, <1>12, <1>13, <1>14 DEF SearchInv

LEMMA SearchStep ==
  ASSUME SearchInv, [Next]_vars
  PROVE  SearchInv' /\ [Clusters!Next]_(Clusters!vars)
<1>1. CASE SkipStart
  BY <1>1, SkipStep
<1>2. CASE SeedStart
  BY <1>2, SeedStep
<1>3. CASE VisitCell
  BY <1>3, VisitStep
<1>4. CASE CloseCluster
  BY <1>4, CloseStep DEF Clusters!Next
<1>5. CASE UNCHANGED vars
  <2>1. UNCHANGED <<data, start, queue, cells, seen, clusters>>
    BY <1>5 DEF vars
  <2>2. Cur' = Cur /\ Covered' = Covered /\ ToSet(cells)' = ToSet(cells)
    BY <2>1 DEF Cur, Covered
  <2>3. Types' /\ NoneLeftOut' /\ Whole' /\ Offered'
    BY <2>1, <2>2, SameGrid DEF SearchInv, Types, NoneLeftOut, Whole, Offered
  <2>4. UNCHANGED Clusters!vars
    BY <2>1 DEF Clusters!vars
  <2> QED BY <2>3, <2>4 DEF SearchInv
<1> QED BY <1>1, <1>2, <1>3, <1>4, <1>5 DEF Next

-----------------------------------------------------------------------------
(* ---- the theorems ---- *)

(* Whatever the grid, the search gathers one whole component at a time,    *)
(* marks all it looked at, and leaves nothing behind.                      *)
THEOREM SearchIsComplete == Spec => []SearchInv
BY SearchInit, SearchStep, PTL DEF Spec

(* A cell is queued at most once: the queue never outgrows the grid.       *)
THEOREM TypeCorrect == Spec => []TypeOK
<1>1. SearchInv => TypeOK
  BY SameWords DEF SearchInv, Types, TypeOK, Cur, Clusters!Frontier
<1> QED BY <1>1, SearchIsComplete, PTL

(* The explorer, which stops on an empty list, stops exactly when no       *)
(* component of the frontier is worth a goal.                              *)
THEOREM EmptyExactlyWhenDone == Spec => []EmptyMeansDone
<1>1. SearchInv => EmptyMeansDone
  <2> SUFFICES ASSUME SearchInv, start = Width * Height
               PROVE  clusters = <<>> <=>
                        \A S \in Clusters!Components : ~Clusters!Worthwhile(S)
    BY DEF EmptyMeansDone
  <2>1. Types /\ NoneLeftOut /\ Offered
    BY DEF SearchInv
  <2>2. Width * Height \in Nat
    BY GridAssumption
  <2>3. Clusters!Frontier \subseteq Indices
    BY SameWords DEF Clusters!Frontier
  <2>4. Cur = {}
    BY <2>1, <2>2 DEF NoneLeftOut, Indices
  <2>5. \A i \in Clusters!Frontier : i < start
    BY <2>2, <2>3 DEF Indices
  <2>6. Clusters!Frontier \subseteq Covered
    BY <2>1, <2>4, <2>5 DEF NoneLeftOut, Covered
  <2>7. \A S \in Clusters!Components : S \subseteq Covered
    BY <2>6, ComponentIs
  <2> QED BY <2>1, <2>7 DEF Offered
<1> QED BY <1>1, SearchIsComplete, PTL

(* The search does what FrontierClusters promises: each step of it leaves  *)
(* what was looked at alone, or looks at one whole component that was not  *)
(* looked at before and offers it through its most central standable cell. *)
THEOREM SearchKeepsPromise == Spec => Clusters!Safety
<1>1. Init => Clusters!Init
  <2> SUFFICES ASSUME Init PROVE Clusters!Init
    OBVIOUS
  <2>1. seen \ ToSet(cells \o queue) = {}
    BY SearchInit DEF Covered, Cur
  <2> QED BY <2>1 DEF Init, Clusters!Init
<1>2. SearchInv /\ [Next]_vars => [Clusters!Next]_(Clusters!vars)
  BY SearchStep
<1> QED BY <1>1, <1>2, SearchIsComplete, PTL DEF Spec, Clusters!Safety
=============================================================================
