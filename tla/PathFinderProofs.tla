-------------------------- MODULE PathFinderProofs --------------------------
(***************************************************************************)
(* What TLAPS proves of the path finder, for every map and every request.  *)
(* The parent of a node is closed before it is, at a smaller distance from *)
(* the start, and nothing blocks the line between the two.  So the         *)
(* compression walks down the distances and always gets on.  Jumps are     *)
(* made of single steps, so a route leads nowhere single steps do not.     *)
(***************************************************************************)
EXTENDS PathFinder, FiniteSets, FiniteSetTheorems, SequenceTheorems,
        WellFoundedInduction, TLAPS

Node == [pos : Tiles, g : Nat, parent : Tiles, dirs : SUBSET Direction]

(* Every variable has its type, and the routine goes through its phases.    *)
TypeOK ==
  /\ obstacles \in SUBSET Tiles /\ start \in Tiles /\ destination \in Tiles
  /\ open \in SUBSET Node /\ closed \in SUBSET Node
  /\ curNode \in Tiles /\ nextTarget \in Tiles /\ route \in Seq(Tiles)
  /\ \/ phase = "search" /\ route = <<>>
     \/ phase = "compress" /\ route # <<>> /\ nextTarget # start
     \/ phase = "done" /\ (route # <<>> => nextTarget = start)

(* A tile has one node; once one is taken, all of them are on free tiles.   *)
NodeInv ==
  /\ \A m, n \in closed \cup open : m.pos = n.pos => m = n
  /\ closed \cap open = {}
  /\ closed = {} => \A n \in open : n.pos = start
  /\ closed # {} => \A n \in closed \cup open : Free(n.pos)

(* A node leads back over a clear line to one that was closed before it.    *)
LeadsTo(n, m) == /\ m.pos = n.parent /\ m.g < n.g
                 /\ ~IsObstacleBetween(n.pos, m.pos)
ParentInv == \A n \in closed \cup open :
               n.pos # start => \E m \in closed : LeadsTo(n, m)

(* The route, from the front: closed tiles at growing distances.            *)
IsOn(tile, g) == \E n \in closed : n.pos = tile /\ n.g = g
RouteInv == route # <<>> =>
  /\ curNode = route[1] /\ ~IsObstacleBetween(curNode, nextTarget)
  /\ \E g \in [DOMAIN route -> Nat], h \in Nat :
       /\ \A i \in DOMAIN route : IsOn(route[i], g[i])
       /\ \A i, j \in DOMAIN route : i < j => g[i] < g[j]
       /\ IsOn(nextTarget, h)
       /\ nextTarget = curNode \/ h < g[1]
  /\ \A i \in DOMAIN route \ {1} : ~IsObstacleBetween(route[i], route[i-1])

(* A walk to a tile by single steps.                                        *)
Walk(w, m, tile) == /\ w[0] = start /\ w[m] = tile
                    /\ \A k \in 1..m : \E d \in Direction : w[k] = After(w[k-1], d)
Walkable(tile) == \E m \in Nat : \E w \in [0..m -> Tiles] : Walk(w, m, tile)

(* Every node can be walked to, and a route ends at the destination.        *)
WalkInv ==
  /\ \A n \in closed \cup open : Walkable(n.pos)
  /\ route # <<>> => start \notin obstacles /\ \E n \in closed : n.pos = destination

IInv == TypeOK /\ NodeInv /\ ParentInv /\ RouteInv /\ WalkInv
-----------------------------------------------------------------------------
(* Numbers *)

(* A nonempty set of numbers has a least one.                              *)
LEMMA Least ==
  ASSUME NEW T \in SUBSET Nat, T # {}
  PROVE  \E x \in T : \A y \in T : x <= y
<1> DEFINE R == {ss \in Nat \X Nat : ss[1] < ss[2]}
<1>1. IsWellFoundedOn(R, Nat)
  <2>1. R = OpToRel(<, Nat)
    BY DEF OpToRel
  <2> QED BY <2>1, NatLessThanWellFounded
<1>2. PICK x \in T : \A y \in T : <<y, x>> \notin R
  <2> HIDE DEF R
  <2> QED BY <1>1, WFMin
<1>3. ASSUME NEW y \in T PROVE ~(y < x)
  <2>1. <<y, x>> \in Nat \X Nat
    OBVIOUS
  <2> QED BY <1>2, <2>1
<1> QED BY <1>3

(* So has a set of numbers up to n: what a walk finds first.               *)
LEMMA LeastUpTo ==
  ASSUME NEW n \in Nat, NEW T \in SUBSET (1..n), T # {}
  PROVE  \E x \in T : \A y \in 1..(x-1) : y \notin T
<1>1. PICK x \in T : \A y \in T : x <= y
  BY Least
<1> QED BY <1>1

-----------------------------------------------------------------------------
(* Tiles *)

(* A direction moves along one axis or both, by one tile a step.           *)
LEMMA Steps ==
  ASSUME NEW p \in Int \X Int, NEW d \in Direction
  PROVE  \E a, b \in {-1, 0, 1} :
           /\ a # 0 \/ b # 0
           /\ IsDiagonal(d) <=> a # 0 /\ b # 0
           /\ \A n \in Int : Step(p, d, n) = <<p[1] + n * a, p[2] + n * b>>
<1> USE DEF Step, UNIT_VECTOR, IsDiagonal, Direction
<1>0. CASE d = 0
  <2>1. \A n \in Int : Step(p, d, n) = <<p[1] + n * 0, p[2] + n * 1>> BY <1>0
  <2> QED BY <2>1, <1>0
<1>1. CASE d = 1
  <2>1. \A n \in Int : Step(p, d, n) = <<p[1] + n * (-1), p[2] + n * 1>> BY <1>1
  <2> QED BY <2>1, <1>1
<1>2. CASE d = 2
  <2>1. \A n \in Int : Step(p, d, n) = <<p[1] + n * (-1), p[2] + n * 0>> BY <1>2
  <2> QED BY <2>1, <1>2
<1>3. CASE d = 3
  <2>1. \A n \in Int : Step(p, d, n) = <<p[1] + n * (-1), p[2] + n * (-1)>> BY <1>3
  <2> QED BY <2>1, <1>3
<1>4. CASE d = 4
  <2>1. \A n \in Int : Step(p, d, n) = <<p[1] + n * 0, p[2] + n * (-1)>> BY <1>4
  <2> QED BY <2>1, <1>4
<1>5. CASE d = 5
  <2>1. \A n \in Int : Step(p, d, n) = <<p[1] + n * 1, p[2] + n * (-1)>> BY <1>5
  <2> QED BY <2>1, <1>5
<1>6. CASE d = 6
  <2>1. \A n \in Int : Step(p, d, n) = <<p[1] + n * 1, p[2] + n * 0>> BY <1>6
  <2> QED BY <2>1, <1>6
<1>7. CASE d = 7
  <2>1. \A n \in Int : Step(p, d, n) = <<p[1] + n * 1, p[2] + n * 1>> BY <1>7
  <2> QED BY <2>1, <1>7
<1>8. d \in 0..7
  BY DEF Direction
<1> HIDE DEF Step, UNIT_VECTOR, IsDiagonal, Direction
<1> QED BY <1>0, <1>1, <1>2, <1>3, <1>4, <1>5, <1>6, <1>7, <1>8

(* As many steps as the map is wide and high lead off it, so every walk    *)
(* stops.                                                                  *)
LEMMA OffTheMap ==
  ASSUME NEW p \in Tiles, NEW d \in Direction
  PROVE  Step(p, d, Width + Height) \notin Tiles
<1>0. Width \in Nat /\ Height \in Nat
  BY PathFinderAssumption
<1>1. p \in Int \X Int /\ p[1] \in 0..Width-1 /\ p[2] \in 0..Height-1
  BY <1>0 DEF Tiles
<1>2. PICK a, b \in {-1, 0, 1} :
        /\ a # 0 \/ b # 0
        /\ \A n \in Int : Step(p, d, n) = <<p[1] + n * a, p[2] + n * b>>
  BY <1>1, Steps
<1>3. Step(p, d, Width + Height) = <<p[1] + (Width + Height) * a, p[2] + (Width + Height) * b>>
  BY <1>0, <1>2
<1>4. ASSUME Step(p, d, Width + Height) \in Tiles PROVE FALSE
  <2>1. p[1] + (Width + Height) * a \in 0..Width-1 /\ p[2] + (Width + Height) * b \in 0..Height-1
    BY <1>3, <1>4 DEF Tiles
  <2>2. CASE a = 1
    BY <2>1, <2>2, <1>0, <1>1
  <2>3. CASE a = -1
    BY <2>1, <2>3, <1>0, <1>1
  <2>4. CASE b = 1
    BY <2>1, <2>4, <1>0, <1>1
  <2>5. CASE b = -1
    BY <2>1, <2>5, <1>0, <1>1
  <2> QED BY <1>2, <2>2, <2>3, <2>4, <2>5
<1> QED BY <1>4

(* Turning keeps within the eight directions.                              *)
LEMMA Turns ==
  ASSUME NEW d \in Direction, NEW k \in -8..8
  PROVE  Turn(d, k) \in Direction
BY DEF Direction, Turn

(* A single step in direction d may end on p.                              *)
CanEnter(p, d) == Free(p) /\ ~(IsDiagonal(d) /\ Squeezed(p, d))

(* Where a jump from p in direction d may end: single steps lead there.     *)
Lands(p, d, j) ==
  /\ j.dirs \in SUBSET Direction
  /\ \E n \in Nat \ {0} : /\ j.pos = Step(p, d, n)
                          /\ \A k \in 1..n : CanEnter(Step(p, d, k), d)

(* SearchOrthogonal returns a tile it reached over free ones.              *)
LEMMA OrthogonalLands ==
  ASSUME NEW p \in Tiles, NEW d \in Direction, ~IsDiagonal(d),
         SearchOrthogonal(p, d) # NoRoute
  PROVE  Lands(p, d, SearchOrthogonal(p, d))
<1> DEFINE stops(n) == LET now == Step(p, d, n) IN
             ~Free(now) \/ now = destination \/ OrthogonalTurns(now, d) # {}
           N == First(stops)
           now == Step(p, d, N)
<1>0. Width + Height \in Nat \ {0}
  BY PathFinderAssumption
<1>1. stops(Width + Height)
  BY OffTheMap DEF Free, IsInRange
<1>2. \E n \in 1..(Width + Height) : stops(n) /\ \A m \in 1..(n-1) : ~stops(m)
  <2> DEFINE T == {n \in 1..(Width + Height) : stops(n)}
  <2>1. T \in SUBSET (1..(Width + Height)) /\ T # {}
    BY <1>0, <1>1
  <2>2. PICK x \in T : \A y \in 1..(x-1) : y \notin T
    <3> HIDE DEF T
    <3> QED BY <1>0, <2>1, LeastUpTo
  <2>3. ASSUME NEW m \in 1..(x-1) PROVE ~stops(m)
    <3> HIDE DEF stops
    <3> QED BY <1>0, <2>2
  <2> HIDE DEF stops
  <2> QED BY <2>2, <2>3
<1>3. N \in 1..(Width + Height) /\ stops(N) /\ \A m \in 1..(N-1) : ~stops(m)
  <2> HIDE DEF stops
  <2> QED BY <1>2 DEF First
<1>4. SearchOrthogonal(p, d) =
        IF ~Free(now) THEN NoRoute
        ELSE [pos |-> now, dirs |-> IF now = destination THEN {}
                                    ELSE OrthogonalTurns(now, d) \cup {d}]
  BY DEF SearchOrthogonal
<1> HIDE DEF N
<1>5. Free(now)
  BY <1>4
<1>6. OrthogonalTurns(now, d) \in SUBSET Direction
  BY Turns DEF OrthogonalTurns
<1>7. \A k \in 1..N : CanEnter(Step(p, d, k), d)
  BY <1>3, <1>5, <1>0 DEF CanEnter
<1>8. /\ SearchOrthogonal(p, d).pos = Step(p, d, N)
      /\ SearchOrthogonal(p, d).dirs \in SUBSET Direction
  BY <1>4, <1>5, <1>6
<1>9. N \in Nat \ {0}
  BY <1>3, <1>0
<1> QED BY <1>7, <1>8, <1>9 DEF Lands

(* SearchDiagonal returns a tile it reached over free ones.                *)
LEMMA DiagonalLands ==
  ASSUME NEW p \in Tiles, NEW d \in Direction, SearchDiagonal(p, d) # NoRoute
  PROVE  Lands(p, d, SearchDiagonal(p, d))
<1> DEFINE blocked(now) == ~Free(now) \/ Squeezed(now, d)
           stops(n) == LET now == Step(p, d, n) IN
             \/ blocked(now) \/ now = destination
             \/ DiagonalTurns(now, d) # {} \/ Branches(now, d)
           N == First(stops)
           now == Step(p, d, N)
<1>0. Width + Height \in Nat \ {0}
  BY PathFinderAssumption
<1>1. stops(Width + Height)
  BY OffTheMap DEF Free, IsInRange
<1>2. \E n \in 1..(Width + Height) : stops(n) /\ \A m \in 1..(n-1) : ~stops(m)
  <2> DEFINE T == {n \in 1..(Width + Height) : stops(n)}
  <2>1. T \in SUBSET (1..(Width + Height)) /\ T # {}
    BY <1>0, <1>1
  <2>2. PICK x \in T : \A y \in 1..(x-1) : y \notin T
    <3> HIDE DEF T
    <3> QED BY <1>0, <2>1, LeastUpTo
  <2>3. ASSUME NEW m \in 1..(x-1) PROVE ~stops(m)
    <3> HIDE DEF stops
    <3> QED BY <1>0, <2>2
  <2> HIDE DEF stops
  <2> QED BY <2>2, <2>3
<1>3. N \in 1..(Width + Height) /\ stops(N) /\ \A m \in 1..(N-1) : ~stops(m)
  <2> HIDE DEF stops
  <2> QED BY <1>2 DEF First
<1>4. SearchDiagonal(p, d) =
        IF blocked(now) THEN NoRoute
        ELSE [pos |-> now, dirs |-> IF now = destination THEN {}
                ELSE DiagonalTurns(now, d) \cup {d, Turn(d, -1), Turn(d, 1)}]
  BY DEF SearchDiagonal
<1> HIDE DEF N
<1>5. Free(now) /\ ~Squeezed(now, d)
  BY <1>4
<1>6. DiagonalTurns(now, d) \cup {d, Turn(d, -1), Turn(d, 1)} \in SUBSET Direction
  BY Turns DEF DiagonalTurns
<1>7. \A k \in 1..N : CanEnter(Step(p, d, k), d)
  BY <1>3, <1>5, <1>0 DEF CanEnter
<1>8. /\ SearchDiagonal(p, d).pos = Step(p, d, N)
      /\ SearchDiagonal(p, d).dirs \in SUBSET Direction
  BY <1>4, <1>5, <1>6
<1>9. N \in Nat \ {0}
  BY <1>3, <1>0
<1> QED BY <1>7, <1>8, <1>9 DEF Lands

(* So does every jump.                                                     *)
LEMMA JumpLands ==
  ASSUME NEW p \in Tiles, NEW d \in Direction, Jump(p, d) # NoRoute
  PROVE  Lands(p, d, Jump(p, d))
BY OrthogonalLands, DiagonalLands DEF Jump

-----------------------------------------------------------------------------
(* Lines *)

(* How IsObstacleBetween follows a line of K tiles that drifts S aside.      *)
Drift(f, K, S) ==
  [n \in 0..K |->
     IF n = 0 THEN [side |-> 0, error |-> 0]
     ELSE LET before == f[n-1]
              error == before.error + 2 * S
              aside == error > K
          IN [side |-> IF aside THEN before.side + 1 ELSE before.side,
              error |-> IF aside THEN error - 2 * K ELSE error]]

(* On a diagonal every tile drifts, on a straight line none does, and no   *)
(* error is left.                                                          *)
LEMMA DriftStep ==
  ASSUME NEW K \in Nat, NEW S \in {0, K}, NEW f, NEW n \in 1..K,
         f[n-1] = [side |-> IF S = 0 THEN 0 ELSE n - 1, error |-> 0]
  PROVE  Drift(f, K, S)[n] = [side |-> IF S = 0 THEN 0 ELSE n, error |-> 0]
<1>1. f[n-1].side = (IF S = 0 THEN 0 ELSE n - 1) /\ f[n-1].error = 0
  OBVIOUS
<1>2. Drift(f, K, S)[n] =
        [side |-> IF 2 * S > K THEN f[n-1].side + 1 ELSE f[n-1].side,
         error |-> IF 2 * S > K THEN 2 * S - 2 * K ELSE 2 * S]
  BY <1>1 DEF Drift
<1>3. CASE S = 0
  BY <1>1, <1>2, <1>3
<1>4. CASE S = K
  BY <1>1, <1>2, <1>4
<1> QED BY <1>3, <1>4

(* The recursive function of Line exists for these lines.                  *)
LEMMA DriftExists ==
  ASSUME NEW K \in Nat, NEW S \in {0, K}
  PROVE  \E f : f = Drift(f, K, S)
<1> DEFINE line == [n \in 0..K |-> [side |-> IF S = 0 THEN 0 ELSE n, error |-> 0]]
<1>1. ASSUME NEW n \in 1..K PROVE Drift(line, K, S)[n] = line[n]
  <2>1. line[n-1] = [side |-> IF S = 0 THEN 0 ELSE n - 1, error |-> 0]
    OBVIOUS
  <2>2. line[n] = [side |-> IF S = 0 THEN 0 ELSE n, error |-> 0]
    OBVIOUS
  <2> HIDE DEF line
  <2> QED BY <2>1, <2>2, DriftStep
<1>2. Drift(line, K, S)[0] = line[0]
  BY DEF Drift
<1>3. \A n \in 0..K : Drift(line, K, S)[n] = line[n]
  <2> HIDE DEF line
  <2> QED BY <1>1, <1>2
<1>4. /\ DOMAIN line = 0..K /\ line = [n \in DOMAIN line |-> line[n]]
      /\ DOMAIN Drift(line, K, S) = 0..K
      /\ Drift(line, K, S) = [n \in DOMAIN Drift(line, K, S) |-> Drift(line, K, S)[n]]
  BY DEF Drift
<1> HIDE DEF line
<1> QED BY <1>3, <1>4

(* Its values on a diagonal and on a straight line.                        *)
LEMMA Drifts ==
  ASSUME NEW K \in Nat, NEW S \in {0, K}, NEW at, at = Drift(at, K, S)
  PROVE  \A n \in 0..K : at[n].side = IF S = 0 THEN 0 ELSE n
<1> DEFINE good(n) == at[n] = [side |-> IF S = 0 THEN 0 ELSE n, error |-> 0]
           T == {n \in 0..K : ~good(n)}
<1>1. good(0)
  BY DEF Drift
<1>2. ASSUME NEW n \in 1..K, good(n - 1) PROVE good(n)
  BY <1>2, DriftStep
<1>3. ASSUME T # {} PROVE FALSE
  <2>1. T \in SUBSET Nat
    OBVIOUS
  <2>2. PICK x \in T : \A y \in T : x <= y
    <3> HIDE DEF T
    <3> QED BY <1>3, <2>1, Least
  <2>3. x \in 1..K /\ ~good(x)
    <3> HIDE DEF good
    <3> QED BY <1>1, <2>2
  <2>4. good(x - 1)
    <3> HIDE DEF good
    <3> QED BY <2>2, <2>3
  <2> HIDE DEF good
  <2> QED BY <1>2, <2>3, <2>4
<1> HIDE DEF good
<1>4. \A n \in 0..K : good(n)
  BY <1>3
<1>5. ASSUME NEW n \in 0..K PROVE at[n].side = IF S = 0 THEN 0 ELSE n
  <2>1. at[n] = [side |-> IF S = 0 THEN 0 ELSE n, error |-> 0]
    BY <1>4 DEF good
  <2> QED BY <2>1
<1> QED BY <1>5

(* The tile n steps of <<a, b>> from q.                                     *)
At(q, a, b, n) == <<q[1] + n * a, q[2] + n * b>>

(* The line back from a tile that lies straight or diagonally ahead is     *)
(* made of the tiles on the way.                                           *)
LEMMA StraightLine ==
  ASSUME NEW p \in Int \X Int, NEW q \in Int \X Int, NEW N \in Nat \ {0},
         NEW a \in {-1, 0, 1}, NEW b \in {-1, 0, 1}, a # 0 \/ b # 0,
         p = At(q, a, b, N)
  PROVE  Line(p, q) \subseteq {At(q, a, b, n) : n \in 0..N-1}
<1>0. p = <<q[1] + N * a, q[2] + N * b>>
  BY DEF At
<1> DEFINE diff == <<Abs(q[1] - p[1]), Abs(q[2] - p[2])>>
           unit == [i \in 1..2 |-> IF q[i] > p[i] THEN 1 ELSE IF q[i] < p[i] THEN -1 ELSE 0]
           long == IF diff[1] > diff[2] THEN 1 ELSE 2
           short == 3 - long
           at == CHOOSE f : f = Drift(f, diff[long], diff[short])
           tile(n) == [i \in 1..2 |-> p[i] + unit[i] * IF i = long THEN n ELSE at[n].side]
<1>1. Line(p, q) = {tile(n) : n \in 1..diff[long]}
  BY DEF Line, Drift
<1>2. /\ diff[1] = (IF a = 0 THEN 0 ELSE N) /\ diff[2] = (IF b = 0 THEN 0 ELSE N)
      /\ unit[1] = -a /\ unit[2] = -b
  <2>1. PICK x, y \in Int : x = N * a /\ y = N * b
    OBVIOUS
  <2>2. /\ x = (IF a = 0 THEN 0 ELSE IF a = 1 THEN N ELSE -N)
        /\ y = (IF b = 0 THEN 0 ELSE IF b = 1 THEN N ELSE -N)
    BY <2>1
  <2>3. p[1] = q[1] + x /\ p[2] = q[2] + y /\ q[1] \in Int /\ q[2] \in Int
    BY <2>1, <1>0
  <2>4. diff[1] = Abs(-x) /\ diff[2] = Abs(-y)
    BY <2>3
  <2>5. /\ unit[1] = (IF x < 0 THEN 1 ELSE IF x > 0 THEN -1 ELSE 0)
        /\ unit[2] = (IF y < 0 THEN 1 ELSE IF y > 0 THEN -1 ELSE 0)
    BY <2>3
  <2>6. a \in {-1, 0, 1} /\ b \in {-1, 0, 1}
    OBVIOUS
  <2> HIDE DEF diff, unit
  <2>7. diff[1] = (IF a = 0 THEN 0 ELSE N) /\ unit[1] = -a
    BY <2>2, <2>4, <2>5, <2>6 DEF Abs
  <2>8. diff[2] = (IF b = 0 THEN 0 ELSE N) /\ unit[2] = -b
    BY <2>2, <2>4, <2>5, <2>6 DEF Abs
  <2> QED BY <2>7, <2>8
<1>3. /\ diff[long] = N /\ diff[short] \in {0, N}
      /\ diff[short] = (IF a # 0 /\ b # 0 THEN N ELSE 0)
      /\ long = IF b = 0 THEN 1 ELSE 2
  <2> HIDE DEF diff
  <2> QED BY <1>2
<1>4. \A n \in 0..N : at[n].side = IF a # 0 /\ b # 0 THEN n ELSE 0
  <2>1. PICK K : K = diff[long]
    OBVIOUS
  <2>2. PICK S : S = diff[short]
    OBVIOUS
  <2> HIDE DEF diff, long, short
  <2>3. \E f : f = Drift(f, diff[long], diff[short])
    BY <1>3, DriftExists
  <2>4. at = Drift(at, diff[long], diff[short])
    BY <2>3
  <2> HIDE DEF at
  <2>5. \A n \in 0..N : at[n].side = IF diff[short] = 0 THEN 0 ELSE n
    BY <1>3, <2>4, Drifts
  <2> QED BY <1>3, <2>5
<1>5. ASSUME NEW n \in 1..N
      PROVE  tile(n) = <<q[1] + (N - n) * a, q[2] + (N - n) * b>>
  <2>1. /\ tile(n)[1] = p[1] + unit[1] * (IF long = 1 THEN n ELSE at[n].side)
        /\ tile(n)[2] = p[2] + unit[2] * (IF long = 2 THEN n ELSE at[n].side)
        /\ tile(n) = <<tile(n)[1], tile(n)[2]>>
    <3> HIDE DEF at, diff, unit, long, short
    <3> QED OBVIOUS
  <2>2. at[n].side = IF a # 0 /\ b # 0 THEN n ELSE 0
    BY <1>4
  <2> HIDE DEF tile, at, long, diff, unit, short
  <2>3. p[1] = q[1] + N * a /\ p[2] = q[2] + N * b /\ q[1] \in Int /\ q[2] \in Int
    BY <1>0
  <2>4. tile(n)[1] = q[1] + (N - n) * a
    <3>1. CASE a = 0 BY <3>1, <2>1, <2>2, <2>3, <1>2, <1>3
    <3>2. CASE a = 1 BY <3>2, <2>1, <2>2, <2>3, <1>2, <1>3
    <3>3. CASE a = -1 BY <3>3, <2>1, <2>2, <2>3, <1>2, <1>3
    <3> QED BY <3>1, <3>2, <3>3
  <2>5. tile(n)[2] = q[2] + (N - n) * b
    <3>1. CASE b = 0 BY <3>1, <2>1, <2>2, <2>3, <1>2, <1>3
    <3>2. CASE b = 1 BY <3>2, <2>1, <2>2, <2>3, <1>2, <1>3
    <3>3. CASE b = -1 BY <3>3, <2>1, <2>2, <2>3, <1>2, <1>3
    <3> QED BY <3>1, <3>2, <3>3
  <2> QED BY <2>1, <2>4, <2>5
<1> HIDE DEF tile, diff, long
<1>6. ASSUME NEW n \in 1..N
      PROVE  tile(n) \in {At(q, a, b, k) : k \in 0..N-1}
  <2>1. N - n \in 0..N-1
    OBVIOUS
  <2>2. tile(n) = At(q, a, b, N - n)
    BY <1>5 DEF At
  <2> QED BY <2>1, <2>2
<1> QED BY <1>1, <1>3, <1>6

(* The rounded length of a line: a number, and one only for a line that has *)
(* two ends.                                                                *)
LEMMA Lengths ==
  ASSUME NEW p \in Int \X Int, NEW q \in Int \X Int, p # q
  PROVE  Length(p, q) \in Nat \ {0}
<1>1. PICK x, y \in Int : x = p[1] - q[1] /\ y = p[2] - q[2]
  OBVIOUS
<1>2. PICK a, b \in Nat : /\ a = Abs(x) /\ b = Abs(y)
                          /\ x * x = a * a /\ y * y = b * b
                          /\ a # 0 \/ b # 0
  <2>1. Abs(x) \in Nat /\ Abs(y) \in Nat
    BY DEF Abs
  <2>2. x * x = Abs(x) * Abs(x)
    <3>1. CASE x < 0
      <4>1. Abs(x) = -x
        BY <3>1 DEF Abs
      <4>2. (-x) * (-x) = x * x
        OBVIOUS
      <4> QED BY <4>1, <4>2
    <3>2. CASE ~(x < 0)
      BY <3>2 DEF Abs
    <3> QED BY <3>1, <3>2
  <2>3. y * y = Abs(y) * Abs(y)
    <3>1. CASE y < 0
      <4>1. Abs(y) = -y
        BY <3>1 DEF Abs
      <4>2. (-y) * (-y) = y * y
        OBVIOUS
      <4> QED BY <4>1, <4>2
    <3>2. CASE ~(y < 0)
      BY <3>2 DEF Abs
    <3> QED BY <3>1, <3>2
  <2>4. x # 0 \/ y # 0
    <3>1. p = <<p[1], p[2]>> /\ q = <<q[1], q[2]>>
      OBVIOUS
    <3>2. SUFFICES ASSUME x = 0, y = 0 PROVE FALSE
      OBVIOUS
    <3>3. p[1] = q[1] /\ p[2] = q[2]
      BY <1>1, <3>2
    <3> QED BY <3>1, <3>3
  <2>5. Abs(x) # 0 \/ Abs(y) # 0
    BY <2>4 DEF Abs
  <2> QED BY <2>1, <2>2, <2>3, <2>5
<1>3. PICK square \in Nat : square = a * a + b * b
  <2>1. a * a \in Nat /\ b * b \in Nat
    OBVIOUS
  <2> QED BY <2>1
<1>4. square # 0
  <2>1. a * a \in Nat /\ b * b \in Nat
    OBVIOUS
  <2>2. CASE a # 0
    <3>1. a * a # 0
      BY <2>2
    <3> QED BY <3>1, <2>1, <1>3
  <2>3. CASE b # 0
    <3>1. b * b # 0
      BY <2>3
    <3> QED BY <3>1, <2>1, <1>3
  <2> QED BY <2>2, <2>3, <1>2
<1> DEFINE Root(n) == n * n <= square /\ square < (n + 1) * (n + 1)
           T == {n \in Nat : square < (n + 1) * (n + 1)}
<1>5. a + b \in T
  <2>1. a * a \in Nat /\ b * b \in Nat /\ a * b \in Nat /\ b * a \in Nat
    OBVIOUS
  <2>2. (a + b + 1) * (a + b + 1) = a * a + b * b + a * b + b * a + a + a + b + b + 1
    OBVIOUS
  <2> QED BY <2>1, <2>2, <1>3
<1>6. PICK n \in T : \A m \in T : n <= m
  BY <1>5, Least
<1>7. n \in Nat /\ n <= a + b /\ square < (n + 1) * (n + 1)
  BY <1>5, <1>6
<1>8. n * n <= square
  <2>1. CASE n = 0
    BY <2>1
  <2>2. CASE n # 0
    <3>1. n - 1 \in Nat /\ n - 1 \notin T
      BY <2>2, <1>6, <1>7
    <3>2. ~(square < (n - 1 + 1) * (n - 1 + 1))
      BY <3>1
    <3>3. n - 1 + 1 = n /\ n * n \in Nat
      BY <1>7
    <3> QED BY <3>2, <3>3
  <2> QED BY <2>1, <2>2
<1>9. \E k \in 0..(a + b) : Root(k)
  BY <1>7, <1>8
<1>10. Length(p, q) = CHOOSE k \in 0..(a + b) : Root(k)
  <2>1. Manhattan(p, q) = a + b
    BY <1>1, <1>2 DEF Manhattan
  <2>2. (p[1] - q[1]) * (p[1] - q[1]) + (p[2] - q[2]) * (p[2] - q[2]) = square
    BY <1>1, <1>2, <1>3
  <2> QED BY <2>1, <2>2 DEF Length
<1>11. Length(p, q) \in 0..(a + b) /\ Root(Length(p, q))
  <2> HIDE DEF Root
  <2> QED BY <1>9, <1>10
<1>12. Length(p, q) # 0
  <2>1. SUFFICES ASSUME Length(p, q) = 0 PROVE FALSE
    OBVIOUS
  <2>2. square < (0 + 1) * (0 + 1)
    BY <1>11, <2>1
  <2> QED BY <2>2, <1>4
<1> QED BY <1>11, <1>12

(* A jump gets somewhere else, and the line back is clear.                  *)
LEMMA JumpIsClear ==
  ASSUME TypeOK, NEW p \in Tiles, Free(p), NEW d \in Direction, NEW j, Lands(p, d, j)
  PROVE  /\ Free(j.pos) /\ j.pos \in Tiles /\ j.pos # p
         /\ Length(p, j.pos) \in Nat \ {0}
         /\ ~IsObstacleBetween(j.pos, p)
<1>1. p \in Int \X Int
  BY PathFinderAssumption DEF Tiles
<1>2. PICK a, b \in {-1, 0, 1} :
        /\ a # 0 \/ b # 0
        /\ \A n \in Int : Step(p, d, n) = At(p, a, b, n)
  BY <1>1, Steps DEF At
<1>3. PICK N \in Nat \ {0} : /\ j.pos = Step(p, d, N)
                             /\ \A k \in 1..N : Free(Step(p, d, k))
  BY DEF Lands, CanEnter
<1>4. PICK q : q = j.pos
  OBVIOUS
<1>5. q = At(p, a, b, N)
  BY <1>2, <1>3, <1>4
<1>6. Free(q) /\ q \in Tiles
  BY <1>3, <1>4 DEF Free, IsInRange
<1>7. q \in Int \X Int
  BY <1>6, PathFinderAssumption DEF Tiles
<1>8. /\ q # p
      /\ Length(p, q) \in Nat \ {0}
  <2>1. PICK x, y \in Int : x = N * a /\ y = N * b
    OBVIOUS
  <2>2. /\ x = (IF a = 0 THEN 0 ELSE IF a = 1 THEN N ELSE -N)
        /\ y = (IF b = 0 THEN 0 ELSE IF b = 1 THEN N ELSE -N)
    BY <2>1
  <2>3. q[1] = p[1] + x /\ q[2] = p[2] + y /\ p[1] \in Int /\ p[2] \in Int
    BY <2>1, <1>5, <1>1 DEF At
  <2>4. x # 0 \/ y # 0
    BY <2>2, <1>2
  <2>5. q # p
    BY <2>3, <2>4
  <2>6. Length(p, q) \in Nat \ {0}
    BY <2>5, <1>1, <1>7, Lengths
  <2> QED BY <2>5, <2>6
<1>9. ~IsObstacleBetween(q, p)
  <2>1. Line(q, p) \subseteq {At(p, a, b, n) : n \in 0..N-1}
    <3>1. a # 0 \/ b # 0
      BY <1>2
    <3> QED BY <1>1, <1>5, <1>7, <3>1, StraightLine
  <2>2. ASSUME NEW n \in 0..N-1 PROVE Free(At(p, a, b, n))
    <3>1. CASE n = 0
      <4>1. p = At(p, a, b, 0)
        BY <1>1 DEF At
      <4> QED BY <4>1, <3>1
    <3>2. CASE n # 0
      <4>1. n \in 1..N /\ n \in Int
        BY <3>2
      <4>2. Step(p, d, n) = At(p, a, b, n)
        BY <4>1, <1>2
      <4> QED BY <4>1, <4>2, <1>3
    <3> QED BY <3>1, <3>2
  <2>3. ASSUME NEW t \in Line(q, p) PROVE t \notin obstacles
    BY <2>1, <2>2, <2>3 DEF Free
  <2> QED BY <2>3 DEF IsObstacleBetween
<1> QED BY <1>4, <1>6, <1>8, <1>9

(* Single steps lead to the start, and on along a jump.                     *)
LEMMA StartWalkable ==
  ASSUME start \in Tiles
  PROVE  Walkable(start)
<1> DEFINE w == [k \in 0..0 |-> start]
<1>1. w \in [0..0 -> Tiles] /\ Walk(w, 0, start)
  BY DEF Walk
<1> QED BY <1>1 DEF Walkable

(* A jump goes on from a walk by single steps.                             *)
LEMMA JumpWalkable ==
  ASSUME NEW p \in Tiles, Walkable(p), NEW d \in Direction, NEW j, Lands(p, d, j)
  PROVE  Walkable(j.pos)
<1>1. p \in Int \X Int
  BY PathFinderAssumption DEF Tiles
<1>2. PICK a, b \in {-1, 0, 1} : \A n \in Int : Step(p, d, n) = <<p[1] + n * a, p[2] + n * b>>
  BY <1>1, Steps
<1>3. PICK N \in Nat \ {0} : /\ j.pos = Step(p, d, N)
                             /\ \A k \in 1..N : CanEnter(Step(p, d, k), d)
  BY DEF Lands
<1>4. Step(p, d, 0) = p
  <2>1. Step(p, d, 0) = <<p[1] + 0 * a, p[2] + 0 * b>>
    BY <1>2
  <2>2. p = <<p[1] + 0 * a, p[2] + 0 * b>>
    BY <1>1
  <2> QED BY <2>1, <2>2
<1>5. ASSUME NEW k \in 1..N
      PROVE  /\ Step(p, d, k) \in Tiles
             /\ Step(p, d, k) = After(Step(p, d, k-1), d)
  <2>1. Step(p, d, k) = Step(Step(p, d, k-1), d, 1)
    <3>1. PICK u, v : u = UNIT_VECTOR[d + 1][1] /\ v = UNIT_VECTOR[d + 1][2]
      OBVIOUS
    <3>2. u \in Int /\ v \in Int
      BY <3>1 DEF Direction, UNIT_VECTOR
    <3>3. /\ Step(p, d, k) = <<p[1] + k * u, p[2] + k * v>>
          /\ Step(p, d, k-1) = <<p[1] + (k-1) * u, p[2] + (k-1) * v>>
          /\ Step(Step(p, d, k-1), d, 1) = <<Step(p, d, k-1)[1] + 1 * u, Step(p, d, k-1)[2] + 1 * v>>
      BY <3>1 DEF Step
    <3>4. /\ p[1] + k * u = (p[1] + (k-1) * u) + 1 * u
          /\ p[2] + k * v = (p[2] + (k-1) * v) + 1 * v
      BY <1>1, <3>2
    <3> QED BY <3>3, <3>4
  <2>2. CanEnter(Step(p, d, k), d)
    BY <1>3
  <2> QED BY <2>1, <2>2 DEF After, CanEnter, Free, IsInRange
<1>6. PICK m \in Nat : \E w \in [0..m -> Tiles] : Walk(w, m, p)
  BY DEF Walkable
<1>7. PICK w \in [0..m -> Tiles] : Walk(w, m, p)
  BY <1>6
<1> DEFINE g == [k \in 0..m + N |-> IF k <= m THEN w[k] ELSE Step(p, d, k - m)]
<1>8. \A k \in 0..m : g[k] = w[k]
  OBVIOUS
<1>9. \A k \in 0..N : g[m + k] = Step(p, d, k)
  <2>1. g[m] = p
    BY <1>7 DEF Walk
  <2>2. \A k \in 1..N : g[m + k] = Step(p, d, k)
    OBVIOUS
  <2> HIDE DEF g
  <2> QED BY <2>1, <2>2, <1>4
<1>10. g \in [0..m + N -> Tiles]
  <2>1. ASSUME NEW k \in 0..m + N PROVE g[k] \in Tiles
    <3>1. CASE k <= m
      BY <3>1, <1>7
    <3>2. CASE k > m
      <4>1. k - m \in 1..N
        BY <3>2
      <4> QED BY <3>2, <4>1, <1>5
    <3> QED BY <3>1, <3>2
  <2> QED BY <2>1
<1> HIDE DEF g
<1>11. ASSUME NEW k \in 1..m + N PROVE \E e \in Direction : g[k] = After(g[k-1], e)
  <2>1. CASE k <= m
    BY <2>1, <1>7, <1>8 DEF Walk
  <2>2. CASE k > m
    <3>1. k - m \in 1..N /\ k - m - 1 \in 0..N
      BY <2>2
    <3>2. g[m + (k - m)] = Step(p, d, k - m) /\ g[m + (k - m - 1)] = Step(p, d, k - m - 1)
      BY <3>1, <1>9
    <3>3. m + (k - m) = k /\ m + (k - m - 1) = k - 1
      OBVIOUS
    <3>4. Step(p, d, k - m) = After(Step(p, d, k - m - 1), d)
      BY <3>1, <1>5
    <3> QED BY <3>2, <3>3, <3>4
  <2> QED BY <2>1, <2>2
<1>12. g[0] = start /\ g[m + N] = j.pos
  BY <1>3, <1>7, <1>8, <1>9 DEF Walk
<1>13. Walk(g, m + N, j.pos)
  BY <1>11, <1>12 DEF Walk
<1> QED BY <1>10, <1>13 DEF Walkable

(* A line without length is clear.                                          *)
LEMMA NoLine ==
  ASSUME NEW p \in Tiles
  PROVE  ~IsObstacleBetween(p, p)
<1>1. Abs(p[1] - p[1]) = 0 /\ Abs(p[2] - p[2]) = 0
  <2>1. p[1] \in Int /\ p[2] \in Int
    BY PathFinderAssumption DEF Tiles
  <2> QED BY <2>1 DEF Abs
<1>2. <<Abs(p[1] - p[1]), Abs(p[2] - p[2])>> = <<0, 0>>
  BY <1>1
<1>3. Line(p, p) = {}
  BY <1>2 DEF Line
<1> QED BY <1>3 DEF IsObstacleBetween

-----------------------------------------------------------------------------
(* The search *)

(* The start is in range, so it is free unless it is an obstacle.          *)
LEMMA StartFree ==
  ASSUME TypeOK, start \notin obstacles
  PROVE  Free(start)
<1>1. start[1] \in Int /\ start[2] \in Int
  BY PathFinderAssumption DEF TypeOK, Tiles
<1>2. Window \in Nat \ {0}
  BY PathFinderAssumption
<1>3. \A i \in 1..2 : start[i] \in Int
  BY <1>1
<1> QED BY <1>2, <1>3 DEF TypeOK, Free, IsInRange

(* The routine starts with the invariant.                                  *)
LEMMA InitInv == Init => IInv
<1> SUFFICES ASSUME Init PROVE IInv
  OBVIOUS
<1> USE DEF Init
<1>1. obstacles \in SUBSET Tiles /\ start \in Tiles /\ destination \in Tiles
  BY PathFinderAssumption
<1>2. TypeOK
  BY <1>1 DEF TypeOK, Node
<1>3. NodeInv
  BY DEF NodeInv
<1>4. ParentInv
  BY DEF ParentInv
<1>5. RouteInv
  BY DEF RouteInv
<1>6. WalkInv
  BY <1>1, StartWalkable DEF WalkInv
<1> QED BY <1>2, <1>3, <1>4, <1>5, <1>6 DEF IInv

(* What Update opens lies free, is not closed, and leads to the node that   *)
(* is being closed, or was open before.                                     *)
LEMMA Opened ==
  ASSUME TypeOK, NodeInv, WalkInv, start \notin obstacles, NEW node \in open
  PROVE  /\ UpdateOpenList(node) \in SUBSET Node
         /\ \A n \in UpdateOpenList(node) :
              /\ Free(n.pos) /\ \A m \in closed \cup {node} : n.pos # m.pos
              /\ n \in open \/ LeadsTo(n, node)
              /\ Walkable(n.pos)
         /\ \A m, n \in UpdateOpenList(node) : m.pos = n.pos => m = n
<1> DEFINE jumps == {Jump(node.pos, d) : d \in node.dirs} \ {NoRoute}
           to(p) == CHOOSE j \in jumps : j.pos = p
           cost(p) == node.g + Length(node.pos, p)
           found == {j.pos : j \in jumps} \ {n.pos : n \in closed \cup {node}}
           known == {n.pos : n \in open}
           better(n) == n.pos \in found /\ n.g > cost(n.pos)
           kept(n) == IF better(n) THEN [n EXCEPT !.g = cost(n.pos), !.parent = node.pos] ELSE n
           added(p) == [pos |-> p, g |-> cost(p), parent |-> node.pos, dirs |-> to(p).dirs]
<1>1. UpdateOpenList(node) = {kept(n) : n \in open \ {node}} \cup {added(p) : p \in found \ known}
  BY DEF UpdateOpenList
<1>2. node \in Node /\ Free(node.pos) /\ Walkable(node.pos)
  BY StartFree DEF TypeOK, NodeInv, WalkInv
<1>3. ASSUME NEW j \in jumps
      PROVE  /\ Free(j.pos) /\ j.pos \in Tiles /\ Length(node.pos, j.pos) \in Nat \ {0}
             /\ ~IsObstacleBetween(j.pos, node.pos) /\ j.dirs \in SUBSET Direction
             /\ Walkable(j.pos)
  <2>1. PICK d \in node.dirs : j = Jump(node.pos, d) /\ j # NoRoute
    OBVIOUS
  <2>2. d \in Direction /\ node.pos \in Tiles
    BY <1>2 DEF Node
  <2>3. Lands(node.pos, d, j)
    BY <2>1, <2>2, JumpLands
  <2> HIDE DEF jumps
  <2>4. j.dirs \in SUBSET Direction
    BY <2>3 DEF Lands
  <2> QED BY <2>2, <2>3, <2>4, <1>2, JumpIsClear, JumpWalkable
<1>4. ASSUME NEW p \in found
      PROVE  /\ Free(p) /\ p \in Tiles /\ cost(p) \in Nat /\ node.g < cost(p)
             /\ ~IsObstacleBetween(p, node.pos) /\ to(p).dirs \in SUBSET Direction
             /\ Walkable(p)
             /\ \A m \in closed \cup {node} : p # m.pos
  <2>1. \E j \in jumps : j.pos = p
    <3> HIDE DEF jumps
    <3> QED OBVIOUS
  <2>2. to(p) \in jumps /\ to(p).pos = p
    <3> HIDE DEF jumps
    <3> QED BY <2>1
  <2>3. \A m \in closed \cup {node} : p # m.pos
    <3> HIDE DEF jumps
    <3> QED OBVIOUS
  <2>4. node.g \in Nat
    BY <1>2 DEF Node
  <2> HIDE DEF jumps, to, found
  <2>5. /\ Free(p) /\ p \in Tiles /\ Length(node.pos, p) \in Nat \ {0}
        /\ ~IsObstacleBetween(p, node.pos) /\ to(p).dirs \in SUBSET Direction
        /\ Walkable(p)
    BY <2>2, <1>3
  <2> QED BY <2>3, <2>4, <2>5
<1> HIDE DEF jumps, to, found, cost
<1>5. ASSUME NEW n \in open \ {node}
      PROVE  /\ kept(n) \in Node /\ kept(n).pos = n.pos
             /\ Free(n.pos) /\ \A m \in closed \cup {node} : n.pos # m.pos
             /\ kept(n) \in open \/ LeadsTo(kept(n), node)
             /\ Walkable(n.pos)
  <2>1. n \in Node /\ node.pos \in Tiles
    BY <1>2 DEF TypeOK, Node
  <2>2. Free(n.pos) /\ Walkable(n.pos)
    BY StartFree DEF NodeInv, WalkInv
  <2>3. \A m \in closed \cup {node} : n.pos # m.pos
    BY DEF NodeInv
  <2>4. CASE better(n)
    <3>1. n.pos \in found
      BY <2>4
    <3>2. kept(n) = [n EXCEPT !.g = cost(n.pos), !.parent = node.pos]
      BY <2>4
    <3> HIDE DEF kept, better
    <3>3. cost(n.pos) \in Nat /\ node.g < cost(n.pos) /\ ~IsObstacleBetween(n.pos, node.pos)
      BY <3>1, <1>4
    <3>4. /\ kept(n) \in Node /\ kept(n).pos = n.pos
          /\ kept(n).g = cost(n.pos) /\ kept(n).parent = node.pos
      BY <2>1, <3>2, <3>3 DEF Node
    <3> QED BY <2>2, <2>3, <3>3, <3>4 DEF LeadsTo
  <2>5. CASE ~better(n)
    <3>1. kept(n) = n
      BY <2>5
    <3> QED BY <2>1, <2>2, <2>3, <3>1
  <2> QED BY <2>4, <2>5
<1>6. ASSUME NEW p \in found \ known
      PROVE  /\ added(p) \in Node /\ added(p).pos = p /\ Free(p) /\ Walkable(p)
             /\ \A m \in closed \cup {node} : p # m.pos
             /\ LeadsTo(added(p), node)
  <2>1. node.pos \in Tiles
    BY <1>2 DEF Node
  <2>2. added(p) \in Node /\ added(p).pos = p
    BY <2>1, <1>4 DEF Node
  <2>3. LeadsTo(added(p), node)
    BY <1>4 DEF LeadsTo
  <2> QED BY <2>2, <2>3, <1>4
<1>7. \A m, n \in open : m.pos = n.pos => m = n
  BY DEF NodeInv
<1>8. \A n \in open : n.pos \in known
  OBVIOUS
<1> HIDE DEF kept, added, known
<1>9. ASSUME NEW m \in UpdateOpenList(node), NEW n \in UpdateOpenList(node), m.pos = n.pos
      PROVE  m = n
  <2>1. \/ \E k \in open \ {node} : m = kept(k) /\ m.pos = k.pos
        \/ \E p \in found \ known : m = added(p) /\ m.pos = p
    BY <1>1, <1>5, <1>6
  <2>2. \/ \E k \in open \ {node} : n = kept(k) /\ n.pos = k.pos
        \/ \E p \in found \ known : n = added(p) /\ n.pos = p
    BY <1>1, <1>5, <1>6
  <2> QED BY <2>1, <2>2, <1>7, <1>8, <1>9
<1>10. ASSUME NEW n \in UpdateOpenList(node)
       PROVE  /\ n \in Node /\ Free(n.pos) /\ \A m \in closed \cup {node} : n.pos # m.pos
              /\ n \in open \/ LeadsTo(n, node)
              /\ Walkable(n.pos)
  BY <1>1, <1>5, <1>6
<1> QED BY <1>9, <1>10

-----------------------------------------------------------------------------
(* The steps *)

(* The request stays, so a tile stays free and a line stays clear.          *)
LEMMA SameMap ==
  ASSUME UNCHANGED request
  PROVE  /\ \A p : Free(p)' <=> Free(p)
         /\ \A p, q : IsObstacleBetween(p, q)' <=> IsObstacleBetween(p, q)
         /\ \A n, m : LeadsTo(n, m)' <=> LeadsTo(n, m)
         /\ \A p : Walkable(p)' <=> Walkable(p)
<1>1. obstacles' = obstacles /\ start' = start
  BY DEF request
<1>2. \A p : Free(p)' <=> Free(p)
  BY <1>1 DEF Free, IsInRange
<1>3. \A p, q : IsObstacleBetween(p, q)' <=> IsObstacleBetween(p, q)
  BY <1>1 DEF IsObstacleBetween
<1>4. \A n, m : LeadsTo(n, m)' <=> LeadsTo(n, m)
  BY <1>3 DEF LeadsTo
<1>5. \A p, d : After(p, d)' = After(p, d)
  BY <1>1, <1>2 DEF After, Squeezed
<1>6. \A p : Walkable(p)' <=> Walkable(p)
  BY <1>1, <1>5 DEF Walkable, Walk
<1> QED BY <1>2, <1>3, <1>4, <1>6

(* Taking a node from the list keeps the invariant.                        *)
LEMMA ExpandInv ==
  ASSUME IInv, Expand
  PROVE  IInv'
<1> USE DEF IInv
<1>1. /\ obstacles' = obstacles /\ start' = start /\ destination' = destination
      /\ phase = "search" /\ start \notin obstacles
  BY DEF Expand, request
<1>2. UNCHANGED request
  BY <1>1 DEF request
<1>3. PICK node \in open :
        /\ closed' = closed \cup {node}
        /\ IF node.pos = destination
           THEN /\ route' = <<destination>>
                /\ phase' = IF node.pos = start THEN "done" ELSE "compress"
                /\ curNode' = node.pos /\ nextTarget' = node.pos
                /\ open' = open \ {node}
           ELSE /\ open' = UpdateOpenList(node)
                /\ UNCHANGED <<phase, curNode, nextTarget, route>>
  BY DEF Expand
<1>4. node \in Node /\ node.pos \in Tiles /\ node.g \in Nat
  BY DEF TypeOK, Node
<1>5. \A n \in closed \cup open : Free(n.pos)
  BY <1>1, StartFree DEF NodeInv
<1>6. CASE node.pos = destination
  <2>1. /\ route' = <<destination>> /\ curNode' = node.pos /\ nextTarget' = node.pos
        /\ phase' = IF node.pos = start THEN "done" ELSE "compress"
        /\ open' = open \ {node} /\ closed' \cup open' = closed \cup open
    BY <1>3, <1>6
  <2>2. TypeOK'
    <3>1. route' \in Seq(Tiles) /\ route' # <<>>
      BY <2>1, <1>4, <1>6
    <3>2. /\ obstacles' \in SUBSET Tiles /\ start' \in Tiles /\ destination' \in Tiles
          /\ open' \in SUBSET Node /\ closed' \in SUBSET Node
          /\ curNode' \in Tiles /\ nextTarget' \in Tiles
      BY <1>1, <1>3, <1>4, <2>1 DEF TypeOK
    <3>3. \/ phase' = "compress" /\ nextTarget' # start'
          \/ phase' = "done" /\ nextTarget' = start'
      BY <1>1, <2>1
    <3> QED BY <3>1, <3>2, <3>3 DEF TypeOK
  <2>3. NodeInv'
    BY <1>2, <1>3, <1>5, <2>1, SameMap DEF NodeInv
  <2>4. ParentInv'
    BY <1>1, <1>2, <1>3, <2>1, SameMap DEF ParentInv
  <2>5. RouteInv'
    <3>1. DOMAIN route' = {1} /\ route'[1] = node.pos
      BY <2>1, <1>6
    <3>2. ~IsObstacleBetween(node.pos, node.pos)'
      BY <1>2, <1>4, NoLine, SameMap
    <3>3. \E n \in closed' : n.pos = node.pos /\ n.g = node.g
      BY <1>3
    <3> DEFINE g == [i \in {1} |-> node.g]
    <3>4. g \in [DOMAIN route' -> Nat] /\ g[1] = node.g
      BY <3>1, <1>4
    <3> HIDE DEF g
    <3>5. \E gg \in [DOMAIN route' -> Nat], h \in Nat :
            /\ \A i \in DOMAIN route' : \E n \in closed' : n.pos = route'[i] /\ n.g = gg[i]
            /\ \A i, j \in DOMAIN route' : i < j => gg[i] < gg[j]
            /\ \E n \in closed' : n.pos = nextTarget' /\ n.g = h
            /\ nextTarget' = curNode' \/ h < gg[1]
      BY <3>1, <3>3, <3>4, <2>1, <1>4
    <3> QED BY <3>1, <3>2, <3>5, <2>1 DEF RouteInv, IsOn
  <2>6. WalkInv'
    BY <1>1, <1>2, <1>3, <1>6, <2>1, SameMap DEF WalkInv
  <2> QED BY <2>2, <2>3, <2>4, <2>5, <2>6
<1>7. CASE node.pos # destination
  <2>1. open' = UpdateOpenList(node) /\ UNCHANGED <<phase, curNode, nextTarget, route>>
    BY <1>3, <1>7
  <2>2. /\ UpdateOpenList(node) \in SUBSET Node
        /\ \A n \in UpdateOpenList(node) :
             /\ Free(n.pos) /\ \A m \in closed \cup {node} : n.pos # m.pos
             /\ n \in open \/ LeadsTo(n, node)
             /\ Walkable(n.pos)
        /\ \A m, n \in UpdateOpenList(node) : m.pos = n.pos => m = n
    BY <1>1, Opened
  <2>3. TypeOK'
    BY <1>1, <1>3, <1>4, <2>1, <2>2 DEF TypeOK
  <2>4. NodeInv'
    BY <1>2, <1>3, <1>5, <2>1, <2>2, SameMap DEF NodeInv
  <2>5. ParentInv'
    BY <1>1, <1>2, <1>3, <2>1, <2>2, SameMap DEF ParentInv
  <2>6. RouteInv'
    BY <1>1, <2>1 DEF TypeOK, RouteInv
  <2>7. WalkInv'
    BY <1>1, <1>2, <1>3, <2>1, <2>2, SameMap DEF TypeOK, WalkInv
  <2> QED BY <2>3, <2>4, <2>5, <2>6, <2>7
<1> QED BY <1>6, <1>7

(* Giving up keeps the invariant.                                          *)
LEMMA GiveUpInv ==
  ASSUME IInv, GiveUp
  PROVE  IInv'
<1> USE DEF IInv
<1>1. /\ UNCHANGED <<request, open, closed, curNode, nextTarget, route>>
      /\ obstacles' = obstacles /\ start' = start /\ destination' = destination
      /\ route = <<>> /\ route' = <<>> /\ phase' = "done"
  BY DEF GiveUp, request, TypeOK
<1>2. TypeOK'
  BY <1>1 DEF TypeOK
<1>3. NodeInv'
  BY <1>1, SameMap DEF NodeInv
<1>4. ParentInv'
  BY <1>1, SameMap DEF ParentInv
<1>5. RouteInv'
  BY <1>1 DEF RouteInv
<1>6. WalkInv'
  BY <1>1, SameMap DEF WalkInv
<1> QED BY <1>2, <1>3, <1>4, <1>5, <1>6

(* The parent of the target is closed, nearer to the start and in sight.    *)
LEMMA ParentOf ==
  ASSUME IInv, NEW h \in Nat, IsOn(nextTarget, h), nextTarget # start
  PROVE  \E k \in Nat : /\ IsOn(Parent(nextTarget), k) /\ k < h
                        /\ ~IsObstacleBetween(nextTarget, Parent(nextTarget))
                        /\ Parent(nextTarget) \in Tiles
<1>1. PICK n \in closed : n.pos = nextTarget /\ n.g = h
  BY DEF IsOn
<1>2. Parent(nextTarget) = n.parent
  <2>1. \A m \in closed : m.pos = nextTarget => m = n
    BY <1>1 DEF IInv, NodeInv
  <2>2. (CHOOSE m \in closed : m.pos = nextTarget) = n
    BY <1>1, <2>1
  <2> QED BY <2>2 DEF Parent
<1>3. PICK m \in closed : LeadsTo(n, m)
  BY <1>1 DEF IInv, ParentInv
<1>4. m.g \in Nat /\ m.pos \in Tiles
  BY DEF IInv, TypeOK, Node
<1> QED BY <1>1, <1>2, <1>3, <1>4 DEF LeadsTo, IsOn

(* A turn of CreateRoute's loop keeps the invariant.                       *)
LEMMA CompressInv ==
  ASSUME IInv, Compress
  PROVE  IInv'
<1> USE DEF IInv
<1> DEFINE nextNode == Parent(nextTarget)
<1>1. /\ UNCHANGED <<request, open, closed>> /\ phase = "compress"
      /\ obstacles' = obstacles /\ start' = start /\ destination' = destination
      /\ closed' = closed /\ open' = open
      /\ phase' = IF nextTarget' = start THEN "done" ELSE "compress"
  BY DEF Compress, request
<1>2. /\ route # <<>> /\ nextTarget # start /\ route \in Seq(Tiles)
      /\ nextTarget \in Tiles /\ curNode \in Tiles
  BY <1>1 DEF TypeOK
<1>3. PICK g \in [DOMAIN route -> Nat], h \in Nat :
        /\ \A i \in DOMAIN route : IsOn(route[i], g[i])
        /\ \A i, j \in DOMAIN route : i < j => g[i] < g[j]
        /\ IsOn(nextTarget, h)
        /\ nextTarget = curNode \/ h < g[1]
  BY <1>2 DEF RouteInv
<1>4. /\ curNode = route[1] /\ ~IsObstacleBetween(curNode, nextTarget)
      /\ \A i \in DOMAIN route \ {1} : ~IsObstacleBetween(route[i], route[i-1])
  BY <1>2 DEF RouteInv
<1>5. PICK k \in Nat : /\ IsOn(nextNode, k) /\ k < h
                       /\ ~IsObstacleBetween(nextTarget, nextNode) /\ nextNode \in Tiles
  BY <1>2, <1>3, ParentOf
<1>6. \A t, l : IsOn(t, l) <=> \E n \in closed' : n.pos = t /\ n.g = l
  BY <1>1 DEF IsOn
<1>7. Len(route) \in Nat /\ DOMAIN route = 1..Len(route) /\ 1 \in DOMAIN route
  BY <1>2
<1>8. NodeInv' /\ ParentInv' /\ WalkInv'
  BY <1>1, <1>2, SameMap DEF NodeInv, ParentInv, WalkInv
<1>9. CASE IsObstacleBetween(curNode, nextNode)
  <2>1. /\ curNode' = nextTarget /\ route' = <<nextTarget>> \o route
        /\ nextTarget' = nextTarget
    BY <1>9 DEF Compress
  <2>2. h < g[1]
    BY <1>3, <1>5, <1>9
  <2>3. /\ Len(route') = Len(route) + 1 /\ DOMAIN route' = 1..(Len(route) + 1)
        /\ route' \in Seq(Tiles) /\ route' # <<>> /\ route'[1] = nextTarget
        /\ \A i \in DOMAIN route : route'[i+1] = route[i]
    BY <1>2, <1>7, <2>1
  <2>4. TypeOK'
    BY <1>1, <1>2, <2>1, <2>3 DEF TypeOK
  <2>5. \A i \in DOMAIN route' \ {1} : i - 1 \in DOMAIN route /\ route'[i] = route[i-1]
    <3>1. ASSUME NEW i \in DOMAIN route' \ {1}
          PROVE  i - 1 \in DOMAIN route /\ route'[i] = route[i-1]
      <4>1. i - 1 \in DOMAIN route /\ (i - 1) + 1 = i
        BY <1>7, <2>3
      <4> QED BY <4>1, <2>3
    <3> QED BY <3>1
  <2>6. \E gg \in [DOMAIN route' -> Nat], hh \in Nat :
          /\ \A i \in DOMAIN route' : \E n \in closed' : n.pos = route'[i] /\ n.g = gg[i]
          /\ \A i, j \in DOMAIN route' : i < j => gg[i] < gg[j]
          /\ \E n \in closed' : n.pos = nextTarget' /\ n.g = hh
          /\ nextTarget' = curNode' \/ hh < gg[1]
    <3> DEFINE gg == [i \in DOMAIN route' |-> IF i = 1 THEN h ELSE g[i-1]]
    <3>1. gg \in [DOMAIN route' -> Nat]
      BY <2>5
    <3>2. ASSUME NEW i \in DOMAIN route' PROVE \E n \in closed' : n.pos = route'[i] /\ n.g = gg[i]
      <4>1. IsOn(route'[i], gg[i])
        BY <1>3, <2>3, <2>5
      <4> HIDE DEF gg
      <4> QED BY <4>1, <1>6
    <3>3. ASSUME NEW i \in DOMAIN route', NEW j \in DOMAIN route', i < j
          PROVE  gg[i] < gg[j]
      <4>1. \A l \in DOMAIN route : h < g[l]
        BY <1>3, <1>7, <2>2
      <4>2. j # 1 /\ gg[j] = g[j-1]
        BY <3>3, <2>3
      <4>3. CASE i = 1
        BY <4>1, <4>2, <4>3, <2>5
      <4>4. CASE i # 1
        <5>1. gg[i] = g[i-1] /\ i - 1 \in DOMAIN route /\ j - 1 \in DOMAIN route
          BY <4>2, <4>4, <2>5
        <5>2. i - 1 < j - 1
          BY <3>3, <2>3
        <5> QED BY <4>2, <5>1, <5>2, <1>3
      <4> QED BY <4>3, <4>4
    <3>4. \E n \in closed' : n.pos = nextTarget' /\ n.g = h
      BY <1>3, <1>6, <2>1
    <3> HIDE DEF gg
    <3> QED BY <3>1, <3>2, <3>3, <3>4, <2>1
  <2>7. \A i \in DOMAIN route' \ {1} : ~IsObstacleBetween(route'[i], route'[i-1])
    <3>1. ASSUME NEW i \in DOMAIN route' \ {1}
          PROVE  ~IsObstacleBetween(route'[i], route'[i-1])
      <4>1. CASE i = 2
        BY <4>1, <1>4, <2>3, <2>5
      <4>2. CASE i # 2
        <5>1. i - 1 \in DOMAIN route' \ {1} /\ i - 1 \in DOMAIN route \ {1}
          BY <4>2, <2>3, <2>5, <1>7
        <5>2. route'[i] = route[i-1] /\ route'[i-1] = route[(i-1)-1]
          BY <5>1, <2>5
        <5> QED BY <5>1, <5>2, <1>4
      <4> QED BY <4>1, <4>2
    <3> QED BY <3>1
  <2>8. RouteInv'
    <3>1. ~IsObstacleBetween(nextTarget, nextTarget)
      BY <1>2, NoLine
    <3> QED BY <3>1, <2>1, <2>3, <2>6, <2>7, <1>1, SameMap DEF RouteInv, IsOn
  <2> QED BY <1>8, <2>4, <2>8
<1>10. CASE ~IsObstacleBetween(curNode, nextNode)
  <2>1. nextTarget' = nextNode /\ curNode' = curNode /\ route' = route
    BY <1>10 DEF Compress
  <2>2. TypeOK'
    BY <1>1, <1>2, <1>5, <2>1 DEF TypeOK
  <2>3. h <= g[1]
    <3>1. CASE nextTarget = curNode
      <4>1. IsOn(nextTarget, g[1]) /\ IsOn(nextTarget, h)
        BY <3>1, <1>3, <1>4, <1>7
      <4>2. g[1] = h
        BY <4>1 DEF IsOn, NodeInv
      <4> QED BY <4>2, <1>3
    <3>2. CASE h < g[1]
      BY <3>2, <1>3, <1>7
    <3> QED BY <3>1, <3>2, <1>3
  <2>4. k < g[1] /\ \E n \in closed' : n.pos = nextTarget' /\ n.g = k
    BY <2>1, <2>3, <1>3, <1>5, <1>6, <1>7
  <2>5. \E gg \in [DOMAIN route' -> Nat], hh \in Nat :
          /\ \A i \in DOMAIN route' : \E n \in closed' : n.pos = route'[i] /\ n.g = gg[i]
          /\ \A i, j \in DOMAIN route' : i < j => gg[i] < gg[j]
          /\ \E n \in closed' : n.pos = nextTarget' /\ n.g = hh
          /\ nextTarget' = curNode' \/ hh < gg[1]
    BY <2>1, <2>4, <1>3, <1>5, <1>6
  <2>6. RouteInv'
    BY <2>1, <2>5, <1>1, <1>4, <1>10, SameMap DEF RouteInv, IsOn
  <2> QED BY <1>8, <2>2, <2>6
<1> QED BY <1>9, <1>10

-----------------------------------------------------------------------------
(* What single steps reach *)

(* The tiles of S and those one step away, and the function of Reachable.   *)
Grow(S) == S \cup {After(p, d) : p \in S, d \in Direction}
Spread(f, m) == [n \in 0..m |-> IF n = 0 THEN {start} ELSE Grow(f[n-1])]

(* The recursive function of Reachable exists.                             *)
LEMMA SpreadExists ==
  ASSUME NEW n \in Nat
  PROVE  \E f : f = Spread(f, n)
<1> DEFINE exists(m) == \E f : f = Spread(f, m)
           T == {m \in Nat : ~exists(m)}
<1>1. exists(0)
  <2> DEFINE f == [k \in 0..0 |-> {start}]
  <2>1. Spread(f, 0) = [k \in 0..0 |-> IF k = 0 THEN {start} ELSE Grow(f[k-1])]
    BY DEF Spread
  <2>2. f = Spread(f, 0)
    BY <2>1
  <2> HIDE DEF f
  <2> QED BY <2>2
<1>2. ASSUME NEW m \in Nat, m # 0, exists(m - 1) PROVE exists(m)
  <2>1. PICK f : f = Spread(f, m - 1)
    BY <1>2
  <2> DEFINE g == [k \in 0..m |-> IF k = m THEN Grow(f[m-1]) ELSE f[k]]
  <2>2. \A k \in 0..m-1 : f[k] = IF k = 0 THEN {start} ELSE Grow(f[k-1])
    BY <2>1, <1>2 DEF Spread
  <2>3. ASSUME NEW k \in 0..m PROVE g[k] = IF k = 0 THEN {start} ELSE Grow(g[k-1])
    <3>1. CASE k = 0
      BY <3>1, <2>2, <1>2
    <3>2. CASE k # 0
      <4>1. k - 1 \in 0..m-1 /\ g[k-1] = f[k-1]
        BY <3>2, <1>2
      <4>2. CASE k = m
        BY <4>1, <4>2, <3>2
      <4>3. CASE k # m
        <5>1. k \in 0..m-1 /\ g[k] = f[k]
          BY <4>3, <1>2
        <5> QED BY <4>1, <5>1, <2>2, <3>2
      <4> QED BY <4>2, <4>3
    <3> QED BY <3>1, <3>2
  <2>4. DOMAIN g = 0..m /\ g = [k \in DOMAIN g |-> g[k]]
    OBVIOUS
  <2> HIDE DEF g
  <2>5. g = Spread(g, m)
    BY <2>3, <2>4 DEF Spread
  <2> QED BY <2>5
<1> HIDE DEF exists
<1>3. ASSUME T # {} PROVE FALSE
  <2>1. PICK x \in T : \A y \in T : x <= y
    <3>1. T \in SUBSET Nat
      OBVIOUS
    <3> HIDE DEF T
    <3> QED BY <1>3, <3>1, Least
  <2>2. x \in Nat /\ x # 0 /\ ~exists(x)
    BY <1>1
  <2>3. exists(x - 1)
    <3>1. x - 1 \in Nat /\ ~(x <= x - 1)
      BY <2>2
    <3>2. x - 1 \notin T
      <4> HIDE DEF T
      <4> QED BY <2>1, <3>1
    <3> QED BY <3>1, <3>2
  <2> QED BY <1>2, <2>2, <2>3
<1>4. exists(n)
  BY <1>3
<1> QED BY <1>4 DEF exists

(* A step stays on the map.                                                 *)
LEMMA GrowTiles ==
  ASSUME NEW S \in SUBSET Tiles
  PROVE  Grow(S) \in SUBSET Tiles
<1>1. ASSUME NEW p \in Tiles, NEW d \in Direction PROVE After(p, d) \in Tiles
  BY DEF After, Free, IsInRange
<1> QED BY <1>1 DEF Grow

(* As many rounds as there are tiles reach whatever can be reached: a round *)
(* that adds nothing is the last that could.                                *)
LEMMA SpreadClosed ==
  ASSUME start \in Tiles, NEW f, f = Spread(f, Width * Height)
  PROVE  /\ start \in f[Width * Height]
         /\ Grow(f[Width * Height]) \subseteq f[Width * Height]
<1>1. PICK m \in Nat : m = Width * Height
  BY PathFinderAssumption
<1>2. IsFiniteSet(Tiles) /\ Cardinality(Tiles) = m
  <2>1. /\ IsFiniteSet(0..Width-1) /\ Cardinality(0..Width-1) = Width
        /\ IsFiniteSet(0..Height-1) /\ Cardinality(0..Height-1) = Height
    <3>1. /\ Width \in Nat \ {0} /\ Height \in Nat \ {0}
          /\ 0 \in Int /\ Width - 1 \in Int /\ Height - 1 \in Int
      BY PathFinderAssumption
    <3>2. IsFiniteSet(0..Width-1) /\ Cardinality(0..Width-1) = IF 0 > Width-1 THEN 0 ELSE (Width-1)-0+1
      BY <3>1, FS_Interval
    <3>3. IsFiniteSet(0..Height-1) /\ Cardinality(0..Height-1) = IF 0 > Height-1 THEN 0 ELSE (Height-1)-0+1
      BY <3>1, FS_Interval
    <3> QED BY <3>1, <3>2, <3>3
  <2>2. IsFiniteSet(Tiles) /\ Cardinality(Tiles) = Cardinality(0..Width-1) * Cardinality(0..Height-1)
    BY <2>1, FS_Product DEF Tiles
  <2> QED BY <1>1, <2>1, <2>2
<1>3. f[0] = {start} /\ \A k \in 1..m : f[k] = Grow(f[k-1])
  <2>1. f = Spread(f, m)
    BY <1>1
  <2>2. f = [n \in 0..m |-> IF n = 0 THEN {start} ELSE Grow(f[n-1])]
    BY <2>1 DEF Spread
  <2>3. \A n \in 0..m : f[n] = IF n = 0 THEN {start} ELSE Grow(f[n-1])
    BY <2>2
  <2> QED BY <2>3
<1>4. \A k \in 1..m : f[k-1] \subseteq f[k]
  BY <1>3 DEF Grow
<1> DEFINE good(k) == f[k] \in SUBSET Tiles /\ start \in f[k]
                      /\ (Cardinality(f[k]) > k \/ Grow(f[k]) = f[k])
           T == {k \in 0..m : ~good(k)}
<1>5. good(0)
  <2>1. f[0] \in SUBSET Tiles /\ start \in f[0]
    BY <1>3
  <2>2. Cardinality(f[0]) = 1
    BY <1>3, FS_Singleton
  <2> QED BY <2>1, <2>2
<1>6. ASSUME NEW k \in 1..m, good(k - 1) PROVE good(k)
  <2>1. f[k] \in SUBSET Tiles /\ start \in f[k]
    BY <1>3, <1>4, <1>6, GrowTiles
  <2>2. CASE f[k] = f[k-1]
    BY <2>1, <2>2, <1>3
  <2>3. CASE f[k] # f[k-1]
    <3>1. Cardinality(f[k-1]) > k - 1
      BY <2>3, <1>3, <1>6
    <3>2. IsFiniteSet(f[k]) /\ IsFiniteSet(f[k-1])
      BY <2>1, <1>2, <1>6, FS_Subset
    <3>3. Cardinality(f[k-1]) <= Cardinality(f[k]) /\ Cardinality(f[k-1]) # Cardinality(f[k])
      BY <2>3, <3>2, <1>4, FS_Subset
    <3>4. Cardinality(f[k]) \in Nat /\ Cardinality(f[k-1]) \in Nat
      BY <3>2, FS_CardinalityType
    <3>5. Cardinality(f[k]) > k
      BY <3>1, <3>3, <3>4
    <3> QED BY <2>1, <3>5
  <2> QED BY <2>2, <2>3
<1> HIDE DEF good
<1>7. ASSUME T # {} PROVE FALSE
  <2>1. PICK x \in T : \A y \in T : x <= y
    <3>1. T \in SUBSET Nat
      OBVIOUS
    <3> HIDE DEF T
    <3> QED BY <1>7, <3>1, Least
  <2>2. x \in 1..m /\ ~good(x)
    BY <1>5
  <2>3. good(x - 1)
    BY <2>1, <2>2
  <2> QED BY <1>6, <2>2, <2>3
<1>8. good(m)
  BY <1>7
<1>9. Cardinality(f[m]) <= m /\ Cardinality(f[m]) \in Nat
  <2>1. f[m] \in SUBSET Tiles
    BY <1>8 DEF good
  <2> QED BY <2>1, <1>2, FS_Subset, FS_CardinalityType
<1>10. start \in f[m] /\ Grow(f[m]) = f[m]
  BY <1>8, <1>9 DEF good
<1> QED BY <1>1, <1>10

(* A walk never leaves what the rounds have reached.                       *)
LEMMA WalkableReached ==
  ASSUME start \in Tiles, NEW f, f = Spread(f, Width * Height), NEW tile, Walkable(tile)
  PROVE  tile \in f[Width * Height]
<1>0. PICK m \in Nat : \E w \in [0..m -> Tiles] : Walk(w, m, tile)
  BY DEF Walkable
<1>1. PICK w \in [0..m -> Tiles] : Walk(w, m, tile)
  BY <1>0
<1>2. PICK S : S = f[Width * Height]
  OBVIOUS
<1>3. start \in S /\ Grow(S) \subseteq S
  BY <1>2, SpreadClosed
<1> DEFINE T == {k \in 0..m : w[k] \notin S}
<1>4. ASSUME T # {} PROVE FALSE
  <2>1. PICK x \in T : \A y \in T : x <= y
    <3>1. T \in SUBSET Nat
      OBVIOUS
    <3> HIDE DEF T
    <3> QED BY <1>4, <3>1, Least
  <2>2. x \in 1..m /\ w[x] \notin S
    BY <1>1, <1>3 DEF Walk
  <2>3. w[x-1] \in S
    BY <2>1, <2>2
  <2>4. PICK d \in Direction : w[x] = After(w[x-1], d)
    BY <1>1, <2>2 DEF Walk
  <2> QED BY <1>3, <2>2, <2>3, <2>4 DEF Grow
<1> QED BY <1>1, <1>2, <1>4 DEF Walk

(* What can be walked to is reachable.                                      *)
LEMMA WalkableReachable ==
  ASSUME start \in Tiles, start \notin obstacles, NEW tile, Walkable(tile)
  PROVE  Reachable(tile)
<1> DEFINE within == CHOOSE f : f = Spread(f, Width * Height)
<1>1. Width * Height \in Nat
  BY PathFinderAssumption
<1>2. within = Spread(within, Width * Height)
  BY <1>1, SpreadExists
<1>3. tile \in within[Width * Height]
  <2> HIDE DEF within
  <2> QED BY <1>2, WalkableReached
<1> QED BY <1>3 DEF Reachable, Spread, Grow

-----------------------------------------------------------------------------
(* The theorems *)

(* The invariant holds in every state the path finder reaches.              *)
THEOREM Inductive == Spec => []IInv
<1>1. Init => IInv
  BY InitInv
<1>2. IInv /\ [Next]_vars => IInv'
  <2>1. ASSUME IInv, [Next]_vars PROVE IInv'
    <3>1. CASE Next
      BY <2>1, <3>1, ExpandInv, GiveUpInv, CompressInv DEF Next
    <3>2. CASE UNCHANGED vars
      <4>1. /\ UNCHANGED request
            /\ UNCHANGED <<obstacles, start, destination, phase, open, closed,
                           curNode, nextTarget, route>>
        BY <3>2 DEF vars, request
      <4>2. TypeOK'
        BY <2>1, <4>1 DEF IInv, TypeOK
      <4>3. NodeInv'
        BY <2>1, <4>1, SameMap DEF IInv, NodeInv
      <4>4. ParentInv'
        BY <2>1, <4>1, SameMap DEF IInv, ParentInv
      <4>5. RouteInv'
        BY <2>1, <4>1, SameMap DEF IInv, RouteInv, IsOn
      <4>6. WalkInv'
        BY <2>1, <4>1, SameMap DEF IInv, WalkInv
      <4> QED BY <4>2, <4>3, <4>4, <4>5, <4>6 DEF IInv
    <3> QED BY <2>1, <3>1, <3>2
  <2> QED BY <2>1
<1> QED BY <1>1, <1>2, PTL DEF Spec

(* Every variable of the path finder has its type.                          *)
THEOREM Types == Spec => []TypeOK
<1>1. IInv => TypeOK
  BY DEF IInv
<1> QED BY <1>1, Inductive, PTL

(* Both loops of Execute end: no tile is taken from the list twice, and no  *)
(* corner is put into the route twice.                                      *)
THEOREM Ends == Spec => []NothingTwice
<1>1. ASSUME IInv PROVE NothingTwice
  <2>1. \A m, n \in closed \cup open : m.pos = n.pos => m = n
    BY <1>1 DEF IInv, NodeInv
  <2>2. ASSUME NEW a \in DOMAIN route, NEW b \in DOMAIN route, route[a] = route[b]
        PROVE  a = b
    <3>1. route \in Seq(Tiles) /\ route # <<>>
      BY <1>1, <2>2 DEF IInv, TypeOK
    <3>2. PICK g \in [DOMAIN route -> Nat] :
            /\ \A i \in DOMAIN route : IsOn(route[i], g[i])
            /\ \A i, j \in DOMAIN route : i < j => g[i] < g[j]
      BY <1>1, <3>1 DEF IInv, RouteInv
    <3>3. g[a] = g[b]
      BY <2>1, <2>2, <3>2 DEF IsOn
    <3>4. a \in Nat /\ b \in Nat /\ g[a] \in Nat /\ g[b] \in Nat
      BY <3>1
    <3> QED BY <3>2, <3>3, <3>4
  <2> QED BY <2>1, <2>2 DEF NothingTwice, IsInjective
<1> QED BY <1>1, Inductive, PTL

(* A client that walks the route meets no obstacle of the map it was found  *)
(* on: each line, looked along from its end, is clear.                      *)
THEOREM ClearLines == Spec => []LinesAreClear
<1>1. ASSUME IInv PROVE LinesAreClear
  <2>1. ASSUME phase = "done", route # <<>>, NEW i \in 1..Len(route)
        PROVE  ~IsObstacleBetween(route[i], IF i = 1 THEN start ELSE route[i-1])
    <3>1. route \in Seq(Tiles) /\ nextTarget = start
      BY <1>1, <2>1 DEF IInv, TypeOK
    <3>2. /\ curNode = route[1] /\ ~IsObstacleBetween(curNode, nextTarget)
          /\ \A k \in DOMAIN route \ {1} : ~IsObstacleBetween(route[k], route[k-1])
      BY <1>1, <2>1 DEF IInv, RouteInv
    <3>3. i \in DOMAIN route
      BY <3>1
    <3>4. CASE i = 1
      BY <3>1, <3>2, <3>4
    <3>5. CASE i # 1
      BY <3>2, <3>3, <3>5
    <3> QED BY <3>4, <3>5
  <2> QED BY <2>1 DEF LinesAreClear
<1> QED BY <1>1, Inductive, PTL

(* Whatever the jumps skip, a route is found only where single steps lead. *)
THEOREM RoutesReach == Spec => []RouteIsReachable
<1>1. ASSUME IInv PROVE RouteIsReachable
  <2>1. ASSUME route # <<>> PROVE Reachable(destination)
    <3>1. start \in Tiles /\ start \notin obstacles /\ Walkable(destination)
      BY <1>1, <2>1 DEF IInv, TypeOK, WalkInv
    <3> QED BY <3>1, WalkableReachable
  <2> QED BY <2>1 DEF RouteIsReachable
<1> QED BY <1>1, Inductive, PTL
=============================================================================
