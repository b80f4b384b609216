----------------------------- MODULE PathFinder -----------------------------
(***************************************************************************)
(* PathFinder::Execute: jump point search from one tile to another on the  *)
(* obstacle map of a field, then the compression of the path it found into *)
(* straight lines.  One step is one turn of a loop of the code.            *)
(*                                                                         *)
(* A position is a tile <<x, y>>.  The maps of src/Data have one tile per  *)
(* unit, so the factors PrecisionWidth and PrecisionHeight are 1.          *)
(***************************************************************************)
EXTENDS Integers, Sequences, Functions

CONSTANTS
  Width, Height,  \* of the map, in tiles
  Window,         \* how far from the start the search looks (30)
  Maps,           \* the sets of obstacles to search between
  Starts          \* the tiles to search from

Tiles == (0..Width-1) \X (0..Height-1)

ASSUME PathFinderAssumption ==
  /\ {Width, Height, Window} \subseteq Nat \ {0}
  /\ Maps \subseteq SUBSET Tiles /\ Starts \subseteq Tiles

VARIABLES
  obstacles, start, destination, \* the request: fixed
  phase,     \* "search", "compress" or "done"
  open,      \* _openNode with _openNodeMap
  closed,    \* _closeNode
  curNode, nextTarget,  \* of CreateRoute
  route      \* the result

request == <<obstacles, start, destination>>

vars == <<request, phase, open, closed, curNode, nextTarget, route>>

-----------------------------------------------------------------------------
(* Directions and tiles *)

Direction == 0..7   \* DD, LD, LL, LU, UU, RU, RR, RD

UNIT_VECTOR == <<<<0, 1>>, <<-1, 1>>, <<-1, 0>>, <<-1, -1>>,
                 <<0, -1>>, <<1, -1>>, <<1, 0>>, <<1, 1>>>>

\* RotateClockwise<45 * k>; Split is the pair of k = -1 and k = 1, for every
\* direction (its first branch cannot be taken).
Turn(d, k) == (d + k + 8) % 8

IsDiagonal(d) == d % 2 = 1

\* The tile n steps away.
Step(p, d, n) == <<p[1] + n * UNIT_VECTOR[d + 1][1], p[2] + n * UNIT_VECTOR[d + 1][2]>>

\* _minWidth.. _maxHeight: the window around the start, cut to the map.
IsInRange(p) == /\ p \in Tiles
                /\ \A i \in 1..2 : p[i] >= start[i] - Window /\ p[i] < start[i] + Window

Free(p) == IsInRange(p) /\ p \notin obstacles

\* CheckTile: an obstacle whose next tile is free.
CheckTile(p, d) == IsInRange(p) /\ p \in obstacles /\ Free(Step(p, d, 1))

-----------------------------------------------------------------------------
(* The jumps.  Each walks from p until something stops it, and returns the *)
(* tile with the directions to go on in, or NoRoute.                       *)

NoRoute == [pos |-> <<>>, dirs |-> {}]

\* How far one gets before stops(n) first holds; it does beyond the map.
First(stops(_)) == CHOOSE n \in 1..(Width + Height) :
                     stops(n) /\ \A m \in 1..(n-1) : ~stops(m)

\* Obstacles passed on either side force a turn, if the way ahead is free.
OrthogonalTurns(now, d) ==
  {Turn(d, k) : k \in {k \in {-1, 1} : /\ CheckTile(Step(now, Turn(d, 2 * k), 1), d)
                                       /\ Step(now, d, 1) \notin obstacles}}

SearchOrthogonal(p, d) ==
  LET stops(n) == LET now == Step(p, d, n) IN
        ~Free(now) \/ now = destination \/ OrthogonalTurns(now, d) # {}
      now == Step(p, d, First(stops))
  IN IF ~Free(now) THEN NoRoute
     ELSE [pos |-> now, dirs |-> IF now = destination THEN {}
                                 ELSE OrthogonalTurns(now, d) \cup {d}]

\* A diagonal step passes between two tiles; one of them may be blocked.
Squeezed(now, d) ==
  Step(now, Turn(d, -3), 1) \in obstacles /\ Step(now, Turn(d, 3), 1) \in obstacles

DiagonalTurns(now, d) ==
  {Turn(d, 2 * k) : k \in {k \in {-1, 1} :
                             CheckTile(Step(now, Turn(d, 3 * k), 1), Turn(d, k))}}

\* Does a jump to a side of the diagonal lead anywhere?
Branches(now, d) == \E k \in {-1, 1} : SearchOrthogonal(now, Turn(d, k)) # NoRoute

\* mutant: only the tile ahead can stop it, both corners may be blocked.
SearchDiagonal_Squeezes(p, d) ==
  LET stops(n) == LET now == Step(p, d, n) IN
        ~Free(now) \/ now = destination \/ DiagonalTurns(now, d) # {} \/ Branches(now, d)
      now == Step(p, d, First(stops))
  IN IF ~Free(now) THEN NoRoute
     ELSE [pos |-> now, dirs |-> IF now = destination THEN {}
             ELSE DiagonalTurns(now, d) \cup {d, Turn(d, -1), Turn(d, 1)}]

SearchDiagonal(p, d) ==
  LET blocked(now) == ~Free(now) \/ Squeezed(now, d)
      stops(n) == LET now == Step(p, d, n) IN
        \/ blocked(now) \/ now = destination
        \/ DiagonalTurns(now, d) # {} \/ Branches(now, d)
      now == Step(p, d, First(stops))
  IN IF blocked(now) THEN NoRoute
     ELSE [pos |-> now, dirs |-> IF now = destination THEN {}
             ELSE DiagonalTurns(now, d) \cup {d, Turn(d, -1), Turn(d, 1)}]

Jump(p, d) == IF IsDiagonal(d) THEN SearchDiagonal(p, d) ELSE SearchOrthogonal(p, d)

-----------------------------------------------------------------------------
(* The search *)

Abs(i) == IF i < 0 THEN -i ELSE i

Manhattan(p, q) == Abs(p[1] - q[1]) + Abs(p[2] - q[2])

\* The Euclidean length.  Tiles are vectors of integers, and so is their norm
\* in Eigen: the root is cut off, a diagonal step is 1 long, two of them are 2.
Length(p, q) ==
  LET square == (p[1] - q[1]) * (p[1] - q[1]) + (p[2] - q[2]) * (p[2] - q[2])
  IN CHOOSE n \in 0..Manhattan(p, q) : n * n <= square /\ square < (n + 1) * (n + 1)

F(node) == node.g + Manhattan(node.pos, destination)

\* StartRoutine.
Init ==
  /\ obstacles \in Maps /\ start \in Starts /\ destination \in Tiles
  /\ phase = "search"
  /\ open = {[pos |-> start, g |-> 0, parent |-> start, dirs |-> Direction]}
  /\ closed = {} /\ route = <<>>
  /\ curNode = start /\ nextTarget = start

\* mutant: a tile that is closed already is opened again.
UpdateOpenList_Reopens(node) ==
  LET jumps == {Jump(node.pos, d) : d \in node.dirs} \ {NoRoute}
      to(p) == CHOOSE j \in jumps : j.pos = p
      found == {j.pos : j \in jumps} \ {n.pos : n \in open}
  IN (open \ {node}) \cup
       {[pos |-> p, g |-> node.g + Length(node.pos, p), parent |-> node.pos,
         dirs |-> to(p).dirs] : p \in found}

\* UpdateOpenList for every jump of Update: a tile that is closed is left; one
\* that is open gets a shorter way to it but keeps its directions.
UpdateOpenList(node) ==
  LET jumps == {Jump(node.pos, d) : d \in node.dirs} \ {NoRoute}
      to(p) == CHOOSE j \in jumps : j.pos = p
      cost(p) == node.g + Length(node.pos, p)
      found == {j.pos : j \in jumps} \ {n.pos : n \in closed \cup {node}}
      known == {n.pos : n \in open}
      better(n) == n.pos \in found /\ n.g > cost(n.pos)
  IN {IF better(n) THEN [n EXCEPT !.g = cost(n.pos), !.parent = node.pos] ELSE n :
        n \in open \ {node}}
     \cup {[pos |-> p, g |-> cost(p), parent |-> node.pos, dirs |-> to(p).dirs] :
             p \in found \ known}

\* The loop of Execute.  The list is sorted by rising f and its last node is
\* taken: the one with the largest estimate.
Expand ==
  /\ phase = "search" /\ start \notin obstacles /\ open # {}
  /\ \E node \in open :
       /\ \A n \in open : F(n) <= F(node)
       /\ closed' = closed \cup {node}
       /\ IF node.pos = destination
          THEN /\ route' = <<destination>>
               /\ phase' = IF node.pos = start THEN "done" ELSE "compress"
               /\ curNode' = node.pos /\ nextTarget' = node.pos
               /\ open' = open \ {node}
          ELSE /\ open' = UpdateOpenList(node)
               /\ UNCHANGED <<phase, curNode, nextTarget, route>>
  /\ UNCHANGED request

\* The list is empty, or the start itself is an obstacle: no route.
GiveUp ==
  /\ phase = "search" /\ (start \in obstacles \/ open = {})
  /\ phase' = "done"
  /\ UNCHANGED <<request, open, closed, curNode, nextTarget, route>>

-----------------------------------------------------------------------------
(* The compression *)

Parent(p) == (CHOOSE n \in closed : n.pos = p).parent

\* IsObstacleBetween: the tiles of Bresenham's line from p to q, p left out.
\* The longer axis advances every time, the other when the error passes half.
Line(p, q) ==
  LET diff == <<Abs(q[1] - p[1]), Abs(q[2] - p[2])>>
      unit == [i \in 1..2 |-> IF q[i] > p[i] THEN 1 ELSE IF q[i] < p[i] THEN -1 ELSE 0]
      long == IF diff[1] > diff[2] THEN 1 ELSE 2
      short == 3 - long
      at[n \in 0..diff[long]] ==
        IF n = 0 THEN [side |-> 0, error |-> 0]
        ELSE LET before == at[n-1]
                 error == before.error + 2 * diff[short]
                 aside == error > diff[long]
             IN [side |-> IF aside THEN before.side + 1 ELSE before.side,
                 error |-> IF aside THEN error - 2 * diff[long] ELSE error]
      tile(n) == [i \in 1..2 |-> p[i] + unit[i] * IF i = long THEN n ELSE at[n].side]
  IN {tile(n) : n \in 1..diff[long]}

IsObstacleBetween(p, q) == Line(p, q) \cap obstacles # {}

\* CreateRoute: from the end back along the parents.  As long as the next node
\* is in sight it becomes the target; when it is not, the last that was is a
\* corner of the route.
Compress ==
  /\ phase = "compress"
  /\ LET nextNode == Parent(nextTarget) IN
       IF IsObstacleBetween(curNode, nextNode)
       THEN /\ curNode' = nextTarget
            /\ route' = <<nextTarget>> \o route
            /\ UNCHANGED nextTarget
       ELSE /\ nextTarget' = nextNode
            /\ UNCHANGED <<curNode, route>>
  /\ phase' = IF nextTarget' = start THEN "done" ELSE "compress"
  /\ UNCHANGED <<request, open, closed>>

Next == Expand \/ GiveUp \/ Compress

Spec == Init /\ [][Next]_vars

-----------------------------------------------------------------------------
(* Properties *)

\* The reference: a single step is to a free tile, and not squeezed through.
After(p, d) ==
  LET q == Step(p, d, 1)
  IN IF Free(q) /\ ~(IsDiagonal(d) /\ Squeezed(q, d)) THEN q ELSE p

Reachable(tile) ==
  LET within[n \in 0..(Width * Height)] ==   \* in at most n of them
        IF n = 0 THEN {start}
        ELSE LET before == within[n-1]
             IN before \cup {After(p, d) : p \in before, d \in Direction}
  IN start \notin obstacles /\ tile \in within[Width * Height]

\* The jumps skip tiles, and still a route is found only to a destination
\* that single steps reach.
RouteIsReachable == phase = "done" /\ route # <<>> => Reachable(destination)

\* And to every one of them: what a search by jump points promises.  The code
\* does not keep it: a tile that is found a second time keeps the directions
\* of the first way, and the list is worked off from its far end.
FindsWhatIsReachable == phase = "done" /\ Reachable(destination) => route # <<>>

\* Each line of the route is clear, looked along from its end.
LinesAreClear ==
  phase = "done" /\ route # <<>> =>
    \A i \in 1..Len(route) :
      ~IsObstacleBetween(route[i], IF i = 1 THEN start ELSE route[i-1])

\* Both loops end: no tile is taken from the list twice (the second node would
\* be lost when the nodes are freed by their tiles), and no corner is put into
\* the route twice.
NothingTwice ==
  /\ \A m, n \in closed \cup open : m.pos = n.pos => m = n
  /\ IsInjective(route)

=============================================================================
