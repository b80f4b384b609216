---------------------------- MODULE MCPathFinder ----------------------------
(* The maps PathFinder is checked on: every one with few obstacles. *)
EXTENDS PathFinder, FiniteSetsExt

CONSTANT MaxObstacles

MCMaps == UNION {kSubset(k, Tiles) : k \in 0..MaxObstacles}
MCStarts == {<<0, 0>>, <<1, 2>>}

=============================================================================
