------------------------- MODULE MCPathFinderMisses -------------------------
(* A map on which the search misses a tile that lies open before it, with s *)
(* the start and d a destination:                                           *)
(*                             .....s..                                     *)
(*                             ......#.                                     *)
(*                             .#......                                     *)
(*                             .......d                                     *)
(*                             ..#.....                                     *)
EXTENDS PathFinder

MCMaps == {{<<6, 1>>, <<1, 2>>, <<2, 4>>}}
MCStarts == {<<5, 0>>}

=============================================================================
