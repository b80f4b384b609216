---------------------------- MODULE MCGameField ----------------------------
(* The constants of GameField for TLC: sectors are pairs. *)
EXTENDS GameField, TLC

MCWalkable == {<<1, 1>>, <<2, 2>>, <<2, 3>>, <<3, 2>>}
MCSection == {<<2, 2>>, <<2, 3>>}
MCEntry == {<<1, 1>>, <<3, 2>>}
MCSpawn == <<2, 3>>

MCSymmetry == Permutations(Players) \cup Permutations(CharacterSlots)
              \cup Permutations(MonsterSlots)

=============================================================================
