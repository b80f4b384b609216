-------------------------- MODULE MCCharacterStore --------------------------
(* Sessions, accounts and fields are interchangeable.                       *)
EXTENDS CharacterStore, TLC
Symmetry == Permutations(Sessions) \cup Permutations(Accounts) \cup Permutations(Fields)
=============================================================================
