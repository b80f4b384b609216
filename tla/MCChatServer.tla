---------------------------- MODULE MCChatServer -----------------------------
(* Instances of ChatServer.                                                  *)
EXTENDS ChatServer, TLC

(* Threads of a kind, and players, are interchangeable.                      *)
Symmetry == Permutations(Workers) \cup Permutations(Players)
=============================================================================
