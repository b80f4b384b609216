----------------------------- MODULE MCGroupBase -----------------------------
(* Instances of GroupBase: where handlers move sessions.                     *)
EXTENDS GroupBase

(* Two groups a session can be moved between, as from field to field.       *)
Fields == {<<0, 1>>, <<1, 0>>}
=============================================================================
