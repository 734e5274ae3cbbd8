---------------------------- MODULE MCEslListener ----------------------------
(* Instances of EslListener for TLC. *)
EXTENDS EslListener

CONSTANT c1

OneCall == {c1}
=============================================================================
