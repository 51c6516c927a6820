------------------------------ MODULE MCPanel ------------------------------
(* Panel for TLC. *)
EXTENDS Panel
=============================================================================
