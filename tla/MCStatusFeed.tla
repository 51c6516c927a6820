---------------------------- MODULE MCStatusFeed ----------------------------
(* StatusFeed for TLC. *)
EXTENDS StatusFeed
=============================================================================
