----------------------------- MODULE MCRequests -----------------------------
(* Requests for TLC. *)
EXTENDS Requests

\* Lines of a dialogue, an empty one, and a tool's.
MCRows == {[role |-> "user", content |-> "words"], [role |-> "assistant", content |-> "words"],
           [role |-> "assistant", content |-> "blank"], [role |-> "tool", content |-> "words"]}
=============================================================================
