------------------------------ MODULE MCTopics ------------------------------
(* Instances of Topics for TLC. *)
EXTENDS Topics

CONSTANTS c1, c2, worker, keeper, none

=============================================================================
