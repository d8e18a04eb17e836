----------------------------- MODULE MCElection -----------------------------
(* Instances of Election for TLC. *)
EXTENDS Election

CONSTANTS c1, c2

SameTtl == [c \in Candidates |-> 2]
OtherTtl == [c \in Candidates |-> IF c = c1 THEN 1 ELSE 2]

=============================================================================
