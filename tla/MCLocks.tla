------------------------------- MODULE MCLocks -------------------------------
(* An instance of Locks for TLC: two owners with different times to live. *)
EXTENDS Locks

CONSTANTS o1, o2, nobody

TwoOwners == {o1, o2}
Ttls == [o \in TwoOwners |-> IF o = o1 THEN 1 ELSE 2]

=============================================================================
