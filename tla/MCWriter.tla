------------------------------ MODULE MCWriter ------------------------------
(* Instances of Writer for TLC. *)
EXTENDS Writer

CONSTANTS p1, p2, p3, d1, a1, k1, k2

\* p1, p3 and d1 repeat one publish; p2 is another.
Repeated == [c \in Publishes |-> IF c = p2 THEN k2 ELSE k1]

=============================================================================
