--------------------------- MODULE MCMessageStore ---------------------------
(* Instances of MessageStore for TLC. *)
EXTENDS MessageStore

CONSTANTS m1, m2, t1

\* One topic, no idempotency keys.
OneTopic == [m \in Messages |-> t1]
NoKeys == [m \in Messages |-> NoKey]

OneShard == [t \in Topics |-> 1]

=============================================================================
