---------------------------- MODULE MessageLife ----------------------------
(***************************************************************************)
(* What the broker promises about a stored message, without clocks, shards, *)
(* statements or tasks.  A message waits until a consumer takes it under a  *)
(* token nobody has ever had; it is then the holder's until it is settled   *)
(* or waits again.  A settled message is never handed out again.  It fails  *)
(* for good only after MaxAttempts deliveries.                              *)
(*                                                                          *)
(* MessageStore (the SQL statements) and Delivery (the tasks that issue     *)
(* them) are both shown to implement this specification.                    *)
(***************************************************************************)
EXTENDS Naturals

CONSTANTS
    Messages,
    MaxAttempts,
    NoToken

VARIABLES
    state,     \* per message
    holder,    \* per message: the token it is held under, or NoToken
    attempts,  \* per message: how often it was taken
    drawn      \* the tokens handed out so far

life == <<state, holder, attempts, drawn>>

Settled == {"delivered", "failed", "dropped"}

Init ==
    /\ state = [m \in Messages |-> "none"]
    /\ holder = [m \in Messages |-> NoToken]
    /\ attempts = [m \in Messages |-> 0]
    /\ drawn = {}

\* Message m goes from one of the states in From to s, and nobody holds it.
Moves(m, From, s) ==
    /\ state[m] \in From
    /\ state'[m] = s
    /\ holder'[m] = NoToken
    /\ attempts'[m] = attempts[m]

Accept(m) == Moves(m, {"none"}, "pending")

Take(m) ==
    /\ state[m] = "pending"
    /\ state'[m] = "processing"
    /\ holder'[m] \in drawn' \ drawn
    /\ attempts'[m] = attempts[m] + 1

PutBack(m) == Moves(m, {"processing"}, "pending")

Deliver(m) == Moves(m, {"processing"}, "delivered")

Fail(m) == attempts[m] >= MaxAttempts /\ Moves(m, {"processing"}, "failed")

\* Nobody is left to hear it.
Drop(m) == Moves(m, {"pending", "processing"}, "dropped")

Forget(m) == Moves(m, {"pending", "processing"} \cup Settled, "gone")

Stays(m) ==
    /\ state'[m] = state[m]
    /\ holder'[m] = holder[m]
    /\ attempts'[m] = attempts[m]

\* A statement may move several messages at once.
Next ==
    /\ drawn \subseteq drawn'
    /\ \A m \in Messages :
          \/ Accept(m) \/ Take(m) \/ PutBack(m) \/ Deliver(m)
          \/ Fail(m) \/ Drop(m) \/ Forget(m) \/ Stays(m)

Spec == Init /\ [][Next]_life

=============================================================================
