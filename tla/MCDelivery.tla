----------------------------- MODULE MCDelivery -----------------------------
(* Instances of Delivery for TLC. *)
EXTENDS Delivery

CONSTANTS m1, m2, s1, s2

A == <<"t", "a">>
AnyT == <<"t", "+">>

OnTopicA == [m \in Messages |-> A]

\* Both streams get a copy of m1; one of them may leave.
Everybody == [messages |-> {m1}, streams |-> {s1, s2}, staying |-> {s1},
              filter |-> [s \in Subs |-> A],
              broadcast |-> {A}, ephemeral |-> {}, prefetch |-> 1, fallback |-> FALSE]

\* The streams compete for m1 with each other, the dispatcher and HTTP polls.
Competing == [messages |-> {m1}, streams |-> {s1, s2}, staying |-> {s1},
              filter |-> [s \in Subs |-> IF s = s1 THEN AnyT ELSE A],
              broadcast |-> {}, ephemeral |-> {}, prefetch |-> 1, fallback |-> TRUE]

\* Two messages were stored before their topic was made ephemeral.  Only s2
\* listens, takes both of them at once and may leave.
Leaving == [messages |-> {m1, m2}, streams |-> {s2}, staying |-> {},
            filter |-> [s \in Subs |-> A],
            broadcast |-> {A}, ephemeral |-> {A}, prefetch |-> 2, fallback |-> FALSE]

\* m1 may be posted to the fallback URL before s2 subscribes.
Posting == [Leaving EXCEPT !.messages = {m1}, !.broadcast = {}, !.ephemeral = {}, !.fallback = TRUE]

\* The same with messages of an ephemeral topic, if those are not looked up.
PostingOld == [Posting EXCEPT !.ephemeral = {A}]

AllScenes == {Everybody, Competing, Leaving, Posting, PostingOld}
OwnSession == [s \in Subs |-> s]

\* Two subscriptions of one client to one filter.
Resubscribing == {[Everybody EXCEPT !.staying = {}]}
OneSession == [s \in Subs |-> "mqtt:client"]

=============================================================================
