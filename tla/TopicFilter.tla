---------------------------- MODULE TopicFilter ----------------------------
(***************************************************************************)
(* Topics and topic filters (src/src/topic.rs).  A topic or filter is the   *)
(* sequence of its levels, what split('/') returns; a level is one token.   *)
(***************************************************************************)
EXTENDS Integers, Sequences

\* The tokens that stand for a level that begins with '$', for a level that
\* contains '+' or '#' among other characters, and for the empty level.
DollarLevels == {"$SYS"}
MixedLevels == {"a+", "#a"}
EmptyString == <<"">>

wildcard_at_root(filter) == filter[1] \in {"#", "+", "#a"}

is_wildcard_filter(filter) ==
    \E i \in DOMAIN filter : filter[i] \in {"#", "+"} \cup MixedLevels

is_valid_publish_topic(topic) == topic # EmptyString /\ ~is_wildcard_filter(topic)

\* Up to the first "#", which must be the last level, every level is "+" or
\* has neither sign in it.
is_valid_subscribe_filter(filter) ==
    /\ filter # EmptyString
    /\ \A i \in DOMAIN filter :
          (\A j \in 1..(i - 1) : filter[j] # "#") =>
              /\ filter[i] = "#" => i = Len(filter)
              /\ filter[i] \notin MixedLevels

\* Faulty variant: "#" must stand for at least one level.
filter_matches_no_parent(filter, topic) ==
    LET walk[i \in 1..(Len(filter) + 1)] ==
            IF i > Len(filter) THEN i = Len(topic) + 1
            ELSE IF filter[i] = "#" THEN i = Len(filter) /\ i <= Len(topic)
            ELSE /\ i <= Len(topic)
                 /\ filter[i] = "+" \/ filter[i] = topic[i]
                 /\ walk[i + 1]
    IN  /\ filter # EmptyString /\ topic # EmptyString
        /\ ~(topic[1] \in DollarLevels /\ wildcard_at_root(filter))
        /\ walk[1]

\* fi and ti advance together: walk[i] is the loop from level i on.
filter_matches(filter, topic) ==
    LET walk[i \in 1..(Len(filter) + 1)] ==
            IF i > Len(filter) THEN i = Len(topic) + 1
            ELSE IF filter[i] = "#" THEN i = Len(filter)
            ELSE /\ i <= Len(topic)
                 /\ filter[i] = "+" \/ filter[i] = topic[i]
                 /\ walk[i + 1]
    IN  /\ filter # EmptyString /\ topic # EmptyString
        /\ ~(topic[1] \in DollarLevels /\ wildcard_at_root(filter))
        /\ walk[1]

\* What MQTT 3.1.1 says of a valid filter, without a loop: a filter that ends
\* in "#" matches its parent level and everything below it, any other filter
\* the topics of its own length, and no wildcard at the root reaches a topic
\* that begins with '$'.
Covers(filter, topic) ==
    LET open == filter[Len(filter)] = "#"
        fixed == IF open THEN Len(filter) - 1 ELSE Len(filter)
    IN  /\ IF open THEN Len(topic) >= fixed ELSE Len(topic) = fixed
        /\ \A i \in 1..fixed : filter[i] \in {"+", topic[i]}
        /\ topic[1] \in DollarLevels => filter[1] = topic[1]

\* Topics and filters of at most three levels.
Levels == {"a", "b", "", "+", "#"} \cup DollarLevels \cup MixedLevels
Strings == UNION {[1..n -> Levels] : n \in 1..3}

\* filter_matches agrees with what MQTT says of every valid filter and every
\* topic that may be published: at "#" next to its parent level, at empty
\* levels, at topics with '$', and where one is longer than the other.
MatchesAsCovers ==
    \A filter \in {f \in Strings : is_valid_subscribe_filter(f)} :
        \A topic \in {t \in Strings : is_valid_publish_topic(t)} :
            filter_matches(filter, topic) <=> Covers(filter, topic)

=============================================================================
