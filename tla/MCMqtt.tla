------------------------------- MODULE MCMqtt -------------------------------
(* Instances of Mqtt for TLC. *)
EXTENDS Mqtt

CONSTANTS s1, s2, d1, d2, d3, p1, p2, none, ended

\* A client that publishes; one that receives with either QoS, changes its
\* subscription and answers late; and one that connects twice.
Publishing ==
    [sessions |-> {s1}, budget |-> 4, deliveries |-> {}, keepalive |-> TRUE, shutdown |-> TRUE,
     packets |-> {<<"publish", p1>>, <<"publish", p2>>, <<"ping">>}]
Receiving ==
    [sessions |-> {s1}, budget |-> 2, deliveries |-> {d1, d2, d3}, keepalive |-> FALSE,
     shutdown |-> FALSE,
     packets |-> {<<"subscribe", 0>>, <<"subscribe", 2>>, <<"unsubscribe">>}]
Reconnecting ==
    [sessions |-> {s1, s2}, budget |-> 2, deliveries |-> {d1}, keepalive |-> FALSE,
     shutdown |-> FALSE, packets |-> {<<"subscribe", 1>>, <<"disconnect">>}]
AllScenes == {Publishing, Receiving, Reconnecting}

=============================================================================
