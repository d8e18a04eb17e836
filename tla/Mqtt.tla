-------------------------------- MODULE Mqtt --------------------------------
(***************************************************************************)
(* The MQTT sessions of one client id (src/src/mqtt/): a connection is      *)
(* accepted, takes over from the previous one, and is served by four tasks  *)
(* that share a cancellation token: the reader, the session loop, the       *)
(* ingest loop and the write loop, connected by bounded channels.           *)
(*                                                                          *)
(* What lies behind it is abstracted: delivery::ingest accepts a publish or *)
(* fails, and a subscribe loop (module Delivery) hands deliveries, each     *)
(* with a lease of its own, to the session that is subscribed.              *)
(***************************************************************************)
EXTENDS Integers, Sequences, FiniteSets

CONSTANTS
    Sessions,      \* connections with this client id
    Deliveries,    \* pairs of a message id and a lease
    Publishes,     \* what the client publishes with QoS 1 or 2
    None, Ended,
    MaxPacketId,   \* u16::MAX
    PacketChan, WriteChan, IngestChan, OutChan,   \* capacities of the channels
    Scenes         \* what the client does, with the number of packets it sends (budget):
                   \* see the MC module

ASSUME IdAssumption == MaxPacketId \in Nat \ {0}
ASSUME ChannelAssumption == {PacketChan, WriteChan, IngestChan, OutChan} \subseteq Nat \ {0}

VARIABLES
    scene,
    registry,    \* the session in the registry, or None
    phase,       \* per session: how far run_session is
    cancelled,   \* its token is cancelled
    hungup,      \* its reader has ended
    packets, ingestq, writeq, out,   \* its channels
    job,         \* the job its session loop waits to queue, or None
    writing,     \* the job its write loop sends, None, or Ended
    taking,      \* the publish its ingest loop has to acknowledge, None, or Ended
    qos,         \* QoS of its subscription, or None
    inflight_pub, next_packet_id,
    given,       \* deliveries that subscribe loops have handed out
    completed,   \* deliveries reported to InflightAcks::complete
    overrun,     \* a packet id was given out while in use
    ingested,    \* publishes that ingest has accepted
    unanswered,  \* PUBLISHes with a packet id that the client has not answered
    settled,     \* deliveries the client got with QoS 0, or has answered
    acks,        \* publishes whose PUBACK or PUBREC the client has got
    sent         \* packets the client has sent

channels == <<packets, ingestq, writeq, out>>
tasks == <<job, writing, taking>>
ids == <<qos, inflight_pub, next_packet_id, overrun>>
facts == <<given, completed, ingested>>
client == <<unanswered, settled, acks, sent>>
vars == <<scene, registry, phase, cancelled, hungup, channels, tasks, ids, facts, client>>

PacketIds == 1..MaxPacketId
Packets ==
    {<<"publish", p>> : p \in Publishes} \cup {<<"subscribe", q>> : q \in 0..2}
        \cup {<<"puback", i, d>> : i \in PacketIds, d \in Deliveries}
        \cup {<<"unsubscribe">>, <<"ping">>, <<"disconnect">>}
\* What the write loop sends: a PUBLISH, the answer to one, another answer.
Jobs == {<<"pub0", d>> : d \in Deliveries}
        \cup {<<"pub1", i, d>> : i \in PacketIds, d \in Deliveries}
        \cup {<<"ack", p>> : p \in Publishes} \cup {<<"other">>}

\* A client answers what it has got (Answer), and sends no PUBACK of its own.
ASSUME SceneAssumption ==
    \A c \in Scenes :
        /\ c.sessions \subseteq Sessions /\ c.deliveries \subseteq Deliveries /\ c.budget \in Nat
        /\ c.packets \subseteq {p \in Packets : p[1] # "puback"}
ASSUME NoneAssumption == {None, Ended} \cap (Deliveries \cup Publishes \cup Jobs) = {}

TypeOK ==
    /\ scene \in Scenes
    /\ registry \in Sessions \cup {None}
    /\ phase \in [Sessions -> {"new", "accepted", "running", "leaving", "closed"}]
    /\ cancelled \in [Sessions -> BOOLEAN] /\ hungup \in [Sessions -> BOOLEAN]
    /\ packets \in [Sessions -> Seq(Packets)] /\ ingestq \in [Sessions -> Seq(Publishes)]
    /\ writeq \in [Sessions -> Seq(Jobs)] /\ out \in [Sessions -> Seq(Deliveries)]
    /\ \A s \in Sessions :
          /\ Len(packets[s]) <= PacketChan /\ Len(ingestq[s]) <= IngestChan
          /\ Len(writeq[s]) <= WriteChan /\ Len(out[s]) <= OutChan
    /\ job \in [Sessions -> Jobs \cup {None}]
    /\ writing \in [Sessions -> Jobs \cup {None, Ended}]
    /\ taking \in [Sessions -> Publishes \cup {None, Ended}]
    /\ qos \in [Sessions -> 0..1 \cup {None}]
    /\ inflight_pub \in [Sessions -> [PacketIds -> Deliveries \cup {None}]]
    /\ next_packet_id \in [Sessions -> 0..MaxPacketId]
    /\ given \subseteq Deliveries /\ completed \subseteq Deliveries
    /\ ingested \subseteq Publishes /\ acks \subseteq Publishes
    /\ unanswered \in [Sessions -> SUBSET (PacketIds \X Deliveries)]
    /\ settled \subseteq Deliveries
    /\ overrun \in BOOLEAN /\ sent \in 0..scene.budget

Init ==
    /\ scene \in Scenes
    /\ registry = None
    /\ phase = [s \in Sessions |-> IF s \in scene.sessions THEN "new" ELSE "closed"]
    /\ cancelled = [s \in Sessions |-> FALSE] /\ hungup = [s \in Sessions |-> FALSE]
    /\ packets = [s \in Sessions |-> <<>>] /\ ingestq = [s \in Sessions |-> <<>>]
    /\ writeq = [s \in Sessions |-> <<>>] /\ out = [s \in Sessions |-> <<>>]
    /\ job = [s \in Sessions |-> None]
    /\ writing = [s \in Sessions |-> None] /\ taking = [s \in Sessions |-> None]
    /\ qos = [s \in Sessions |-> None]
    /\ inflight_pub = [s \in Sessions |-> [i \in PacketIds |-> None]]
    /\ next_packet_id = [s \in Sessions |-> 0]
    /\ overrun = FALSE
    /\ given = {} /\ completed = {} /\ ingested = {}
    /\ unanswered = [s \in Sessions |-> {}] /\ settled = {} /\ acks = {} /\ sent = 0

-----------------------------------------------------------------------------
(* run_session: before and after the loops *)

\* No CONNECT in time, a refusal, or a CONNACK that cannot be sent.
Refuse(s) ==
    /\ phase[s] = "new"
    /\ phase' = [phase EXCEPT ![s] = "closed"]
    /\ UNCHANGED <<scene, registry, cancelled, hungup, channels, tasks, ids, facts, client>>

\* CONNECT is accepted, and CONNACK sent.
Accept(s) ==
    /\ phase[s] = "new"
    /\ phase' = [phase EXCEPT ![s] = "accepted"]
    /\ UNCHANGED <<scene, registry, cancelled, hungup, channels, tasks, ids, facts, client>>

\* ClientRegistry::connect, and the session before is cancelled.
Register(s) ==
    /\ phase[s] = "accepted"
    /\ registry' = s
    /\ cancelled' = [t \in Sessions |-> cancelled[t] \/ t = registry]
    /\ phase' = [phase EXCEPT ![s] = "running"]
    /\ UNCHANGED <<scene, hungup, channels, tasks, ids, facts, client>>

\* SessionState and the ends of the channels that session_loop reads are dropped.
Forget(s) ==
    /\ packets' = [packets EXCEPT ![s] = <<>>] /\ out' = [out EXCEPT ![s] = <<>>]
    /\ qos' = [qos EXCEPT ![s] = None]
    /\ inflight_pub' = [inflight_pub EXCEPT ![s] = [i \in PacketIds |-> None]]
    /\ next_packet_id' = [next_packet_id EXCEPT ![s] = 0]
    /\ UNCHANGED <<scene, hungup, ingestq, writeq, tasks, overrun, facts, client>>

\* Faulty variant: whoever leaves removes the entry of its client id.
LeaveAlways(s) ==
    /\ phase[s] = "leaving"
    /\ registry' = None
    /\ cancelled' = [cancelled EXCEPT ![s] = TRUE]
    /\ phase' = [phase EXCEPT ![s] = "closed"]
    /\ Forget(s)

\* ClientRegistry::remove_if, and the token is cancelled for the other tasks.
Leave(s) ==
    /\ phase[s] = "leaving"
    /\ registry' = IF registry = s THEN None ELSE registry
    /\ cancelled' = [cancelled EXCEPT ![s] = TRUE]
    /\ phase' = [phase EXCEPT ![s] = "closed"]
    /\ Forget(s)

\* The broker shuts down: every token is a child of the one of the process.
Shutdown ==
    /\ scene.shutdown
    /\ cancelled' = [s \in Sessions |-> TRUE]
    /\ UNCHANGED <<scene, registry, phase, hungup, channels, tasks, ids, facts, client>>

-----------------------------------------------------------------------------
(* session_loop *)

Selects(s) == phase[s] = "running" /\ job[s] = None

\* The token, the end of the packets, or the keepalive timer ends the loop,
\* and with it the subscriptions.
LoopEnds(s) ==
    /\ Selects(s)
    /\ cancelled[s] \/ (hungup[s] /\ packets[s] = <<>>) \/ scene.keepalive
    /\ phase' = [phase EXCEPT ![s] = "leaving"]
    /\ UNCHANGED <<scene, registry, cancelled, hungup, channels, tasks, ids, facts, client>>

\* Faulty variant: the queue of the ingest loop has no limit.
PublishUnbounded(s, p) ==
    /\ ingestq' = [ingestq EXCEPT ![s] = Append(@, p)]
    /\ UNCHANGED <<phase, job, ids, completed>>

\* handle_packet: PUBLISH goes to the ingest loop, or nowhere if that is busy.
Publish(s, p) ==
    /\ IF taking[s] = Ended THEN phase' = [phase EXCEPT ![s] = "leaving"] ELSE UNCHANGED phase
    /\ ingestq' = IF taking[s] # Ended /\ Len(ingestq[s]) < IngestChan
                  THEN [ingestq EXCEPT ![s] = Append(@, p)] ELSE ingestq
    /\ UNCHANGED <<job, ids, completed>>

\* PUBACK completes the delivery that is in flight under its packet id.
PubAck(s, i) ==
    /\ completed' = completed \cup ({inflight_pub[s][i]} \ {None})
    /\ inflight_pub' = [inflight_pub EXCEPT ![s][i] = None]
    /\ UNCHANGED <<phase, ingestq, job, qos, next_packet_id, overrun>>

\* SUBSCRIBE and UNSUBSCRIBE, one filter that covers everything delivered here;
\* PINGREQ and PUBREL only want an answer.
Subscription(s, q) ==
    /\ qos' = [qos EXCEPT ![s] = q]
    /\ job' = [job EXCEPT ![s] = <<"other">>]
    /\ UNCHANGED <<phase, ingestq, completed, inflight_pub, next_packet_id, overrun>>

handle_packet(s) ==
    LET packet == Head(packets[s]) IN
    /\ Selects(s) /\ packets[s] # <<>>
    /\ packets' = [packets EXCEPT ![s] = Tail(@)]
    /\ \/ packet[1] = "publish" /\ Publish(s, packet[2])
       \/ packet[1] = "puback" /\ PubAck(s, packet[2])
       \/ packet[1] = "subscribe" /\ Subscription(s, IF packet[2] > 1 THEN 1 ELSE packet[2])
       \/ packet[1] = "subscribe" /\ Subscription(s, qos[s])  \* it could not be noted
       \/ packet[1] = "unsubscribe" /\ Subscription(s, None)
       \/ packet[1] = "ping" /\ Subscription(s, qos[s])
       \/ /\ packet[1] = "disconnect"
          /\ phase' = [phase EXCEPT ![s] = "leaving"]
          /\ UNCHANGED <<ingestq, job, ids, completed>>
    /\ UNCHANGED <<scene, registry, cancelled, hungup, writeq, out, writing, taking,
                   given, ingested, client>>

\* The id after n, from 1 again after the last.
After(n) == IF n = MaxPacketId THEN 1 ELSE n + 1

\* Faulty variant: ids are given out in turn, in use or not.
alloc_packet_id_in_turn(n, used) == After(n)

\* The first id after n that is not in use; all in use, the one the loop ends at.
alloc_packet_id(n, used) ==
    IF PacketIds \subseteq used THEN IF n = 0 THEN MaxPacketId ELSE n
    ELSE LET Steps(i) == IF i > n THEN i - n ELSE i - n + MaxPacketId
         IN  CHOOSE i \in PacketIds \ used : \A j \in PacketIds \ used : Steps(i) <= Steps(j)

\* A message with QoS 0 is acknowledged by writing it, with QoS 1 by the client.
queue_outgoing(s) ==
    LET d == Head(out[s])
        used == {i \in PacketIds : inflight_pub[s][i] # None}
        i == alloc_packet_id(next_packet_id[s], used)
    IN  /\ Selects(s) /\ out[s] # <<>>
        /\ out' = [out EXCEPT ![s] = Tail(@)]
        /\ IF qos[s] = 1
           THEN /\ job' = [job EXCEPT ![s] = <<"pub1", i, d>>]
                /\ inflight_pub' = [inflight_pub EXCEPT ![s][i] = d]
                /\ next_packet_id' = [next_packet_id EXCEPT ![s] = i]
                /\ overrun' = (overrun \/ PacketIds \subseteq used)
           ELSE /\ job' = [job EXCEPT ![s] = <<"pub0", d>>]
                /\ UNCHANGED <<inflight_pub, next_packet_id, overrun>>
        /\ UNCHANGED <<scene, registry, phase, cancelled, hungup, packets, ingestq, writeq,
                       writing, taking, qos, facts, client>>

\* Faulty variant: a queue whose reader has ended is waited for.
queue_job_waits(s) ==
    /\ phase[s] = "running" /\ job[s] # None /\ Len(writeq[s]) < WriteChan
    /\ writeq' = [writeq EXCEPT ![s] = Append(@, job[s])]
    /\ job' = [job EXCEPT ![s] = None]
    /\ UNCHANGED <<scene, registry, phase, cancelled, hungup, packets, ingestq, out,
                   writing, taking, ids, facts, client>>

\* The loop waits for room in the write queue, and for nothing else meanwhile.
queue_job(s) ==
    /\ phase[s] = "running" /\ job[s] # None
    /\ \/ /\ writing[s] = Ended
          /\ phase' = [phase EXCEPT ![s] = "leaving"]
          /\ UNCHANGED writeq
       \/ /\ writing[s] # Ended /\ Len(writeq[s]) < WriteChan
          /\ writeq' = [writeq EXCEPT ![s] = Append(@, job[s])]
          /\ UNCHANGED phase
    /\ job' = [job EXCEPT ![s] = None]
    /\ UNCHANGED <<scene, registry, cancelled, hungup, packets, ingestq, out,
                   writing, taking, ids, facts, client>>

-----------------------------------------------------------------------------
(* write_loop *)

Spawned(s) == phase[s] \notin {"new", "accepted"}

WriteTakes(s) ==
    /\ writing[s] = None /\ writeq[s] # <<>>
    /\ writing' = [writing EXCEPT ![s] = Head(writeq[s])]
    /\ writeq' = [writeq EXCEPT ![s] = Tail(@)]
    /\ UNCHANGED <<scene, registry, phase, cancelled, hungup, packets, ingestq, out,
                   job, taking, ids, facts, client>>

\* out.send returns: the packet is on its way, and QoS 0 is acknowledged.
WriteDone(s) ==
    LET packet == writing[s] IN
    /\ packet \in Jobs
    /\ writing' = [writing EXCEPT ![s] = None]
    /\ completed' = IF packet[1] = "pub0" THEN completed \cup {packet[2]} ELSE completed
    /\ settled' = IF packet[1] = "pub0" THEN settled \cup {packet[2]} ELSE settled
    /\ unanswered' = IF packet[1] = "pub1" /\ ~hungup[s]
                     THEN [unanswered EXCEPT ![s] = @ \cup {<<packet[2], packet[3]>>}]
                     ELSE unanswered
    /\ acks' = IF packet[1] = "ack" THEN acks \cup {packet[2]} ELSE acks
    /\ UNCHANGED <<scene, registry, phase, cancelled, hungup, channels, job, taking, ids,
                   given, ingested, sent>>

\* The connection is broken: the write loop ends the session.
WriteFails(s) ==
    /\ writing[s] \in Jobs /\ hungup[s]
    /\ writing' = [writing EXCEPT ![s] = Ended]
    /\ cancelled' = [cancelled EXCEPT ![s] = TRUE]
    /\ writeq' = [writeq EXCEPT ![s] = <<>>]
    /\ UNCHANGED <<scene, registry, phase, hungup, packets, ingestq, out, job, taking, ids,
                   facts, client>>

WriterEnds(s) ==
    /\ Spawned(s) /\ cancelled[s] /\ writing[s] = None
    /\ writing' = [writing EXCEPT ![s] = Ended]
    /\ writeq' = [writeq EXCEPT ![s] = <<>>]
    /\ UNCHANGED <<scene, registry, phase, cancelled, hungup, packets, ingestq, out, job, taking,
                   ids, facts, client>>

-----------------------------------------------------------------------------
(* ingest_loop *)

\* Faulty variant: a publish is acknowledged whatever became of it.
IngestTakesAny(s) ==
    /\ taking[s] = None /\ ingestq[s] # <<>>
    /\ ingestq' = [ingestq EXCEPT ![s] = Tail(@)]
    /\ ingested' \in {ingested, ingested \cup {Head(ingestq[s])}}
    /\ taking' = [taking EXCEPT ![s] = Head(ingestq[s])]
    /\ UNCHANGED <<scene, registry, phase, cancelled, hungup, packets, writeq, out,
                   job, writing, ids, given, completed, client>>

\* delivery::ingest accepts the publish, or it is not valid or cannot be stored.
IngestTakes(s) ==
    /\ taking[s] = None /\ ingestq[s] # <<>>
    /\ ingestq' = [ingestq EXCEPT ![s] = Tail(@)]
    /\ \/ /\ ingested' = ingested \cup {Head(ingestq[s])}
          /\ taking' = [taking EXCEPT ![s] = Head(ingestq[s])]
       \/ UNCHANGED <<ingested, taking>>
    /\ UNCHANGED <<scene, registry, phase, cancelled, hungup, packets, writeq, out,
                   job, writing, ids, given, completed, client>>

\* PUBACK or PUBREC, once there is room for it.
IngestAcks(s) ==
    /\ taking[s] \in Publishes
    /\ \/ writing[s] = Ended /\ UNCHANGED writeq
       \/ /\ writing[s] # Ended /\ Len(writeq[s]) < WriteChan
          /\ writeq' = [writeq EXCEPT ![s] = Append(@, <<"ack", taking[s]>>)]
    /\ taking' = [taking EXCEPT ![s] = None]
    /\ UNCHANGED <<scene, registry, phase, cancelled, hungup, packets, ingestq, out,
                   job, writing, ids, facts, client>>

IngestEnds(s) ==
    /\ Spawned(s) /\ cancelled[s] /\ taking[s] = None
    /\ taking' = [taking EXCEPT ![s] = Ended]
    /\ ingestq' = [ingestq EXCEPT ![s] = <<>>]
    /\ UNCHANGED <<scene, registry, phase, cancelled, hungup, packets, writeq, out, job, writing,
                   ids, facts, client>>

-----------------------------------------------------------------------------
(* The subscribe loop and the client *)

\* A subscribe loop hands a delivery to the session, which may just have been
\* cancelled.
Deliver(s, d) ==
    /\ phase[s] = "running" /\ qos[s] # None
    /\ d \in scene.deliveries \ given /\ Len(out[s]) < OutChan
    /\ given' = given \cup {d}
    /\ out' = [out EXCEPT ![s] = Append(@, d)]
    /\ UNCHANGED <<scene, registry, phase, cancelled, hungup, packets, ingestq, writeq,
                   tasks, ids, completed, ingested, client>>

\* The reader passes on what the client sends.
Send(s, packet) ==
    /\ phase[s] = "running" /\ ~hungup[s]
    /\ Len(packets[s]) < PacketChan
    /\ packets' = [packets EXCEPT ![s] = Append(@, packet)]
    /\ UNCHANGED <<scene, registry, phase, cancelled, hungup, ingestq, writeq, out,
                   tasks, ids, facts, acks>>

SendOwn(s, packet) ==
    /\ sent < scene.budget
    /\ Send(s, packet)
    /\ sent' = sent + 1
    /\ UNCHANGED <<unanswered, settled>>

Answer(s, i, d) ==
    /\ Send(s, <<"puback", i, d>>)
    /\ unanswered' = [unanswered EXCEPT ![s] = @ \ {<<i, d>>}]
    /\ settled' = settled \cup {d}
    /\ UNCHANGED sent

\* The client is gone, or sends what cannot be decoded: the reader ends.
Hangup(s) ==
    /\ Spawned(s) /\ ~hungup[s]
    /\ hungup' = [hungup EXCEPT ![s] = TRUE]
    /\ unanswered' = [unanswered EXCEPT ![s] = {}]
    /\ UNCHANGED <<scene, registry, phase, cancelled, channels, tasks, ids, facts,
                   settled, acks, sent>>

-----------------------------------------------------------------------------
SessionStep(s) ==
    \/ Register(s) \/ LoopEnds(s) \/ handle_packet(s) \/ queue_outgoing(s) \/ queue_job(s)
    \/ Leave(s)
WriteStep(s) == WriteTakes(s) \/ WriteDone(s) \/ WriteFails(s) \/ WriterEnds(s)
IngestStep(s) == IngestTakes(s) \/ IngestAcks(s) \/ IngestEnds(s)

Next ==
    \/ \E s \in scene.sessions :
          \/ Refuse(s) \/ Accept(s)
          \/ SessionStep(s) \/ WriteStep(s) \/ IngestStep(s)
          \/ \E d \in Deliveries : Deliver(s, d)
          \/ \E packet \in scene.packets : SendOwn(s, packet)
          \/ \E a \in unanswered[s] : Answer(s, a[1], a[2])
          \/ Hangup(s)
    \/ Shutdown

Spec == Init /\ [][Next]_vars

\* The tasks are scheduled, and a write to the socket ends one way or the other.
Fairness == \A s \in Sessions :
    WF_vars(SessionStep(s)) /\ WF_vars(WriteStep(s)) /\ WF_vars(IngestStep(s))

LiveSpec == Spec /\ Fairness

-----------------------------------------------------------------------------
(* Properties *)

\* No delivery is reported as acknowledged that the client has not been sent
\* (QoS 0) or has not answered itself (QoS 1): a PUBACK that comes late, after
\* its id could have been used again or under another session, settles nothing
\* but the PUBLISH it answers, unless all packet ids were in use at once.
CompletedMeansSettled ==
    ~overrun => completed \subseteq settled

\* PUBACK and PUBREC go out only for what ingest has accepted, though the
\* answer is queued by another task than the one that read the PUBLISH.
AckMeansIngested ==
    acks \subseteq ingested

\* Connections with one client id replace each other: a session that runs and
\* was not told to end is the registered one, however the end of the session
\* before it interleaves, and the registered one has not ended.
RegistryNewest ==
    /\ \A s \in Sessions : phase[s] = "running" /\ ~cancelled[s] => registry = s
    /\ registry # None => phase[registry] \in {"running", "leaving"}

\* A session that is taken over, whose client hangs up, or that shutdown ends,
\* comes to its end with all its tasks, though they wait for room in each
\* other's queues, as long as writes to the socket come to an end.
SessionEnds ==
    \A s \in Sessions :
        (phase[s] = "running" /\ (cancelled[s] \/ hungup[s]))
            ~> (phase[s] = "closed" /\ writing[s] = Ended /\ taking[s] = Ended)

=============================================================================
