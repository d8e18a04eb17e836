----------------------------- MODULE MqttProofs -----------------------------
(* Theorems about Mqtt, for all sessions, messages, packet ids and channel    *)
(* sizes: its types, the registry of sessions, and what an acknowledgement    *)
(* says in each direction.  The last needs an account of where each packet id *)
(* is: in inflight_pub, on its way to the client, or in the client's hands.   *)
EXTENDS Mqtt, WellFoundedInduction, TLAPS

\* Leaves are left to Zenon, but for those that cite SMT.
USE ZenonT(60)

-----------------------------------------------------------------------------
(* Packet ids *)

\* A set of natural numbers has a least element.
LEMMA LeastNatural ==
    ASSUME NEW T \in SUBSET Nat, T # {} PROVE \E x \in T : \A y \in T : x <= y
  <1>1. PICK x \in T : \A y \in T : ~ (<<y, x>> \in OpToRel(<, Nat))
    BY NatLessThanWellFounded, WFMin
  <1>2. \A y \in T : ~(y < x)
    BY <1>1 DEF OpToRel
  <1> QED BY SMTT(30), <1>2

\* alloc_packet_id returns an id, and one that is not in use if there is one.
LEMMA FreeId ==
    ASSUME NEW n \in 0..MaxPacketId, NEW used \in SUBSET PacketIds
    PROVE  /\ alloc_packet_id(n, used) \in PacketIds
           /\ ~(PacketIds \subseteq used) => alloc_packet_id(n, used) \notin used
  <1> DEFINE Steps(i) == IF i > n THEN i - n ELSE i - n + MaxPacketId
             free == PacketIds \ used
             T == {Steps(i) : i \in free}
             P(i) == i \in free /\ \A j \in free : Steps(i) <= Steps(j)
  <1>1. CASE PacketIds \subseteq used
    <2>1. alloc_packet_id(n, used) = IF n = 0 THEN MaxPacketId ELSE n
      BY <1>1 DEF alloc_packet_id
    <2> QED BY SMTT(30), <1>1, <2>1, IdAssumption DEF PacketIds
  <1>2. CASE ~(PacketIds \subseteq used)
    <2>1. \A i \in free : Steps(i) \in Nat
      BY SMTT(30), IdAssumption DEF PacketIds
    <2>2. T \in SUBSET Nat /\ T # {}
      BY <1>2, <2>1
    <2>3. PICK x \in T : \A y \in T : x <= y
      <3> HIDE DEF T
      <3> QED BY <2>2, LeastNatural
    <2>4. PICK i \in free : x = Steps(i)
      OBVIOUS
    <2>5. P(i)
      BY <2>3, <2>4
    <2>6. alloc_packet_id(n, used)
            = CHOOSE m \in free : \A j \in free : Steps(m) <= Steps(j)
      BY <1>2 DEF alloc_packet_id
    <2>7. alloc_packet_id(n, used) \in free
      <3> HIDE DEF free, Steps
      <3> QED BY <2>5, <2>6
    <2> QED BY <2>7
  <1> QED BY <1>1, <1>2

-----------------------------------------------------------------------------
(* Channels *)

\* A channel per session, with what it may hold and how much.
Bounded(f, S, n) == f \in [Sessions -> Seq(S)] /\ \A s \in Sessions : Len(f[s]) <= n

\* Sending to a channel that has room.
LEMMA SendBounded ==
    ASSUME NEW S, NEW n \in Nat, NEW f, Bounded(f, S, n),
           NEW s \in Sessions, Len(f[s]) < n, NEW x \in S
    PROVE  Bounded([f EXCEPT ![s] = Append(@, x)], S, n)
  BY SMTT(30) DEF Bounded

\* Receiving from a channel that is not empty.
LEMMA ReceiveBounded ==
    ASSUME NEW S, NEW n \in Nat, NEW f, Bounded(f, S, n), NEW s \in Sessions, f[s] # <<>>
    PROVE  Bounded([f EXCEPT ![s] = Tail(@)], S, n) /\ Head(f[s]) \in S
  BY SMTT(30) DEF Bounded

\* Dropping what a channel holds.
LEMMA DropBounded ==
    ASSUME NEW S, NEW n \in Nat, NEW f, Bounded(f, S, n), NEW s \in Sessions
    PROVE  Bounded([f EXCEPT ![s] = <<>>], S, n)
  BY SMTT(30) DEF Bounded

\* The forms of packets and jobs.
LEMMA JobForms ==
    ASSUME NEW j \in Jobs
    PROVE  /\ j[1] = "pub0" => j[2] \in Deliveries
           /\ j[1] = "pub1" => j[2] \in PacketIds /\ j[3] \in Deliveries /\ j = <<"pub1", j[2], j[3]>>
           /\ j[1] = "ack" => j[2] \in Publishes
  BY SMTT(30) DEF Jobs

\* The same of the packets a client sends.
LEMMA PacketForms ==
    ASSUME NEW p \in Packets
    PROVE  /\ p[1] = "publish" => p[2] \in Publishes
           /\ p[1] = "subscribe" => p[2] \in 0..2
           /\ p[1] = "puback" => p[2] \in PacketIds /\ p[3] \in Deliveries
                                 /\ p = <<"puback", p[2], p[3]>>
  BY SMTT(30) DEF Packets

-----------------------------------------------------------------------------
(* Types *)

ControlType ==
    /\ scene \in Scenes
    /\ registry \in Sessions \cup {None}
    /\ phase \in [Sessions -> {"new", "accepted", "running", "leaving", "closed"}]
    /\ cancelled \in [Sessions -> BOOLEAN] /\ hungup \in [Sessions -> BOOLEAN]
ChannelType ==
    /\ Bounded(packets, Packets, PacketChan) /\ Bounded(ingestq, Publishes, IngestChan)
    /\ Bounded(writeq, Jobs, WriteChan) /\ Bounded(out, Deliveries, OutChan)
TaskType ==
    /\ job \in [Sessions -> Jobs \cup {None}]
    /\ writing \in [Sessions -> Jobs \cup {None, Ended}]
    /\ taking \in [Sessions -> Publishes \cup {None, Ended}]
IdType ==
    /\ qos \in [Sessions -> 0..1 \cup {None}]
    /\ inflight_pub \in [Sessions -> [PacketIds -> Deliveries \cup {None}]]
    /\ next_packet_id \in [Sessions -> 0..MaxPacketId]
    /\ overrun \in BOOLEAN
FactType ==
    /\ given \subseteq Deliveries /\ completed \subseteq Deliveries
    /\ ingested \subseteq Publishes /\ acks \subseteq Publishes
    /\ unanswered \in [Sessions -> SUBSET (PacketIds \X Deliveries)]
    /\ settled \subseteq Deliveries
    /\ sent \in 0..scene.budget
Types == ControlType /\ ChannelType /\ TaskType /\ IdType /\ FactType

\* These are the conjuncts of TypeOK.
LEMMA TypeParts == Types => TypeOK
  BY DEF Types, ControlType, ChannelType, TaskType, IdType, FactType, Bounded, TypeOK

\* The initial state has these types.
LEMMA InitTypes == Init => Types
  <1> SUFFICES ASSUME Init PROVE Types
    OBVIOUS
  <1>1. ControlType
    BY DEF Init, ControlType
  <1>2. \A S : \A n \in Nat : Bounded([s \in Sessions |-> <<>>], S, n)
    BY SMTT(30) DEF Bounded
  <1>3. ChannelType
    BY <1>2, ChannelAssumption DEF Init, ChannelType
  <1>4. TaskType
    BY DEF Init, TaskType
  <1>5. IdType
    <2>1. 0 \in 0..MaxPacketId
      BY SMTT(30), IdAssumption
    <2> QED BY <2>1 DEF Init, IdType
  <1>6. FactType
    <2>1. 0 \in 0..scene.budget
      BY SMTT(30), SceneAssumption DEF Init
    <2> QED BY <2>1 DEF Init, FactType
  <1> QED BY <1>1, <1>3, <1>4, <1>5, <1>6 DEF Types

\* run_session, the client that hangs up and the broker that shuts down.
LEMMA SessionTypes ==
    ASSUME Types, NEW s \in Sessions,
           Refuse(s) \/ Accept(s) \/ Register(s) \/ Leave(s) \/ LoopEnds(s) \/ Hangup(s) \/ Shutdown
    PROVE  Types'
  <1>1. ControlType'
    BY DEF Types, ControlType, Refuse, Accept, Register, Leave, Forget, LoopEnds, Hangup, Shutdown
  <1>2. TaskType'
    BY DEF Types, TaskType, Refuse, Accept, Register, Leave, Forget, LoopEnds, Hangup, Shutdown,
       tasks
  <1>3. CASE Leave(s)
    <2>1. ChannelType'
      BY <1>3, DropBounded, ChannelAssumption DEF Types, ChannelType, Leave, Forget
    <2>2. IdType'
      <3>1. 0 \in 0..MaxPacketId
        BY SMTT(30), IdAssumption
      <3> QED BY <1>3, <3>1 DEF Types, IdType, Leave, Forget
    <2>3. FactType'
      BY <1>3 DEF Types, FactType, Leave, Forget, facts, client
    <2> QED BY <1>1, <1>2, <2>1, <2>2, <2>3 DEF Types
  <1>4. CASE ~Leave(s)
    <2>1. ChannelType' /\ IdType'
      BY <1>4 DEF Types, ChannelType, IdType, Refuse, Accept, Register, LoopEnds, Hangup,
         Shutdown,
         channels, ids
    <2>2. FactType'
      BY <1>4 DEF Types, FactType, Refuse, Accept, Register, LoopEnds, Hangup, Shutdown, facts,
         client
    <2> QED BY <1>1, <1>2, <2>1, <2>2 DEF Types
  <1> QED BY <1>3, <1>4

\* handle_packet
LEMMA PacketTypes ==
    ASSUME Types, NEW s \in Sessions, handle_packet(s)
    PROVE  Types'
  <1> DEFINE p == Head(packets[s])
  <1>0. p \in Packets /\ Bounded(packets', Packets, PacketChan)
    BY ReceiveBounded, ChannelAssumption DEF handle_packet, Types, ChannelType
  <1>1. UNCHANGED <<scene, registry, cancelled, hungup, writeq, out, writing, taking, given, ingested, client>>
    BY DEF handle_packet
  <1>2. CASE p[1] = "publish" /\ Publish(s, p[2])
    <2>1. p[2] \in Publishes
      BY <1>0, <1>2, PacketForms
    <2>2. Bounded(ingestq', Publishes, IngestChan)
      BY <1>2, <2>1, SendBounded, ChannelAssumption DEF Publish, Types, ChannelType
    <2>3. ChannelType'
      BY <1>0, <1>1, <2>2 DEF Types, ChannelType
    <2>4. ControlType'
      BY <1>1, <1>2 DEF Types, ControlType, Publish
    <2>5. TaskType' /\ IdType' /\ FactType'
      BY <1>1, <1>2 DEF Types, TaskType, IdType, FactType, Publish, ids, client
    <2> QED BY <2>3, <2>4, <2>5 DEF Types
  <1>3. CASE p[1] = "puback" /\ PubAck(s, p[2])
    <2>1. p[2] \in PacketIds
      BY <1>0, <1>3, PacketForms
    <2>2. ChannelType' /\ ControlType' /\ TaskType'
      BY <1>0, <1>1, <1>3 DEF Types, ChannelType, ControlType, TaskType, PubAck
    <2>3. IdType'
      BY SMTT(30), <1>3, <2>1 DEF Types, IdType, PubAck
    <2>4. FactType'
      <3>1. inflight_pub[s][p[2]] \in Deliveries \cup {None}
        BY <2>1 DEF Types, IdType
      <3>2. completed' \subseteq Deliveries
        BY <1>3, <3>1 DEF Types, FactType, PubAck
      <3> QED BY <1>1, <3>2 DEF Types, FactType, client
    <2> QED BY <2>2, <2>3, <2>4 DEF Types
  <1>4. ASSUME NEW q \in 0..1 \cup {None}, Subscription(s, q) PROVE Types'
    <2>1. ChannelType' /\ ControlType' /\ FactType'
      BY <1>0, <1>1, <1>4 DEF Types, ChannelType, ControlType, FactType, Subscription, client
    <2>2. TaskType'
      <3>1. <<"other">> \in Jobs
        BY SMTT(30) DEF Jobs
      <3> QED BY <1>1, <1>4, <3>1 DEF Types, TaskType, Subscription
    <2>3. IdType'
      BY <1>4 DEF Types, IdType, Subscription
    <2> QED BY <2>1, <2>2, <2>3 DEF Types
  <1>5. CASE p[1] = "disconnect" /\ phase' = [phase EXCEPT ![s] = "leaving"]
             /\ UNCHANGED <<ingestq, job, ids, completed>>
    <2>1. ChannelType' /\ TaskType' /\ IdType' /\ FactType'
      BY <1>0, <1>1, <1>5 DEF Types, ChannelType, TaskType, IdType, FactType, ids, client
    <2>2. ControlType'
      BY <1>1, <1>5 DEF Types, ControlType
    <2> QED BY <2>1, <2>2 DEF Types
  <1>6. p[1] = "subscribe" => (IF p[2] > 1 THEN 1 ELSE p[2]) \in 0..1
    BY SMTT(30), <1>0, PacketForms
  <1>7. qos[s] \in 0..1 \cup {None}
    BY DEF Types, IdType
  <1> QED BY <1>2, <1>3, <1>4, <1>5, <1>6, <1>7 DEF handle_packet

\* queue_outgoing and queue_job
LEMMA OutgoingTypes ==
    ASSUME Types, NEW s \in Sessions, queue_outgoing(s)
    PROVE  Types'
  <1> DEFINE d == Head(out[s])
             used == {i \in PacketIds : inflight_pub[s][i] # None}
             i == alloc_packet_id(next_packet_id[s], used)
  <1>1. d \in Deliveries /\ Bounded(out', Deliveries, OutChan)
    BY ReceiveBounded, ChannelAssumption DEF queue_outgoing, Types, ChannelType
  <1>2. UNCHANGED <<scene, registry, phase, cancelled, hungup, packets, ingestq, writeq,
                    writing, taking, qos, facts, client>>
    BY DEF queue_outgoing
  <1>3. ControlType' /\ ChannelType' /\ FactType'
    BY <1>1, <1>2 DEF Types, ControlType, ChannelType, FactType, facts, client
  <1>4. i \in PacketIds
    BY FreeId DEF Types, IdType
  <1>5. i \in 0..MaxPacketId
    BY SMTT(30), <1>4, IdAssumption DEF PacketIds
  <1>6. CASE qos[s] = 1
    <2>1. /\ job' = [job EXCEPT ![s] = <<"pub1", i, d>>]
          /\ inflight_pub' = [inflight_pub EXCEPT ![s][i] = d]
          /\ next_packet_id' = [next_packet_id EXCEPT ![s] = i]
          /\ overrun' = (overrun \/ PacketIds \subseteq used)
      BY <1>6 DEF queue_outgoing
    <2> HIDE DEF i, d
    <2>2. <<"pub1", i, d>> \in Jobs
      BY SMTT(30), <1>1, <1>4 DEF Jobs
    <2>3. TaskType'
      BY <1>2, <2>1, <2>2 DEF Types, TaskType
    <2>4. inflight_pub' \in [Sessions -> [PacketIds -> Deliveries \cup {None}]]
      BY <1>1, <1>4, <2>1 DEF Types, IdType
    <2>5. IdType'
      BY <1>2, <1>5, <2>1, <2>4 DEF Types, IdType
    <2> QED BY <1>3, <2>3, <2>5 DEF Types
  <1>7. CASE qos[s] # 1
    <2>1. job' = [job EXCEPT ![s] = <<"pub0", d>>] /\ UNCHANGED <<inflight_pub, next_packet_id, overrun>>
      BY <1>7 DEF queue_outgoing
    <2> HIDE DEF i, d
    <2>2. <<"pub0", d>> \in Jobs
      BY SMTT(30), <1>1 DEF Jobs
    <2>3. TaskType' /\ IdType'
      BY <1>2, <2>1, <2>2 DEF Types, TaskType, IdType
    <2> QED BY <1>3, <2>3 DEF Types
  <1> QED BY <1>6, <1>7

\* The session hands a job to its write task.
LEMMA JobTypes ==
    ASSUME Types, NEW s \in Sessions, queue_job(s)
    PROVE  Types'
  <1>1. job[s] \in Jobs
    BY DEF Types, TaskType, queue_job
  <1>2. Bounded(writeq', Jobs, WriteChan)
    <2>1. CASE writeq' = writeq
      BY <2>1 DEF Types, ChannelType
    <2>2. CASE Len(writeq[s]) < WriteChan /\ writeq' = [writeq EXCEPT ![s] = Append(@, job[s])]
      BY <1>1, <2>2, SendBounded, ChannelAssumption DEF Types, ChannelType
    <2> QED BY <2>1, <2>2 DEF queue_job
  <1>3. ControlType' /\ TaskType'
    BY DEF Types, ControlType, TaskType, queue_job
  <1>4. ChannelType' /\ IdType' /\ FactType'
    BY <1>2 DEF Types, ChannelType, IdType, FactType, queue_job, ids, facts, client
  <1> QED BY <1>3, <1>4 DEF Types

\* write_loop
LEMMA WriteTypes ==
    ASSUME Types, NEW s \in Sessions, WriteStep(s)
    PROVE  Types'
  <1>1. CASE WriteTakes(s)
    <2>1. Head(writeq[s]) \in Jobs /\ Bounded(writeq', Jobs, WriteChan)
      BY <1>1, ReceiveBounded, ChannelAssumption DEF WriteTakes, Types, ChannelType
    <2>2. ControlType' /\ ChannelType' /\ TaskType'
      BY <1>1, <2>1 DEF Types, ControlType, ChannelType, TaskType, WriteTakes
    <2>3. IdType' /\ FactType'
      BY <1>1 DEF Types, IdType, FactType, WriteTakes, ids, facts, client
    <2> QED BY <2>2, <2>3 DEF Types
  <1>2. CASE WriteDone(s)
    <2>0. writing[s] \in Jobs
      BY <1>2 DEF WriteDone
    <2>1. ControlType' /\ ChannelType' /\ TaskType' /\ IdType'
      BY <1>2 DEF Types, ControlType, ChannelType, TaskType, IdType, WriteDone, channels, ids
    <2>2. completed' \subseteq Deliveries /\ settled' \subseteq Deliveries
      BY <1>2, <2>0, JobForms DEF Types, FactType, WriteDone
    <2>3. acks' \subseteq Publishes
      BY <1>2, <2>0, JobForms DEF Types, FactType, WriteDone
    <2>4. unanswered' \in [Sessions -> SUBSET (PacketIds \X Deliveries)]
      <3>1. CASE unanswered' = unanswered
        BY <3>1 DEF Types, FactType
      <3>2. CASE /\ writing[s][1] = "pub1"
                 /\ unanswered' = [unanswered EXCEPT
                                     ![s] = @ \cup {<<writing[s][2], writing[s][3]>>}]
        BY SMTT(30), <2>0, <3>2, JobForms DEF Types, FactType
      <3> QED BY <1>2, <3>1, <3>2 DEF WriteDone
    <2>5. FactType'
      BY <1>2, <2>2, <2>3, <2>4 DEF Types, FactType, WriteDone
    <2> QED BY <2>1, <2>5 DEF Types
  <1>3. CASE WriteFails(s) \/ WriterEnds(s)
    <2>1. Bounded(writeq', Jobs, WriteChan)
      <3>1. writeq' = [writeq EXCEPT ![s] = <<>>]
        BY <1>3 DEF WriteFails, WriterEnds
      <3> QED BY <3>1, DropBounded, ChannelAssumption DEF Types, ChannelType
    <2>2. ControlType' /\ TaskType'
      BY <1>3 DEF Types, ControlType, TaskType, WriteFails, WriterEnds
    <2>3. ChannelType' /\ IdType' /\ FactType'
      BY <1>3, <2>1 DEF Types, ChannelType, IdType, FactType, WriteFails, WriterEnds, ids, facts,
         client
    <2> QED BY <2>2, <2>3 DEF Types
  <1> QED BY <1>1, <1>2, <1>3 DEF WriteStep

\* ingest_loop
LEMMA IngestTypes ==
    ASSUME Types, NEW s \in Sessions, IngestStep(s)
    PROVE  Types'
  <1>1. CASE IngestTakes(s)
    <2>1. Head(ingestq[s]) \in Publishes /\ Bounded(ingestq', Publishes, IngestChan)
      BY <1>1, ReceiveBounded, ChannelAssumption DEF IngestTakes, Types, ChannelType
    <2>2. ControlType' /\ ChannelType' /\ IdType'
      BY <1>1, <2>1 DEF Types, ControlType, ChannelType, IdType, IngestTakes, ids
    <2>3. TaskType' /\ FactType'
      BY <1>1, <2>1 DEF Types, TaskType, FactType, IngestTakes, client
    <2> QED BY <2>2, <2>3 DEF Types
  <1>2. CASE IngestAcks(s)
    <2>1. <<"ack", taking[s]>> \in Jobs
      BY SMTT(30), <1>2 DEF IngestAcks, Jobs
    <2>2. Bounded(writeq', Jobs, WriteChan)
      <3>1. CASE writeq' = writeq
        BY <3>1 DEF Types, ChannelType
      <3>2. CASE Len(writeq[s]) < WriteChan
                 /\ writeq' = [writeq EXCEPT ![s] = Append(@, <<"ack", taking[s]>>)]
        BY <2>1, <3>2, SendBounded, ChannelAssumption DEF Types, ChannelType
      <3> QED BY <1>2, <3>1, <3>2 DEF IngestAcks
    <2>3. ControlType' /\ ChannelType' /\ TaskType'
      BY <1>2, <2>2 DEF Types, ControlType, ChannelType, TaskType, IngestAcks
    <2>4. IdType' /\ FactType'
      BY <1>2 DEF Types, IdType, FactType, IngestAcks, ids, facts, client
    <2> QED BY <2>3, <2>4 DEF Types
  <1>3. CASE IngestEnds(s)
    <2>1. Bounded(ingestq', Publishes, IngestChan)
      BY <1>3, DropBounded, ChannelAssumption DEF IngestEnds, Types, ChannelType
    <2>2. ControlType' /\ ChannelType' /\ TaskType'
      BY <1>3, <2>1 DEF Types, ControlType, ChannelType, TaskType, IngestEnds
    <2>3. IdType' /\ FactType'
      BY <1>3 DEF Types, IdType, FactType, IngestEnds, ids, facts, client
    <2> QED BY <2>2, <2>3 DEF Types
  <1> QED BY <1>1, <1>2, <1>3 DEF IngestStep

\* The subscribe loop and the client.
LEMMA ClientTypes ==
    ASSUME Types, NEW s \in Sessions,
           \/ \E d \in Deliveries : Deliver(s, d)
           \/ \E packet \in scene.packets : SendOwn(s, packet)
           \/ \E a \in unanswered[s] : Answer(s, a[1], a[2])
    PROVE  Types'
  <1>1. ASSUME NEW d \in Deliveries, Deliver(s, d) PROVE Types'
    <2>1. Bounded(out', Deliveries, OutChan)
      BY <1>1, SendBounded, ChannelAssumption DEF Deliver, Types, ChannelType
    <2>2. ControlType' /\ ChannelType' /\ TaskType'
      BY <1>1, <2>1 DEF Types, ControlType, ChannelType, TaskType, Deliver, tasks
    <2>3. IdType' /\ FactType'
      BY <1>1 DEF Types, IdType, FactType, Deliver, ids, client
    <2> QED BY <2>2, <2>3 DEF Types
  <1>2. ASSUME NEW packet \in Packets, Send(s, packet)
        PROVE  ControlType' /\ ChannelType' /\ TaskType' /\ IdType'
    <2>1. Bounded(packets', Packets, PacketChan)
      BY <1>2, SendBounded, ChannelAssumption DEF Send, Types, ChannelType
    <2> QED BY <1>2, <2>1 DEF Types, ControlType, ChannelType, TaskType, IdType, Send, tasks, ids
  <1>3. ASSUME NEW packet \in scene.packets, SendOwn(s, packet) PROVE Types'
    <2>1. packet \in Packets
      BY SceneAssumption DEF Types, ControlType
    <2>2. sent' \in 0..scene.budget
      BY SMTT(30), <1>3, SceneAssumption DEF SendOwn, Types, ControlType, FactType
    <2>3. FactType'
      BY <1>3, <2>2 DEF SendOwn, Send, Types, FactType, facts
    <2> QED BY <1>2, <1>3, <2>1, <2>3 DEF SendOwn, Types
  <1>4. ASSUME NEW a \in unanswered[s], Answer(s, a[1], a[2]) PROVE Types'
    <2>1. a[1] \in PacketIds /\ a[2] \in Deliveries
      BY SMTT(30) DEF Types, FactType
    <2>2. <<"puback", a[1], a[2]>> \in Packets
      BY SMTT(30), <2>1 DEF Packets
    <2>3. FactType'
      BY <1>4, <2>1 DEF Answer, Send, Types, FactType, facts
    <2> QED BY <1>2, <1>4, <2>2, <2>3 DEF Answer, Types
  <1> QED BY <1>1, <1>3, <1>4

\* Every step of a session, its tasks and its client keeps the types.
LEMMA NextTypes == Types /\ [Next]_vars => Types'
  <1> SUFFICES ASSUME Types, [Next]_vars PROVE Types'
    OBVIOUS
  <1>1. scene.sessions \subseteq Sessions
    BY SceneAssumption DEF Types, ControlType
  <1>2. CASE Shutdown
    <2>1. ControlType'
      BY <1>2 DEF Types, ControlType, Shutdown
    <2> QED BY <1>2, <2>1 DEF Types, ChannelType, TaskType, IdType, FactType, Shutdown,
               channels, tasks, ids, facts, client
  <1>3. CASE UNCHANGED vars
    <2>1. ControlType' /\ ChannelType' /\ TaskType'
      BY <1>3 DEF Types, ControlType, ChannelType, TaskType, vars, channels, tasks
    <2> QED BY <1>3, <2>1 DEF Types, IdType, FactType, vars, ids, facts, client
  <1> QED BY <1>1, <1>2, <1>3, SessionTypes, PacketTypes, OutgoingTypes, JobTypes, WriteTypes,
             IngestTypes, ClientTypes DEF Next, SessionStep

\* The four channels of a session keep to their capacities and hold what their
\* readers expect (mqtt/session.rs), for all numbers of sessions and packets.
THEOREM MqttTypeCorrect == Spec => []TypeOK
  <1>1. Spec => []Types
    BY InitTypes, NextTypes, PTL DEF Spec
  <1> QED BY <1>1, TypeParts, PTL

-----------------------------------------------------------------------------
(* The registry of connected clients *)

\* Register cancels the session it replaces, and Leave removes no other one.
LEMMA NextRegistry == Types /\ RegistryNewest /\ [Next]_vars => RegistryNewest'
  <1> SUFFICES ASSUME Types, RegistryNewest, [Next]_vars PROVE RegistryNewest'
    OBVIOUS
  <1> USE DEF RegistryNewest
  <1>1. scene.sessions \subseteq Sessions
    BY SceneAssumption DEF Types, ControlType
  <1>2. ASSUME NEW s \in Sessions, Refuse(s) \/ Accept(s) \/ LoopEnds(s) PROVE RegistryNewest'
    BY <1>2 DEF Types, ControlType, Refuse, Accept, LoopEnds, Selects
  <1>3. ASSUME NEW s \in Sessions, Register(s) PROVE RegistryNewest'
    BY <1>3 DEF Types, ControlType, Register
  <1>4. ASSUME NEW s \in Sessions, Leave(s) PROVE RegistryNewest'
    BY <1>4 DEF Types, ControlType, Leave
  <1>5. ASSUME NEW s \in Sessions, handle_packet(s) PROVE RegistryNewest'
    <2>1. UNCHANGED <<registry, cancelled>> /\ phase[s] = "running"
      BY <1>5 DEF handle_packet, Selects
    <2>2. phase' = phase \/ phase' = [phase EXCEPT ![s] = "leaving"]
      BY <1>5 DEF handle_packet, Publish, PubAck, Subscription
    <2> QED BY <2>1, <2>2 DEF Types, ControlType
  <1>6. ASSUME NEW s \in Sessions, queue_job(s) PROVE RegistryNewest'
    <2>1. UNCHANGED <<registry, cancelled>> /\ phase[s] = "running"
      BY <1>6 DEF queue_job
    <2>2. phase' = phase \/ phase' = [phase EXCEPT ![s] = "leaving"]
      BY <1>6 DEF queue_job
    <2> QED BY <2>1, <2>2 DEF Types, ControlType
  <1>7. ASSUME NEW s \in Sessions, WriteFails(s) PROVE RegistryNewest'
    BY <1>7 DEF Types, ControlType, WriteFails
  <1>8. CASE Shutdown
    BY <1>8 DEF Types, ControlType, Shutdown
  <1>9. CASE UNCHANGED <<registry, phase, cancelled>>
    BY <1>9
  <1>10. ASSUME NEW s \in Sessions,
                \/ queue_outgoing(s) \/ WriteTakes(s) \/ WriteDone(s) \/ WriterEnds(s)
                \/ IngestStep(s) \/ Hangup(s)
                \/ \E d \in Deliveries : Deliver(s, d)
                \/ \E packet \in scene.packets : SendOwn(s, packet)
                \/ \E a \in unanswered[s] : Answer(s, a[1], a[2])
         PROVE  RegistryNewest'
    <2>1. UNCHANGED <<registry, phase, cancelled>>
      BY <1>10 DEF queue_outgoing, WriteTakes, WriteDone, WriterEnds, IngestStep, IngestTakes,
         IngestAcks, IngestEnds, Hangup, Deliver, SendOwn, Answer, Send
    <2> QED BY <1>9, <2>1
  <1>11. CASE UNCHANGED vars
    BY <1>9, <1>11 DEF vars
  <1> QED BY <1>1, <1>2, <1>3, <1>4, <1>5, <1>6, <1>7, <1>8, <1>10, <1>11
          DEF Next, SessionStep, WriteStep

\* Of the sessions of a client id only the newest runs on (mqtt/mod.rs), however
\* the end of one interleaves with the begin of the next.
THEOREM NewestIsRegistered == Spec => []RegistryNewest
  <1>1. Init => RegistryNewest
    BY DEF Init, RegistryNewest
  <1>2. Spec => [](Types /\ RegistryNewest)
    BY <1>1, InitTypes, NextTypes, NextRegistry, PTL DEF Spec
  <1> QED BY <1>2, PTL

-----------------------------------------------------------------------------
(* Acknowledgements of publishes *)

\* Acknowledgements on their way are of publishes that ingest has accepted.
Sound(j) == j[1] = "ack" => j[2] \in ingested
AckInv ==
    /\ acks \subseteq ingested
    /\ \A s \in Sessions : taking[s] \in Publishes => taking[s] \in ingested
    /\ \A s \in Sessions : writing[s] \in Jobs => Sound(writing[s])
    /\ \A s \in Sessions : job[s] \in Jobs => job[s][1] # "ack"
    /\ \A s \in Sessions : \A k \in 1..Len(writeq[s]) : Sound(writeq[s][k])

\* The steps of the session loop, which queues no acknowledgement of a publish.
LEMMA SessionAcks ==
    ASSUME Types, AckInv, NEW s \in Sessions,
           handle_packet(s) \/ queue_outgoing(s) \/ queue_job(s)
    PROVE  AckInv'
  <1> USE DEF AckInv, Sound
  <1>1. UNCHANGED <<acks, ingested, taking, writing>>
    BY DEF handle_packet, queue_outgoing, queue_job, facts, client
  <1>2. CASE queue_job(s)
    <2>1. job[s] \in Jobs /\ job' = [job EXCEPT ![s] = None]
      BY <1>2 DEF queue_job, Types, TaskType
    <2>2. \A t \in Sessions : job'[t] \in Jobs => job'[t][1] # "ack"
      BY <2>1, NoneAssumption DEF Types, TaskType
    <2>3. CASE writeq' = writeq
      BY <1>1, <2>2, <2>3
    <2>4. CASE writeq' = [writeq EXCEPT ![s] = Append(@, job[s])]
      <3>1. ASSUME NEW t \in Sessions, NEW k \in 1..Len(writeq'[t]) PROVE Sound(writeq'[t][k])
        <4>1. \/ k \in 1..Len(writeq[t]) /\ writeq'[t][k] = writeq[t][k]
              \/ writeq'[t][k] = job[s]
          <5>1. writeq \in [Sessions -> Seq(Jobs)]
            BY DEF Types, ChannelType, Bounded
          <5> QED BY SMTT(30), <2>1, <2>4, <5>1
        <4> QED BY <2>1, <4>1
      <3> QED BY <1>1, <2>2, <3>1
    <2> QED BY <1>2, <2>3, <2>4 DEF queue_job
  <1>3. CASE handle_packet(s) \/ queue_outgoing(s)
    <2>1. writeq' = writeq
      BY <1>3 DEF handle_packet, queue_outgoing
    <2>2. job' = job \/ \E j : j[1] # "ack" /\ job' = [job EXCEPT ![s] = j]
      <3>1. CASE handle_packet(s)
        <4>1. job' = job \/ job' = [job EXCEPT ![s] = <<"other">>]
          BY <3>1 DEF handle_packet, Publish, PubAck, Subscription
        <4>2. <<"other">>[1] # "ack"
          BY SMTT(30)
        <4> QED BY <4>1, <4>2
      <3>2. CASE queue_outgoing(s)
        <4>1. \E i, d : job' = [job EXCEPT ![s] = <<"pub1", i, d>>] \/ job' = [job EXCEPT ![s] = <<"pub0", d>>]
          BY <3>2 DEF queue_outgoing
        <4>2. \A i, d : <<"pub1", i, d>>[1] # "ack" /\ <<"pub0", d>>[1] # "ack"
          BY SMTT(30)
        <4> QED BY <4>1, <4>2
      <3> QED BY <1>3, <3>1, <3>2
    <2>3. \A t \in Sessions : job'[t] \in Jobs => job'[t][1] # "ack"
      BY <2>2 DEF Types, TaskType
    <2> QED BY <1>1, <2>1, <2>3
  <1> QED BY <1>2, <1>3

\* The steps of the write loop.
LEMMA WriteAcks ==
    ASSUME Types, AckInv, NEW s \in Sessions, WriteStep(s)
    PROVE  AckInv'
  <1> USE DEF AckInv, Sound
  <1>1. UNCHANGED <<ingested, taking, job>>
    BY DEF WriteStep, WriteTakes, WriteDone, WriteFails, WriterEnds, facts
  <1>2. CASE WriteTakes(s)
    <2>1. /\ writeq[s] # <<>> /\ writing' = [writing EXCEPT ![s] = Head(writeq[s])]
          /\ writeq' = [writeq EXCEPT ![s] = Tail(@)] /\ acks' = acks
      BY <1>2 DEF WriteTakes, client
    <2>2. Sound(Head(writeq[s]))
      <3>1. 1 \in 1..Len(writeq[s]) /\ Head(writeq[s]) = writeq[s][1]
        BY SMTT(30), <2>1 DEF Types, ChannelType, Bounded
      <3> QED BY <3>1
    <2>3. \A t \in Sessions : writing'[t] \in Jobs => Sound(writing'[t])
      BY <2>1, <2>2 DEF Types, TaskType
    <2>4. ASSUME NEW t \in Sessions, NEW k \in 1..Len(writeq'[t]) PROVE Sound(writeq'[t][k])
      <3>1. \/ writeq'[t] = writeq[t]
            \/ k + 1 \in 2..Len(writeq[t]) /\ writeq'[t][k] = writeq[t][k + 1]
        <4>1. writeq \in [Sessions -> Seq(Jobs)]
          BY DEF Types, ChannelType, Bounded
        <4> QED BY SMTT(30), <2>1, <4>1
      <3>2. \E l \in 1..Len(writeq[t]) : writeq'[t][k] = writeq[t][l]
        BY SMTT(30), <3>1
      <3> QED BY <3>2
    <2> QED BY <1>1, <2>1, <2>3, <2>4
  <1>3. CASE WriteDone(s)
    <2>1. writing[s] \in Jobs /\ writing' = [writing EXCEPT ![s] = None] /\ writeq' = writeq
      BY <1>3 DEF WriteDone, channels
    <2>2. acks' \subseteq ingested
      BY <1>3, <2>1 DEF WriteDone
    <2>3. \A t \in Sessions : writing'[t] \in Jobs => Sound(writing'[t])
      BY <2>1, NoneAssumption DEF Types, TaskType
    <2> QED BY <1>1, <2>1, <2>2, <2>3
  <1>4. CASE WriteFails(s) \/ WriterEnds(s)
    <2>1. /\ writing' = [writing EXCEPT ![s] = Ended] /\ writeq' = [writeq EXCEPT ![s] = <<>>]
          /\ acks' = acks
      BY <1>4 DEF WriteFails, WriterEnds, client
    <2>2. \A t \in Sessions : writing'[t] \in Jobs => Sound(writing'[t])
      BY <2>1, NoneAssumption DEF Types, TaskType
    <2>3. \A t \in Sessions : \A k \in 1..Len(writeq'[t]) : writeq'[t] = writeq[t]
      BY SMTT(30), <2>1 DEF Types, ChannelType, Bounded
    <2>4. \A t \in Sessions : \A k \in 1..Len(writeq'[t]) : Sound(writeq'[t][k])
      BY <2>3
    <2> QED BY <1>1, <2>1, <2>2, <2>4
  <1> QED BY <1>2, <1>3, <1>4 DEF WriteStep

\* The steps of the ingest loop.
LEMMA IngestAcked ==
    ASSUME Types, AckInv, NEW s \in Sessions, IngestStep(s)
    PROVE  AckInv'
  <1> USE DEF AckInv, Sound
  <1>1. UNCHANGED <<acks, writing, job>>
    BY DEF IngestStep, IngestTakes, IngestAcks, IngestEnds, client
  <1>2. CASE IngestTakes(s)
    <2>1. ingested \subseteq ingested' /\ writeq' = writeq
      BY <1>2 DEF IngestTakes
    <2>2. \A t \in Sessions : taking'[t] \in Publishes => taking'[t] \in ingested'
      BY <1>2 DEF IngestTakes, Types, TaskType
    <2> QED BY <1>1, <2>1, <2>2
  <1>3. CASE IngestAcks(s)
    <2>1. taking[s] \in Publishes /\ taking' = [taking EXCEPT ![s] = None] /\ ingested' = ingested
      BY <1>3 DEF IngestAcks, facts
    <2>2. \A t \in Sessions : taking'[t] \in Publishes => taking'[t] \in ingested
      BY <2>1, NoneAssumption DEF Types, TaskType
    <2>3. CASE writeq' = writeq
      BY <1>1, <2>1, <2>2, <2>3
    <2>4. CASE writeq' = [writeq EXCEPT ![s] = Append(@, <<"ack", taking[s]>>)]
      <3>0. <<"ack", taking[s]>> \in Jobs /\ <<"ack", taking[s]>>[2] = taking[s]
        BY SMTT(30), <2>1 DEF Jobs
      <3>1. ASSUME NEW t \in Sessions, NEW k \in 1..Len(writeq'[t]) PROVE Sound(writeq'[t][k])
        <4>1. \/ k \in 1..Len(writeq[t]) /\ writeq'[t][k] = writeq[t][k]
              \/ writeq'[t][k] = <<"ack", taking[s]>>
          <5>1. writeq \in [Sessions -> Seq(Jobs)]
            BY DEF Types, ChannelType, Bounded
          <5> QED BY SMTT(30), <2>4, <3>0, <5>1
        <4> QED BY <2>1, <3>0, <4>1
      <3> QED BY <1>1, <2>1, <2>2, <3>1
    <2> QED BY <1>3, <2>3, <2>4 DEF IngestAcks
  <1>4. CASE IngestEnds(s)
    <2>1. taking' = [taking EXCEPT ![s] = Ended] /\ ingested' = ingested /\ writeq' = writeq
      BY <1>4 DEF IngestEnds, facts
    <2>2. \A t \in Sessions : taking'[t] \in Publishes => taking'[t] \in ingested
      BY <2>1, NoneAssumption DEF Types, TaskType
    <2> QED BY <1>1, <2>1, <2>2
  <1> QED BY <1>2, <1>3, <1>4 DEF IngestStep

\* Every step keeps acknowledgements behind what ingest has accepted.
LEMMA NextAcks == Types /\ AckInv /\ [Next]_vars => AckInv'
  <1> SUFFICES ASSUME Types, AckInv, [Next]_vars PROVE AckInv'
    OBVIOUS
  <1>1. scene.sessions \subseteq Sessions
    BY SceneAssumption DEF Types, ControlType
  <1>2. CASE UNCHANGED <<acks, ingested, taking, writing, job, writeq>>
    BY <1>2 DEF AckInv, Sound
  <1>3. ASSUME NEW s \in Sessions,
               \/ Refuse(s) \/ Accept(s) \/ Register(s) \/ LoopEnds(s) \/ Leave(s) \/ Hangup(s)
               \/ \E d \in Deliveries : Deliver(s, d)
               \/ \E packet \in scene.packets : SendOwn(s, packet)
               \/ \E a \in unanswered[s] : Answer(s, a[1], a[2])
        PROVE  AckInv'
    <2>1. UNCHANGED <<acks, ingested, taking, writing, job, writeq>>
      BY <1>3 DEF Refuse, Accept, Register, LoopEnds, Leave, Forget, Hangup, Deliver, SendOwn,
         Answer,
         Send, channels, tasks, facts, client
    <2> QED BY <1>2, <2>1
  <1>4. CASE Shutdown \/ UNCHANGED vars
    <2>1. UNCHANGED <<acks, ingested, taking, writing, job, writeq>>
      BY <1>4 DEF Shutdown, vars, channels, tasks, facts, client
    <2> QED BY <1>2, <2>1
  <1> QED BY <1>1, <1>3, <1>4, SessionAcks, WriteAcks, IngestAcked DEF Next, SessionStep

\* PUBACK and PUBREC are sent for no publish that ingest has not accepted
\* (mqtt/session.rs, ingest_loop and write_loop), whatever became of the session.
THEOREM AcksAreIngested == Spec => []AckMeansIngested
  <1>1. Init => AckInv
    <2> SUFFICES ASSUME Init PROVE AckInv
      OBVIOUS
    <2>1. \A s \in Sessions : writeq[s] = <<>> /\ 1..Len(writeq[s]) = {}
      BY SMTT(30) DEF Init
    <2> QED BY <2>1, NoneAssumption DEF Init, AckInv
  <1>2. Spec => [](Types /\ AckInv)
    BY <1>1, InitTypes, NextTypes, NextAcks, PTL DEF Spec
  <1>3. AckInv => AckMeansIngested
    BY DEF AckInv, AckMeansIngested
  <1> QED BY <1>2, <1>3, PTL

-----------------------------------------------------------------------------
(* Packet ids *)

\* A step of a session, of its tasks, its subscriptions or its client.
StepOf(s) ==
    \/ Refuse(s) \/ Accept(s)
    \/ SessionStep(s) \/ WriteStep(s) \/ IngestStep(s)
    \/ \E d \in Deliveries : Deliver(s, d)
    \/ \E packet \in scene.packets : SendOwn(s, packet)
    \/ \E a \in unanswered[s] : Answer(s, a[1], a[2])
    \/ Hangup(s)

\* It changes nothing of another session, but that it may cancel it.
LEMMA OtherSessions ==
    ASSUME Types, NEW s \in Sessions, StepOf(s), NEW t \in Sessions, t # s
    PROVE  /\ phase'[t] = phase[t]
           /\ packets'[t] = packets[t] /\ ingestq'[t] = ingestq[t] /\ writeq'[t] = writeq[t]
           /\ job'[t] = job[t] /\ writing'[t] = writing[t] /\ taking'[t] = taking[t]
           /\ unanswered'[t] = unanswered[t] /\ inflight_pub'[t] = inflight_pub[t]
  <1> USE DEF Types, ControlType, ChannelType, Bounded, TaskType, IdType, FactType
  <1>1. CASE Refuse(s) \/ Accept(s) \/ Register(s) \/ LoopEnds(s) \/ Leave(s) \/ Hangup(s)
             \/ \E d \in Deliveries : Deliver(s, d)
    BY <1>1 DEF Refuse, Accept, Register, LoopEnds, Leave, Forget, Hangup, Deliver,
       channels, tasks, ids, client
  <1>2. CASE queue_outgoing(s) \/ queue_job(s)
    BY <1>2 DEF queue_outgoing, queue_job, ids, client
  <1>3. CASE handle_packet(s)
    BY <1>3 DEF handle_packet, Publish, PubAck, Subscription, ids, client
  <1>4. CASE WriteStep(s)
    BY <1>4 DEF WriteStep, WriteTakes, WriteDone, WriteFails, WriterEnds, channels, ids, client
  <1>5. CASE IngestStep(s)
    BY <1>5 DEF IngestStep, IngestTakes, IngestAcks, IngestEnds, ids, client
  <1>6. CASE \/ \E packet \in scene.packets : SendOwn(s, packet)
             \/ \E a \in unanswered[s] : Answer(s, a[1], a[2])
    BY <1>6 DEF SendOwn, Answer, Send, tasks, ids
  <1> QED BY <1>1, <1>2, <1>3, <1>4, <1>5, <1>6 DEF StepOf, SessionStep

\* Before its loops are spawned a session has nothing on its way.
FreshInv ==
    \A s \in Sessions : ~Spawned(s) =>
        /\ packets[s] = <<>> /\ ingestq[s] = <<>> /\ writeq[s] = <<>>
        /\ job[s] = None /\ writing[s] = None /\ taking[s] = None
        /\ unanswered[s] = {}

\* The loops are spawned before anything is on its way.
LEMMA NextFresh == Types /\ FreshInv /\ [Next]_vars => FreshInv'
  <1> SUFFICES ASSUME Types, FreshInv, [Next]_vars PROVE FreshInv'
    OBVIOUS
  <1> USE DEF FreshInv, Spawned
  <1>1. scene.sessions \subseteq Sessions
    BY SceneAssumption DEF Types, ControlType
  <1>2. ASSUME NEW s \in Sessions, StepOf(s) PROVE FreshInv'
    <2>1. CASE Refuse(s) \/ Accept(s) \/ Register(s)
      BY <2>1 DEF Types, ControlType, Refuse, Accept, Register, channels, tasks, client
    <2>2. CASE ~(Refuse(s) \/ Accept(s) \/ Register(s))
      <3>1. Spawned(s)
        <4>1. CASE WriteStep(s)
          BY <4>1, NoneAssumption DEF WriteStep, WriteTakes, WriteDone, WriteFails, WriterEnds
        <4>2. CASE IngestStep(s)
          BY <4>2, NoneAssumption DEF IngestStep, IngestTakes, IngestAcks, IngestEnds
        <4>3. CASE ~WriteStep(s) /\ ~IngestStep(s)
          BY <1>2, <2>2, <4>3 DEF StepOf, SessionStep, LoopEnds, Leave, handle_packet,
             queue_outgoing,
             queue_job, Hangup, Deliver, SendOwn, Answer, Send, Selects
        <4> QED BY <4>1, <4>2, <4>3
      <3>2. phase'[s] = phase[s] \/ phase'[s] \in {"leaving", "closed"}
        BY <1>2, <2>2 DEF Types, ControlType, StepOf, SessionStep, LoopEnds, Leave, handle_packet,
           Publish, PubAck, Subscription, queue_outgoing, queue_job, WriteStep, WriteTakes, WriteDone,
           WriteFails, WriterEnds, IngestStep, IngestTakes, IngestAcks, IngestEnds, Hangup, Deliver,
           SendOwn, Answer, Send
      <3>3. ~(phase'[s] \in {"new", "accepted"})
        BY <3>1, <3>2
      <3> QED BY <1>2, <3>3, OtherSessions
    <2> QED BY <2>1, <2>2
  <1>3. CASE Shutdown \/ UNCHANGED vars
    BY <1>3 DEF Shutdown, vars, channels, tasks, client
  <1> QED BY <1>1, <1>2, <1>3 DEF Next, StepOf

\* An answer that is on its way was given.
SettledInv ==
    \A s \in Sessions : \A k \in 1..Len(packets[s]) :
        packets[s][k][1] = "puback" => packets[s][k][3] \in settled

\* Only an answer is sent with PUBACK.
LEMMA NextSettled == Types /\ SettledInv /\ [Next]_vars => SettledInv'
  <1> SUFFICES ASSUME Types, SettledInv, [Next]_vars PROVE SettledInv'
    OBVIOUS
  <1> USE DEF SettledInv
  <1>0. packets \in [Sessions -> Seq(Packets)]
    BY DEF Types, ChannelType, Bounded
  <1>1. scene.sessions \subseteq Sessions
    BY SceneAssumption DEF Types, ControlType
  <1>2. ASSUME NEW s \in Sessions, handle_packet(s) PROVE SettledInv'
    <2>1. settled' = settled /\ packets[s] # <<>> /\ packets' = [packets EXCEPT ![s] = Tail(@)]
      BY <1>2 DEF handle_packet, client
    <2> SUFFICES ASSUME NEW t \in Sessions, NEW k \in 1..Len(packets'[t]), packets'[t][k][1] = "puback"
                 PROVE  packets'[t][k][3] \in settled'
      OBVIOUS
    <2>2. \/ packets'[t] = packets[t]
          \/ k + 1 \in 1..Len(packets[t]) /\ packets'[t][k] = packets[t][k + 1]
      BY SMTT(30), <1>0, <2>1
    <2> QED BY SMTT(30), <2>1, <2>2
  <1>3. ASSUME NEW s \in Sessions, NEW packet \in Packets, Send(s, packet), settled \subseteq settled',
               packet[1] = "puback" => packet[3] \in settled'
        PROVE  SettledInv'
    <2>1. packets' = [packets EXCEPT ![s] = Append(@, packet)]
      BY <1>3 DEF Send
    <2> SUFFICES ASSUME NEW t \in Sessions, NEW k \in 1..Len(packets'[t]), packets'[t][k][1] = "puback"
                 PROVE  packets'[t][k][3] \in settled'
      OBVIOUS
    <2>2. \/ packets'[t][k] = packet
          \/ k \in 1..Len(packets[t]) /\ packets'[t][k] = packets[t][k]
      BY SMTT(30), <1>0, <2>1
    <2> QED BY <1>3, <2>2
  <1>4. ASSUME NEW s \in Sessions, NEW packet \in scene.packets, SendOwn(s, packet) PROVE SettledInv'
    <2>1. packet \in Packets /\ packet[1] # "puback"
      BY SceneAssumption DEF Types, ControlType
    <2> QED BY <1>3, <1>4, <2>1 DEF SendOwn
  <1>5. ASSUME NEW s \in Sessions, NEW a \in unanswered[s], Answer(s, a[1], a[2]) PROVE SettledInv'
    <2>1. <<"puback", a[1], a[2]>> \in Packets /\ <<"puback", a[1], a[2]>>[3] = a[2]
      BY SMTT(30) DEF Types, FactType, Packets
    <2> QED BY <1>3, <1>5, <2>1 DEF Answer
  <1>6. ASSUME NEW s \in Sessions, Leave(s) PROVE SettledInv'
    <2>1. settled' = settled /\ packets' = [packets EXCEPT ![s] = <<>>]
      BY <1>6 DEF Leave, Forget, client
    <2> SUFFICES ASSUME NEW t \in Sessions, NEW k \in 1..Len(packets'[t]), packets'[t][k][1] = "puback"
                 PROVE  packets'[t][k][3] \in settled'
      OBVIOUS
    <2>2. packets'[t] = packets[t]
      BY SMTT(30), <1>0, <2>1
    <2> QED BY SMTT(30), <2>1, <2>2
  <1>7. CASE packets' = packets /\ settled \subseteq settled'
    BY <1>7
  <1>8. ASSUME NEW s \in Sessions,
               \/ Refuse(s) \/ Accept(s) \/ Register(s) \/ LoopEnds(s) \/ queue_outgoing(s)
               \/ queue_job(s) \/ WriteStep(s) \/ IngestStep(s) \/ Hangup(s)
               \/ \E d \in Deliveries : Deliver(s, d)
        PROVE  SettledInv'
    <2>1. packets' = packets /\ settled \subseteq settled'
      BY <1>8 DEF Refuse, Accept, Register, LoopEnds, queue_outgoing, queue_job, WriteStep,
         WriteTakes,
         WriteDone, WriteFails, WriterEnds, IngestStep, IngestTakes, IngestAcks, IngestEnds, Hangup,
         Deliver, channels, client
    <2> QED BY <1>7, <2>1
  <1>9. CASE Shutdown \/ UNCHANGED vars
    BY <1>7, <1>9 DEF Shutdown, vars, channels, client
  <1> QED BY <1>1, <1>2, <1>4, <1>5, <1>6, <1>8, <1>9 DEF Next, SessionStep

\* Where a PUBLISH with a packet id, or its answer, can be: with the session
\* loop, in the write queue, with the write loop, with the client, or on its way
\* back.
Places == {"job", "queue", "writing", "client", "answer"}
At(s, a, k, i, d) ==
    \/ a = "job" /\ k = 0 /\ job[s] = <<"pub1", i, d>>
    \/ a = "queue" /\ k \in 1..Len(writeq[s]) /\ writeq[s][k] = <<"pub1", i, d>>
    \/ a = "writing" /\ k = 0 /\ writing[s] = <<"pub1", i, d>>
    \/ a = "client" /\ k = 0 /\ <<i, d>> \in unanswered[s]
    \/ a = "answer" /\ k \in 1..Len(packets[s]) /\ packets[s][k] = <<"puback", i, d>>

\* Its id is in use for it, and it is in one place.
Agree(s) ==
    \A a \in Places, k \in Nat, i \in PacketIds, d \in Deliveries :
        At(s, a, k, i, d) => inflight_pub[s][i] = d
Unique(s) ==
    \A a, b \in Places, k, l \in Nat, i \in PacketIds, d, e \in Deliveries :
        At(s, a, k, i, d) /\ At(s, b, l, i, e) => a = b /\ k = l
InOrder(s) == Agree(s) /\ Unique(s)
IdInv == ~overrun => \A s \in Sessions : phase[s] = "running" => InOrder(s)

\* What Unique says of two places.
LEMMA OnePlace ==
    ASSUME NEW s, InOrder(s), NEW a \in Places, NEW b \in Places, NEW k \in Nat, NEW l \in Nat,
           NEW i \in PacketIds, NEW d \in Deliveries, NEW e \in Deliveries,
           At(s, a, k, i, d), At(s, b, l, i, e)
    PROVE  a = b /\ k = l
  BY DEF InOrder, Unique

\* If every id comes from somewhere, from one place, and is still in use, then
\* they are still in order.
LEMMA Shrink ==
    ASSUME NEW s \in Sessions, InOrder(s), inflight_pub'[s] = inflight_pub[s],
           ASSUME NEW a \in Places, NEW k \in Nat, NEW i \in PacketIds, NEW d \in Deliveries,
                  At(s, a, k, i, d)'
           PROVE  At(s, a, k, i, d)
    PROVE  InOrder(s)'
  <1>1. Agree(s)'
    <2> SUFFICES ASSUME NEW a \in Places, NEW k \in Nat, NEW i \in PacketIds, NEW d \in Deliveries,
                        At(s, a, k, i, d)'
                 PROVE  inflight_pub'[s][i] = d
      BY DEF Agree
    <2>1. At(s, a, k, i, d)
      OBVIOUS
    <2> QED BY <2>1 DEF InOrder, Agree
  <1>2. Unique(s)'
    <2> SUFFICES ASSUME NEW a \in Places, NEW b \in Places, NEW k \in Nat, NEW l \in Nat,
                        NEW i \in PacketIds, NEW d \in Deliveries, NEW e \in Deliveries,
                        At(s, a, k, i, d)', At(s, b, l, i, e)'
                 PROVE  a = b /\ k = l
      BY DEF Unique
    <2>1. At(s, a, k, i, d) /\ At(s, b, l, i, e)
      OBVIOUS
    <2> QED BY <2>1 DEF InOrder, Unique
  <1> QED BY <1>1, <1>2 DEF InOrder

\* handle_packet takes an answer from its place, and frees its id.
LEMMA HandleIds ==
    ASSUME Types, NEW s \in Sessions, InOrder(s), handle_packet(s)
    PROVE  InOrder(s)'
  <1> DEFINE p == Head(packets[s])
             Was(a, k) == IF a = "answer" THEN k + 1 ELSE k
  <1>0. /\ packets[s] \in Seq(Packets) /\ packets[s] # <<>> /\ packets'[s] = Tail(packets[s])
        /\ writeq' = writeq /\ writing' = writing /\ unanswered' = unanswered
    BY DEF handle_packet, Types, ChannelType, Bounded, client
  <1>1. job'[s] = job[s] \/ job'[s] = <<"other">>
    BY DEF handle_packet, Publish, PubAck, Subscription, Types, TaskType
  <1>2. ASSUME NEW a \in Places, NEW k \in Nat, NEW i \in PacketIds, NEW d \in Deliveries,
               At(s, a, k, i, d)'
        PROVE  At(s, a, Was(a, k), i, d) /\ Was(a, k) \in Nat /\ (a = "answer" => Was(a, k) # 1)
    <2>1. CASE a = "answer"
      <3>1. k \in 1..Len(Tail(packets[s])) /\ Tail(packets[s])[k] = <<"puback", i, d>>
        BY <1>0, <1>2, <2>1 DEF At
      <3>2. k + 1 \in 1..Len(packets[s]) /\ packets[s][k + 1] = <<"puback", i, d>>
            /\ k + 1 # 1 /\ k + 1 \in Nat
        BY SMTT(30), <1>0, <3>1
      <3>3. At(s, a, k + 1, i, d)
        BY <2>1, <3>2 DEF At
      <3> QED BY <2>1, <3>2, <3>3
    <2>2. CASE a = "job"
      <3>1. <<"other">> # <<"pub1", i, d>>
        BY SMTT(30)
      <3> QED BY <1>1, <1>2, <2>2, <3>1 DEF At
    <2>3. CASE a \notin {"answer", "job"}
      BY <1>0, <1>2, <2>3 DEF At
    <2> QED BY <2>1, <2>2, <2>3
  <1>3. Unique(s)'
    <2> SUFFICES ASSUME NEW a \in Places, NEW b \in Places, NEW k \in Nat, NEW l \in Nat,
                        NEW i \in PacketIds, NEW d \in Deliveries, NEW e \in Deliveries,
                        At(s, a, k, i, d)', At(s, b, l, i, e)'
                 PROVE  a = b /\ k = l
      BY DEF Unique
    <2>1. At(s, a, Was(a, k), i, d) /\ At(s, b, Was(b, l), i, e) /\ Was(a, k) \in Nat /\ Was(b, l) \in Nat
      BY <1>2
    <2>2. a = b /\ Was(a, k) = Was(b, l)
      BY <2>1 DEF InOrder, Unique
    <2> QED BY SMTT(30), <2>2
  <1>4. Agree(s)'
    <2> SUFFICES ASSUME NEW a \in Places, NEW k \in Nat, NEW i \in PacketIds, NEW d \in Deliveries,
                        At(s, a, k, i, d)'
                 PROVE  inflight_pub'[s][i] = d
      BY DEF Agree
    <2>1. At(s, a, Was(a, k), i, d) /\ Was(a, k) \in Nat /\ (a = "answer" => Was(a, k) # 1)
      BY <1>2
    <2>2. inflight_pub[s][i] = d
      BY <2>1 DEF InOrder, Agree
    <2>3. CASE inflight_pub' = inflight_pub
      BY <2>2, <2>3
    <2>4. CASE p[1] = "puback" /\ PubAck(s, p[2])
      <3>1. p \in Packets /\ p = packets[s][1] /\ 1 \in 1..Len(packets[s]) /\ 1 \in Nat
        BY SMTT(30), <1>0
      <3>2. p[2] \in PacketIds /\ p[3] \in Deliveries /\ p = <<"puback", p[2], p[3]>>
        BY <2>4, <3>1, PacketForms
      <3>3. At(s, "answer", 1, p[2], p[3]) /\ "answer" \in Places
        BY <3>1, <3>2 DEF At, Places
      <3>4. i # p[2]
        <4> HIDE DEF Was, p
        <4> SUFFICES ASSUME i = p[2] PROVE FALSE
          OBVIOUS
        <4>0. At(s, a, Was(a, k), p[2], d) /\ Was(a, k) \in Nat /\ 1 \in Nat
              /\ p[2] \in PacketIds /\ p[3] \in Deliveries
          BY <2>1, <3>1, <3>2
        <4>1. a = "answer" /\ Was(a, k) = 1
          BY SMTT(30), <3>3, <4>0, OnePlace
        <4> QED BY <2>1, <4>1
      <3>5. inflight_pub' = [inflight_pub EXCEPT ![s][p[2]] = None]
        BY <2>4 DEF PubAck
      <3> HIDE DEF p
      <3>6. inflight_pub'[s][i] = inflight_pub[s][i]
        BY SMTT(30), <3>2, <3>4, <3>5 DEF Types, IdType
      <3> QED BY <2>2, <3>6
    <2> QED BY <2>3, <2>4 DEF handle_packet, Publish, Subscription, ids
  <1> QED BY <1>3, <1>4 DEF InOrder

\* queue_outgoing uses an id that is in use for nothing.
LEMMA OutgoingIds ==
    ASSUME Types, NEW s \in Sessions, InOrder(s), queue_outgoing(s), ~overrun'
    PROVE  InOrder(s)'
  <1> DEFINE dd == Head(out[s])
             used == {i \in PacketIds : inflight_pub[s][i] # None}
             ii == alloc_packet_id(next_packet_id[s], used)
  <1>0. /\ job[s] = None /\ packets' = packets /\ writeq' = writeq /\ writing' = writing
        /\ unanswered' = unanswered
    BY DEF queue_outgoing, Selects, client
  <1>1. CASE qos[s] # 1
    <2>1. job' = [job EXCEPT ![s] = <<"pub0", dd>>] /\ inflight_pub' = inflight_pub
      BY <1>1 DEF queue_outgoing
    <2> HIDE DEF dd
    <2>2. \A i, d : job'[s] # <<"pub1", i, d>>
      BY SMTT(30), <2>1 DEF Types, TaskType
    <2>3. ASSUME NEW a \in Places, NEW k \in Nat, NEW i \in PacketIds, NEW d \in Deliveries,
                 At(s, a, k, i, d)'
          PROVE  At(s, a, k, i, d)
      BY <1>0, <2>2, <2>3 DEF At
    <2> QED BY <2>1, <2>3, Shrink
  <1>2. CASE qos[s] = 1
    <2>1. /\ job' = [job EXCEPT ![s] = <<"pub1", ii, dd>>]
          /\ inflight_pub' = [inflight_pub EXCEPT ![s][ii] = dd]
          /\ ~(PacketIds \subseteq used)
      BY <1>2 DEF queue_outgoing
    <2>2. ii \in PacketIds /\ inflight_pub[s][ii] = None
      <3>1. next_packet_id[s] \in 0..MaxPacketId
        BY DEF Types, IdType
      <3>2. ii \in PacketIds /\ ii \notin used
        BY <2>1, <3>1, FreeId
      <3> QED BY <3>2
    <2> HIDE DEF ii, dd, used
    <2>3. /\ job'[s] = <<"pub1", ii, dd>> /\ inflight_pub'[s][ii] = dd
          /\ \A i \in PacketIds \ {ii} : inflight_pub'[s][i] = inflight_pub[s][i]
      BY SMTT(30), <2>1, <2>2 DEF Types, TaskType, IdType
    <2>4. ASSUME NEW a \in Places, NEW k \in Nat, NEW i \in PacketIds, NEW d \in Deliveries,
                 At(s, a, k, i, d)'
          PROVE  \/ a = "job" /\ k = 0 /\ i = ii /\ d = dd
                 \/ a # "job" /\ At(s, a, k, i, d) /\ i # ii /\ inflight_pub[s][i] = d
      <3>1. CASE a = "job"
        <4>1. k = 0 /\ <<"pub1", ii, dd>> = <<"pub1", i, d>>
          BY <2>3, <2>4, <3>1 DEF At
        <4> QED BY SMTT(30), <3>1, <4>1
      <3>2. CASE a # "job"
        <4>1. At(s, a, k, i, d)
          BY <1>0, <2>4, <3>2 DEF At
        <4>2. inflight_pub[s][i] = d
          BY <4>1 DEF InOrder, Agree
        <4> QED BY <2>2, <3>2, <4>1, <4>2, NoneAssumption
      <3> QED BY <3>1, <3>2
    <2>5. Agree(s)'
      <3> SUFFICES ASSUME NEW a \in Places, NEW k \in Nat, NEW i \in PacketIds, NEW d \in Deliveries,
                          At(s, a, k, i, d)'
                   PROVE  inflight_pub'[s][i] = d
        BY DEF Agree
      <3> QED BY <2>3, <2>4
    <2>6. Unique(s)'
      <3> SUFFICES ASSUME NEW a \in Places, NEW b \in Places, NEW k \in Nat, NEW l \in Nat,
                          NEW i \in PacketIds, NEW d \in Deliveries, NEW e \in Deliveries,
                          At(s, a, k, i, d)', At(s, b, l, i, e)'
                   PROVE  a = b /\ k = l
        BY DEF Unique
      <3>1. CASE i = ii
        BY <2>4, <3>1
      <3>2. CASE i # ii
        <4>1. At(s, a, k, i, d) /\ At(s, b, l, i, e)
          BY <2>4, <3>2
        <4> QED BY <4>1 DEF InOrder, Unique
      <3> QED BY <3>1, <3>2
    <2> QED BY <2>5, <2>6 DEF InOrder
  <1> QED BY <1>1, <1>2

\* The session loop holds no PUBLISH when it has none to queue, nor the write
\* loop when it has none to send.
LEMMA NoPublish == \A i \in PacketIds, d \in Deliveries :
    None # <<"pub1", i, d>> /\ Ended # <<"pub1", i, d>>
  BY SMTT(30), NoneAssumption DEF Jobs

\* In a step the PUBLISH or answer with id x moves from one place to another.
Moves(s, p, m, q, n, x) ==
    \A a \in Places, k \in Nat, i \in PacketIds, d \in Deliveries :
        At(s, a, k, i, d)' =>
            \/ At(s, a, k, i, d) /\ ~(a = p /\ k = m /\ i = x)
            \/ a = q /\ k = n /\ i = x /\ At(s, p, m, i, d)

\* If one PUBLISH or answer moves from one place to another, and nothing else
\* gets a place, then they are still in order.
LEMMA Move ==
    ASSUME NEW s \in Sessions, InOrder(s), inflight_pub'[s] = inflight_pub[s],
           NEW p \in Places, NEW m \in Nat, NEW q \in Places, NEW n \in Nat, NEW x,
           Moves(s, p, m, q, n, x)
    PROVE  InOrder(s)'
  <1>1. Agree(s)'
    <2> SUFFICES ASSUME NEW a \in Places, NEW k \in Nat, NEW i \in PacketIds, NEW d \in Deliveries,
                        At(s, a, k, i, d)'
                 PROVE  inflight_pub'[s][i] = d
      BY DEF Agree
    <2>1. At(s, a, k, i, d) \/ At(s, p, m, i, d)
      BY DEF Moves
    <2> QED BY <2>1 DEF InOrder, Agree
  <1>2. Unique(s)'
    <2> SUFFICES ASSUME NEW a \in Places, NEW b \in Places, NEW k \in Nat, NEW l \in Nat,
                        NEW i \in PacketIds, NEW d \in Deliveries, NEW e \in Deliveries,
                        At(s, a, k, i, d)', At(s, b, l, i, e)'
                 PROVE  a = b /\ k = l
      BY DEF Unique
    <2>1. \/ At(s, a, k, i, d) /\ ~(a = p /\ k = m /\ i = x)
          \/ a = q /\ k = n /\ i = x /\ At(s, p, m, i, d)
      BY DEF Moves
    <2>2. \/ At(s, b, l, i, e) /\ ~(b = p /\ l = m /\ i = x)
          \/ b = q /\ l = n /\ i = x /\ At(s, p, m, i, e)
      BY DEF Moves
    <2>3. CASE At(s, a, k, i, d) /\ At(s, b, l, i, e)
      BY <2>3, OnePlace
    <2>4. CASE At(s, a, k, i, d) /\ At(s, p, m, i, e) /\ i = x /\ ~(a = p /\ k = m /\ i = x)
      BY <2>4, OnePlace
    <2>5. CASE At(s, b, l, i, e) /\ At(s, p, m, i, d) /\ i = x /\ ~(b = p /\ l = m /\ i = x)
      BY <2>5, OnePlace
    <2> QED BY <2>1, <2>2, <2>3, <2>4, <2>5
  <1> QED BY <1>1, <1>2 DEF InOrder

\* queue_job moves a PUBLISH into the write queue.
LEMMA JobIds ==
    ASSUME Types, NEW s \in Sessions, InOrder(s), queue_job(s)
    PROVE  InOrder(s)'
  <1>0. /\ packets' = packets /\ writing' = writing /\ unanswered' = unanswered
        /\ inflight_pub' = inflight_pub /\ job'[s] = None /\ writeq[s] \in Seq(Jobs)
        /\ job[s] \in Jobs
    BY DEF queue_job, Types, TaskType, ChannelType, Bounded, ids, client
  <1>2. CASE writeq' = writeq
    <2>1. ASSUME NEW a \in Places, NEW k \in Nat, NEW i \in PacketIds, NEW d \in Deliveries,
                 At(s, a, k, i, d)'
          PROVE  At(s, a, k, i, d)
      BY <1>0, <1>2, <2>1, NoPublish DEF At
    <2> QED BY <1>0, <2>1, Shrink
  <1>3. CASE writeq'[s] = Append(writeq[s], job[s])
    <2> DEFINE n == Len(writeq[s]) + 1
               x == job[s][2]
    <2>1. n \in Nat /\ 0 \in Nat /\ "job" \in Places /\ "queue" \in Places
      BY SMTT(30), <1>0 DEF Places
    <2>2. ASSUME NEW a \in Places, NEW k \in Nat, NEW i \in PacketIds, NEW d \in Deliveries,
                 At(s, a, k, i, d)'
          PROVE  \/ At(s, a, k, i, d) /\ ~(a = "job" /\ k = 0 /\ i = x)
                 \/ a = "queue" /\ k = n /\ i = x /\ At(s, "job", 0, i, d)
      <3>1. CASE a = "queue"
        <4>1. k \in 1..Len(Append(writeq[s], job[s])) /\ Append(writeq[s], job[s])[k] = <<"pub1", i, d>>
          BY <1>3, <2>2, <3>1 DEF At
        <4>2. \/ k \in 1..Len(writeq[s]) /\ writeq[s][k] = <<"pub1", i, d>>
              \/ k = n /\ job[s] = <<"pub1", i, d>> /\ i = x
          BY SMTT(30), <1>0, <4>1
        <4> QED BY <3>1, <4>2 DEF At
      <3>2. CASE a = "job"
        BY <1>0, <2>2, <3>2, NoPublish DEF At
      <3>3. CASE a \notin {"queue", "job"}
        BY <1>0, <2>2, <3>3 DEF At
      <3> QED BY <3>1, <3>2, <3>3
    <2> HIDE DEF n, x
    <2>3. Moves(s, "job", 0, "queue", n, x)
      BY <2>2 DEF Moves
    <2> QED BY <1>0, <2>1, <2>3, Move
  <1> QED BY <1>2, <1>3 DEF queue_job, Types, ChannelType, Bounded

\* The write loop takes the first job of its queue.
LEMMA TakeIds ==
    ASSUME Types, NEW s \in Sessions, InOrder(s), WriteTakes(s)
    PROVE  InOrder(s)'
  <1> DEFINE P(a) == IF a = "writing" THEN "queue" ELSE a
             Was(a, k) == IF a = "writing" THEN 1 ELSE IF a = "queue" THEN k + 1 ELSE k
  <1>0. /\ packets' = packets /\ job' = job /\ unanswered' = unanswered
        /\ inflight_pub' = inflight_pub /\ writing[s] = None
        /\ writeq[s] \in Seq(Jobs) /\ writeq[s] # <<>>
        /\ writeq'[s] = Tail(writeq[s]) /\ writing'[s] = Head(writeq[s])
    BY DEF WriteTakes, Types, TaskType, ChannelType, Bounded, ids, client
  <1>1. ASSUME NEW a \in Places, NEW k \in Nat, NEW i \in PacketIds, NEW d \in Deliveries,
               At(s, a, k, i, d)'
        PROVE  /\ At(s, P(a), Was(a, k), i, d) /\ P(a) \in Places /\ Was(a, k) \in Nat
               /\ a = "queue" => Was(a, k) # 1
               /\ a = "writing" => k = 0
    <2>1. CASE a = "queue"
      <3>1. k \in 1..Len(Tail(writeq[s])) /\ Tail(writeq[s])[k] = <<"pub1", i, d>>
        BY <1>0, <1>1, <2>1 DEF At
      <3>2. k + 1 \in 1..Len(writeq[s]) /\ writeq[s][k + 1] = <<"pub1", i, d>> /\ k + 1 # 1
            /\ k + 1 \in Nat
        BY SMTT(30), <1>0, <3>1
      <3>3. At(s, a, k + 1, i, d)
        BY <2>1, <3>2 DEF At
      <3> QED BY <2>1, <3>2, <3>3 DEF Places
    <2>2. CASE a = "writing"
      <3>1. k = 0 /\ Head(writeq[s]) = <<"pub1", i, d>>
        BY <1>0, <1>1, <2>2 DEF At
      <3>2. 1 \in 1..Len(writeq[s]) /\ writeq[s][1] = <<"pub1", i, d>> /\ 1 \in Nat
        BY SMTT(30), <1>0, <3>1
      <3>3. At(s, "queue", 1, i, d)
        BY <3>2 DEF At
      <3> QED BY <2>2, <3>1, <3>2, <3>3 DEF Places
    <2>3. CASE a \notin {"queue", "writing"}
      BY <1>0, <1>1, <2>3 DEF At
    <2> QED BY <2>1, <2>2, <2>3
  <1>2. Agree(s)'
    <2> SUFFICES ASSUME NEW a \in Places, NEW k \in Nat, NEW i \in PacketIds, NEW d \in Deliveries,
                        At(s, a, k, i, d)'
                 PROVE  inflight_pub'[s][i] = d
      BY DEF Agree
    <2> HIDE DEF P, Was
    <2>1. At(s, P(a), Was(a, k), i, d) /\ P(a) \in Places /\ Was(a, k) \in Nat
      BY <1>1
    <2> QED BY <1>0, <2>1 DEF InOrder, Agree
  <1>3. Unique(s)'
    <2> SUFFICES ASSUME NEW a \in Places, NEW b \in Places, NEW k \in Nat, NEW l \in Nat,
                        NEW i \in PacketIds, NEW d \in Deliveries, NEW e \in Deliveries,
                        At(s, a, k, i, d)', At(s, b, l, i, e)'
                 PROVE  a = b /\ k = l
      BY DEF Unique
    <2>1. /\ a = "queue" => Was(a, k) # 1
          /\ b = "queue" => Was(b, l) # 1
          /\ a = "writing" => k = 0
          /\ b = "writing" => l = 0
      BY <1>1
    <2>2. P(a) = P(b) /\ Was(a, k) = Was(b, l)
      <3> HIDE DEF P, Was
      <3>1. /\ At(s, P(a), Was(a, k), i, d) /\ P(a) \in Places /\ Was(a, k) \in Nat
            /\ At(s, P(b), Was(b, l), i, e) /\ P(b) \in Places /\ Was(b, l) \in Nat
        BY <1>1
      <3> QED BY <3>1, OnePlace
    <2> QED BY SMTT(30), <2>1, <2>2
  <1> QED BY <1>2, <1>3 DEF InOrder

\* A PUBLISH that is written is with the client, unless that has hung up.
LEMMA DoneIds ==
    ASSUME Types, NEW s \in Sessions, InOrder(s), WriteDone(s)
    PROVE  InOrder(s)'
  <1> DEFINE x == writing[s][2]
  <1>0. /\ packets' = packets /\ job' = job /\ writeq' = writeq /\ inflight_pub' = inflight_pub
        /\ writing[s] \in Jobs /\ writing'[s] = None
    BY DEF WriteDone, Types, TaskType, channels, ids
  <1>1. 0 \in Nat /\ "writing" \in Places /\ "client" \in Places
    BY DEF Places
  <1>2. ASSUME NEW i \in PacketIds, NEW d \in Deliveries, <<i, d>> \in unanswered'[s]
        PROVE  <<i, d>> \in unanswered[s] \/ (writing[s] = <<"pub1", i, d>> /\ i = x)
    <2>1. \/ <<i, d>> \in unanswered[s]
          \/ writing[s][1] = "pub1" /\ <<i, d>> = <<writing[s][2], writing[s][3]>>
      BY <1>2 DEF WriteDone, Types, FactType
    <2>2. writing[s][1] = "pub1" => writing[s] = <<"pub1", writing[s][2], writing[s][3]>>
      BY <1>0, JobForms
    <2> QED BY SMTT(30), <2>1, <2>2
  <1>3. Moves(s, "writing", 0, "client", 0, x)
    <2> SUFFICES ASSUME NEW a \in Places, NEW k \in Nat, NEW i \in PacketIds, NEW d \in Deliveries,
                        At(s, a, k, i, d)'
                 PROVE  \/ At(s, a, k, i, d) /\ ~(a = "writing" /\ k = 0 /\ i = x)
                        \/ a = "client" /\ k = 0 /\ i = x /\ At(s, "writing", 0, i, d)
      BY DEF Moves
    <2> HIDE DEF x
    <2>1. CASE a = "client"
      BY <1>2, <2>1 DEF At
    <2>2. CASE a = "writing"
      BY <1>0, <2>2, NoPublish DEF At
    <2>3. CASE a \notin {"client", "writing"}
      BY <1>0, <2>3 DEF At
    <2> QED BY <2>1, <2>2, <2>3
  <1> QED BY <1>0, <1>1, <1>3, Move

\* The client answers a PUBLISH.
LEMMA AnswerIds ==
    ASSUME Types, NEW s \in Sessions, InOrder(s), NEW c \in unanswered[s], Answer(s, c[1], c[2])
    PROVE  InOrder(s)'
  <1> DEFINE n == Len(packets[s]) + 1
  <1>0. /\ job' = job /\ writeq' = writeq /\ writing' = writing /\ inflight_pub' = inflight_pub
        /\ packets[s] \in Seq(Packets) /\ packets'[s] = Append(packets[s], <<"puback", c[1], c[2]>>)
        /\ unanswered'[s] = unanswered[s] \ {<<c[1], c[2]>>}
    BY DEF Answer, Send, Types, ChannelType, Bounded, FactType, tasks, ids
  <1>1. /\ c[1] \in PacketIds /\ c[2] \in Deliveries /\ c = <<c[1], c[2]>> /\ n \in Nat
    BY SMTT(30), <1>0 DEF Types, FactType
  <1>2. 0 \in Nat /\ "client" \in Places /\ "answer" \in Places
    BY DEF Places
  <1>3. inflight_pub[s][c[1]] = c[2]
    <2>1. At(s, "client", 0, c[1], c[2])
      BY <1>1 DEF At
    <2> QED BY <1>1, <1>2, <2>1 DEF InOrder, Agree
  <1>4. Moves(s, "client", 0, "answer", n, c[1])
    <2> SUFFICES ASSUME NEW a \in Places, NEW k \in Nat, NEW i \in PacketIds, NEW d \in Deliveries,
                        At(s, a, k, i, d)'
                 PROVE  \/ At(s, a, k, i, d) /\ ~(a = "client" /\ k = 0 /\ i = c[1])
                        \/ a = "answer" /\ k = n /\ i = c[1] /\ At(s, "client", 0, i, d)
      BY DEF Moves
    <2>1. CASE a = "answer"
      <3>1. /\ k \in 1..Len(Append(packets[s], <<"puback", c[1], c[2]>>))
            /\ Append(packets[s], <<"puback", c[1], c[2]>>)[k] = <<"puback", i, d>>
        BY <1>0, <2>1 DEF At
      <3>2. \/ k \in 1..Len(packets[s]) /\ packets[s][k] = <<"puback", i, d>>
            \/ k = n /\ i = c[1] /\ d = c[2]
        BY SMTT(30), <1>0, <3>1
      <3>3. CASE k \in 1..Len(packets[s]) /\ packets[s][k] = <<"puback", i, d>>
        BY <2>1, <3>3 DEF At
      <3>4. CASE k = n /\ i = c[1] /\ d = c[2]
        <4>1. <<i, d>> \in unanswered[s]
          BY SMTT(30), <1>1, <3>4
        <4>2. At(s, "client", 0, i, d)
          BY <4>1 DEF At
        <4> QED BY <2>1, <3>4, <4>2
      <3> QED BY <3>2, <3>3, <3>4
    <2>2. CASE a = "client"
      <3>1. <<i, d>> \in unanswered[s] /\ <<i, d>> # <<c[1], c[2]>> /\ k = 0
        BY <1>0, <2>2 DEF At
      <3>2. At(s, "client", 0, i, d)
        BY <3>1 DEF At
      <3>3. inflight_pub[s][i] = d
        BY <1>2, <3>2 DEF InOrder, Agree
      <3>4. i # c[1]
        BY SMTT(30), <1>3, <3>1, <3>3
      <3> QED BY <2>2, <3>1, <3>2, <3>4
    <2>3. CASE a \notin {"answer", "client"}
      BY <1>0, <2>3 DEF At
    <2> QED BY <2>1, <2>2, <2>3
  <1> HIDE DEF n
  <1> QED BY <1>0, <1>1, <1>2, <1>4, Move

\* What else a session that runs does gives no PUBLISH and no answer a place.
LEMMA OtherIds ==
    ASSUME Types, NEW s \in Sessions, InOrder(s),
           \/ WriteFails(s) \/ WriterEnds(s) \/ IngestStep(s) \/ Hangup(s)
           \/ \E d \in Deliveries : Deliver(s, d)
           \/ \E packet \in scene.packets : SendOwn(s, packet)
    PROVE  InOrder(s)'
  <1>0. inflight_pub' = inflight_pub /\ job' = job
    BY DEF WriteFails, WriterEnds, IngestStep, IngestTakes, IngestAcks, IngestEnds, Hangup,
       Deliver,
       SendOwn, Send, ids, tasks
  <1>1. writing'[s] = writing[s] \/ writing'[s] = Ended
    BY DEF WriteFails, WriterEnds, IngestStep, IngestTakes, IngestAcks, IngestEnds, Hangup,
       Deliver,
       SendOwn, Send, tasks, Types, TaskType
  <1>2. unanswered'[s] \subseteq unanswered[s]
    BY DEF WriteFails, WriterEnds, IngestStep, IngestTakes, IngestAcks, IngestEnds, Hangup,
       Deliver,
       SendOwn, Send, client, Types, FactType
  <1>3. ASSUME NEW k \in Nat, NEW i \in PacketIds, NEW d \in Deliveries,
               k \in 1..Len(writeq'[s]), writeq'[s][k] = <<"pub1", i, d>>
        PROVE  k \in 1..Len(writeq[s]) /\ writeq[s][k] = <<"pub1", i, d>>
    <2>0. writeq[s] \in Seq(Jobs)
      BY DEF Types, ChannelType, Bounded
    <2>1. CASE writeq'[s] = writeq[s]
      BY <1>3, <2>1
    <2>2. CASE writeq'[s] = <<>>
      BY SMTT(30), <1>3, <2>2
    <2>3. CASE writeq'[s] = Append(writeq[s], <<"ack", taking[s]>>)
      BY SMTT(30), <1>3, <2>0, <2>3
    <2> QED BY <2>1, <2>2, <2>3 DEF WriteFails, WriterEnds, IngestStep, IngestTakes, IngestAcks,
               IngestEnds, Hangup, Deliver, SendOwn, Send, channels, Types, ChannelType, Bounded
  <1>4. ASSUME NEW k \in Nat, NEW i \in PacketIds, NEW d \in Deliveries,
               k \in 1..Len(packets'[s]), packets'[s][k] = <<"puback", i, d>>
        PROVE  k \in 1..Len(packets[s]) /\ packets[s][k] = <<"puback", i, d>>
    <2>0. packets[s] \in Seq(Packets)
      BY DEF Types, ChannelType, Bounded
    <2>1. CASE packets'[s] = packets[s]
      BY <1>4, <2>1
    <2>2. ASSUME NEW packet \in scene.packets, packets'[s] = Append(packets[s], packet)
          PROVE  k \in 1..Len(packets[s]) /\ packets[s][k] = <<"puback", i, d>>
      <3>1. packet \in Packets /\ packet[1] # "puback"
        BY SceneAssumption DEF Types, ControlType
      <3> QED BY SMTT(30), <1>4, <2>0, <2>2, <3>1
    <2> QED BY <2>1, <2>2 DEF WriteFails, WriterEnds, IngestStep, IngestTakes, IngestAcks,
               IngestEnds, Hangup, Deliver, SendOwn, Send, channels, Types, ChannelType, Bounded
  <1>5. ASSUME NEW a \in Places, NEW k \in Nat, NEW i \in PacketIds, NEW d \in Deliveries,
               At(s, a, k, i, d)'
        PROVE  At(s, a, k, i, d)
    <2>1. CASE a = "writing"
      BY <1>1, <1>5, <2>1, NoPublish DEF At
    <2>2. CASE a = "queue"
      BY <1>3, <1>5, <2>2 DEF At
    <2>3. CASE a = "answer"
      BY <1>4, <1>5, <2>3 DEF At
    <2>4. CASE a \in {"job", "client"}
      BY <1>0, <1>2, <1>5, <2>4 DEF At
    <2> QED BY <2>1, <2>2, <2>3, <2>4 DEF Places
  <1> QED BY <1>0, <1>5, Shrink

\* A session begins with nothing on its way.
LEMMA RegisterIds ==
    ASSUME Types, FreshInv, NEW s \in Sessions, Register(s)
    PROVE  InOrder(s)'
  <1>1. /\ packets'[s] = <<>> /\ writeq'[s] = <<>> /\ job'[s] = None /\ writing'[s] = None
        /\ unanswered'[s] = {}
    BY DEF FreshInv, Spawned, Register, channels, tasks, client
  <1>2. ASSUME NEW a \in Places, NEW k \in Nat, NEW i \in PacketIds, NEW d \in Deliveries,
               At(s, a, k, i, d)'
        PROVE  FALSE
    <2>1. 1..Len(packets'[s]) = {} /\ 1..Len(writeq'[s]) = {}
      BY SMTT(30), <1>1
    <2> QED BY <1>1, <1>2, <2>1, NoPublish DEF At
  <1>3. Agree(s)'
    BY <1>2 DEF Agree
  <1>4. Unique(s)'
    BY <1>2 DEF Unique
  <1> QED BY <1>3, <1>4 DEF InOrder

\* That all packet ids were in use at once is not forgotten.
LEMMA OverrunStays == [Next]_vars /\ overrun => overrun'
  <1> SUFFICES ASSUME [Next]_vars, overrun PROVE overrun'
    OBVIOUS
  <1>1. ASSUME NEW s, handle_packet(s) \/ queue_outgoing(s) PROVE overrun'
    BY <1>1 DEF handle_packet, Publish, PubAck, Subscription, queue_outgoing, ids
  <1>2. ASSUME NEW s, StepOf(s), ~handle_packet(s), ~queue_outgoing(s) PROVE overrun' = overrun
    BY <1>2 DEF StepOf, Refuse, Accept, SessionStep, Register, LoopEnds, queue_job, Leave, Forget,
       WriteStep, WriteTakes, WriteDone, WriteFails, WriterEnds, IngestStep, IngestTakes, IngestAcks,
       IngestEnds, Deliver, SendOwn, Answer, Send, Hangup, ids
  <1>3. CASE Shutdown \/ UNCHANGED vars
    BY <1>3 DEF Shutdown, vars, ids
  <1> QED BY <1>1, <1>2, <1>3 DEF Next, StepOf

\* As long as not all packet ids were in use at once, they stay in order.
LEMMA NextIds == Types /\ FreshInv /\ IdInv /\ [Next]_vars => IdInv'
  <1> SUFFICES ASSUME Types, FreshInv, IdInv, [Next]_vars, ~overrun', NEW t \in Sessions,
                      phase'[t] = "running"
               PROVE  InOrder(t)'
    BY DEF IdInv
  <1>1. scene.sessions \subseteq Sessions
    BY SceneAssumption DEF Types, ControlType
  <1>2. ~overrun
    BY OverrunStays
  <1>3. CASE Shutdown \/ UNCHANGED vars
    <2>1. UNCHANGED <<phase, packets, writeq, job, writing, unanswered, inflight_pub>>
      BY <1>3 DEF Shutdown, vars, channels, tasks, ids, client
    <2>2. InOrder(t)
      BY <1>2, <2>1 DEF IdInv
    <2>3. ASSUME NEW a \in Places, NEW k \in Nat, NEW i \in PacketIds, NEW d \in Deliveries,
                 At(t, a, k, i, d)'
          PROVE  At(t, a, k, i, d)
      BY <2>1, <2>3 DEF At
    <2> QED BY <2>1, <2>2, <2>3, Shrink
  <1>4. ASSUME NEW s \in Sessions, StepOf(s) PROVE InOrder(t)'
    <2>1. CASE t # s
      <3>1. /\ phase'[t] = phase[t] /\ packets'[t] = packets[t] /\ writeq'[t] = writeq[t]
            /\ job'[t] = job[t] /\ writing'[t] = writing[t]
            /\ unanswered'[t] = unanswered[t] /\ inflight_pub'[t] = inflight_pub[t]
        BY <1>4, <2>1, OtherSessions
      <3>2. InOrder(t)
        BY <1>2, <3>1 DEF IdInv
      <3>3. ASSUME NEW a \in Places, NEW k \in Nat, NEW i \in PacketIds, NEW d \in Deliveries,
                   At(t, a, k, i, d)'
            PROVE  At(t, a, k, i, d)
        BY <3>1, <3>3 DEF At
      <3> QED BY <3>1, <3>2, <3>3, Shrink
    <2>2. CASE t = s
      <3>1. CASE Register(s)
        BY <2>2, <3>1, RegisterIds
      <3>2. CASE ~Register(s)
        <4>1. phase[s] = "running"
          BY <1>4, <2>2, <3>2 DEF StepOf, SessionStep, Refuse, Accept, LoopEnds, Leave,
             handle_packet,
             queue_outgoing, queue_job, WriteStep, WriteTakes, WriteDone, WriteFails, WriterEnds,
             IngestStep, IngestTakes, IngestAcks, IngestEnds, Deliver, SendOwn, Answer, Send, Hangup,
             Selects, Types, ControlType
        <4>2. InOrder(s)
          BY <1>2, <4>1 DEF IdInv
        <4>3. ~(Refuse(s) \/ Accept(s) \/ LoopEnds(s) \/ Leave(s))
          BY <2>2 DEF Refuse, Accept, LoopEnds, Leave, Types, ControlType
        <4> QED BY <1>4, <2>2, <3>2, <4>2, <4>3, HandleIds, OutgoingIds, JobIds, TakeIds, DoneIds,
                   AnswerIds, OtherIds DEF StepOf, SessionStep, WriteStep
      <3> QED BY <3>1, <3>2
    <2> QED BY <2>1, <2>2
  <1> QED BY <1>1, <1>3, <1>4 DEF Next, StepOf

\* Only what was settled is reported as completed.
LEMMA NextCompleted ==
    Types /\ SettledInv /\ IdInv /\ CompletedMeansSettled /\ [Next]_vars => CompletedMeansSettled'
  <1> SUFFICES ASSUME Types, SettledInv, IdInv, CompletedMeansSettled, [Next]_vars, ~overrun'
               PROVE  completed' \subseteq settled'
    BY DEF CompletedMeansSettled
  <1>1. scene.sessions \subseteq Sessions
    BY SceneAssumption DEF Types, ControlType
  <1>2. ~overrun
    BY OverrunStays
  <1>3. completed \subseteq settled
    BY <1>2 DEF CompletedMeansSettled
  <1>4. ASSUME NEW s \in Sessions, handle_packet(s) PROVE completed' \subseteq settled'
    <2> DEFINE p == Head(packets[s])
    <2>1. settled' = settled
      BY <1>4 DEF handle_packet, client
    <2>2. CASE completed' = completed
      BY <1>3, <2>1, <2>2
    <2>3. CASE p[1] = "puback" /\ PubAck(s, p[2])
      <3>1. /\ packets[s] \in Seq(Packets) /\ packets[s] # <<>> /\ phase[s] = "running"
        BY <1>4 DEF handle_packet, Selects, Types, ChannelType, Bounded
      <3>2. p \in Packets /\ p = packets[s][1] /\ 1 \in 1..Len(packets[s]) /\ 1 \in Nat
        BY SMTT(30), <3>1
      <3>3. p[2] \in PacketIds /\ p[3] \in Deliveries /\ p = <<"puback", p[2], p[3]>>
        BY <2>3, <3>2, PacketForms
      <3>4. p[3] \in settled
        BY <2>3, <3>2 DEF SettledInv
      <3>5. At(s, "answer", 1, p[2], p[3]) /\ "answer" \in Places
        BY <3>2, <3>3 DEF At, Places
      <3>6. inflight_pub[s][p[2]] = p[3]
        BY <1>2, <3>1, <3>2, <3>3, <3>5 DEF IdInv, InOrder, Agree
      <3> QED BY <1>3, <2>1, <2>3, <3>4, <3>6 DEF PubAck
    <2> QED BY <1>4, <2>2, <2>3 DEF handle_packet, Publish, Subscription
  <1>5. ASSUME NEW s \in Sessions, WriteDone(s) PROVE completed' \subseteq settled'
    BY <1>3, <1>5 DEF WriteDone
  <1>6. ASSUME NEW s \in Sessions, StepOf(s), ~handle_packet(s), ~WriteDone(s)
        PROVE  completed' = completed /\ settled \subseteq settled'
    BY <1>6 DEF StepOf, Refuse, Accept, SessionStep, Register, LoopEnds, queue_outgoing,
       queue_job,
       Leave, Forget, WriteStep, WriteTakes, WriteFails, WriterEnds, IngestStep, IngestTakes,
       IngestAcks, IngestEnds, Deliver, SendOwn, Answer, Send, Hangup, facts, client
  <1>7. CASE Shutdown \/ UNCHANGED vars
    BY <1>3, <1>7 DEF Shutdown, vars, facts, client
  <1> QED BY <1>1, <1>3, <1>4, <1>5, <1>6, <1>7 DEF Next, StepOf

\* No delivery is completed that the client has not got or answered itself
\* (mqtt/session.rs, alloc_packet_id, handle_packet and write_loop), for every
\* number of packet ids, as long as they were not all in use at once.
THEOREM CompletedIsSettled == Spec => []CompletedMeansSettled
  <1>1. Init => FreshInv /\ CompletedMeansSettled
    BY DEF Init, FreshInv, CompletedMeansSettled
  <1>2. Init => SettledInv
    <2>1. Init => \A s \in Sessions : 1..Len(packets[s]) = {}
      BY SMTT(30) DEF Init
    <2> QED BY <2>1 DEF SettledInv
  <1>3. Init => IdInv
    BY DEF Init, IdInv
  <1>4. Spec => [](Types /\ FreshInv /\ SettledInv /\ IdInv /\ CompletedMeansSettled)
    BY <1>1, <1>2, <1>3, InitTypes, NextTypes, NextFresh, NextSettled, NextIds, NextCompleted, PTL
    DEF Spec
  <1> QED BY <1>4, PTL

=============================================================================
