------------------------------- MODULE Writer -------------------------------
(***************************************************************************)
(* The queue writer of one message shard (src/src/writer.rs): publishes are *)
(* admitted to a bounded memory queue, acknowledged, and committed to       *)
(* SQLite in batches by one task; acknowledgements of deliveries go through *)
(* the same queue.  Beside it runs the HTTP publish path, which commits     *)
(* before it answers and does not go through the queue.                     *)
(*                                                                          *)
(* A call stands for the message id it draws (new_message_id).  A producer  *)
(* that retries makes another call with the same idempotency key.  The 16   *)
(* shards share nothing that is modelled here.  Rows are not deleted in     *)
(* this module; MessageStore has their further life.                        *)
(***************************************************************************)
EXTENDS Integers, FiniteSets, Sequences, Functions

CONSTANTS
    Publishers,      \* calls of QueueWriter::enqueue (gRPC and MQTT)
    Directs,         \* calls of Database::enqueue (HTTP publish)
    Ackers,          \* calls of QueueWriter::delivered
    Cancellable,     \* the publishers on a gRPC stream: their future may be dropped
    NoKey,
    KeyOf,           \* the idempotency key of a publish
    Shutdown,        \* the command that stops the writer
    NoId,
    QueueSize,       \* per_shard_queue
    BatchSize,       \* write_batch_size
    RecentCapacity,  \* recent_ids_per_shard
    MaxCrashes       \* bound: number of restarts

ASSUME CallAssumption ==
    /\ Publishers \cap Directs = {} /\ Ackers \cap (Publishers \cup Directs) = {}
    /\ Shutdown \notin Publishers \cup Directs \cup Ackers
    /\ Cancellable \subseteq Publishers
ASSUME SizeAssumption ==
    /\ QueueSize \in Nat \ {0} /\ BatchSize \in Nat \ {0} /\ RecentCapacity \in Nat \ {0}
    /\ MaxCrashes \in Nat

VARIABLES
    pc,         \* per call: where it is, and its outcome
    answer,     \* per publish: the message id it was answered with
    values,     \* RecentIds.values: from keys to ids
    order,      \* RecentIds.order
    queue,      \* the mpsc channel
    phase,      \* run_writer: "recv", "collect", "persist", "acks", "stopped"
    batch,      \* run_writer: the commands in hand
    stopping,   \* run_writer: a Shutdown was met while collecting
    asked,      \* shutdown() has put its command into the channel
    stored,     \* the rows of the shard, in the order of their insertion
    sent,       \* history of this process: the commands put into the channel
    done,       \* history of this process: the commands whose batch was committed
    crashes

recent == <<values, order>>
writer == <<phase, batch, stopping>>
vars == <<pc, answer, recent, queue, writer, asked, stored, sent, done, crashes>>

Publishes == Publishers \cup Directs
Calls == Publishes \cup Ackers
Keys == {KeyOf[c] : c \in Publishes} \ {NoKey}

TypeOK ==
    /\ pc \in [Calls -> {"idle", "sending", "waiting", "ok", "duplicate", "error", "cancelled"}]
    /\ answer \in [Publishes -> Publishes \cup {NoId}]
    /\ DOMAIN values \subseteq Keys
    /\ \A k \in DOMAIN values : values[k] \in Publishes /\ KeyOf[values[k]] = k
    /\ order \in Seq(Keys)
    /\ queue \in Seq(Publishers \cup Ackers \cup {Shutdown}) /\ Len(queue) <= QueueSize
    /\ phase \in {"recv", "collect", "persist", "acks", "stopped"}
    /\ batch \in Seq(Publishers \cup Ackers) /\ Len(batch) <= BatchSize
    /\ stopping \in BOOLEAN /\ asked \in BOOLEAN
    /\ stored \in Seq(Publishes)
    /\ sent \in Seq(Publishers \cup Ackers \cup {Shutdown}) /\ done \in Seq(Publishers \cup Ackers)
    /\ crashes \in 0..MaxCrashes

Init ==
    /\ pc = [c \in Calls |-> "idle"]
    /\ answer = [c \in Publishes |-> NoId]
    /\ values = [k \in {} |-> NoId]
    /\ order = <<>>
    /\ queue = <<>>
    /\ phase = "recv" /\ batch = <<>> /\ stopping = FALSE
    /\ asked = FALSE
    /\ stored = <<>>
    /\ sent = <<>> /\ done = <<>>
    /\ crashes = 0

-----------------------------------------------------------------------------
\* The elements of s that are in S, in their order.
Kept(s, S) ==
    LET upTo[i \in 0..Len(s)] ==
            IF i = 0 THEN <<>>
            ELSE IF s[i] \in S THEN Append(upTo[i - 1], s[i]) ELSE upTo[i - 1]
    IN  upTo[Len(s)]

-----------------------------------------------------------------------------
(* RecentIds *)

Forget(vals, k) == [x \in DOMAIN vals \ {k} |-> vals[x]]

\* insert of a key that is not present, the oldest entry making room.
Remember(k, id) ==
    LET full == Cardinality(DOMAIN values) >= RecentCapacity
        kept == IF full THEN Forget(values, Head(order)) ELSE values
    IN  /\ values' = [x \in DOMAIN kept \cup {k} |-> IF x = k THEN id ELSE kept[x]]
        /\ order' = Append(IF full THEN Tail(order) ELSE order, k)

\* Faulty variant: the key stays in the eviction order.
ForgetKeyKeepOrder(k) ==
    /\ values' = Forget(values, k)
    /\ UNCHANGED order

\* remove
ForgetKey(k) ==
    /\ values' = Forget(values, k)
    /\ order' = Kept(order, Range(order) \ {k})

-----------------------------------------------------------------------------
(* The calls *)

Answer(c, outcome, id) ==
    /\ pc' = [pc EXCEPT ![c] = outcome]
    /\ answer' = [answer EXCEPT ![c] = id]

\* enqueue, up to the send: a known key is answered at once; a new one is
\* remembered before the message is in the channel.
Enqueue(c) ==
    /\ pc[c] = "idle"
    /\ \/ /\ KeyOf[c] \in DOMAIN values
          /\ Answer(c, "duplicate", values[KeyOf[c]])
          /\ UNCHANGED recent
       \/ /\ KeyOf[c] \notin DOMAIN values
          /\ pc' = [pc EXCEPT ![c] = "sending"]
          /\ IF KeyOf[c] = NoKey THEN UNCHANGED recent ELSE Remember(KeyOf[c], c)
          /\ UNCHANGED answer
    /\ UNCHANGED <<queue, writer, asked, stored, sent, done, crashes>>

\* Faulty variant: the channel has no bound.
AdmitUnbounded(c) ==
    /\ pc[c] = "sending"
    /\ phase # "stopped"
    /\ queue' = Append(queue, c)
    /\ Answer(c, "ok", c)
    /\ sent' = Append(sent, c)
    /\ UNCHANGED <<recent, writer, asked, stored, done, crashes>>

\* enqueue: send(command).await finds room; the caller is acknowledged.
Admit(c) ==
    /\ pc[c] = "sending"
    /\ phase # "stopped"
    /\ Len(queue) < QueueSize
    /\ queue' = Append(queue, c)
    /\ Answer(c, "ok", c)
    /\ sent' = Append(sent, c)
    /\ UNCHANGED <<recent, writer, asked, stored, done, crashes>>

\* enqueue: the receiver is gone.
Refuse(c) ==
    /\ pc[c] = "sending"
    /\ phase = "stopped"
    /\ pc' = [pc EXCEPT ![c] = "error"]
    /\ IF KeyOf[c] = NoKey THEN UNCHANGED recent ELSE ForgetKey(KeyOf[c])
    /\ UNCHANGED <<answer, queue, writer, asked, stored, sent, done, crashes>>

\* accept_messages: the stream ends, and the buffered futures are dropped
\* where they wait for room.
Cancel(c) ==
    /\ c \in Cancellable
    /\ pc[c] = "sending"
    /\ Len(queue) = QueueSize
    /\ pc' = [pc EXCEPT ![c] = "cancelled"]
    /\ UNCHANGED <<answer, recent, queue, writer, asked, stored, sent, done, crashes>>

\* delivered: the command waits for room, then its caller for the response.
Ack(c) ==
    /\ pc[c] = "idle"
    /\ pc' = [pc EXCEPT ![c] = "sending"]
    /\ UNCHANGED <<answer, recent, queue, writer, asked, stored, sent, done, crashes>>

AckSend(c) ==
    /\ pc[c] = "sending"
    /\ \/ /\ phase # "stopped"
          /\ Len(queue) < QueueSize
          /\ queue' = Append(queue, c)
          /\ sent' = Append(sent, c)
          /\ pc' = [pc EXCEPT ![c] = "waiting"]
       \/ /\ phase = "stopped"
          /\ pc' = [pc EXCEPT ![c] = "error"]
          /\ UNCHANGED <<queue, sent>>
    /\ UNCHANGED <<answer, recent, writer, asked, stored, done, crashes>>

\* shutdown
AskShutdown ==
    /\ ~asked
    /\ phase # "stopped"
    /\ Len(queue) < QueueSize
    /\ queue' = Append(queue, Shutdown)
    /\ sent' = Append(sent, Shutdown)
    /\ asked' = TRUE
    /\ UNCHANGED <<pc, answer, recent, writer, stored, done, crashes>>

-----------------------------------------------------------------------------
(* The rows *)

StoredKey(rows, k) == k # NoKey /\ \E r \in Range(rows) : KeyOf[r] = k

\* INSERT OR IGNORE under UNIQUE(idempotency_key)
InsertOrIgnore(rows, c) == IF StoredKey(rows, KeyOf[c]) THEN rows ELSE Append(rows, c)

\* Faulty variant: one multi-row insert that looks only at older rows.
InsertAllAtOnce(rows, s) ==
    rows \o Kept(s, {c \in Range(s) : ~StoredKey(rows, KeyOf[c])})

\* enqueue_batch: item by item, in one transaction.
InsertAll(rows, s) ==
    LET upTo[i \in 0..Len(s)] == IF i = 0 THEN rows ELSE InsertOrIgnore(upTo[i - 1], s[i])
    IN  upTo[Len(s)]

\* Database::enqueue, the HTTP path: the caller is answered after the commit
\* with the id of the row that has its key.
Direct(c) ==
    /\ pc[c] = "idle"
    /\ stored' = InsertAll(stored, <<c>>)
    /\ \/ /\ StoredKey(stored, KeyOf[c])
          /\ \E r \in Range(stored) : KeyOf[r] = KeyOf[c] /\ Answer(c, "duplicate", r)
       \/ /\ ~StoredKey(stored, KeyOf[c])
          /\ Answer(c, "ok", c)
    /\ UNCHANGED <<recent, queue, writer, asked, sent, done, crashes>>

-----------------------------------------------------------------------------
(* run_writer *)

\* The receiver is dropped, and with it what is left in the channel: whoever
\* still waits for a response gets an error.
Stop(told) ==
    /\ phase' = "stopped"
    /\ queue' = <<>>
    /\ pc' = [c \in Calls |-> IF told[c] = "waiting" THEN "error" ELSE told[c]]

\* rx.recv() of an empty-handed writer.
Recv ==
    /\ phase = "recv"
    /\ queue # <<>>
    /\ \/ /\ Head(queue) = Shutdown
          /\ Stop(pc)
          /\ UNCHANGED batch
       \/ /\ Head(queue) # Shutdown
          /\ queue' = Tail(queue)
          /\ batch' = <<Head(queue)>>
          /\ phase' = "collect"
          /\ UNCHANGED pc
    /\ UNCHANGED <<answer, recent, stopping, asked, stored, sent, done, crashes>>

\* Faulty variant: the newest command is put first.
CollectReversed ==
    /\ phase = "collect"
    /\ Len(batch) < BatchSize
    /\ queue # <<>>
    /\ queue' = Tail(queue)
    /\ \/ /\ Head(queue) = Shutdown
          /\ stopping' = TRUE
          /\ phase' = "persist"
          /\ UNCHANGED batch
       \/ /\ Head(queue) # Shutdown
          /\ batch' = <<Head(queue)>> \o batch
          /\ UNCHANGED <<phase, stopping>>
    /\ UNCHANGED <<pc, answer, recent, asked, stored, sent, done, crashes>>

\* The batch grows while there is room and time.
Collect ==
    /\ phase = "collect"
    /\ Len(batch) < BatchSize
    /\ queue # <<>>
    /\ queue' = Tail(queue)
    /\ \/ /\ Head(queue) = Shutdown
          /\ stopping' = TRUE
          /\ phase' = "persist"
          /\ UNCHANGED batch
       \/ /\ Head(queue) # Shutdown
          /\ batch' = Append(batch, Head(queue))
          /\ UNCHANGED <<phase, stopping>>
    /\ UNCHANGED <<pc, answer, recent, asked, stored, sent, done, crashes>>

\* Faulty variant: no deadline, a batch is closed only when it is full.
CloseBatchWhenFull ==
    /\ phase = "collect"
    /\ Len(batch) = BatchSize
    /\ phase' = "persist"
    /\ UNCHANGED <<pc, answer, recent, queue, batch, stopping, asked, stored, sent, done, crashes>>

\* The deadline passes, or the batch is full.
CloseBatch ==
    /\ phase = "collect"
    /\ phase' = "persist"
    /\ UNCHANGED <<pc, answer, recent, queue, batch, stopping, asked, stored, sent, done, crashes>>

PublishesOf(s) == Kept(s, Publishers)

\* enqueue_batch of the publishes in hand succeeds.  Until it does it is
\* retried, for ever, and nothing changes.
Persist ==
    /\ phase = "persist"
    /\ phase' = "acks"
    /\ stored' = InsertAll(stored, PublishesOf(batch))
    /\ done' = done \o batch
    /\ UNCHANGED <<pc, answer, recent, queue, batch, stopping, asked, sent, crashes>>

\* delivered_batch: one transaction for all acknowledgements in hand, and one
\* outcome; then the writer goes on, or stops.
CommitAcks ==
    /\ phase = "acks"
    /\ batch' = <<>>
    /\ stopping' = FALSE
    /\ \E outcome \in {"ok", "error"} :
          LET told == [c \in Calls |-> IF c \in Range(batch) /\ c \in Ackers THEN outcome ELSE pc[c]]
          IN  \/ /\ ~stopping
                 /\ phase' = "recv"
                 /\ pc' = told
                 /\ UNCHANGED queue
              \/ stopping /\ Stop(told)
    /\ UNCHANGED <<answer, recent, asked, stored, sent, done, crashes>>

-----------------------------------------------------------------------------
\* The process dies, or ends, and starts again: memory is lost, and start
\* reads the newest keys back (recent_idempotency_keys).
Restart ==
    LET keyed == Kept(stored, {r \in Range(stored) : KeyOf[r] # NoKey})
        first == IF Len(keyed) > RecentCapacity THEN Len(keyed) - RecentCapacity + 1 ELSE 1
        known == SubSeq(keyed, first, Len(keyed))
    IN  /\ crashes < MaxCrashes
        /\ crashes' = crashes + 1
        /\ pc' = [c \in Calls |-> IF pc[c] \in {"sending", "waiting"} THEN "error" ELSE pc[c]]
        /\ values' = [k \in {KeyOf[r] : r \in Range(known)} |->
                         CHOOSE r \in Range(known) : KeyOf[r] = k]
        /\ order' = [i \in DOMAIN known |-> KeyOf[known[i]]]
        /\ queue' = <<>>
        /\ phase' = "recv" /\ batch' = <<>> /\ stopping' = FALSE
        /\ asked' = FALSE
        /\ sent' = <<>> /\ done' = <<>>
        /\ UNCHANGED <<answer, stored>>

WriterStep == Recv \/ Collect \/ CloseBatch \/ Persist \/ CommitAcks

Next ==
    \/ \E c \in Publishers : Enqueue(c) \/ Admit(c) \/ Refuse(c) \/ Cancel(c)
    \/ \E c \in Directs : Direct(c)
    \/ \E c \in Ackers : Ack(c) \/ AckSend(c)
    \/ AskShutdown
    \/ WriterStep
    \/ Restart

Spec == Init /\ [][Next]_vars

\* The writer task keeps running, its deadline passes, SQLite accepts a batch
\* in the end; senders that wait for room are served in turn (the channel's
\* semaphore is first come, first served).
LiveSpec ==
    /\ Spec
    /\ WF_vars(Recv) /\ WF_vars(CloseBatch) /\ WF_vars(Persist) /\ WF_vars(CommitAcks)
    /\ \A c \in Publishers : SF_vars(Admit(c)) /\ WF_vars(Refuse(c))
    /\ \A c \in Ackers : SF_vars(AckSend(c))

-----------------------------------------------------------------------------
(* Properties *)

\* The two halves of RecentIds never drift apart: `order` lists exactly the
\* keys of `values`, once each, and there are no more than the capacity.
\* Otherwise insert's eviction loop would drop the wrong key or never end.
RecentIdsInStep ==
    /\ Range(order) = DOMAIN values
    /\ Len(order) = Cardinality(DOMAIN values)
    /\ Len(order) <= RecentCapacity

\* While the writer runs, no admitted command is lost, duplicated or
\* reordered: what was sent is what was committed, followed by what the writer
\* has in hand, followed by what is in the channel.
AdmittedInOrder ==
    LET inHand == IF phase \in {"collect", "persist"} THEN batch ELSE <<>>
        stop == IF stopping THEN <<Shutdown>> ELSE <<>>
    IN  phase # "stopped" => sent = done \o inHand \o stop \o queue

\* A publish is stored exactly once, however often and on whichever path it is
\* repeated: retries after an eviction from RecentIds, after a restart, or over
\* HTTP while the first one is still in the channel.
StoredExactlyOnce ==
    \A c \in (Publishers \cap Range(done)) \cup {d \in Directs : pc[d] # "idle"} :
        Cardinality({i \in DOMAIN stored :
            stored[i] = c \/ (KeyOf[c] # NoKey /\ KeyOf[stored[i]] = KeyOf[c])}) = 1

\* Nobody waits for ever: a call is made once, so that from some time on no
\* publish and no acknowledgement is under way, also when the writer stops or
\* dies.
EveryCallEnds ==
    <>[](\A c \in Publishers \cup Ackers : pc[c] \notin {"sending", "waiting"})

\* A retry is safe: when a publish with a key is answered with success and
\* the process keeps running, a message with that key is stored, or on its way.
RetriesSafe ==
    crashes = 0 /\ ~asked =>
        \A c \in Publishers : pc[c] \in {"ok", "duplicate"} /\ KeyOf[c] # NoKey =>
            \/ StoredKey(stored \o PublishesOf(queue) \o PublishesOf(batch), KeyOf[c])
            \/ \E d \in Publishers : pc[d] = "sending" /\ KeyOf[d] = KeyOf[c]

=============================================================================
