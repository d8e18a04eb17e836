------------------------------- MODULE Topics -------------------------------
(***************************************************************************)
(* The catalogue entry of one topic: its row of topic_stats with the        *)
(* configuration and the counters, the configuration cache, the counter     *)
(* increments kept in memory, the consumers registered for it and the       *)
(* messages stored under it (src/src/db.rs), with the operations that read  *)
(* and write them: publishing (delivery.rs), ConfigureTopics, an MQTT       *)
(* subscription, the statistics worker (writer.rs), the retention sweep     *)
(* (main.rs), clearing, consumer registration and a restart.  Topics share  *)
(* nothing but the code, so one stands for all.                             *)
(*                                                                          *)
(* A step is one SQL statement or transaction, or one access to a lock-     *)
(* protected map.  Between two steps of a call everybody else may act.      *)
(***************************************************************************)
EXTENDS Integers, FiniteSets, Functions

CONSTANTS
    Callers,   \* concurrent calls
    Worker,    \* the statistics worker of the writer
    Keeper,    \* the retention loop
    None,      \* no row, nothing cached
    MaxCalls,  \* bound: calls that are started
    MaxFails   \* bound: statements that fail

ASSUME CallerAssumption ==
    IsFiniteSet(Callers) /\ Worker # Keeper /\ {Worker, Keeper} \cap Callers = {}
ASSUME BoundAssumption == MaxCalls \in Nat /\ MaxFails \in Nat

VARIABLES
    row,     \* the row of topic_stats, or None
    cache,   \* the cached persistence mode, or None
    stored,  \* pending messages of the topic in its shard
    delta,   \* increments not written yet, of topic_stats and of the trend table
    trend,   \* the counters in message_trend_minute
    owed,    \* what the counters should say: events not reset or deleted since
    registered, \* the topic has a registered consumer
    call,    \* per caller: the call in progress
    started, failures

counts == <<delta, trend, owed>>
bounds == <<started, failures>>
vars == <<row, cache, stored, counts, registered, call, bounds>>

Modes == {"ephemeral", "persistent"}
Rows == [persistence : Modes, configured : BOOLEAN, count : Nat]
Kinds == {"stats", "trends"}
ASSUME NoneAssumption == None \notin Rows
Idle == [op |-> "idle"]
Everyone == Callers \cup {Worker, Keeper}
\* got: the mode a call has read or wants to write; n: increments it has taken.
Calls == [op : {"publish", "configure", "note", "stats", "trends", "purge", "clear",
                "snapshot", "sweep", "register"},
          step : {"fill", "act", "drop", "cache", "uncache", "commit", "select", "messages",
                  "row", "delete", "reset", "covers", "count", "insert"},
          got : Modes, n : Nat]

TypeOK ==
    /\ row \in Rows \cup {None}
    /\ cache \in Modes \cup {None}
    /\ stored \in Nat
    /\ delta \in [Kinds -> Nat] /\ owed \in [Kinds -> Nat] /\ trend \in Nat
    /\ registered \in BOOLEAN
    /\ call \in [Everyone -> Calls \cup {Idle}]
    /\ started \in 0..MaxCalls /\ failures \in 0..MaxFails

Init ==
    /\ row = None /\ cache = None
    /\ stored = 0
    /\ delta = [k \in Kinds |-> 0] /\ owed = [k \in Kinds |-> 0] /\ trend = 0
    /\ registered = FALSE
    /\ call = [c \in Everyone |-> Idle]
    /\ started = 0 /\ failures = 0

-----------------------------------------------------------------------------
(* Rows and counters *)

\* TopicConfig::implicit stands in for a missing row.
RowMode == IF row = None THEN "ephemeral" ELSE row.persistence
RowCount == IF row = None THEN 0 ELSE row.count

\* INSERT ... ON CONFLICT DO UPDATE of the counters: a missing row is made
\* with the implicit configuration.
Added(n) ==
    IF row = None THEN [persistence |-> "ephemeral", configured |-> FALSE, count |-> n]
    ELSE [row EXCEPT !.count = @ + n]

AddToRow(n) == row' = Added(n)

Bump(f, k, n) == [f EXCEPT ![k] = @ + n]

\* bump_topic_stat: the row at once, the trend later.
BumpTopicStat ==
    /\ AddToRow(1)
    /\ delta' = Bump(delta, "trends", 1)
    /\ owed' = [k \in Kinds |-> owed[k] + 1]
    /\ UNCHANGED trend

\* record_topic_stats: both later.
RecordTopicStats ==
    /\ delta' = [k \in Kinds |-> delta[k] + 1]
    /\ owed' = [k \in Kinds |-> owed[k] + 1]
    /\ UNCHANGED trend

Begin(c, op, step, got, n) ==
    /\ call[c] = Idle
    /\ \/ c = Keeper /\ UNCHANGED started
       \/ c # Keeper /\ started < MaxCalls /\ started' = started + 1
    /\ call' = [call EXCEPT ![c] = [op |-> op, step |-> step, got |-> got, n |-> n]]

At(c, op, step) == call[c] # Idle /\ call[c].op = op /\ call[c].step = step

GoOn(c, step) == call' = [call EXCEPT ![c].step = step]

End(c) == call' = [call EXCEPT ![c] = Idle]

Fails == failures < MaxFails /\ failures' = failures + 1

-----------------------------------------------------------------------------
(* ingest: read the configuration, then store or fan out.                   *)

\* topic_config: the cached mode, or that of the row, which is cached next.
\* When the SELECT fails the topic counts as implicit, and nothing is cached.
PublishReads(c) ==
    /\ \/ /\ cache # None
          /\ Begin(c, "publish", "act", cache, 0) /\ UNCHANGED failures
       \/ /\ cache = None
          /\ Begin(c, "publish", "fill", RowMode, 0) /\ UNCHANGED failures
       \/ cache = None /\ Fails /\ Begin(c, "publish", "act", "ephemeral", 0)
    /\ UNCHANGED <<row, cache, stored, counts, registered>>

PublishFills(c) ==
    /\ At(c, "publish", "fill")
    /\ cache' = call[c].got
    /\ GoOn(c, "act")
    /\ UNCHANGED <<row, stored, counts, registered, bounds>>

\* enqueue_batch stores the message and records the increment.
PublishStores(c) ==
    /\ At(c, "publish", "act") /\ call[c].got = "persistent"
    /\ stored' = stored + 1
    /\ RecordTopicStats
    /\ End(c)
    /\ UNCHANGED <<row, cache, registered, bounds>>

\* fanout_ephemeral reaches a live stream: record_live_fanout.  Nobody there,
\* or no stream took it: accept_dropped, in two statements.  (Streams come and
\* go at any time, so that both are always possible here.)
PublishFansOut(c) ==
    /\ At(c, "publish", "act") /\ call[c].got = "ephemeral"
    /\ BumpTopicStat
    /\ End(c) \/ GoOn(c, "drop")
    /\ UNCHANGED <<cache, stored, registered, bounds>>

\* bump_dropped
CountsDropped(c) ==
    /\ At(c, "publish", "drop") \/ At(c, "sweep", "count")
    /\ AddToRow(0)
    /\ End(c)
    /\ UNCHANGED <<cache, stored, counts, registered, bounds>>

\* Faulty variant: a message is counted though it is no longer there.
DeliverStoredGone ==
    /\ stored' = stored - 1
    /\ RecordTopicStats
    /\ UNCHANGED <<row, cache, registered, call, bounds>>

\* A stored message is delivered: delivered_batch records the increment.
DeliverStored ==
    /\ stored > 0
    /\ stored' = stored - 1
    /\ RecordTopicStats
    /\ UNCHANGED <<row, cache, registered, call, bounds>>

-----------------------------------------------------------------------------
(* Configuration *)

\* configure_topics: the statement, ...
ConfigureWrites(c, mode) ==
    /\ Begin(c, "configure", "cache", mode, 0)
    /\ row' = [persistence |-> mode, configured |-> TRUE, count |-> RowCount]
    /\ UNCHANGED <<cache, stored, counts, registered, failures>>

\* ... then the cache.
ConfigureCaches(c) ==
    /\ At(c, "configure", "cache")
    /\ cache' = call[c].got
    /\ End(c)
    /\ UNCHANGED <<row, stored, counts, registered, bounds>>

\* note_subscribed_topic, for the topic itself: a configured mode is kept.
NoteWrites(c) ==
    /\ Begin(c, "note", "uncache", "ephemeral", 0)
    /\ row' = IF row = None THEN [persistence |-> "ephemeral", configured |-> FALSE, count |-> 0]
              ELSE IF row.configured THEN row ELSE [row EXCEPT !.persistence = "ephemeral"]
    /\ UNCHANGED <<cache, stored, counts, registered, failures>>

\* The entry is taken out of the cache, after a subscription or a purge.
Uncaches(c) ==
    /\ At(c, "note", "uncache") \/ At(c, "purge", "uncache")
    /\ cache' = None
    /\ End(c)
    /\ UNCHANGED <<row, stored, counts, registered, bounds>>

-----------------------------------------------------------------------------
(* Writing the increments: the statistics worker, and every call that       *)
(* begins with flush_topic_stats.                                           *)

\* Faulty variant: the worker only writes the counters of the topics.
FlushTakesStats(k) ==
    /\ k = "stats"
    /\ call[Worker] = Idle /\ delta[k] > 0
    /\ call' = [call EXCEPT ![Worker] = [op |-> k, step |-> "commit", got |-> "ephemeral",
                                         n |-> delta[k]]]
    /\ delta' = [delta EXCEPT ![k] = 0]
    /\ UNCHANGED <<row, cache, stored, trend, owed, registered, bounds>>

\* std::mem::take of the pending increments, by the worker ...
FlushTakes(k) ==
    /\ call[Worker] = Idle /\ delta[k] > 0
    /\ call' = [call EXCEPT ![Worker] = [op |-> k, step |-> "commit", got |-> "ephemeral",
                                         n |-> delta[k]]]
    /\ delta' = [delta EXCEPT ![k] = 0]
    /\ UNCHANGED <<row, cache, stored, trend, owed, registered, bounds>>

\* ... or by a purge, a clear or a status snapshot; without increments there
\* is nothing to write.
FlushFirst(c, op, next) ==
    /\ Begin(c, op, IF delta["stats"] > 0 THEN "commit" ELSE next, "ephemeral", delta["stats"])
    /\ delta' = [delta EXCEPT !["stats"] = 0]
    /\ UNCHANGED <<row, cache, stored, trend, owed, registered, failures>>

\* What follows the flush: the rest of a purge or of a clear, or nothing.
AfterFlush(c) ==
    call' = [call EXCEPT ![c] = CASE @.op = "purge" -> [@ EXCEPT !.n = 0, !.step = "select"]
                                  [] @.op = "clear" -> [@ EXCEPT !.n = 0, !.step = "delete"]
                                  [] OTHER -> Idle]

Flushes(c, kind) ==
    /\ call[c] # Idle /\ call[c].step = "commit"
    /\ kind = IF call[c].op = "trends" THEN "trends" ELSE "stats"

FlushCommits(c) ==
    /\ \/ Flushes(c, "stats") /\ AddToRow(call[c].n) /\ UNCHANGED trend
       \/ Flushes(c, "trends") /\ trend' = trend + call[c].n /\ UNCHANGED row
    /\ AfterFlush(c)
    /\ UNCHANGED <<cache, stored, delta, owed, registered, bounds>>

\* Faulty variant: what could not be written is forgotten.
FlushFailsForgets(c) ==
    /\ call[c] # Idle /\ call[c].step = "commit"
    /\ Fails
    /\ End(c)
    /\ UNCHANGED <<row, cache, stored, counts, registered, started>>

\* The transaction fails: the increments are merged back, and the call ends.
FlushFails(c) ==
    /\ Fails
    /\ \E k \in Kinds : Flushes(c, k) /\ delta' = Bump(delta, k, call[c].n)
    /\ End(c)
    /\ UNCHANGED <<row, cache, stored, trend, owed, registered, started>>

-----------------------------------------------------------------------------
(* Upkeep *)

\* purge_idle_ephemeral, after the flush: is the topic idle?  (Whether a row was
\* last seen before the cutoff and whether a stream keeps it are free choices:
\* time may pass and streams may leave just before.)
PurgeSelects(c) ==
    /\ At(c, "purge", "select")
    /\ \/ End(c)
       \/ /\ row # None /\ RowMode = "ephemeral" /\ ~row.configured /\ ~registered
          /\ GoOn(c, "messages")
    /\ UNCHANGED <<row, cache, stored, counts, registered, bounds>>

\* Its messages are deleted, whatever has become of the topic ...
PurgesMessages(c) ==
    /\ At(c, "purge", "messages")
    /\ stored' = 0
    /\ GoOn(c, "row")
    /\ UNCHANGED <<row, cache, counts, registered, bounds>>

DropRow(deleted) ==
    /\ row' = IF deleted THEN None ELSE row
    /\ owed' = [owed EXCEPT !["stats"] = IF deleted THEN @ - RowCount ELSE @]

\* Faulty variant: the row is deleted on the word of the SELECT.
PurgesRowBlind(c) ==
    /\ At(c, "purge", "row")
    /\ DropRow(row # None)
    /\ GoOn(c, "uncache")
    /\ UNCHANGED <<cache, stored, delta, trend, registered, bounds>>

\* ... and its row, if it is still ephemeral and not configured.
PurgesRow(c) ==
    /\ At(c, "purge", "row")
    /\ DropRow(row # None /\ RowMode = "ephemeral" /\ ~row.configured)
    /\ GoOn(c, "uncache")
    /\ UNCHANGED <<cache, stored, delta, trend, registered, bounds>>

\* The sweep drops what is stored under an ephemeral topic nobody listens to:
\* ephemeral_topics, covers, drop_pending, bump_dropped.
SweepReads(c) ==
    /\ row # None /\ row.persistence = "ephemeral"
    /\ Begin(c, "sweep", "covers", "ephemeral", 0)
    /\ UNCHANGED <<row, cache, stored, counts, registered, failures>>

SweepAsks(c) ==
    /\ At(c, "sweep", "covers")
    /\ End(c) \/ GoOn(c, "messages")
    /\ UNCHANGED <<row, cache, stored, counts, registered, bounds>>

SweepDrops(c) ==
    /\ At(c, "sweep", "messages")
    /\ stored' = 0
    /\ IF stored > 0 THEN GoOn(c, "count") ELSE End(c)
    /\ UNCHANGED <<row, cache, counts, registered, bounds>>

\* clear_topic_messages, after the flush: the messages, then the counters.
ClearsMessages(c) ==
    /\ At(c, "clear", "delete")
    /\ stored' = 0
    /\ GoOn(c, "reset")
    /\ UNCHANGED <<row, cache, counts, registered, bounds>>

ResetsStats(c) ==
    /\ At(c, "clear", "reset")
    /\ row' = IF row = None THEN None ELSE [row EXCEPT !.count = 0]
    /\ owed' = [owed EXCEPT !["stats"] = @ - RowCount]
    /\ End(c)
    /\ UNCHANGED <<cache, stored, delta, trend, registered, bounds>>

-----------------------------------------------------------------------------
(* Consumers, streams, time and restarts *)

\* register_consumer: UPDATE, and INSERT when there was no row to update; the
\* INSERT fails if another call has inserted the row meanwhile.
RegisterUpdates(c) ==
    /\ ~registered
    /\ Begin(c, "register", "insert", "ephemeral", 0)
    /\ UNCHANGED <<row, cache, stored, counts, registered, failures>>

RegisterInserts(c) ==
    /\ At(c, "register", "insert")
    /\ registered' = TRUE
    /\ End(c)
    /\ UNCHANGED <<row, cache, stored, counts, bounds>>

\* unregister_consumer, or purge_stale_consumers.
ForgetConsumer ==
    /\ registered
    /\ registered' = FALSE
    /\ UNCHANGED <<row, cache, stored, counts, call, bounds>>

\* Database::connect: a topic with a consumer or with messages gets a row if it
\* has none (r is the row that was left), and the cache is filled from the table.
Opens(r) ==
    /\ row' = IF r = None /\ (registered \/ stored > 0) THEN Added(0) ELSE r
    /\ cache' = IF row' = None THEN None ELSE row'.persistence
    /\ delta' = [k \in Kinds |-> 0]
    /\ call' = [c \in Everyone |-> Idle]
    /\ UNCHANGED <<stored, registered, bounds>>

\* The process is killed and starts again: what was in memory is lost.
Restart ==
    /\ owed' = [k \in Kinds |-> IF k = "stats" THEN RowCount ELSE trend]
    /\ UNCHANGED trend
    /\ Opens(row)

\* It is stopped, and starts again: once every call has ended, close writes both
\* kinds of increments.  It only warns of a flush that fails, and what that one
\* has merged back ends with the process.
CloseAndOpen ==
    /\ \A c \in Everyone : call[c] = Idle
    /\ \E lost \in SUBSET Kinds :
          /\ owed' = [k \in Kinds |-> IF k \in lost THEN owed[k] - delta[k] ELSE owed[k]]
          /\ trend' = IF "trends" \in lost THEN trend ELSE trend + delta["trends"]
          /\ Opens(IF "stats" \in lost \/ delta["stats"] = 0 THEN row ELSE Added(delta["stats"]))

-----------------------------------------------------------------------------
PublishStep(c) == PublishFills(c) \/ PublishStores(c) \/ PublishFansOut(c) \/ CountsDropped(c)
ConfigStep(c) == ConfigureCaches(c) \/ Uncaches(c)
PurgeStep(c) == PurgeSelects(c) \/ PurgesMessages(c) \/ PurgesRow(c)
SweepStep(c) == SweepAsks(c) \/ SweepDrops(c)
ClearStep(c) == ClearsMessages(c) \/ ResetsStats(c)
FlushStep(c) == FlushCommits(c) \/ FlushFails(c)
Step(c) == \/ PublishStep(c) \/ ConfigStep(c) \/ PurgeStep(c) \/ SweepStep(c)
           \/ ClearStep(c) \/ FlushStep(c) \/ RegisterInserts(c)

Configure(c) == \E mode \in Modes : ConfigureWrites(c, mode)
Clear(c) == FlushFirst(c, "clear", "delete")
Snapshot(c) == delta["stats"] > 0 /\ FlushFirst(c, "snapshot", "commit")
Upkeep == FlushFirst(Keeper, "purge", "select") \/ SweepReads(Keeper)

Next ==
    \/ \E c \in Callers :
          \/ PublishReads(c) \/ NoteWrites(c) \/ RegisterUpdates(c)
          \/ Configure(c) \/ Clear(c) \/ Snapshot(c)
    \/ Upkeep
    \/ \E k \in Kinds : FlushTakes(k)
    \/ \E c \in Everyone : Step(c)
    \/ DeliverStored
    \/ ForgetConsumer
    \/ Restart \/ CloseAndOpen

Spec == Init /\ [][Next]_vars

\* The calls go on, and both intervals of the statistics worker keep ticking.
Fairness ==
    /\ \A c \in Everyone : WF_vars(Step(c))
    /\ \A k \in Kinds : SF_vars(FlushTakes(k))

LiveSpec == Spec /\ Fairness

-----------------------------------------------------------------------------
(* Properties *)

\* Increments that calls have taken out of the maps and not committed yet.
Taken(c, k) == IF Flushes(c, k) THEN call[c].n ELSE 0
InHand(k) == SumFunction([c \in Everyone |-> Taken(c, k)])

\* No event is counted twice or forgotten: what the table says, what waits in
\* memory and what flushes have in hand is together what happened, whichever
\* flushes overlap, fail, or race a clear, a purge or an immediate
\* bump_topic_stat.  Counts are lost only with the process, those not written
\* yet: by a kill, or by a flush that fails in close.
CountersConserved ==
    /\ owed["stats"] = RowCount + delta["stats"] + InHand("stats")
    /\ owed["trends"] = trend + delta["trends"] + InHand("trends")

\* ConfigureTopics is for good: no flush, subscription, purge, clear or restart
\* deletes the row of a configured topic or makes it implicit again.
ConfiguredRowStays ==
    [][row # None /\ row.configured => row' # None /\ row'.configured]_vars

\* Once the traffic ends, the counters of the table catch up with it, though
\* flushes have failed before.
CountersCatchUp ==
    <>[](owed["stats"] = RowCount /\ owed["trends"] = trend)

\* The README says (README.md:257): "On a **persistent** topic the broker stores
\* the message and delivers it later".  So, while the topic is configured as
\* persistent and no configure_topics still has to cache its mode, topic_config
\* tells a publish to store its message, and the upkeep of ephemeral topics
\* deletes no stored one.
PersistentIsStored ==
    [][/\ row # None /\ row.configured /\ row.persistence = "persistent"
       /\ \A c \in Callers : ~At(c, "configure", "cache")
       => /\ \A c \in Callers : PublishReads(c) => call'[c].got = "persistent"
          /\ stored > 0 => ~PurgesMessages(Keeper) /\ ~SweepDrops(Keeper)]_vars

=============================================================================
