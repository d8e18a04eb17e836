------------------------------ MODULE Delivery ------------------------------
(***************************************************************************)
(* From the stored message to the consumer: the subscribe loops with their  *)
(* delivery tasks (src/src/delivery.rs), the registry of live streams and   *)
(* the acknowledgements in flight (subscribers.rs), the wake-up channel of  *)
(* the writer (writer.rs), the HTTP fallback dispatcher (main.rs) and the   *)
(* HTTP poll consumers (status.rs).                                         *)
(*                                                                          *)
(* One step is one call into shared state: one SQL statement, one locked    *)
(* access to the registry, one channel operation.  A statement and the      *)
(* wake-up that follows it are two steps.  Time is left out: a timeout may  *)
(* fire whenever it is armed.  The claim of a message is named by its       *)
(* ordinal, the value of `attempts` that the claim wrote; the code draws a  *)
(* random lease, and MessageStore shows that leases do not come back.       *)
(*                                                                          *)
(* A message on an ephemeral topic is one that was stored before the topic  *)
(* was made ephemeral; a publish to such a topic stores nothing (Topics).   *)
(***************************************************************************)
EXTENDS TopicFilter, FiniteSets

CONSTANTS
    Messages,
    Subs,         \* streams: gRPC Subscribe calls and MQTT subscriptions
    TopicOf,      \* the topic of a message
    SessionOf,    \* consumer_id of a gRPC stream, "mqtt:<client>" of an MQTT one
    Scenes,       \* the settings to look at, see `scene`
    ClaimBatch,   \* CL_BROKER_CLAIM_BATCH_SIZE
    MaxAttempts,  \* MAX_DELIVERY_ATTEMPTS
    MaxTrouble,   \* bound: claims that outlive their deadline while being worked on,
                  \* claims by the dispatcher and by HTTP polls, statements that
                  \* fail, streams that end
    None

ASSUME SceneAssumption ==
    \A c \in Scenes : /\ c.messages \subseteq Messages /\ c.staying \subseteq c.streams
                      /\ c.streams \subseteq Subs /\ c.filter \in [Subs -> Seq(STRING) \ {<<>>}]
                      /\ c.prefetch \in Nat \ {0} /\ c.fallback \in BOOLEAN
ASSUME TopicAssumption == \A m \in Messages : TopicOf[m] \in Seq(STRING) \ {<<>>}
ASSUME LimitAssumption == {ClaimBatch, MaxAttempts} \subseteq Nat \ {0}
ASSUME BoundAssumption == MaxTrouble \in Nat

VARIABLES
    scene,      \* what is published, who listens to what and how topics are
                \* configured; chosen at the start
    status, attempts, \* the message rows, see MessageStore
    due,        \* per message: next_attempt_at is over
    toNotify,   \* messages whose notify_ready is yet to be called
    silent,     \* messages made claimable without a wake-up since their last claim
    registry,   \* TopicSubscribers: [filter, session, sub]
    inflight,   \* InflightAcks: [msg, claim, to]
    flag,       \* per stream: its watch receiver has an unseen change
    open,       \* per stream: the client still reads it
    cancelled,  \* per stream: its cancellation token
    pc,         \* per stream: where its loop is
    todo, room, \* per stream: topics the claim has yet to try, permits reserved
    ready, cur, \* per stream: claims taken, and the one in hand
    tasks,      \* the spawned delivery tasks
    sent,       \* the copies put into a stream, for the properties
    heard,      \* the copies whose positive answer reached the task's channel
    polled,     \* claims held by HTTP poll consumers
    disp,       \* the dispatcher
    broken,     \* a statement has failed (but not one of the dispatcher's first two)
    trouble     \* what counts against MaxTrouble

store == <<status, attempts, due, silent>>
wake == <<toNotify, flag>>
loops == <<pc, todo, room, ready, cur>>
acks == <<inflight, sent, heard>>
ends == <<scene, open, cancelled>>
luck == <<broken, trouble>>
others == <<polled, disp>>
vars == <<store, wake, registry, acks, ends, loops, tasks, others, broken, trouble>>

FilterOf == scene.filter     \* the topic filter of a stream
Broadcast == scene.broadcast \* the topics with DeliveryMode::Broadcast
Ephemeral == scene.ephemeral \* the topics with PersistenceMode::Ephemeral
Staying == scene.staying     \* the streams that are connected from start to end
Prefetch == scene.prefetch   \* CL_BROKER_CONSUMER_PREFETCH

Topics == {TopicOf[m] : m \in Messages}
Filters == {FilterOf[s] : s \in Subs}
Final == {"delivered", "failed", "dropped"}
Claims == [msg : Messages, claim : Nat]
Acks == [msg : Messages, claim : Nat, to : Subs]
InHand == [msg : Messages, claim : Nat, eph : BOOLEAN, todo : SUBSET Subs, waits : SUBSET Subs]
ASSUME NoneAssumption == None \notin InHand
Tasks == [sub : Subs, msg : Messages, claim : Nat, waits : SUBSET Subs]
Resting == [stage |-> "rest"]
Dispatching == {Resting} \cup [stage : {"skip"}, skip : SUBSET (Filters \cup Ephemeral)]
                 \cup [stage : {"check", "post"}, msg : Messages, claim : Nat]

TypeOK ==
    /\ scene \in Scenes
    /\ status \in [Messages -> {"none", "pending", "processing"} \cup Final]
    /\ attempts \in [Messages -> Nat]
    /\ due \in [Messages -> BOOLEAN]
    /\ toNotify \subseteq Messages /\ silent \subseteq Messages
    /\ registry \subseteq [filter : Filters, session : {SessionOf[s] : s \in Subs}, sub : Subs]
    /\ inflight \subseteq Acks /\ sent \subseteq Acks /\ heard \subseteq Acks
    /\ flag \in [Subs -> BOOLEAN] /\ open \in [Subs -> BOOLEAN]
    /\ cancelled \in [Subs -> BOOLEAN]
    /\ pc \in [Subs -> {"off", "registered", "top", "permit", "claim", "idle", "next", "send",
                        "closing", "left", "drop", "done"}]
    /\ todo \in [Subs -> SUBSET (Topics \cup Filters)]
    /\ room \in [Subs -> 0..Prefetch]
    /\ ready \in [Subs -> SUBSET Claims]
    /\ cur \in [Subs -> InHand \cup {None}]
    /\ tasks \subseteq Tasks
    /\ polled \subseteq Claims
    /\ disp \in Dispatching
    /\ broken \in BOOLEAN /\ trouble \in 0..MaxTrouble

Entry(s) == [filter |-> FilterOf[s], session |-> SessionOf[s], sub |-> s]

Init ==
    /\ scene \in Scenes
    /\ status = [m \in Messages |-> "none"]
    /\ attempts = [m \in Messages |-> 0]
    /\ due = [m \in Messages |-> TRUE]
    /\ toNotify = {} /\ silent = {}
    /\ registry = {Entry(s) : s \in Staying}
    /\ inflight = {} /\ sent = {} /\ heard = {}
    /\ flag = [s \in Subs |-> FALSE]
    /\ open = [s \in Subs |-> TRUE]
    /\ cancelled = [s \in Subs |-> FALSE]
    /\ pc = [s \in Subs |-> IF s \in Staying THEN "top" ELSE "off"]
    /\ todo = [s \in Subs |-> {}]
    /\ room = [s \in Subs |-> 0]
    /\ ready = [s \in Subs |-> {}]
    /\ cur = [s \in Subs |-> None]
    /\ tasks = {} /\ polled = {} /\ disp = Resting
    /\ broken = FALSE /\ trouble = 0

-----------------------------------------------------------------------------
Trouble == trouble < MaxTrouble /\ trouble' = trouble + 1

(* The store.  Each of these is one statement; a statement that names a     *)
(* claim which is not the row's present one changes nothing.                *)

Held(c) == status[c.msg] = "processing" /\ attempts[c.msg] = c.claim

Claimable(t) == {m \in Messages : status[m] = "pending" /\ due[m] /\ TopicOf[m] = t}

\* UPDATE ... SET status='processing', attempts=attempts+1 for the rows of C.
TakeClaims(C) ==
    /\ status' = [m \in Messages |-> IF m \in C THEN "processing" ELSE status[m]]
    /\ attempts' = [m \in Messages |-> IF m \in C THEN attempts[m] + 1 ELSE attempts[m]]
    /\ silent' = silent \ C
    /\ UNCHANGED due

NewClaims(C) == {[msg |-> m, claim |-> attempts[m] + 1] : m \in C}

\* Faulty variant: neither lease nor status is tested.
SettleBlind(c, s) ==
    /\ status' = [status EXCEPT ![c.msg] = s]
    /\ UNCHANGED <<attempts, due, silent>>

\* delivered, release and drop_claimed.
Settle(c, s) ==
    /\ status' = [status EXCEPT ![c.msg] = IF Held(c) THEN s ELSE @]
    /\ UNCHANGED <<attempts, due, silent>>

\* failed: for good after MaxAttempts, else pending after a back-off.  Nobody
\* is woken when the back-off is over.
Fail(c) ==
    LET again == Held(c) /\ attempts[c.msg] < MaxAttempts
    IN  /\ status' = [status EXCEPT ![c.msg] =
                         IF again THEN "pending" ELSE IF Held(c) THEN "failed" ELSE @]
        /\ due' = [due EXCEPT ![c.msg] = @ /\ ~again]
        /\ silent' = IF again THEN silent \cup {c.msg} ELSE silent
        /\ UNCHANGED attempts

\* The statement fails with an error.
Broken ==
    /\ Trouble
    /\ broken' = TRUE
    /\ UNCHANGED store

Runs(statement) == (statement /\ UNCHANGED luck) \/ Broken

\* release, whose caller wakes the loops when a row was changed.
ReleaseAndWake(c) ==
    /\ Settle(c, "pending")
    /\ toNotify' = IF Held(c) THEN toNotify \cup {c.msg} ELSE toNotify
    /\ UNCHANGED flag

-----------------------------------------------------------------------------
(* Publishing, wake-ups and upkeep *)

\* The writer commits the message, or the HTTP handler does.
Publish(m) ==
    /\ m \in scene.messages /\ status[m] = "none"
    /\ status' = [status EXCEPT ![m] = "pending"]
    /\ toNotify' = toNotify \cup {m}
    /\ UNCHANGED <<attempts, due, silent, flag, registry, acks, ends, loops, tasks, others, luck>>

Watching(s) == pc[s] \notin {"off", "registered", "left", "drop", "done"}

\* Faulty variant: only the slot of the topic is signalled.
NotifyReadyTopic(m) ==
    /\ m \in toNotify
    /\ toNotify' = toNotify \ {m}
    /\ flag' = [s \in Subs |-> flag[s] \/ (Watching(s) /\ FilterOf[s] = TopicOf[m])]
    /\ UNCHANGED <<store, registry, acks, ends, loops, tasks, others, luck>>

\* QueueNotifications::notify: the slot of the topic, and the one slot that
\* all wildcard filters share.
NotifyReady(m) ==
    /\ m \in toNotify
    /\ toNotify' = toNotify \ {m}
    /\ flag' = [s \in Subs |->
                   \/ flag[s]
                   \/ /\ Watching(s)
                      /\ FilterOf[s] = TopicOf[m] \/ is_wildcard_filter(FilterOf[s])]
    /\ UNCHANGED <<store, registry, acks, ends, loops, tasks, others, luck>>

\* The back-off of a failed delivery is over.
BackoffEnds(m) ==
    /\ ~due[m]
    /\ due' = [due EXCEPT ![m] = TRUE]
    /\ UNCHANGED <<status, attempts, silent, wake, registry, acks, ends, loops, tasks, others, luck>>

\* Somebody in the broker still works on the present claim of m.
InWork(m) ==
    LET c == [msg |-> m, claim |-> attempts[m]] IN
    \/ \E s \in Subs : c \in ready[s]
    \/ \E s \in Subs : cur[s] # None /\ cur[s].msg = m /\ cur[s].claim = attempts[m]
    \/ \E k \in tasks : k.msg = m /\ k.claim = attempts[m]
    \/ disp.stage \in {"check", "post"} /\ disp.msg = m /\ disp.claim = attempts[m]

\* reclaim_stale finds the claim of m past its deadline.
Reclaim(m) ==
    /\ status[m] = "processing"
    /\ IF InWork(m) THEN Trouble ELSE UNCHANGED trouble
    /\ status' = [status EXCEPT ![m] = "pending"]
    /\ silent' = silent \cup {m}
    /\ UNCHANGED <<attempts, due, wake, registry, acks, ends, loops, tasks, others, broken>>

-----------------------------------------------------------------------------
(* The registry of live streams *)

SameSlot(r, s) == r.filter = FilterOf[s] /\ r.session = SessionOf[s]

\* add: a later stream of the same session and filter takes the entry over.
Add(s) == registry' = {r \in registry : ~SameSlot(r, s)} \cup {Entry(s)}

\* Faulty variant: the filter of a session that leaves is forgotten altogether.
RemoveFilter(s) == registry' = {r \in registry : r.filter # FilterOf[s]}

\* remove: whatever stream the entry belongs to.
Remove(s) == registry' = {r \in registry : ~SameSlot(r, s)}

covers(t) == \E r \in registry : filter_matches(r.filter, t)

\* T is a possible answer of matching_senders(t): one stream per session.
MatchingSenders(T, t) ==
    LET R == {r \in registry : filter_matches(r.filter, t)} IN
    /\ T \subseteq {r.sub : r \in R}
    /\ \A r \in R : Cardinality({x \in T : SessionOf[x] = r.session}) = 1

-----------------------------------------------------------------------------
(* A subscribe loop, from the first line of run_subscribe_loop to the last. *)

Goto(s, label) == pc' = [pc EXCEPT ![s] = label]

Free(s) ==
    Prefetch - Cardinality(ready[s]) - Cardinality({k \in tasks : k.sub = s})

\* subscribe spawns the loop, which begins with SubscriptionGuard::new.
Register(s) ==
    /\ s \in scene.streams /\ pc[s] = "off"
    /\ Goto(s, "registered")
    /\ Add(s)
    /\ UNCHANGED <<store, wake, acks, ends, todo, room, ready, cur, tasks, others, luck>>

\* writer.subscribe: later notifications are seen.
Watch(s) ==
    /\ pc[s] = "registered"
    /\ Goto(s, "top")
    /\ UNCHANGED <<store, wake, registry, acks, ends, todo, room, ready, cur, tasks, others, luck>>

\* Faulty variant: a full batch is claimed whatever permits there are.
StartClaimFull(s) ==
    /\ Goto(s, "claim")
    /\ room' = [room EXCEPT ![s] = ClaimBatch]
    /\ todo' = [todo EXCEPT ![s] =
                   IF is_wildcard_filter(FilterOf[s]) THEN Topics ELSE {FilterOf[s]}]

StartClaim(s) ==
    /\ Goto(s, "claim")
    /\ room' = [room EXCEPT ![s] = IF Free(s) < ClaimBatch THEN Free(s) ELSE ClaimBatch]
    /\ todo' = [todo EXCEPT ![s] =
                   IF is_wildcard_filter(FilterOf[s]) THEN Topics ELSE {FilterOf[s]}]

\* The head of the loop, when the batch is used up: take a permit and as many
\* more as there are, up to a batch, or wait for one.
Top(s) ==
    /\ pc[s] = "top"
    /\ \/ /\ cancelled[s] \/ ~open[s]
          /\ Goto(s, "closing") /\ UNCHANGED <<todo, room>>
       \/ /\ ~cancelled[s] /\ open[s] /\ ready[s] = {}
          /\ IF Free(s) > 0 THEN StartClaim(s) ELSE Goto(s, "permit") /\ UNCHANGED <<todo, room>>
    /\ UNCHANGED <<store, wake, registry, acks, ends, ready, cur, tasks, others, luck>>

\* A task has returned its permit, or the loop is cancelled.
Permit(s) ==
    /\ pc[s] = "permit"
    /\ \/ cancelled[s] /\ Goto(s, "closing") /\ UNCHANGED <<todo, room>>
       \/ Free(s) > 0 /\ StartClaim(s)
    /\ UNCHANGED <<store, wake, registry, acks, ends, ready, cur, tasks, others, luck>>

\* claim_batch_for_filter tries the shards and topics one after the other, in
\* a rotating order, and takes the first batch it finds.  When it finds none
\* the loop goes to wait.
ClaimTopic(s, t) ==
    /\ pc[s] = "claim" /\ t \in todo[s]
    /\ LET R == IF filter_matches(FilterOf[s], t) THEN Claimable(t) ELSE {} IN
       \/ /\ R = {}
          /\ todo' = [todo EXCEPT ![s] = @ \ {t}]
          /\ Goto(s, IF todo[s] = {t} THEN "idle" ELSE "claim")
          /\ room' = [room EXCEPT ![s] = IF todo[s] = {t} THEN 0 ELSE @]
          /\ UNCHANGED <<store, ready>>
       \/ \E C \in (SUBSET R) \ {{}} :
             /\ Cardinality(C) = IF Cardinality(R) < room[s] THEN Cardinality(R) ELSE room[s]
             /\ TakeClaims(C)
             /\ ready' = [ready EXCEPT ![s] = NewClaims(C)]
             /\ todo' = [todo EXCEPT ![s] = {}]
             /\ room' = [room EXCEPT ![s] = 0]
             /\ Goto(s, "next")
    /\ UNCHANGED <<wake, registry, acks, ends, cur, tasks, others, luck>>

\* The claim fails: the permits are dropped and the loop starts over.
ClaimFails(s) ==
    /\ pc[s] = "claim"
    /\ Broken
    /\ Goto(s, IF cancelled[s] THEN "closing" ELSE "top")
    /\ todo' = [todo EXCEPT ![s] = {}]
    /\ room' = [room EXCEPT ![s] = 0]
    /\ UNCHANGED <<wake, registry, acks, ends, ready, cur, tasks, others>>

\* Nothing to do: wait for a wake-up, the 30 s timer or the cancellation.
Idle(s) ==
    /\ pc[s] = "idle"
    /\ \/ cancelled[s] /\ Goto(s, "closing") /\ UNCHANGED flag
       \/ flag[s] /\ flag' = [flag EXCEPT ![s] = FALSE] /\ Goto(s, "top")
       \/ Goto(s, "top") /\ UNCHANGED flag
    /\ UNCHANGED <<store, toNotify, registry, acks, ends, todo, room, ready, cur, tasks, others, luck>>

Hand(c, eph, T) ==
    [msg |-> c.msg, claim |-> c.claim, eph |-> eph, todo |-> T, waits |-> {}]

\* Take a message from the batch.  If half its visibility timeout is over it
\* is given back instead.  A topic configuration that cannot be read counts as
\* single and persistent.
TakeNext(s, c) ==
    LET t == TopicOf[c.msg] IN
    /\ pc[s] = "next" \/ (pc[s] = "top" /\ ~cancelled[s] /\ open[s])
    /\ c \in ready[s]
    /\ ready' = [ready EXCEPT ![s] = @ \ {c}]
    /\ \/ /\ Trouble
          /\ \/ ReleaseAndWake(c) /\ UNCHANGED broken
             \/ broken' = TRUE /\ UNCHANGED <<store, wake>>
          /\ Goto(s, "top")
          /\ UNCHANGED cur
       \/ /\ \/ /\ t \in Broadcast
                /\ \E T \in SUBSET Subs :
                      /\ MatchingSenders(T, t)
                      /\ cur' = [cur EXCEPT ![s] =
                                    Hand(c, t \in Ephemeral, IF T = {} THEN {s} ELSE T)]
                /\ UNCHANGED <<store, luck>>
             \/ /\ t \notin Broadcast
                /\ cur' = [cur EXCEPT ![s] = Hand(c, t \in Ephemeral, {s})]
                /\ UNCHANGED <<store, luck>>
             \/ /\ Broken
                /\ cur' = [cur EXCEPT ![s] = Hand(c, FALSE, {s})]
          /\ Goto(s, "send")
          /\ UNCHANGED wake
    /\ UNCHANGED <<registry, acks, ends, todo, room, tasks, others>>

Ack(c, x) == [msg |-> c.msg, claim |-> c.claim, to |-> x]

\* Send to one target.  A full or closed stream makes the send time out or
\* fail, and its acknowledgement is cancelled again.
Send(s, x) ==
    /\ pc[s] = "send" /\ x \in cur[s].todo
    /\ \/ /\ open[x]
          /\ inflight' = inflight \cup {Ack(cur[s], x)}
          /\ sent' = sent \cup {Ack(cur[s], x)}
          /\ cur' = [cur EXCEPT ![s].todo = @ \ {x}, ![s].waits = @ \cup {x}]
       \/ /\ cur' = [cur EXCEPT ![s].todo = @ \ {x}]
          /\ UNCHANGED <<inflight, sent>>
    /\ UNCHANGED <<store, wake, registry, heard, ends, pc, todo, room, ready, tasks, others, luck>>

\* The copies of a claim are no longer of interest.
Discard(c) ==
    /\ inflight' = {a \in inflight : a.msg # c.msg \/ a.claim # c.claim}
    /\ sent' = {a \in sent : a.msg # c.msg \/ a.claim # c.claim}
    /\ heard' = {a \in heard : a.msg # c.msg \/ a.claim # c.claim}

\* After the last send: an ephemeral message is done, one that nobody took is
\* dropped or fails, any other is left to a task that waits for the answers.
\* The loop ends when its own stream is closed and nobody took the message.
AfterSend(s) ==
    LET c == cur[s] IN
    /\ pc[s] = "send" /\ c.todo = {}
    /\ cur' = [cur EXCEPT ![s] = None]
    /\ \/ /\ c.eph /\ c.waits # {}
          /\ Runs(Settle(c, "delivered"))
          /\ Discard(c)
          /\ Goto(s, "top")
          /\ UNCHANGED tasks
       \/ /\ c.waits = {}
          /\ Runs(IF c.eph THEN Settle(c, "dropped") ELSE Fail(c))
          /\ Goto(s, IF open[s] THEN "top" ELSE "closing")
          /\ UNCHANGED <<acks, tasks>>
       \/ /\ ~c.eph /\ c.waits # {}
          /\ tasks' = tasks \cup {[sub |-> s, msg |-> c.msg, claim |-> c.claim, waits |-> c.waits]}
          /\ Goto(s, "top")
          /\ UNCHANGED <<store, acks, luck>>
    /\ UNCHANGED <<wake, registry, ends, todo, room, ready, others>>

\* Faulty variant: the claims that were not sent yet are forgotten.
ReleaseRestForgets(s, c) ==
    /\ pc[s] = "closing" /\ c \in ready[s]
    /\ ready' = [ready EXCEPT ![s] = @ \ {c}]
    /\ UNCHANGED <<store, wake, registry, acks, ends, pc, todo, room, cur, tasks, others, luck>>

\* The loop has ended: give back what it has not sent, ...
ReleaseRest(s, c) ==
    /\ pc[s] = "closing" /\ c \in ready[s]
    /\ ready' = [ready EXCEPT ![s] = @ \ {c}]
    /\ \/ ReleaseAndWake(c) /\ UNCHANGED luck
       \/ Broken /\ UNCHANGED wake
    /\ UNCHANGED <<registry, acks, ends, pc, todo, room, cur, tasks, others>>

\* ... wait for its tasks, leave the registry, ...
Leave(s) ==
    /\ pc[s] = "closing" /\ ready[s] = {}
    /\ \A k \in tasks : k.sub # s
    /\ Remove(s)
    /\ Goto(s, IF FilterOf[s] \in Ephemeral THEN "left" ELSE "done")
    /\ flag' = [flag EXCEPT ![s] = FALSE]
    /\ UNCHANGED <<store, toNotify, acks, ends, todo, room, ready, cur, tasks, others, luck>>

\* ... look whether anyone else listens to an ephemeral topic, ...
CheckCovered(s) ==
    /\ pc[s] = "left"
    /\ Goto(s, IF covers(FilterOf[s]) THEN "done" ELSE "drop")
    /\ UNCHANGED <<store, wake, registry, acks, ends, todo, room, ready, cur, tasks, others, luck>>

\* ... and drop what waits there.
DropPending(s) ==
    /\ pc[s] = "drop"
    /\ Goto(s, "done")
    /\ Runs(/\ status' = [m \in Messages |->
                             IF status[m] = "pending" /\ TopicOf[m] = FilterOf[s]
                             THEN "dropped" ELSE status[m]]
            /\ UNCHANGED <<attempts, due, silent>>)
    /\ UNCHANGED <<wake, registry, acks, ends, todo, room, ready, cur, tasks, others>>

-----------------------------------------------------------------------------
(* Consumers, and the tasks that wait for them *)

\* InflightAcks::complete, from AckMessage(s), a PUBACK or a written QoS 0
\* packet.  An answer that finds no entry changes nothing.
Complete(a, ok) ==
    /\ a \in inflight
    /\ inflight' = inflight \ {a}
    /\ heard' = IF ok THEN heard \cup {a} ELSE heard
    /\ UNCHANGED <<store, wake, registry, sent, ends, loops, tasks, others, luck>>

Answered(k) == {x \in k.waits : Ack(k, x) \in heard}

\* Faulty variant: the entries of the acknowledgements stay behind.
TaskEndsLeaks(k) ==
    /\ tasks' = tasks \ {k}
    /\ IF cancelled[k.sub] THEN UNCHANGED <<store, luck>>
       ELSE Runs(IF Answered(k) = k.waits THEN Settle(k, "delivered") ELSE Fail(k))
    /\ UNCHANGED <<wake, registry, acks, ends, loops, others>>

\* Faulty variant: one positive answer is enough.
TaskEndsAny(k) ==
    /\ tasks' = tasks \ {k}
    /\ Discard(k)
    /\ IF cancelled[k.sub] THEN UNCHANGED <<store, luck>>
       ELSE Runs(IF Answered(k) # {} THEN Settle(k, "delivered") ELSE Fail(k))
    /\ UNCHANGED <<wake, registry, ends, loops, others>>

\* Faulty variant: the task has no deadline.
TaskEndsUntimed(k) ==
    /\ cancelled[k.sub] \/ \A x \in k.waits : Ack(k, x) \notin inflight
    /\ tasks' = tasks \ {k}
    /\ Discard(k)
    /\ IF cancelled[k.sub] THEN UNCHANGED <<store, luck>>
       ELSE Runs(IF Answered(k) = k.waits THEN Settle(k, "delivered") ELSE Fail(k))
    /\ UNCHANGED <<wake, registry, ends, loops, others>>

\* All answers are in, or the visibility timeout is over, or the stream is
\* cancelled.  A cancelled task settles nothing.
TaskEnds(k) ==
    /\ tasks' = tasks \ {k}
    /\ Discard(k)
    /\ IF cancelled[k.sub] THEN UNCHANGED <<store, luck>>
       ELSE Runs(IF Answered(k) = k.waits THEN Settle(k, "delivered") ELSE Fail(k))
    /\ UNCHANGED <<wake, registry, ends, loops, others>>

CloseStream(s) ==
    /\ s \notin Staying /\ pc[s] \notin {"off", "done"} /\ open[s]
    /\ Trouble
    /\ open' = [open EXCEPT ![s] = FALSE]
    /\ UNCHANGED <<store, wake, registry, acks, scene, cancelled, loops, tasks, others, broken>>

\* UNSUBSCRIBE, the end of an MQTT session, or the shutdown of the broker.
CancelStream(s) ==
    /\ s \notin Staying /\ pc[s] \notin {"off", "done"} /\ ~cancelled[s]
    /\ Trouble
    /\ cancelled' = [cancelled EXCEPT ![s] = TRUE]
    /\ UNCHANGED <<store, wake, registry, acks, scene, open, loops, tasks, others, broken>>

-----------------------------------------------------------------------------
(* Consumers outside the loops *)

\* consume_poll, for topics that are single and persistent: one message.
Poll(m) ==
    /\ m \in Claimable(TopicOf[m]) /\ TopicOf[m] \notin Broadcast \cup Ephemeral
    /\ Trouble
    /\ TakeClaims({m})
    /\ polled' = polled \cup NewClaims({m})
    /\ UNCHANGED <<wake, registry, acks, ends, loops, tasks, disp, broken>>

\* consume_ack
PollAck(c, ok) ==
    /\ c \in polled
    /\ polled' = polled \ {c}
    /\ Runs(IF ok THEN Settle(c, "delivered") ELSE Fail(c))
    /\ UNCHANGED <<wake, registry, acks, ends, loops, tasks, disp>>

\* dispatch_loop, if there is a fallback URL: the topics to skip, without the
\* ephemeral ones if they cannot be looked up, ...
DispatchSkip ==
    /\ scene.fallback /\ disp = Resting
    /\ Trouble
    /\ \E E \in {Ephemeral, {}} :
          disp' = [stage |-> "skip", skip |-> {r.filter : r \in registry} \cup E]
    /\ UNCHANGED <<store, wake, registry, acks, ends, loops, tasks, polled, broken>>

\* ... a message of another topic, unless there is none or the claim fails, ...
DispatchClaim ==
    /\ disp.stage = "skip"
    /\ \/ disp' = Resting /\ UNCHANGED store
       \/ \E m \in Messages :
             /\ m \in Claimable(TopicOf[m]) /\ TopicOf[m] \notin disp.skip
             /\ TakeClaims({m})
             /\ disp' = [stage |-> "check", msg |-> m, claim |-> attempts[m] + 1]
    /\ UNCHANGED <<wake, registry, acks, ends, loops, tasks, polled, luck>>

\* ... given back, without a wake-up, if a live stream covers its topic, ...
DispatchCheck ==
    /\ disp.stage = "check"
    /\ \/ /\ covers(TopicOf[disp.msg])
          /\ disp' = Resting
          /\ \/ /\ status' = [status EXCEPT ![disp.msg] = IF Held(disp) THEN "pending" ELSE @]
                /\ silent' = IF Held(disp) THEN silent \cup {disp.msg} ELSE silent
                /\ UNCHANGED <<attempts, due, luck>>
             \/ Broken
       \/ /\ ~covers(TopicOf[disp.msg])
          /\ disp' = [disp EXCEPT !.stage = "post"]
          /\ UNCHANGED <<store, luck>>
    /\ UNCHANGED <<wake, registry, acks, ends, loops, tasks, polled>>

\* ... else posted to the fallback URL.
DispatchPost(ok) ==
    /\ disp.stage = "post"
    /\ disp' = Resting
    /\ Runs(IF ok THEN Settle(disp, "delivered") ELSE Fail(disp))
    /\ UNCHANGED <<wake, registry, acks, ends, loops, tasks, polled>>

-----------------------------------------------------------------------------
Loop(s) ==
    \/ Register(s) \/ Watch(s) \/ Top(s) \/ Permit(s) \/ Idle(s)
    \/ \E t \in todo[s] : ClaimTopic(s, t)
    \/ ClaimFails(s)
    \/ \E c \in ready[s] : TakeNext(s, c)
    \/ \E x \in Subs : Send(s, x)
    \/ AfterSend(s)
    \/ \E c \in ready[s] : ReleaseRest(s, c)
    \/ Leave(s) \/ CheckCovered(s) \/ DropPending(s)

Task(s, m) == \E k \in tasks : k.sub = s /\ k.msg = m /\ TaskEnds(k)

Dispatcher == DispatchSkip \/ DispatchClaim \/ DispatchCheck \/ \E ok \in BOOLEAN : DispatchPost(ok)

Next ==
    \/ \E m \in Messages : Publish(m) \/ NotifyReady(m) \/ BackoffEnds(m) \/ Reclaim(m) \/ Poll(m)
    \/ \E s \in Subs : Loop(s) \/ CloseStream(s) \/ CancelStream(s)
    \/ \E s \in Subs, m \in Messages : Task(s, m)
    \/ \E a \in inflight, ok \in BOOLEAN : Complete(a, ok)
    \/ \E c \in polled, ok \in BOOLEAN : PollAck(c, ok)
    \/ Dispatcher

Spec == Init /\ [][Next]_vars

\* Every task of the runtime goes on, timers fire, the HTTP client of the
\* dispatcher times out, and retention_loop keeps calling reclaim_stale.  Tasks
\* and timers end once, so that it is enough that not all of them stand still.
\* Consumers, publishers and clients owe nothing.
LiveSpec ==
    /\ Spec
    /\ \A s \in Subs : WF_vars(Loop(s))
    /\ WF_vars(\E s \in Subs, m \in Messages : Task(s, m))
    /\ WF_vars(\E m \in Messages : BackoffEnds(m) \/ Reclaim(m))
    /\ WF_vars(Dispatcher)

-----------------------------------------------------------------------------
(* Properties *)

\* A message that a loop delivers is marked delivered only after every
\* consumer that was sent a copy under this claim has acknowledged it: a nack,
\* a missing answer, an answer to an earlier claim of the same message or a
\* late reclaim never counts as an acknowledgement.
DeliveredMeansAcked ==
    [][\A m \in Messages :
          LET copies == {a \in sent : a.msg = m /\ a.claim = attempts[m]} IN
          status[m] = "processing" /\ status'[m] = "delivered" /\ TopicOf[m] \notin Ephemeral =>
              \/ [msg |-> m, claim |-> attempts[m]] \in polled
              \/ disp = [stage |-> "post", msg |-> m, claim |-> attempts[m]]
              \/ /\ copies # {}
                 /\ \A a \in copies : a \in heard]_vars

\* A loop that waits without a pending wake-up has missed nothing: a message
\* it could claim was put back by one of the paths that wake nobody (a failed
\* delivery, reclaim_stale, the dispatcher; the 30 s timer is for them), or
\* its wake-up is still to come.
NoLostWakeup ==
    \A s \in Subs : pc[s] = "idle" /\ ~flag[s] =>
        \A m \in Messages :
            /\ status[m] = "pending" /\ due[m] /\ filter_matches(FilterOf[s], TopicOf[m])
            => m \in toNotify \cup silent

\* What matching_senders and covers find, and a loop asks for, is what MQTT says
\* of the filter: for all short filters and topics, with "#" next to its parent
\* level, empty levels and '$' in front, which no step changes and one state is
\* enough for, and at all times for whatever is registered.
OfferedAsCovered ==
    /\ Init => MatchesAsCovers
    /\ \A f \in {r.filter : r \in registry}, t \in Topics :
          is_valid_subscribe_filter(f) /\ is_valid_publish_topic(t) =>
              (filter_matches(f, t) <=> Covers(f, t))

\* No acknowledgement entry outlives the delivery that waits for it, through
\* timeouts, nacks, cancellations and failed sends.
InflightOwned ==
    \A a \in inflight :
        \/ \E s \in Subs : cur[s] # None /\ a.to \in cur[s].waits /\ Ack(cur[s], a.to) = a
        \/ \E k \in tasks : a.to \in k.waits /\ Ack(k, a.to) = a

\* As long as no statement fails and no stream is cancelled, no claim is
\* abandoned: whatever closes or times out, a message that is `processing` is
\* in somebody's hands and does not have to wait for reclaim_stale.
NoAbandonedClaim ==
    ~broken /\ (\A s \in Subs : ~cancelled[s]) =>
        \A m \in Messages : status[m] = "processing" =>
            InWork(m) \/ [msg |-> m, claim |-> attempts[m]] \in polled

\* "every live stream gets a copy" (README.md:5): the stream of a running loop is
\* one that matching_senders can find, if every stream has a session of its own.
LiveStreamRegistered ==
    \A s \in Subs : Watching(s) => Entry(s) \in registry

\* The same of streams that share a session: as long as a loop runs, its entry
\* stays, or a later stream of its session and filter has taken it over, and
\* gets the copy.
LiveStreamKept ==
    [][\A s \in Subs :
          Watching(s) /\ Entry(s) \in registry /\ Watching(s)' =>
              \E r \in registry' : SameSlot(r, s)]_vars

\* The disturbances come to an end: claims that outlive their deadline, claims by
\* the dispatcher and by polls, failing statements, streams that leave.
TroubleEnds == <>[][trouble' = trouble]_vars

\* A message for a stream that stays connected does not wait for ever once the
\* disturbances end, however its consumers answer or keep silent and whatever
\* the disturbances have left behind: it is delivered, fails after its attempts
\* or is dropped.  (While they go on it may: reclaim_stale puts a claim that was
\* abandoned back without a look at attempts, so that a poller which claims and
\* forgets over and over keeps the message for ever.)
EveryMessageSettles ==
    TroubleEnds =>
        \A m \in Messages :
            status[m] = "pending" /\ (\E s \in Staying : filter_matches(FilterOf[s], TopicOf[m]))
                ~> status[m] \in Final

\* The rows obey the abstract specification of a message.
Life == INSTANCE MessageLife WITH
            state <- status,
            holder <- [m \in Messages |->
                          IF status[m] = "processing" THEN <<m, attempts[m]>> ELSE <<>>],
            drawn <- UNION {{m} \X (1..attempts[m]) : m \in Messages},
            NoToken <- <<>>

ImplementsLife == Life!Spec

=============================================================================
