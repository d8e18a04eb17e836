---------------------------- MODULE MessageStore ----------------------------
(***************************************************************************)
(* The `messages` table of the broker (src/src/db.rs): publishing, claiming *)
(* under a lease, releasing, renewing, acknowledging, failing with          *)
(* exponential back-off, reclaiming expired claims, dropping, purging, and  *)
(* the restart of the process.                                              *)
(*                                                                          *)
(* One step is one SQL statement (or one transaction).  Where the code      *)
(* reads the table and writes it in a later statement (claim_next_excluding *)
(* and failed) the two statements are two steps, and what the first one     *)
(* read is kept in a variable.  Every operation reads the clock before its  *)
(* statement runs, so the `now` it binds may be up to MaxLag old.           *)
(*                                                                          *)
(* Callers may present any message id with any lease issued so far, at any  *)
(* time and any number of times: late, duplicated and mixed-up calls are    *)
(* all covered.                                                             *)
(***************************************************************************)
EXTENDS Integers, FiniteSets

CONSTANTS
    Messages,           \* publish requests; each one carries an id of its own
    Topics,
    Shards,
    NoKey,              \* a publish without an idempotency key
    TopicOf,            \* the topic of a publish
    KeyOf,              \* its idempotency key
    ShardOf,            \* topic_shard: the database file that stores a topic
    Visibility,         \* ACK_TIMEOUT_SECS
    MaxAttempts,        \* MAX_DELIVERY_ATTEMPTS
    BackoffSteps,       \* 8 in the code: the largest exponent of the back-off
    MaxBackoff,         \* 300 in the code
    ClaimLimit,         \* the largest batch one claim statement may take
    MessageRetention,   \* MESSAGE_RETENTION_DAYS, 0 disables
    DeliveredRetention, \* CL_BROKER_DELIVERED_RETENTION_HOURS, 0 disables
    MaxClock,           \* bound: the clock stops here, and claims end by then
    MaxLag,             \* bound: age of a clock reading when its statement runs
    MaxLease,           \* bound: number of claims issued
    MaxFailing          \* bound: concurrent calls of failed()

ASSUME ShardAssumption == ShardOf \in [Topics -> Shards]
ASSUME TopicAssumption == TopicOf \in [Messages -> Topics]
ASSUME TimeAssumption == Visibility \in Nat \ {0} /\ MaxClock \in Nat /\ MaxLag \in Nat
ASSUME AttemptsAssumption == MaxAttempts \in Nat \ {0} /\ MaxLease \in Nat
ASSUME BackoffAssumption ==
    BackoffSteps \in Nat /\ MaxBackoff \in Nat /\ \A k \in 0..BackoffSteps : 2^k \in Nat
ASSUME RetentionAssumption == MessageRetention \in Nat /\ DeliveredRetention \in Nat

VARIABLES
    clock,       \* the wall clock
    status,      \* messages.status; "none" before the insert, "gone" after a delete
    attempts,    \* messages.attempts
    nextAt,      \* messages.next_attempt_at
    lease,       \* messages.lease, NoLease for NULL
    createdAt,   \* messages.created_at
    deliveredAt, \* messages.delivered_at
    issued,      \* number of leases drawn so far (Uuid::new_v4 never repeats)
    selected,    \* claim_next_excluding: what its SELECT returned, at most one
    failing,     \* failed(): what the SELECTs of the calls in progress returned
    promise      \* per claim, until when its holder was told to own the message

rows == <<status, attempts, nextAt, lease, createdAt, deliveredAt>>
vars == <<clock, rows, issued, selected, failing, promise>>

Leases == 1..MaxLease
NoLease == 0
Stored == {"pending", "processing", "delivered", "failed", "dropped"}
Final == {"delivered", "failed", "dropped"}

Selections == [msg : Messages, now : Nat]
FailReads == [msg : Messages, lease : Leases, attempts : Nat]

TypeOK ==
    /\ clock \in Nat
    /\ status \in [Messages -> Stored \cup {"none", "gone"}]
    /\ attempts \in [Messages -> Nat]
    /\ nextAt \in [Messages -> Nat]
    /\ lease \in [Messages -> Leases \cup {NoLease}]
    /\ createdAt \in [Messages -> Nat]
    /\ deliveredAt \in [Messages -> Nat]
    /\ issued \in 0..MaxLease
    /\ selected \in SUBSET Selections
    /\ failing \in SUBSET FailReads
    /\ promise \in [Messages -> [Leases -> Nat]]

Init ==
    /\ clock = 0
    /\ status = [m \in Messages |-> "none"]
    /\ attempts = [m \in Messages |-> 0]
    /\ nextAt = [m \in Messages |-> 0]
    /\ lease = [m \in Messages |-> NoLease]
    /\ createdAt = [m \in Messages |-> 0]
    /\ deliveredAt = [m \in Messages |-> 0]
    /\ issued = 0
    /\ selected = {}
    /\ failing = {}
    /\ promise = [m \in Messages |-> [l \in Leases |-> 0]]

-----------------------------------------------------------------------------
(* Time *)

\* The values Utc::now() may have returned to a statement that runs now.
ClockReads == {t \in 0..clock : clock - t <= MaxLag}

\* The delay before the next attempt of a message that failed.
Backoff(n) ==
    LET steps == IF n < BackoffSteps THEN n ELSE BackoffSteps
    IN  IF 2^steps < MaxBackoff THEN 2^steps ELSE MaxBackoff

Tick ==
    /\ clock < MaxClock
    /\ clock' = clock + 1
    /\ UNCHANGED <<rows, issued, selected, failing, promise>>

-----------------------------------------------------------------------------
(* Publishing *)

\* The UNIQUE(idempotency_key) constraint of one shard file.
SameKey(m, n) ==
    /\ m # n
    /\ KeyOf[m] # NoKey
    /\ KeyOf[m] = KeyOf[n]
    /\ ShardOf[TopicOf[m]] = ShardOf[TopicOf[n]]

\* enqueue_batch: INSERT OR IGNORE in one transaction.  Of the batch B the
\* items in W are inserted; the others meet the key of a stored row or of an
\* earlier item and are answered with that row's id.
EnqueueBatch(B, W, now) ==
    /\ \A m \in B : status[m] = "none"
    /\ \A m \in W : \A n \in Messages :
          SameKey(m, n) => status[n] \notin Stored /\ n \notin W
    /\ \A m \in B \ W : \E n \in Messages :
          SameKey(m, n) /\ (status[n] \in Stored \/ n \in W)
    /\ status' = [m \in Messages |-> IF m \in W THEN "pending" ELSE status[m]]
    /\ nextAt' = [m \in Messages |-> IF m \in W THEN now ELSE nextAt[m]]
    /\ createdAt' = [m \in Messages |-> IF m \in W THEN now ELSE createdAt[m]]
    /\ UNCHANGED <<clock, attempts, lease, deliveredAt, issued, selected, failing, promise>>

-----------------------------------------------------------------------------
(* Claiming *)

Ready(now) == {m \in Messages : status[m] = "pending" /\ nextAt[m] <= now}

\* ORDER BY created_at LIMIT ?: C is a set of the oldest members of S.
OldestOf(C, S, limit) ==
    /\ C \subseteq S
    /\ \A m \in C : \A n \in S \ C : createdAt[m] <= createdAt[n]
    /\ Cardinality(C) = IF Cardinality(S) < limit THEN Cardinality(S) ELSE limit

\* Faulty variant: one lease for all claims of the process.
TakeLeaseReused(C, now) ==
    /\ issued < MaxLease
    /\ now + Visibility <= MaxClock
    /\ issued' = issued + 1
    /\ status' = [m \in Messages |-> IF m \in C THEN "processing" ELSE status[m]]
    /\ attempts' = [m \in Messages |-> IF m \in C THEN attempts[m] + 1 ELSE attempts[m]]
    /\ lease' = [m \in Messages |-> IF m \in C THEN 1 ELSE lease[m]]
    /\ nextAt' = [m \in Messages |-> IF m \in C THEN now + Visibility ELSE nextAt[m]]
    /\ promise' = [m \in Messages |->
                      IF m \in C THEN [promise[m] EXCEPT ![1] = now + Visibility] ELSE promise[m]]
    /\ UNCHANGED <<clock, createdAt, deliveredAt, failing>>

\* The UPDATE of a claim: the rows of C get a fresh lease, one for the batch.
TakeLease(C, now) ==
    /\ issued < MaxLease
    /\ now + Visibility <= MaxClock
    /\ issued' = issued + 1
    /\ status' = [m \in Messages |-> IF m \in C THEN "processing" ELSE status[m]]
    /\ attempts' = [m \in Messages |-> IF m \in C THEN attempts[m] + 1 ELSE attempts[m]]
    /\ lease' = [m \in Messages |-> IF m \in C THEN issued + 1 ELSE lease[m]]
    /\ nextAt' = [m \in Messages |-> IF m \in C THEN now + Visibility ELSE nextAt[m]]
    /\ promise' = [m \in Messages |->
                      IF m \in C THEN [promise[m] EXCEPT ![issued + 1] = now + Visibility]
                                 ELSE promise[m]]
    /\ UNCHANGED <<clock, createdAt, deliveredAt, failing>>

\* claim_batch_for_topic: one UPDATE ... WHERE id IN (SELECT ...) RETURNING.
\* A claim that finds nothing changes nothing and is left out.
ClaimBatch(t, C, limit, now) ==
    /\ C # {}
    /\ OldestOf(C, {m \in Ready(now) : TopicOf[m] = t}, limit)
    /\ TakeLease(C, now)
    /\ UNCHANGED selected

\* claim_next_excluding, first statement: SELECT the oldest ready message of
\* one shard, except those of the topics to skip.
DispatchSelect(s, skip, m, now) ==
    /\ selected = {}
    /\ OldestOf({m}, {n \in Ready(now) : ShardOf[TopicOf[n]] = s /\ TopicOf[n] \notin skip}, 1)
    /\ selected' = {[msg |-> m, now |-> now]}
    /\ UNCHANGED <<clock, rows, issued, failing, promise>>

\* Faulty variant: the UPDATE does not test the status again.
DispatchUpdateBlind(sel) ==
    /\ sel \in selected
    /\ selected' = {}
    /\ TakeLease({sel.msg}, sel.now)

\* finish_claim: the UPDATE that follows tests the status and nothing else.
DispatchUpdate(sel) ==
    /\ sel \in selected
    /\ selected' = {}
    /\ \/ /\ status[sel.msg] = "pending"
          /\ TakeLease({sel.msg}, sel.now)
       \/ /\ status[sel.msg] # "pending"
          /\ UNCHANGED <<clock, rows, issued, failing, promise>>

-----------------------------------------------------------------------------
(* Calls of a claim's holder.  A call whose lease is not the row's present  *)
(* one matches no row, answers false and changes nothing.                   *)

Holds(m, l) == status[m] = "processing" /\ lease[m] = l

\* The holder gives its claim up: nothing is promised to it any more.
GiveUp(m, l) == promise' = [promise EXCEPT ![m][l] = 0]

\* Faulty variant: the claimable time is set a tick into the past.
ReleaseEarly(m, l, now) ==
    /\ Holds(m, l)
    /\ status' = [status EXCEPT ![m] = "pending"]
    /\ lease' = [lease EXCEPT ![m] = NoLease]
    /\ nextAt' = [nextAt EXCEPT ![m] = now - 1]
    /\ GiveUp(m, l)
    /\ UNCHANGED <<clock, attempts, createdAt, deliveredAt, issued, selected, failing>>

\* release: back to pending and ready at once; the attempt stays counted.
Release(m, l, now) ==
    /\ Holds(m, l)
    /\ status' = [status EXCEPT ![m] = "pending"]
    /\ lease' = [lease EXCEPT ![m] = NoLease]
    /\ nextAt' = [nextAt EXCEPT ![m] = now]
    /\ GiveUp(m, l)
    /\ UNCHANGED <<clock, attempts, createdAt, deliveredAt, issued, selected, failing>>

\* Faulty variant: a renewal counts as an attempt.
RenewClaimCounted(m, l, now) ==
    /\ Holds(m, l)
    /\ nextAt[m] > now
    /\ now + Visibility <= MaxClock
    /\ nextAt' = [nextAt EXCEPT ![m] = now + Visibility]
    /\ attempts' = [attempts EXCEPT ![m] = @ + 1]
    /\ promise' = [promise EXCEPT ![m][l] = now + Visibility]
    /\ UNCHANGED <<clock, status, lease, createdAt, deliveredAt, issued, selected, failing>>

\* renew_claim: only before the deadline.
RenewClaim(m, l, now) ==
    /\ Holds(m, l)
    /\ nextAt[m] > now
    /\ now + Visibility <= MaxClock
    /\ nextAt' = [nextAt EXCEPT ![m] = now + Visibility]
    /\ promise' = [promise EXCEPT ![m][l] = now + Visibility]
    /\ UNCHANGED <<clock, status, attempts, lease, createdAt, deliveredAt, issued, selected, failing>>

\* Faulty variant: the UPDATE names the lease but not the message.
DeliveredByLease(m, l, now) ==
    /\ Holds(m, l)
    /\ status' = [n \in Messages |-> IF Holds(n, l) THEN "delivered" ELSE status[n]]
    /\ lease' = [n \in Messages |-> IF Holds(n, l) THEN NoLease ELSE lease[n]]
    /\ deliveredAt' = [n \in Messages |-> IF Holds(n, l) THEN now ELSE deliveredAt[n]]
    /\ GiveUp(m, l)
    /\ UNCHANGED <<clock, attempts, nextAt, createdAt, issued, selected, failing>>

\* delivered_batch, one item: no deadline is tested.
Delivered(m, l, now) ==
    /\ Holds(m, l)
    /\ status' = [status EXCEPT ![m] = "delivered"]
    /\ lease' = [lease EXCEPT ![m] = NoLease]
    /\ deliveredAt' = [deliveredAt EXCEPT ![m] = now]
    /\ GiveUp(m, l)
    /\ UNCHANGED <<clock, attempts, nextAt, createdAt, issued, selected, failing>>

\* failed, first statement: SELECT attempts.
FailedSelect(m, l) ==
    /\ Holds(m, l)
    /\ Cardinality(failing) < MaxFailing
    /\ failing' = failing \cup {[msg |-> m, lease |-> l, attempts |-> attempts[m]]}
    /\ UNCHANGED <<clock, rows, issued, selected, promise>>

\* failed, second statement: the new status and the delay come from the
\* attempts that were read; the UPDATE tests lease and status again.
FailedUpdate(f, now) ==
    /\ f \in failing
    /\ failing' = failing \ {f}
    /\ \/ /\ Holds(f.msg, f.lease)
          /\ status' = [status EXCEPT ![f.msg] =
                           IF f.attempts >= MaxAttempts THEN "failed" ELSE "pending"]
          /\ nextAt' = [nextAt EXCEPT ![f.msg] = now + Backoff(f.attempts)]
          /\ lease' = [lease EXCEPT ![f.msg] = NoLease]
          /\ GiveUp(f.msg, f.lease)
          /\ UNCHANGED <<attempts, createdAt, deliveredAt>>
       \/ /\ ~Holds(f.msg, f.lease)
          /\ UNCHANGED <<rows, promise>>
    /\ UNCHANGED <<clock, issued, selected>>

\* drop_claimed: an ephemeral message that reached no live subscriber.
DropClaimed(m, l) ==
    /\ Holds(m, l)
    /\ status' = [status EXCEPT ![m] = "dropped"]
    /\ lease' = [lease EXCEPT ![m] = NoLease]
    /\ GiveUp(m, l)
    /\ UNCHANGED <<clock, attempts, nextAt, createdAt, deliveredAt, issued, selected, failing>>

-----------------------------------------------------------------------------
(* The broker's own upkeep *)

\* Faulty variant: a message that used up its attempts is left claimed.
ReclaimStaleUnlessExhausted(s, now) ==
    LET stale == {m \in Messages : /\ ShardOf[TopicOf[m]] = s
                                   /\ status[m] = "processing"
                                   /\ attempts[m] < MaxAttempts
                                   /\ nextAt[m] <= now}
    IN  /\ stale # {}
        /\ status' = [m \in Messages |-> IF m \in stale THEN "pending" ELSE status[m]]
        /\ lease' = [m \in Messages |-> IF m \in stale THEN NoLease ELSE lease[m]]
        /\ UNCHANGED <<clock, attempts, nextAt, createdAt, deliveredAt, issued, selected, failing, promise>>

\* reclaim_stale, one shard: claims whose deadline has passed become pending.
ReclaimStale(s, now) ==
    LET stale == {m \in Messages : /\ ShardOf[TopicOf[m]] = s
                                   /\ status[m] = "processing"
                                   /\ nextAt[m] <= now}
    IN  /\ stale # {}
        /\ status' = [m \in Messages |-> IF m \in stale THEN "pending" ELSE status[m]]
        /\ lease' = [m \in Messages |-> IF m \in stale THEN NoLease ELSE lease[m]]
        /\ UNCHANGED <<clock, attempts, nextAt, createdAt, deliveredAt, issued, selected, failing, promise>>

\* drop_pending: nobody listens to the topic any more.
DropPending(t) ==
    LET waiting == {m \in Messages : TopicOf[m] = t /\ status[m] = "pending"}
    IN  /\ waiting # {}
        /\ status' = [m \in Messages |-> IF m \in waiting THEN "dropped" ELSE status[m]]
        /\ lease' = [m \in Messages |-> IF m \in waiting THEN NoLease ELSE lease[m]]
        /\ UNCHANGED <<clock, attempts, nextAt, createdAt, deliveredAt, issued, selected, failing, promise>>

\* DELETE FROM messages WHERE ...
DeleteRows(D) ==
    /\ D # {}
    /\ status' = [m \in Messages |-> IF m \in D THEN "gone" ELSE status[m]]
    /\ lease' = [m \in Messages |-> IF m \in D THEN NoLease ELSE lease[m]]
    /\ UNCHANGED <<clock, attempts, nextAt, createdAt, deliveredAt, issued, selected, failing, promise>>

\* purge_older_than, one shard: whatever the status.
PurgeOlder(s, now) ==
    /\ MessageRetention > 0
    /\ DeleteRows({m \in Messages : /\ ShardOf[TopicOf[m]] = s
                                    /\ status[m] \in Stored
                                    /\ createdAt[m] + MessageRetention < now})

\* purge_delivered_older_than, one shard.
PurgeDelivered(s, now) ==
    /\ DeliveredRetention > 0
    /\ DeleteRows({m \in Messages : /\ ShardOf[TopicOf[m]] = s
                                    /\ status[m] = "delivered"
                                    /\ deliveredAt[m] + DeliveredRetention < now})

\* clear_topic_messages of one topic, and the message DELETE of
\* purge_idle_ephemeral.
ClearTopic(t) ==
    DeleteRows({m \in Messages : TopicOf[m] = t /\ status[m] \in Stored})

\* Faulty variant: the restart makes interrupted deliveries claimable at once.
RestartReady ==
    /\ selected' = {}
    /\ failing' = {}
    /\ status' = [m \in Messages |-> IF status[m] = "processing" THEN "pending" ELSE status[m]]
    /\ lease' = [m \in Messages |-> IF status[m] = "processing" THEN NoLease ELSE lease[m]]
    /\ nextAt' = [m \in Messages |-> IF status[m] = "processing" THEN clock ELSE nextAt[m]]
    /\ UNCHANGED <<clock, attempts, createdAt, deliveredAt, issued, promise>>

\* The process stops at any point, without or with notice, and starts again:
\* what it held in memory is lost and open_message_shards puts every claimed
\* row back.  next_attempt_at is not touched.
Restart ==
    /\ selected' = {}
    /\ failing' = {}
    /\ status' = [m \in Messages |-> IF status[m] = "processing" THEN "pending" ELSE status[m]]
    /\ lease' = [m \in Messages |-> IF status[m] = "processing" THEN NoLease ELSE lease[m]]
    /\ UNCHANGED <<clock, attempts, nextAt, createdAt, deliveredAt, issued, promise>>

-----------------------------------------------------------------------------
Publish ==
    \E B \in SUBSET Messages : \E W \in (SUBSET B) \ {{}}, now \in ClockReads :
        EnqueueBatch(B, W, now)

Claim ==
    \/ \E t \in Topics, C \in SUBSET Messages, limit \in 1..ClaimLimit, now \in ClockReads :
          ClaimBatch(t, C, limit, now)
    \/ \E s \in Shards, skip \in SUBSET Topics, m \in Messages, now \in ClockReads :
          DispatchSelect(s, skip, m, now)
    \/ \E sel \in selected : DispatchUpdate(sel)

HolderCall ==
    \E m \in Messages, l \in Leases :
        \/ \E now \in ClockReads : Release(m, l, now)
        \/ \E now \in ClockReads : RenewClaim(m, l, now)
        \/ \E now \in ClockReads : Delivered(m, l, now)
        \/ FailedSelect(m, l)
        \/ DropClaimed(m, l)

Upkeep ==
    \/ \E s \in Shards, now \in ClockReads : ReclaimStale(s, now)
    \/ \E s \in Shards, now \in ClockReads : PurgeOlder(s, now)
    \/ \E s \in Shards, now \in ClockReads : PurgeDelivered(s, now)
    \/ \E t \in Topics : DropPending(t)
    \/ \E t \in Topics : ClearTopic(t)

Next ==
    \/ Tick
    \/ Publish
    \/ Claim
    \/ HolderCall
    \/ \E f \in failing, now \in ClockReads : FailedUpdate(f, now)
    \/ Upkeep
    \/ Restart

Spec == Init /\ [][Next]_vars

\* Time passes, and retention_loop calls reclaim_stale every 60 seconds for as
\* long as the process runs.
LiveSpec ==
    /\ Spec
    /\ WF_vars(Tick)
    /\ \A s \in Shards : WF_vars(\E now \in ClockReads : ReclaimStale(s, now))

-----------------------------------------------------------------------------
(* Properties *)

\* Two callers never own one message at the same time.  A claim or a renewal
\* tells its caller that the message is its own until a deadline; before that
\* deadline no other caller is told so, unless the first one gave the message
\* up (release, ack, nack, drop).  This must survive every order of late
\* calls, reclaim_stale, the dispatcher's two-statement claim and a restart,
\* which forgets the lease but leaves next_attempt_at where it was.
ExclusiveHolders ==
    \A m \in Messages : \A k, l \in Leases :
        promise[m][k] > clock /\ promise[m][l] > clock => k = l

\* `failed` marks a message failed only when it has really been handed out
\* MaxAttempts times, although the attempts it decides on were read by an
\* earlier statement.
FailedOnlyWhenExhausted ==
    \A m \in Messages : status[m] = "failed" => attempts[m] >= MaxAttempts

\* What `failed` read before its UPDATE still describes the row whenever that
\* UPDATE can match: no other operation changes attempts under the same lease.
FailReadsStayCurrent ==
    \A f \in failing : Holds(f.msg, f.lease) => f.attempts = attempts[f.msg]

\* A delivered, failed or dropped message never becomes deliverable again:
\* late releases, nacks, reclaims, restarts and stale dispatcher updates leave
\* it alone until it is deleted, and a deleted message does not come back.
FinalIsFinal ==
    [][\A m \in Messages :
          /\ status[m] \in Final => status'[m] \in {status[m], "gone"}
          /\ status[m] = "gone" => status'[m] = "gone"]_vars

\* A claim that has lapsed, was given up or was taken away stays powerless:
\* a lease that is not the row's present one never becomes it again, so an
\* old token can neither acknowledge nor fail a later delivery.
LostLeaseStaysLost ==
    [][\A m \in Messages : \A l \in 1..issued : lease[m] # l => lease'[m] # l]_vars

\* An acknowledgement or a nack settles only the message it names, although
\* all messages of a claimed batch share one lease.
OnlyOwnCallSettles ==
    [][\A m \in Messages :
          status[m] = "processing" /\ status'[m] \in Final => promise'[m][lease[m]] = 0]_vars

Life == INSTANCE MessageLife
            WITH state <- status, holder <- lease, drawn <- 1..issued, NoToken <- NoLease

\* The statements of db.rs keep the promises of MessageLife: whatever shards,
\* clock readings, two-statement claims and restarts do, a message is taken
\* only while it waits and under a fresh lease, each taking is counted once
\* and no other operation touches the count, and what is settled stays so.
ImplementsLife == Life!Spec

\* A message that was claimed and neither acknowledged nor renewed does not
\* stay claimed: the holder may have crashed, reclaim_stale frees it.
EveryClaimEnds ==
    \A m \in Messages : status[m] = "processing" ~> status[m] # "processing"

=============================================================================
