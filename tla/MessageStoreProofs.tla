------------------------- MODULE MessageStoreProofs -------------------------
(***************************************************************************)
(* Machine-checked proofs about MessageStore, for every number of messages, *)
(* topics, shards and claims, and every value of the time-outs.             *)
(*                                                                          *)
(* ExclusiveHolders is not inductive by itself.  What makes it so is the    *)
(* relation between what holders were told (promise) and what the row says: *)
(* an unexpired promise belongs to the row's present lease and ends no      *)
(* later than next_attempt_at, or the row is pending but not yet claimable  *)
(* (a restart took the lease away), or the row can never be claimed again.  *)
(***************************************************************************)
EXTENDS MessageStore, TLAPS

\* Leaves are left to Zenon, but for those that cite SMT.
USE ZenonT(60)

\* A row is processing exactly when it has a lease, and only leases that were
\* drawn are in use.
LeaseInv ==
    /\ \A m \in Messages : status[m] = "processing" <=> lease[m] # NoLease
    /\ \A m \in Messages : lease[m] <= issued
    /\ \A f \in failing : f.lease <= issued

\* Where an unexpired promise can come from.
PromiseInv ==
    \A m \in Messages : \A l \in Leases :
        promise[m][l] > clock =>
            \/ status[m] = "processing" /\ lease[m] = l /\ promise[m][l] <= nextAt[m]
            \/ status[m] = "pending" /\ promise[m][l] <= nextAt[m]
            \/ status[m] \in Final \cup {"gone"}

\* The message the dispatcher selected was promised to nobody; it may be
\* claimed and given up in the meantime, but while it is pending that is so.
SelectedInv ==
    \A sel \in selected : status[sel.msg] = "pending" =>
        \A l \in Leases : promise[sel.msg][l] <= clock

IInv ==
    /\ TypeOK
    /\ LeaseInv
    /\ PromiseInv
    /\ SelectedInv
    /\ ExclusiveHolders
    /\ FailReadsStayCurrent
    /\ FailedOnlyWhenExhausted

-----------------------------------------------------------------------------
(* The operators the actions are built from *)

\* The back-off delay is a number of seconds.
LEMMA BackoffType == \A n \in Nat : Backoff(n) \in Nat
  BY SMTT(30), BackoffAssumption DEF Backoff

\* A clock reading is not in the future.
LEMMA ClockReadsPast == ASSUME clock \in Nat, NEW now \in ClockReads
                        PROVE  now \in Nat /\ now <= clock
  BY SMTT(30) DEF ClockReads

\* Giving a claim up changes the promise of that claim and of no other.
LEMMA GiveUpFacts ==
    ASSUME promise \in [Messages -> [Leases -> Nat]], NEW m \in Messages, NEW l \in Leases,
           GiveUp(m, l)
    PROVE  /\ promise' \in [Messages -> [Leases -> Nat]]
           /\ promise'[m][l] = 0
           /\ \A n \in Messages, k \in Leases : n # m \/ k # l => promise'[n][k] = promise[n][k]
  BY DEF GiveUp

-----------------------------------------------------------------------------
(* Type correctness *)

\* The empty table is well typed.
LEMMA InitType == Init => TypeOK
  BY SMTT(30), AttemptsAssumption DEF Init, TypeOK, Leases, NoLease, Stored

\* The UPDATE of a claim leaves well-typed rows.
LEMMA TakeLeaseType ==
    ASSUME TypeOK, NEW C \in SUBSET Messages, NEW now \in Nat, TakeLease(C, now),
           selected' \in SUBSET Selections
    PROVE  TypeOK'
  BY SMTT(30), AttemptsAssumption, TimeAssumption DEF TypeOK, TakeLease, Leases, NoLease, Stored

\* Every step of the broker keeps every variable in its range.
LEMMA NextType == TypeOK /\ [Next]_vars => TypeOK'
  <1> SUFFICES ASSUME TypeOK, [Next]_vars PROVE TypeOK'
    OBVIOUS
  <1> USE DEF TypeOK, rows
  <1>1. CASE Tick
    BY SMTT(30), <1>1 DEF Tick
  <1>2. CASE Publish
    BY SMTT(30), <1>2, ClockReadsPast DEF Publish, EnqueueBatch, Stored
  <1>3. ASSUME NEW t \in Topics, NEW C \in SUBSET Messages, NEW limit \in 1..ClaimLimit,
               NEW now \in ClockReads, ClaimBatch(t, C, limit, now)
        PROVE  TypeOK'
    BY <1>3, ClockReadsPast, TakeLeaseType DEF ClaimBatch
  <1>4. ASSUME NEW s \in Shards, NEW skip \in SUBSET Topics, NEW m \in Messages,
               NEW now \in ClockReads, DispatchSelect(s, skip, m, now)
        PROVE  TypeOK'
    BY SMTT(30), <1>4, ClockReadsPast DEF DispatchSelect, Selections
  <1>5. ASSUME NEW sel \in selected, DispatchUpdate(sel)
        PROVE  TypeOK'
    <2>1. sel.msg \in Messages /\ sel.now \in Nat
      BY DEF Selections
    <2>2. CASE status[sel.msg] = "pending"
      BY <1>5, <2>1, <2>2, TakeLeaseType DEF DispatchUpdate
    <2>3. CASE status[sel.msg] # "pending"
      BY <1>5, <2>3 DEF DispatchUpdate, TakeLease
    <2> QED BY <2>2, <2>3
  <1>6. ASSUME NEW m \in Messages, NEW l \in Leases, NEW now \in ClockReads, Release(m, l, now)
        PROVE  TypeOK'
    BY <1>6, ClockReadsPast DEF Release, GiveUp, Stored
  <1>7. ASSUME NEW m \in Messages, NEW l \in Leases, NEW now \in ClockReads, RenewClaim(m, l, now)
        PROVE  TypeOK'
    BY SMTT(30), <1>7, ClockReadsPast, TimeAssumption DEF RenewClaim
  <1>8. ASSUME NEW m \in Messages, NEW l \in Leases, NEW now \in ClockReads, Delivered(m, l, now)
        PROVE  TypeOK'
    BY <1>8, ClockReadsPast DEF Delivered, GiveUp, Stored
  <1>9. ASSUME NEW m \in Messages, NEW l \in Leases, FailedSelect(m, l)
        PROVE  TypeOK'
    BY SMTT(30), <1>9 DEF FailedSelect, FailReads
  <1>10. ASSUME NEW m \in Messages, NEW l \in Leases, DropClaimed(m, l)
        PROVE  TypeOK'
    BY <1>10 DEF DropClaimed, GiveUp, Stored
  <1>11. ASSUME NEW f \in failing, NEW now \in ClockReads, FailedUpdate(f, now)
        PROVE  TypeOK'
    <2>1. f.msg \in Messages /\ f.lease \in Leases /\ f.attempts \in Nat
      BY DEF FailReads
    <2>2. now + Backoff(f.attempts) \in Nat
      BY SMTT(30), <2>1, BackoffType, ClockReadsPast
    <2>3. CASE Holds(f.msg, f.lease)
      <3>1. status' \in [Messages -> Stored \cup {"none", "gone"}]
        BY <1>11, <2>1, <2>3 DEF FailedUpdate, Stored
      <3>2. /\ nextAt' = [nextAt EXCEPT ![f.msg] = now + Backoff(f.attempts)]
            /\ lease' = [lease EXCEPT ![f.msg] = NoLease]
            /\ GiveUp(f.msg, f.lease)
        BY <1>11, <2>3 DEF FailedUpdate
      <3>3. nextAt' \in [Messages -> Nat]
        BY <2>2, <3>2
      <3>4. lease' \in [Messages -> Leases \cup {NoLease}]
        BY <3>2
      <3>5. promise' \in [Messages -> [Leases -> Nat]]
        BY <2>1, <3>2, GiveUpFacts
      <3> QED BY <1>11, <2>3, <3>1, <3>3, <3>4, <3>5 DEF FailedUpdate
    <2>4. CASE ~Holds(f.msg, f.lease)
      BY <1>11, <2>4 DEF FailedUpdate
    <2> QED BY <2>3, <2>4
  <1>12. CASE Upkeep
    BY SMTT(30), <1>12 DEF Upkeep, ReclaimStale, PurgeOlder, PurgeDelivered, DropPending,
       ClearTopic,
                 DeleteRows, Stored
  <1>13. CASE Restart
    BY <1>13 DEF Restart, Stored
  <1>14. CASE UNCHANGED vars
    BY <1>14 DEF vars
  <1> QED
    BY <1>1, <1>2, <1>3, <1>4, <1>5, <1>6, <1>7, <1>8, <1>9, <1>10, <1>11, <1>12, <1>13, <1>14
    DEF Next, Claim, HolderCall

\* Type correctness: every column of the table, and what the calls in
\* progress hold, stays in its range.
THEOREM TypeCorrect == Spec => []TypeOK
  BY InitType, NextType, PTL DEF Spec

-----------------------------------------------------------------------------
(* The inductive invariant *)

\* The empty table satisfies the inductive invariant.
LEMMA InitInv == Init => IInv
  <1> SUFFICES ASSUME Init PROVE IInv
    OBVIOUS
  <1>1. TypeOK
    BY InitType
  <1>2. LeaseInv /\ PromiseInv /\ SelectedInv
    BY SMTT(30) DEF Init, LeaseInv, PromiseInv, SelectedInv, NoLease, Leases
  <1>3. ExclusiveHolders /\ FailReadsStayCurrent /\ FailedOnlyWhenExhausted
    BY SMTT(30) DEF Init, ExclusiveHolders, FailReadsStayCurrent, FailedOnlyWhenExhausted
  <1> QED BY <1>1, <1>2, <1>3 DEF IInv

\* A claim of pending messages that are promised to nobody keeps the invariant.
LEMMA TakeLeaseInv ==
    ASSUME IInv, TypeOK', NEW C \in SUBSET Messages, NEW now \in Nat, TakeLease(C, now),
           \A m \in C : status[m] = "pending" /\ \A l \in Leases : promise[m][l] <= clock,
           selected' \subseteq selected
    PROVE  IInv'
  <1> USE DEF IInv, TypeOK, TakeLease
  <1>0. issued + 1 \in Leases /\ issued + 1 # NoLease /\ issued + 1 \in Nat
    BY SMTT(30), AttemptsAssumption DEF Leases, NoLease
  <1>1. LeaseInv'
    BY SMTT(30), <1>0 DEF LeaseInv, Leases, NoLease, FailReads
  <1>2. PromiseInv'
    <2> SUFFICES ASSUME NEW m \in Messages, NEW l \in Leases, promise'[m][l] > clock'
                 PROVE  \/ status'[m] = "processing" /\ lease'[m] = l /\ promise'[m][l] <= nextAt'[m]
                        \/ status'[m] = "pending" /\ promise'[m][l] <= nextAt'[m]
                        \/ status'[m] \in Final \cup {"gone"}
      BY DEF PromiseInv
    <2>1. CASE m \in C
      <3>1. promise'[m] = [promise[m] EXCEPT ![issued + 1] = now + Visibility]
        BY <2>1
      <3>2. l = issued + 1 /\ promise'[m][l] = now + Visibility
        BY SMTT(30), <1>0, <2>1, <3>1, TimeAssumption
      <3> QED BY SMTT(30), <2>1, <3>2, TimeAssumption
    <2>2. CASE m \notin C
      BY <2>2 DEF PromiseInv
    <2> QED BY <2>1, <2>2
  <1>3. SelectedInv'
    BY DEF SelectedInv, Selections
  <1>4. ExclusiveHolders'
    BY SMTT(30), <1>0 DEF ExclusiveHolders
  <1>5. FailReadsStayCurrent'
    BY SMTT(30), <1>0 DEF FailReadsStayCurrent, Holds, LeaseInv, FailReads, Leases
  <1>6. FailedOnlyWhenExhausted'
    BY AttemptsAssumption DEF FailedOnlyWhenExhausted
  <1> QED BY <1>1, <1>2, <1>3, <1>4, <1>5, <1>6

\* A holder that settles or returns its message, in one of the ways the calls
\* do it, keeps the invariant.
LEMMA SettleInv ==
    ASSUME IInv, TypeOK', NEW m \in Messages, NEW l \in Leases, Holds(m, l),
           NEW st \in {"pending"} \cup Final, st = "failed" => attempts[m] >= MaxAttempts,
           status' = [status EXCEPT ![m] = st], lease' = [lease EXCEPT ![m] = NoLease],
           GiveUp(m, l), \A n \in Messages : n # m => nextAt'[n] = nextAt[n],
           failing' \subseteq failing, UNCHANGED <<clock, attempts, issued, selected>>
    PROVE  IInv'
  <1> USE DEF IInv, TypeOK
  <1>0. /\ promise'[m][l] = 0
        /\ \A n \in Messages, k \in Leases : n # m \/ k # l => promise'[n][k] = promise[n][k]
    BY GiveUpFacts
  <1>00. ASSUME NEW k \in Leases PROVE promise'[m][k] <= clock
    <2>1. CASE k = l
      BY SMTT(30), <1>0, <2>1
    <2>2. CASE k # l
      <3>1. promise[m][k] \in Nat /\ clock \in Nat
        BY SMTT(30)
      <3>2. ~(promise[m][k] > clock)
        BY <2>2, Zenon DEF PromiseInv, Holds, Final
      <3> QED BY SMTT(30), <1>0, <2>2, <3>1, <3>2
    <2> QED BY <2>1, <2>2
  <1>1. LeaseInv'
    BY SMTT(30) DEF LeaseInv, Final, NoLease
  <1>2. PromiseInv'
    BY SMTT(30), <1>0, <1>00 DEF PromiseInv
  <1>3. SelectedInv'
    BY SMTT(30), <1>0, <1>00 DEF SelectedInv, Selections
  <1>4. ExclusiveHolders'
    <2> SUFFICES ASSUME NEW n \in Messages, NEW j \in Leases, NEW k \in Leases,
                        promise'[n][j] > clock, promise'[n][k] > clock
                 PROVE  j = k
      BY DEF ExclusiveHolders
    <2>1. n # m
      BY SMTT(30), <1>00
    <2> QED BY <1>0, <2>1 DEF ExclusiveHolders
  <1>5. FailReadsStayCurrent'
    BY DEF FailReadsStayCurrent, Holds, FailReads, Final
  <1>6. FailedOnlyWhenExhausted'
    BY DEF FailedOnlyWhenExhausted
  <1> QED BY <1>1, <1>2, <1>3, <1>4, <1>5, <1>6

\* Taking leases away from rows that are promised to nobody, or that can then
\* never be claimed, keeps the invariant.
LEMMA RevokeInv ==
    ASSUME IInv, TypeOK', NEW D \in SUBSET Messages,
           NEW st \in {"pending", "dropped", "gone"},
           st = "pending" => \A m \in D, l \in Leases : promise[m][l] <= clock,
           status' = [m \in Messages |-> IF m \in D THEN st ELSE status[m]],
           lease' = [m \in Messages |-> IF m \in D THEN NoLease ELSE lease[m]],
           UNCHANGED <<clock, attempts, nextAt, issued, selected, failing, promise>>
    PROVE  IInv'
  <1> USE DEF IInv, TypeOK
  <1>1. LeaseInv'
    BY SMTT(30) DEF LeaseInv, NoLease
  <1>2. PromiseInv'
    BY SMTT(30) DEF PromiseInv, Final
  <1>3. SelectedInv'
    BY DEF SelectedInv, Selections
  <1>4. ExclusiveHolders'
    BY DEF ExclusiveHolders
  <1>5. FailReadsStayCurrent'
    BY DEF FailReadsStayCurrent, Holds, FailReads, Leases, NoLease
  <1>6. FailedOnlyWhenExhausted'
    BY DEF FailedOnlyWhenExhausted
  <1> QED BY <1>1, <1>2, <1>3, <1>4, <1>5, <1>6

\* A message that is ready was promised to nobody whose time is not over.
LEMMA ReadyUnpromised ==
    ASSUME IInv, NEW now \in ClockReads, NEW m \in Ready(now), NEW l \in Leases
    PROVE  promise[m][l] <= clock
  <1>1. now \in Nat /\ now <= clock /\ clock \in Nat
    BY ClockReadsPast DEF IInv, TypeOK
  <1>2. m \in Messages /\ status[m] = "pending" /\ nextAt[m] <= now
    BY DEF Ready
  <1>3. promise[m][l] \in Nat /\ nextAt[m] \in Nat
    BY <1>2 DEF IInv, TypeOK
  <1>4. promise[m][l] > clock => promise[m][l] <= nextAt[m]
    BY <1>2 DEF IInv, PromiseInv, Final
  <1> QED BY SMTT(30), <1>1, <1>2, <1>3, <1>4

\* So is a claim whose deadline has passed.
LEMMA ExpiredUnpromised ==
    ASSUME IInv, NEW now \in ClockReads, NEW m \in Messages, NEW l \in Leases,
           status[m] = "processing", nextAt[m] <= now
    PROVE  promise[m][l] <= clock
  <1>1. now \in Nat /\ now <= clock /\ clock \in Nat
    BY ClockReadsPast DEF IInv, TypeOK
  <1>2. promise[m][l] \in Nat /\ nextAt[m] \in Nat
    BY DEF IInv, TypeOK
  <1>3. promise[m][l] > clock => promise[m][l] <= nextAt[m]
    BY DEF IInv, PromiseInv, Final
  <1> QED BY SMTT(30), <1>1, <1>2, <1>3

\* Every step of the broker keeps the inductive invariant, one case per action.
LEMMA NextInv == IInv /\ [Next]_vars => IInv'
  <1> SUFFICES ASSUME IInv, [Next]_vars PROVE IInv'
    OBVIOUS
  <1>0. TypeOK'
    BY NextType DEF IInv
  <1> USE DEF rows
  <1>1. CASE Tick
    <2>1. LeaseInv' /\ FailReadsStayCurrent' /\ FailedOnlyWhenExhausted'
      BY <1>1 DEF Tick, IInv, LeaseInv, FailReadsStayCurrent, FailedOnlyWhenExhausted, Holds
    <2>2. PromiseInv'
      BY SMTT(30), <1>1 DEF Tick, IInv, TypeOK, PromiseInv
    <2>3. SelectedInv'
      BY SMTT(30), <1>1 DEF Tick, IInv, TypeOK, SelectedInv, Selections
    <2>4. ExclusiveHolders'
      BY SMTT(30), <1>1 DEF Tick, IInv, TypeOK, ExclusiveHolders
    <2> QED BY <1>0, <2>1, <2>2, <2>3, <2>4 DEF IInv
  <1>2. ASSUME NEW B \in SUBSET Messages, NEW W \in SUBSET B, NEW now \in ClockReads,
               EnqueueBatch(B, W, now)
        PROVE  IInv'
    <2> USE <1>2 DEF EnqueueBatch
    <2>1. LeaseInv' /\ FailReadsStayCurrent' /\ FailedOnlyWhenExhausted'
      BY DEF IInv, TypeOK, FailReads, LeaseInv, FailReadsStayCurrent, FailedOnlyWhenExhausted,
         Holds
    <2>2. ASSUME NEW m \in W, NEW l \in Leases PROVE promise[m][l] <= clock
      <3>1. m \in Messages /\ status[m] = "none"
        OBVIOUS
      <3>2. promise[m][l] \in Nat /\ clock \in Nat
        BY <3>1 DEF IInv, TypeOK
      <3>3. ~(promise[m][l] > clock)
        BY <3>1 DEF IInv, PromiseInv, Final
      <3> QED BY SMTT(30), <3>2, <3>3
    <2>3. PromiseInv'
      BY SMTT(30), <2>2 DEF IInv, TypeOK, PromiseInv
    <2>4. SelectedInv'
      BY <2>2 DEF IInv, SelectedInv, TypeOK, Selections
    <2>5. ExclusiveHolders'
      BY DEF IInv, ExclusiveHolders
    <2> QED BY <1>0, <2>1, <2>3, <2>4, <2>5 DEF IInv
  <1>3. ASSUME NEW t \in Topics, NEW C \in SUBSET Messages, NEW limit \in 1..ClaimLimit,
               NEW now \in ClockReads, ClaimBatch(t, C, limit, now)
        PROVE  IInv'
    <2>1. \A m \in C : m \in Ready(now)
      BY <1>3 DEF ClaimBatch, OldestOf
    <2>2. \A m \in C : status[m] = "pending" /\ \A l \in Leases : promise[m][l] <= clock
      BY <2>1, ReadyUnpromised DEF Ready
    <2>3. now \in Nat
      BY ClockReadsPast DEF IInv, TypeOK
    <2> QED BY <1>0, <1>3, <2>2, <2>3, TakeLeaseInv DEF ClaimBatch
  <1>4. ASSUME NEW s \in Shards, NEW skip \in SUBSET Topics, NEW m \in Messages,
               NEW now \in ClockReads, DispatchSelect(s, skip, m, now)
        PROVE  IInv'
    <2>1. m \in Ready(now)
      BY <1>4 DEF DispatchSelect, OldestOf
    <2>2. SelectedInv'
      BY SMTT(30), <1>4, <2>1, ReadyUnpromised DEF DispatchSelect, SelectedInv
    <2>3. LeaseInv' /\ PromiseInv' /\ ExclusiveHolders'
      BY <1>4 DEF DispatchSelect, IInv, LeaseInv, PromiseInv, ExclusiveHolders
    <2>4. FailReadsStayCurrent' /\ FailedOnlyWhenExhausted'
      BY <1>4 DEF DispatchSelect, IInv, FailReadsStayCurrent, FailedOnlyWhenExhausted, Holds
    <2> QED BY <1>0, <2>2, <2>3, <2>4 DEF IInv
  <1>5. ASSUME NEW sel \in selected, DispatchUpdate(sel)
        PROVE  IInv'
    <2>1. sel.msg \in Messages /\ sel.now \in Nat
      BY DEF IInv, TypeOK, Selections
    <2>2. CASE status[sel.msg] = "pending"
      <3>1. \A l \in Leases : promise[sel.msg][l] <= clock
        BY <2>2 DEF IInv, SelectedInv
      <3> QED BY SMTT(30), <1>0, <1>5, <2>1, <2>2, <3>1, TakeLeaseInv DEF DispatchUpdate
    <2>3. CASE status[sel.msg] # "pending"
      <3>1. UNCHANGED <<clock, rows, issued, failing, promise>> /\ selected' = {}
        BY <1>5, <2>3 DEF DispatchUpdate
      <3>2. LeaseInv' /\ PromiseInv' /\ ExclusiveHolders' /\ SelectedInv'
        BY <3>1 DEF IInv, LeaseInv, PromiseInv, ExclusiveHolders, SelectedInv
      <3>3. FailReadsStayCurrent' /\ FailedOnlyWhenExhausted'
        BY <3>1 DEF IInv, FailReadsStayCurrent, FailedOnlyWhenExhausted, Holds
      <3> QED BY <1>0, <3>2, <3>3 DEF IInv
    <2> QED BY <2>2, <2>3
  <1>6. ASSUME NEW m \in Messages, NEW l \in Leases, NEW now \in ClockReads, Release(m, l, now)
        PROVE  IInv'
    <2>1. \A n \in Messages : n # m => nextAt'[n] = nextAt[n]
      BY <1>6 DEF Release, IInv, TypeOK
    <2> QED BY <1>0, <1>6, <2>1, SettleInv DEF Release, Final
  <1>7. ASSUME NEW m \in Messages, NEW l \in Leases, NEW now \in ClockReads, RenewClaim(m, l, now)
        PROVE  IInv'
    <2> USE <1>7 DEF RenewClaim
    <2>1. LeaseInv' /\ FailReadsStayCurrent' /\ FailedOnlyWhenExhausted'
      BY DEF IInv, LeaseInv, FailReadsStayCurrent, FailedOnlyWhenExhausted, Holds
    <2>2. ASSUME NEW n \in Messages, NEW k \in Leases
          PROVE  /\ n # m => promise'[n][k] = promise[n][k] /\ nextAt'[n] = nextAt[n]
                 /\ k # l => promise'[m][k] = promise[m][k]
                 /\ promise'[m][l] = nextAt'[m]
      BY DEF IInv, TypeOK
    <2>3. nextAt'[m] \in Nat
      BY <1>0 DEF TypeOK
    <2>4. \A k \in Leases : k # l => ~(promise[m][k] > clock)
      BY DEF IInv, PromiseInv, Holds, Final
    <2>5. PromiseInv'
      BY SMTT(30), <2>2, <2>3, <2>4 DEF IInv, PromiseInv, Holds
    <2>6. SelectedInv'
      BY <2>2 DEF IInv, SelectedInv, TypeOK, Selections, Holds
    <2>7. ExclusiveHolders'
      BY SMTT(30), <2>2, <2>4 DEF IInv, ExclusiveHolders
    <2> QED BY <1>0, <2>1, <2>5, <2>6, <2>7 DEF IInv
  <1>8. ASSUME NEW m \in Messages, NEW l \in Leases, NEW now \in ClockReads, Delivered(m, l, now)
        PROVE  IInv'
    BY <1>0, <1>8, SettleInv DEF Delivered, Final
  <1>9. ASSUME NEW m \in Messages, NEW l \in Leases, FailedSelect(m, l)
        PROVE  IInv'
    <2> USE <1>9 DEF FailedSelect
    <2>1. LeaseInv'
      BY SMTT(30) DEF IInv, LeaseInv, Holds
    <2>2. FailReadsStayCurrent'
      BY SMTT(30) DEF IInv, FailReadsStayCurrent, Holds
    <2>3. PromiseInv' /\ SelectedInv' /\ ExclusiveHolders' /\ FailedOnlyWhenExhausted'
      BY DEF IInv, PromiseInv, SelectedInv, ExclusiveHolders, FailedOnlyWhenExhausted
    <2> QED BY <1>0, <2>1, <2>2, <2>3 DEF IInv
  <1>10. ASSUME NEW m \in Messages, NEW l \in Leases, DropClaimed(m, l)
        PROVE  IInv'
    BY <1>0, <1>10, SettleInv DEF DropClaimed, Final
  <1>11. ASSUME NEW f \in failing, NEW now \in ClockReads, FailedUpdate(f, now)
        PROVE  IInv'
    <2>1. f.msg \in Messages /\ f.lease \in Leases /\ f.attempts \in Nat
      BY DEF IInv, TypeOK, FailReads
    <2>2. CASE Holds(f.msg, f.lease)
      <3> DEFINE st == IF f.attempts >= MaxAttempts THEN "failed" ELSE "pending"
      <3>1. st \in {"pending"} \cup Final /\ (st = "failed" => attempts[f.msg] >= MaxAttempts)
        BY <2>2 DEF Final, IInv, FailReadsStayCurrent
      <3>2. /\ status' = [status EXCEPT ![f.msg] = st]
            /\ lease' = [lease EXCEPT ![f.msg] = NoLease]
            /\ GiveUp(f.msg, f.lease)
            /\ failing' \subseteq failing
            /\ UNCHANGED <<clock, attempts, issued, selected>>
        BY <1>11, <2>2 DEF FailedUpdate
      <3>3. \A n \in Messages : n # f.msg => nextAt'[n] = nextAt[n]
        BY <1>11, <2>2 DEF FailedUpdate, IInv, TypeOK
      <3> HIDE DEF st
      <3> QED BY <1>0, <2>1, <2>2, <3>1, <3>2, <3>3, SettleInv
    <2>3. CASE ~Holds(f.msg, f.lease)
      <3>1. UNCHANGED <<clock, rows, issued, selected, promise>> /\ failing' \subseteq failing
        BY <1>11, <2>3 DEF FailedUpdate
      <3>2. LeaseInv' /\ PromiseInv' /\ ExclusiveHolders' /\ SelectedInv'
        BY <3>1 DEF IInv, LeaseInv, PromiseInv, ExclusiveHolders, SelectedInv
      <3>3. FailReadsStayCurrent' /\ FailedOnlyWhenExhausted'
        BY <3>1 DEF IInv, FailReadsStayCurrent, FailedOnlyWhenExhausted, Holds
      <3> QED BY <1>0, <3>2, <3>3 DEF IInv
    <2> QED BY <2>2, <2>3
  <1>12. ASSUME NEW s \in Shards, NEW now \in ClockReads, ReclaimStale(s, now)
        PROVE  IInv'
    <2> DEFINE stale == {m \in Messages : /\ ShardOf[TopicOf[m]] = s
                                          /\ status[m] = "processing"
                                          /\ nextAt[m] <= now}
    <2>1. \A m \in stale, l \in Leases : promise[m][l] <= clock
      BY ExpiredUnpromised
    <2>2. /\ status' = [m \in Messages |-> IF m \in stale THEN "pending" ELSE status[m]]
          /\ lease' = [m \in Messages |-> IF m \in stale THEN NoLease ELSE lease[m]]
          /\ UNCHANGED <<clock, attempts, nextAt, issued, selected, failing, promise>>
      BY <1>12 DEF ReclaimStale
    <2>3. stale \in SUBSET Messages
      OBVIOUS
    <2> HIDE DEF stale
    <2> QED BY <1>0, <2>1, <2>2, <2>3, RevokeInv
  <1>13. ASSUME NEW t \in Topics, DropPending(t)
        PROVE  IInv'
    <2> DEFINE waiting == {m \in Messages : TopicOf[m] = t /\ status[m] = "pending"}
    <2>1. /\ status' = [m \in Messages |-> IF m \in waiting THEN "dropped" ELSE status[m]]
          /\ lease' = [m \in Messages |-> IF m \in waiting THEN NoLease ELSE lease[m]]
          /\ UNCHANGED <<clock, attempts, nextAt, issued, selected, failing, promise>>
      BY <1>13 DEF DropPending
    <2>2. waiting \in SUBSET Messages
      OBVIOUS
    <2> HIDE DEF waiting
    <2> QED BY <1>0, <2>1, <2>2, RevokeInv
  <1>14. ASSUME NEW D \in SUBSET Messages, DeleteRows(D)
        PROVE  IInv'
    BY <1>0, <1>14, RevokeInv DEF DeleteRows
  <1>15. CASE Restart
    <2> USE <1>15 DEF Restart
    <2>1. LeaseInv'
      BY SMTT(30) DEF IInv, TypeOK, LeaseInv, NoLease
    <2>2. PromiseInv'
      <3>1. ASSUME NEW m \in Messages
            PROVE  \/ status'[m] = status[m] /\ lease'[m] = lease[m] /\ status[m] # "processing"
                   \/ status'[m] = "pending" /\ status[m] = "processing"
        BY DEF IInv, TypeOK
      <3>2. ASSUME NEW m \in Messages, NEW l \in Leases, promise[m][l] > clock
            PROVE  \/ status'[m] = "processing" /\ lease'[m] = l /\ promise[m][l] <= nextAt[m]
                   \/ status'[m] = "pending" /\ promise[m][l] <= nextAt[m]
                   \/ status'[m] \in Final \cup {"gone"}
        <4>1. CASE status[m] = "processing"
          BY <3>1, <3>2, <4>1 DEF IInv, PromiseInv, Final
        <4>2. CASE status[m] # "processing"
          BY <3>1, <3>2, <4>2 DEF IInv, PromiseInv
        <4> QED BY <4>1, <4>2
      <3>3. promise' = promise /\ clock' = clock /\ nextAt' = nextAt
        OBVIOUS
      <3> HIDE <1>15 DEF Restart
      <3> QED BY <3>2, <3>3 DEF PromiseInv
    <2>3. SelectedInv' /\ ExclusiveHolders'
      BY DEF IInv, SelectedInv, ExclusiveHolders
    <2>4. FailReadsStayCurrent' /\ FailedOnlyWhenExhausted'
      BY DEF IInv, TypeOK, FailReadsStayCurrent, FailedOnlyWhenExhausted
    <2> QED BY <1>0, <2>1, <2>2, <2>3, <2>4 DEF IInv
  <1>16. CASE UNCHANGED vars
    BY <1>0, <1>16 DEF vars, IInv, LeaseInv, PromiseInv, SelectedInv, ExclusiveHolders,
                       FailReadsStayCurrent, FailedOnlyWhenExhausted, Holds
  <1>17. CASE Upkeep
    <2>1. ASSUME NEW s \in Shards, NEW now \in ClockReads, PurgeOlder(s, now) PROVE IInv'
      BY <1>14, <2>1 DEF PurgeOlder
    <2>2. ASSUME NEW s \in Shards, NEW now \in ClockReads, PurgeDelivered(s, now) PROVE IInv'
      BY <1>14, <2>2 DEF PurgeDelivered
    <2>3. ASSUME NEW t \in Topics, ClearTopic(t) PROVE IInv'
      BY <1>14, <2>3 DEF ClearTopic
    <2> QED BY <1>12, <1>13, <1>17, <2>1, <2>2, <2>3 DEF Upkeep
  <1>18. CASE Publish
    BY <1>2, <1>18 DEF Publish
  <1>19. CASE Claim
    BY <1>3, <1>4, <1>5, <1>19 DEF Claim
  <1>20. CASE HolderCall
    BY <1>6, <1>7, <1>8, <1>9, <1>10, <1>20 DEF HolderCall
  <1> QED
    BY <1>1, <1>11, <1>15, <1>16, <1>17, <1>18, <1>19, <1>20 DEF Next

\* The inductive invariant holds throughout.
LEMMA Invariant == Spec => []IInv
  BY InitInv, NextInv, PTL DEF Spec

-----------------------------------------------------------------------------
(* What follows for the broker *)

\* Two callers never own one message at the same time, whatever claims,
\* renewals, reclaims, restarts and late calls interleave (db.rs:1238-1581).
THEOREM NoTwoHolders == Spec => []ExclusiveHolders
  BY Invariant, PTL DEF IInv

\* `failed` (db.rs:1533) gives a message up only after MaxAttempts deliveries.
THEOREM FailureIsEarned == Spec => []FailedOnlyWhenExhausted
  BY Invariant, PTL DEF IInv

\* What `failed` read is current whenever its UPDATE can match (db.rs:1533).
THEOREM FailureIsCurrent == Spec => []FailReadsStayCurrent
  BY Invariant, PTL DEF IInv

-----------------------------------------------------------------------------
(* What one step may do to one row *)

\* The life of a row: inserted, claimed, settled by its holder or taken back,
\* dropped while it waits, deleted.
RowStep(m) ==
    \/ status'[m] = status[m] /\ lease'[m] = lease[m]
    \/ status[m] = "none" /\ status'[m] = "pending" /\ lease'[m] = lease[m]
    \/ status[m] = "pending" /\ status'[m] = "processing" /\ lease'[m] = issued + 1
    \/ /\ status[m] = "processing" /\ lease'[m] = NoLease
       /\ \/ status'[m] = "pending"
          \/ status'[m] \in Final /\ promise'[m][lease[m]] = 0
    \/ status[m] = "pending" /\ status'[m] = "dropped" /\ lease'[m] = NoLease
    \/ status[m] \in Stored /\ status'[m] = "gone" /\ lease'[m] = NoLease

\* A claim of pending rows changes each row the way RowStep says.
LEMMA TakeLeaseRow ==
    ASSUME TypeOK, NEW C \in SUBSET Messages, NEW now \in Nat, TakeLease(C, now),
           \A n \in C : status[n] = "pending",
           NEW m \in Messages
    PROVE  RowStep(m)
  BY DEF TakeLease, RowStep

\* A holder's call changes the row it names and no other.
LEMMA SettleRow ==
    ASSUME TypeOK, NEW n \in Messages, NEW l \in Leases, Holds(n, l), GiveUp(n, l),
           NEW st, st \in {"pending"} \cup Final,
           status' = [status EXCEPT ![n] = st],
           lease' = [lease EXCEPT ![n] = NoLease],
           NEW m \in Messages
    PROVE  RowStep(m)
  <1>1. promise'[n][l] = 0
    BY DEF GiveUp, TypeOK
  <1>2. CASE m = n
    BY <1>1, <1>2 DEF RowStep, TypeOK, Holds
  <1>3. CASE m # n
    BY <1>3 DEF RowStep, TypeOK
  <1> QED BY <1>2, <1>3

\* Every step of the broker changes each row the way RowStep says.
LEMMA NextRow ==
    ASSUME TypeOK, [Next]_vars, NEW m \in Messages
    PROVE  RowStep(m)
  <1>1. CASE Tick \/ UNCHANGED vars
    BY <1>1 DEF Tick, vars, rows, RowStep
  <1>2. CASE Publish
    <2> SUFFICES ASSUME NEW B \in SUBSET Messages, NEW W \in SUBSET B, NEW now \in ClockReads,
                        EnqueueBatch(B, W, now)
                 PROVE  RowStep(m)
      BY <1>2 DEF Publish
    <2>1. CASE m \in W
      BY <2>1 DEF EnqueueBatch, RowStep
    <2>2. CASE m \notin W
      BY <2>2 DEF EnqueueBatch, RowStep
    <2> QED BY <2>1, <2>2
  <1>3. CASE Claim
    <2>1. ASSUME NEW t \in Topics, NEW C \in SUBSET Messages, NEW limit \in 1..ClaimLimit,
                 NEW now \in ClockReads, ClaimBatch(t, C, limit, now)
          PROVE  RowStep(m)
      <3>1. TakeLease(C, now) /\ \A n \in C : status[n] = "pending"
        BY <2>1 DEF ClaimBatch, OldestOf, Ready
      <3>2. now \in Nat
        BY SMTT(30) DEF ClockReads, TypeOK
      <3> QED BY <3>1, <3>2, TakeLeaseRow
    <2>2. ASSUME NEW s \in Shards, NEW skip \in SUBSET Topics, NEW n \in Messages,
                 NEW now \in ClockReads, DispatchSelect(s, skip, n, now)
          PROVE  RowStep(m)
      BY <2>2 DEF DispatchSelect, rows, RowStep
    <2>3. ASSUME NEW sel \in selected, DispatchUpdate(sel)
          PROVE  RowStep(m)
      <3>1. {sel.msg} \in SUBSET Messages /\ sel.now \in Nat
        BY DEF TypeOK, Selections
      <3>2. CASE status[sel.msg] = "pending"
        <4>1. TakeLease({sel.msg}, sel.now) /\ \A n \in {sel.msg} : status[n] = "pending"
          BY <2>3, <3>2 DEF DispatchUpdate
        <4> QED BY <3>1, <4>1, TakeLeaseRow
      <3>3. CASE status[sel.msg] # "pending"
        BY <2>3, <3>3 DEF DispatchUpdate, rows, RowStep
      <3> QED BY <3>2, <3>3
    <2> QED BY <1>3, <2>1, <2>2, <2>3 DEF Claim
  <1>4. CASE HolderCall
    <2> SUFFICES ASSUME NEW n \in Messages, NEW l \in Leases,
                        \/ \E now \in ClockReads : Release(n, l, now)
                        \/ \E now \in ClockReads : RenewClaim(n, l, now)
                        \/ \E now \in ClockReads : Delivered(n, l, now)
                        \/ FailedSelect(n, l)
                        \/ DropClaimed(n, l)
                 PROVE  RowStep(m)
      BY <1>4 DEF HolderCall
    <2>1. CASE \E now \in ClockReads : Release(n, l, now)
      BY <2>1, SettleRow DEF Release
    <2>2. CASE \E now \in ClockReads : RenewClaim(n, l, now)
      BY <2>2 DEF RenewClaim, RowStep
    <2>3. CASE \E now \in ClockReads : Delivered(n, l, now)
      BY <2>3, SettleRow DEF Delivered, Final
    <2>4. CASE FailedSelect(n, l)
      BY <2>4 DEF FailedSelect, rows, RowStep
    <2>5. CASE DropClaimed(n, l)
      BY <2>5, SettleRow DEF DropClaimed, Final
    <2> QED BY <2>1, <2>2, <2>3, <2>4, <2>5
  <1>5. ASSUME NEW f \in failing, NEW now \in ClockReads, FailedUpdate(f, now)
        PROVE  RowStep(m)
    <2>1. f.msg \in Messages /\ f.lease \in Leases
      BY DEF TypeOK, FailReads
    <2>2. CASE Holds(f.msg, f.lease)
      <3> DEFINE st == IF f.attempts >= MaxAttempts THEN "failed" ELSE "pending"
      <3>1. st \in {"pending"} \cup Final
        BY DEF Final
      <3>2. /\ status' = [status EXCEPT ![f.msg] = st]
            /\ lease' = [lease EXCEPT ![f.msg] = NoLease]
            /\ GiveUp(f.msg, f.lease)
        BY <1>5, <2>2 DEF FailedUpdate
      <3> HIDE DEF st
      <3> QED BY <2>1, <2>2, <3>1, <3>2, SettleRow
    <2>3. CASE ~Holds(f.msg, f.lease)
      BY <1>5, <2>3 DEF FailedUpdate, rows, RowStep
    <2> QED BY <2>2, <2>3
  <1>6. CASE Upkeep
    <2>1. ASSUME NEW D \in SUBSET Messages, DeleteRows(D), \A n \in D : status[n] \in Stored
          PROVE  RowStep(m)
      BY <2>1 DEF DeleteRows, RowStep
    <2>2. ASSUME NEW s \in Shards, NEW now \in ClockReads,
                 ReclaimStale(s, now) \/ PurgeOlder(s, now) \/ PurgeDelivered(s, now)
          PROVE  RowStep(m)
      <3>1. CASE ReclaimStale(s, now)
        BY <3>1 DEF ReclaimStale, RowStep
      <3>2. CASE PurgeOlder(s, now)
        BY <2>1, <3>2 DEF PurgeOlder
      <3>3. CASE PurgeDelivered(s, now)
        BY <2>1, <3>3 DEF PurgeDelivered, Stored
      <3> QED BY <2>2, <3>1, <3>2, <3>3
    <2>3. ASSUME NEW t \in Topics, DropPending(t) PROVE RowStep(m)
      BY <2>3 DEF DropPending, RowStep
    <2>4. ASSUME NEW t \in Topics, ClearTopic(t) PROVE RowStep(m)
      BY <2>1, <2>4 DEF ClearTopic
    <2> QED BY <1>6, <2>2, <2>3, <2>4 DEF Upkeep
  <1>7. CASE Restart
    BY <1>7 DEF Restart, RowStep
  <1> QED
    BY <1>1, <1>2, <1>3, <1>4, <1>5, <1>6, <1>7 DEF Next

\* A settled message stays settled until it is deleted, and a deleted one does
\* not come back (the status and lease tests of every UPDATE, db.rs:1174-1581).
THEOREM SettledForGood == Spec => FinalIsFinal
  <1>1. ASSUME TypeOK, [Next]_vars
        PROVE  \A m \in Messages :
                  /\ status[m] \in Final => status'[m] \in {status[m], "gone"}
                  /\ status[m] = "gone" => status'[m] = "gone"
    BY <1>1, NextRow DEF RowStep, Final
  <1> QED BY <1>1, TypeCorrect, PTL DEF Spec, FinalIsFinal

\* A lease that is not the row's present one never becomes it again
\* (claims draw a fresh lease, db.rs:1266-1473).
THEOREM OldLeasesPowerless == Spec => LostLeaseStaysLost
  <1>1. ASSUME TypeOK, [Next]_vars
        PROVE  \A m \in Messages : \A l \in 1..issued : lease[m] # l => lease'[m] # l
    <2> SUFFICES ASSUME NEW m \in Messages, NEW l \in 1..issued, lease[m] # l
                 PROVE  lease'[m] # l
      OBVIOUS
    <2>1. l # NoLease /\ l # issued + 1
      BY SMTT(30), <1>1 DEF TypeOK, NoLease
    <2>2. lease'[m] \in {lease[m], issued + 1, NoLease}
      BY <1>1, NextRow DEF RowStep
    <2> QED BY <2>1, <2>2
  <1> QED BY <1>1, TypeCorrect, PTL DEF Spec, LostLeaseStaysLost

\* A message is settled by a call that names it and holds its claim, although
\* a batch shares one lease (db.rs:1475-1581).
THEOREM SettledByItsHolder == Spec => OnlyOwnCallSettles
  <1>1. ASSUME TypeOK, [Next]_vars
        PROVE  \A m \in Messages : status[m] = "processing" /\ status'[m] \in Final
                                      => promise'[m][lease[m]] = 0
    BY <1>1, NextRow DEF RowStep, Final
  <1> QED BY <1>1, TypeCorrect, PTL DEF Spec, OnlyOwnCallSettles

-----------------------------------------------------------------------------
(* The table implements MessageLife *)

\* What one step may do to the counts: only a claim draws a lease, and it
\* counts one attempt of each message it takes and of no other.
CountStep ==
    \/ attempts' = attempts /\ issued' = issued
    \/ /\ issued' = issued + 1
       /\ \A m \in Messages :
             \/ status[m] = "pending" /\ status'[m] = "processing" /\ attempts'[m] = attempts[m] + 1
             \/ status'[m] = status[m] /\ attempts'[m] = attempts[m]

\* A claim of pending rows counts the way CountStep says.
LEMMA TakeLeaseCount ==
    ASSUME TypeOK, NEW C \in SUBSET Messages, NEW now, TakeLease(C, now),
           \A n \in C : status[n] = "pending"
    PROVE  CountStep
  BY DEF TakeLease, CountStep, TypeOK

\* Every step of the broker counts the way CountStep says.
LEMMA NextCount == ASSUME TypeOK, [Next]_vars PROVE CountStep
  <1>1. CASE Tick \/ Publish \/ Restart \/ UNCHANGED vars
    BY <1>1 DEF Tick, Publish, EnqueueBatch, Restart, vars, rows, CountStep
  <1>2. CASE Claim
    <2>1. ASSUME NEW t \in Topics, NEW C \in SUBSET Messages, NEW limit \in 1..ClaimLimit,
                 NEW now \in ClockReads, ClaimBatch(t, C, limit, now)
          PROVE  CountStep
      BY <2>1, TakeLeaseCount DEF ClaimBatch, OldestOf, Ready
    <2>2. ASSUME NEW s \in Shards, NEW skip \in SUBSET Topics, NEW n \in Messages,
                 NEW now \in ClockReads, DispatchSelect(s, skip, n, now)
          PROVE  CountStep
      BY <2>2 DEF DispatchSelect, rows, CountStep
    <2>3. ASSUME NEW sel \in selected, DispatchUpdate(sel) PROVE CountStep
      <3>1. {sel.msg} \in SUBSET Messages
        BY DEF TypeOK, Selections
      <3>2. CASE status[sel.msg] = "pending"
        BY <2>3, <3>1, <3>2, TakeLeaseCount DEF DispatchUpdate
      <3>3. CASE status[sel.msg] # "pending"
        BY <2>3, <3>3 DEF DispatchUpdate, rows, CountStep
      <3> QED BY <3>2, <3>3
    <2> QED BY <1>2, <2>1, <2>2, <2>3 DEF Claim
  <1>3. CASE HolderCall
    BY <1>3 DEF HolderCall, Release, RenewClaim, Delivered, FailedSelect, DropClaimed, rows,
       CountStep
  <1>4. ASSUME NEW f \in failing, NEW now \in ClockReads, FailedUpdate(f, now) PROVE CountStep
    BY <1>4 DEF FailedUpdate, rows, CountStep
  <1>5. CASE Upkeep
    BY <1>5 DEF Upkeep, ReclaimStale, PurgeOlder, PurgeDelivered, DropPending, ClearTopic,
                DeleteRows, CountStep
  <1> QED BY <1>1, <1>2, <1>3, <1>4, <1>5 DEF Next

\* A step of the broker is a step of MessageLife.
LEMMA NextLife ==
    ASSUME IInv, IInv', [Next]_vars
    PROVE  Life!Next
  <1>0. TypeOK /\ LeaseInv' /\ LeaseInv /\ FailedOnlyWhenExhausted' /\ TypeOK'
    BY DEF IInv
  <1>1. CountStep
    BY <1>0, NextCount
  <1>2. issued \in Nat /\ issued' \in {issued, issued + 1}
    BY SMTT(30), <1>0, <1>1 DEF CountStep, TypeOK
  <1>3. 1..issued \subseteq (1..issued)'
    BY SMTT(30), <1>2
  <1>4. ASSUME NEW m \in Messages
        PROVE  \/ Life!Accept(m) \/ Life!Take(m) \/ Life!PutBack(m) \/ Life!Deliver(m)
               \/ Life!Fail(m) \/ Life!Drop(m) \/ Life!Forget(m) \/ Life!Stays(m)
    <2>0. RowStep(m)
      BY <1>0, NextRow
    <2>1. /\ status'[m] # "processing" => lease'[m] = NoLease
          /\ status'[m] = "failed" => attempts'[m] >= MaxAttempts
          /\ lease'[m] <= issued' /\ lease[m] <= issued
      BY <1>0 DEF LeaseInv, FailedOnlyWhenExhausted
    <2>2. CASE status'[m] = status[m] /\ lease'[m] = lease[m]
      BY <1>1, <2>2 DEF CountStep, Life!Stays
    <2>3. CASE status[m] = "pending" /\ status'[m] = "processing" /\ lease'[m] = issued + 1
      <3>1. issued' = issued + 1 /\ attempts'[m] = attempts[m] + 1
        BY SMTT(30), <1>1, <1>2, <2>1, <2>3 DEF CountStep
      <3>2. lease'[m] \in (1..issued)' \ (1..issued)
        BY SMTT(30), <1>2, <2>3, <3>1
      <3> QED BY <2>3, <3>1, <3>2 DEF Life!Take
    <2>4. CASE status'[m] # "processing" /\ status'[m] # status[m]
      <3>1. attempts'[m] = attempts[m] /\ lease'[m] = NoLease
        BY <1>1, <2>1, <2>4 DEF CountStep
      <3>2. CASE status[m] = "none" /\ status'[m] = "pending"
        BY <3>1, <3>2 DEF Life!Accept, Life!Moves
      <3>3. CASE status[m] = "processing" /\ status'[m] \in {"pending"} \cup Final
        BY <2>1, <3>1, <3>3 DEF Final, Life!PutBack, Life!Deliver, Life!Fail, Life!Drop,
           Life!Moves
      <3>4. CASE status[m] = "pending" /\ status'[m] = "dropped"
        BY <3>1, <3>4 DEF Life!Drop, Life!Moves
      <3>5. CASE status[m] \in Stored /\ status'[m] = "gone"
        BY <3>1, <3>5 DEF Stored, Life!Forget, Life!Moves, Life!Settled
      <3> QED BY <2>0, <2>4, <3>2, <3>3, <3>4, <3>5 DEF RowStep
    <2> QED BY <2>0, <2>2, <2>3, <2>4 DEF RowStep, Final, Stored
  <1> QED BY <1>3, <1>4 DEF Life!Next

\* The statements of db.rs implement the life of a message that MessageLife
\* promises, for any messages, topics, shards, claims and clock readings.
THEOREM StoreImplementsLife == Spec => ImplementsLife
  <1>1. Init => Life!Init
    BY SMTT(30) DEF Init, Life!Init
  <1>2. ASSUME IInv, IInv', [Next]_vars PROVE [Life!Next]_Life!life
    BY <1>2, NextLife
  <1> QED BY <1>1, <1>2, Invariant, PTL DEF Spec, ImplementsLife, Life!Spec

=============================================================================
