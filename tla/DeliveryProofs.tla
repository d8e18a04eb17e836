--------------------------- MODULE DeliveryProofs ---------------------------
(* Theorems about TopicFilter and Delivery, for topics and filters of any     *)
(* length and all messages, streams, scenes and bounds, in six parts: what    *)
(* filters match, the rows (the refinement of MessageLife), the registry of   *)
(* streams, the work (who holds which claim), the wake-ups (which loop will   *)
(* look at a pending row again) and the types of all variables.               *)
EXTENDS Delivery, WellFoundedInduction, TLAPS

\* Leaves are left to Zenon, but for those that cite SMT.
USE ZenonT(60)

-----------------------------------------------------------------------------
(* Filters.  The loop of filter_matches is a recursive function.  Its value   *)
(* is found by giving one (FromLevel) and showing that nothing else obeys the *)
(* recursion: the last level at which another function differed would be a    *)
(* contradiction.                                                             *)

\* A set of natural numbers has a least element.
LEMMA LeastNatural ==
    ASSUME NEW T \in SUBSET Nat, T # {} PROVE \E x \in T : \A y \in T : x <= y
  <1>1. PICK x \in T : \A y \in T : ~ (<<y, x>> \in OpToRel(<, Nat))
    BY NatLessThanWellFounded, WFMin
  <1>2. \A y \in T : ~(y < x)
    BY <1>1 DEF OpToRel
  <1> QED BY SMTT(30), <1>2

\* A level of a filter fits the level of a topic.
Fits(filter, topic, i) == i <= Len(topic) /\ (filter[i] = "+" \/ filter[i] = topic[i])

\* What the loop of filter_matches does at level i, w being the rest of it, ...
AtLevel(filter, topic, w, i) ==
    IF i > Len(filter) THEN i = Len(topic) + 1
    ELSE IF filter[i] = "#" THEN i = Len(filter)
    ELSE /\ i <= Len(topic)
         /\ filter[i] = "+" \/ filter[i] = topic[i]
         /\ w[i + 1]

\* ... and what it comes to, for a filter with "#" at its end or nowhere.
FromLevel(filter, topic, i) ==
    IF i > Len(filter) THEN Len(topic) = Len(filter)
    ELSE IF filter[Len(filter)] = "#" THEN \A j \in i..(Len(filter) - 1) : Fits(filter, topic, j)
    ELSE Len(topic) = Len(filter) /\ \A j \in i..Len(filter) : Fits(filter, topic, j)

\* FromLevel obeys the loop.
LEMMA LoopStep ==
    ASSUME NEW L, NEW filter \in Seq(L), NEW topic \in Seq(L), filter # <<>>,
           \A i \in 1..Len(filter) : filter[i] = "#" => i = Len(filter),
           NEW w, NEW i \in 1..(Len(filter) + 1),
           i <= Len(filter) => (w[i + 1] <=> FromLevel(filter, topic, i + 1))
    PROVE  AtLevel(filter, topic, w, i) <=> FromLevel(filter, topic, i)
  <1> DEFINE n == Len(filter)
  <1>0. n \in Nat /\ n > 0 /\ Len(topic) \in Nat
    BY SMTT(30)
  <1>1. CASE i > n
    <2>1. i = n + 1
      BY SMTT(30), <1>0, <1>1
    <2>2. (i = Len(topic) + 1) <=> (Len(topic) = n)
      BY SMTT(30), <1>0, <2>1
    <2> QED BY <1>1, <2>2 DEF AtLevel, FromLevel
  <1>2. CASE i <= n /\ filter[i] = "#"
    <2>1. i = n /\ ~(i > n) /\ i..(n - 1) = {}
      BY SMTT(30), <1>0, <1>2
    <2> QED BY <1>2, <2>1 DEF AtLevel, FromLevel
  <1>3. CASE i <= n /\ filter[i] # "#"
    <2>0. ~(i > n) /\ i \in 1..n
      BY SMTT(30), <1>0, <1>3
    <2>1. AtLevel(filter, topic, w, i) <=> Fits(filter, topic, i) /\ FromLevel(filter, topic, i + 1)
      BY <1>3, <2>0 DEF AtLevel, Fits
    <2>2. CASE filter[n] = "#"
      <3>1. i < n /\ ~(i + 1 > n) /\ i..(n - 1) = {i} \cup ((i + 1)..(n - 1))
        BY SMTT(30), <1>0, <1>3, <2>0, <2>2
      <3>2. FromLevel(filter, topic, i) <=> \A j \in i..(n - 1) : Fits(filter, topic, j)
        BY <2>0, <2>2 DEF FromLevel
      <3>3. FromLevel(filter, topic, i + 1) <=> \A j \in (i + 1)..(n - 1) : Fits(filter, topic, j)
        BY <2>2, <3>1 DEF FromLevel
      <3> QED BY <2>1, <3>1, <3>2, <3>3
    <2>3. CASE filter[n] # "#"
      <3>1. i..n = {i} \cup ((i + 1)..n) /\ (i + 1 > n => (i + 1)..n = {})
        BY SMTT(30), <1>0, <1>3, <2>0
      <3>2. FromLevel(filter, topic, i) <=> Len(topic) = n /\ \A j \in i..n : Fits(filter, topic, j)
        BY <2>0, <2>3 DEF FromLevel
      <3>3. FromLevel(filter, topic, i + 1)
              <=> Len(topic) = n /\ \A j \in (i + 1)..n : Fits(filter, topic, j)
        BY <2>3, <3>1 DEF FromLevel
      <3> QED BY <2>1, <3>1, <3>2, <3>3
    <2> QED BY <2>2, <2>3
  <1>4. i <= n \/ i > n
    BY SMTT(30), <1>0
  <1> QED BY <1>1, <1>2, <1>3, <1>4

\* There is one function that obeys the loop, and it is what the loop comes to.
LEMMA LoopResult ==
    ASSUME NEW L, NEW filter \in Seq(L), NEW topic \in Seq(L), filter # <<>>,
           \A i \in 1..Len(filter) : filter[i] = "#" => i = Len(filter)
    PROVE  LET walk == CHOOSE w : w = [i \in 1..(Len(filter) + 1) |-> AtLevel(filter, topic, w, i)]
           IN  walk[1] <=> FromLevel(filter, topic, 1)
  <1> DEFINE n == Len(filter)
             S == 1..(n + 1)
             Obeys(w) == w = [i \in S |-> AtLevel(filter, topic, w, i)]
             g == [i \in S |-> FromLevel(filter, topic, i)]
             walk == CHOOSE w : Obeys(w)
  <1>0. n \in Nat /\ n > 0
    BY SMTT(30)
  <1>1. Obeys(g)
    <2>1. \A i \in S : i <= n => i + 1 \in S
      BY SMTT(30), <1>0
    <2>2. \A i \in S : AtLevel(filter, topic, g, i) <=> FromLevel(filter, topic, i)
      <3> SUFFICES ASSUME NEW i \in S
                   PROVE  AtLevel(filter, topic, g, i) <=> FromLevel(filter, topic, i)
        OBVIOUS
      <3>1. i <= n => (g[i + 1] <=> FromLevel(filter, topic, i + 1))
        BY <2>1
      <3> HIDE DEF g
      <3> QED BY <3>1, LoopStep
    <2>3. \A i \in S : AtLevel(filter, topic, g, i) \in BOOLEAN /\ FromLevel(filter, topic, i) \in BOOLEAN
      BY DEF AtLevel, FromLevel
    <2> QED BY <2>2, <2>3
  <1>2. Obeys(walk)
    <2> HIDE DEF g, Obeys
    <2> QED BY <1>1
  <1>3. \A i \in S : walk[i] <=> AtLevel(filter, topic, walk, i)
    <2> HIDE DEF walk
    <2> QED BY <1>2
  <1> HIDE DEF walk
  <1>4. \A i \in S : walk[i] <=> FromLevel(filter, topic, i)
    <2> DEFINE Bad(m) == ~(walk[n + 1 - m] <=> FromLevel(filter, topic, n + 1 - m))
               T == {m \in 0..n : Bad(m)}
    <2>1. T = {}
      <3> SUFFICES ASSUME T # {} PROVE FALSE
        OBVIOUS
      <3>1. PICK m \in T : \A y \in T : m <= y
        <4>1. T \in SUBSET Nat
          BY SMTT(30)
        <4> HIDE DEF T
        <4> QED BY <4>1, LeastNatural
      <3> DEFINE i == n + 1 - m
      <3>2. i \in S /\ (i <= n => m - 1 \in 0..n /\ ~(m <= m - 1) /\ n + 1 - (m - 1) = i + 1)
        BY SMTT(30), <1>0
      <3>3. i <= n => (walk[i + 1] <=> FromLevel(filter, topic, i + 1))
        <4>1. i <= n => m - 1 \notin T
          BY <3>1, <3>2
        <4> QED BY <3>2, <4>1
      <3>4. ~(walk[i] <=> FromLevel(filter, topic, i))
        BY <3>1
      <3> HIDE DEF i
      <3> QED BY <1>3, <3>2, <3>3, <3>4, LoopStep
    <2>2. \A i \in S : n + 1 - i \in 0..n /\ n + 1 - (n + 1 - i) = i
      BY SMTT(30), <1>0
    <2> SUFFICES ASSUME NEW i \in S PROVE walk[i] <=> FromLevel(filter, topic, i)
      OBVIOUS
    <2>3. ~Bad(n + 1 - i)
      BY <2>1, <2>2
    <2> QED BY <2>2, <2>3
  <1>5. 1 \in S
    BY SMTT(30), <1>0
  <1> QED BY <1>4, <1>5 DEF walk

\* The last level of a filter that is_valid_subscribe_filter lets through is the
\* only one that may be "#".
LEMMA HashIsLast ==
    ASSUME NEW L, NEW filter \in Seq(L), filter # <<>>, is_valid_subscribe_filter(filter)
    PROVE  /\ \A i \in 1..Len(filter) : filter[i] = "#" => i = Len(filter)
           /\ filter[1] \notin MixedLevels
  <1>0. Len(filter) \in Nat /\ Len(filter) > 0 /\ DOMAIN filter = 1..Len(filter) /\ 1..(1 - 1) = {}
        /\ 1 \in 1..Len(filter)
    BY SMTT(30)
  <1>1. filter[1] \notin MixedLevels
    BY <1>0 DEF is_valid_subscribe_filter
  <1>2. ASSUME NEW i \in 1..Len(filter), filter[i] = "#" PROVE i = Len(filter)
    <2> DEFINE T == {k \in 1..Len(filter) : filter[k] = "#"}
    <2>1. T \in SUBSET Nat /\ T # {}
      BY SMTT(30), <1>2
    <2>2. PICK k \in T : \A y \in T : k <= y
      <3> HIDE DEF T
      <3> QED BY <2>1, LeastNatural
    <2>3. \A j \in 1..(k - 1) : j \in 1..Len(filter) /\ ~(k <= j)
      BY SMTT(30), <1>0
    <2>4. k = Len(filter)
      BY <1>0, <2>2, <2>3 DEF is_valid_subscribe_filter
    <2>5. k <= i
      BY <1>2, <2>2
    <2>6. \A m \in Nat : \A j \in 1..m : m <= j => j = m
      BY SMTT(30)
    <2> QED BY <1>0, <2>4, <2>5, <2>6
  <1> QED BY <1>1, <1>2

\* filter_matches agrees with what MQTT says, for every valid filter and every
\* topic, whatever the number of levels and whatever the levels are.
THEOREM MatchingIsCovering ==
    ASSUME NEW L, NEW filter \in Seq(L), NEW topic \in Seq(L), filter # <<>>, topic # <<>>,
           is_valid_subscribe_filter(filter), topic # EmptyString
    PROVE  filter_matches(filter, topic) <=> Covers(filter, topic)
  <1> DEFINE n == Len(filter)
             hashed == filter[n] = "#"
             fixed == IF hashed THEN n - 1 ELSE n
             Guard == ~(topic[1] \in DollarLevels /\ wildcard_at_root(filter))
             Root == topic[1] \in DollarLevels => filter[1] = topic[1]
             Rest == /\ IF hashed THEN Len(topic) >= fixed ELSE Len(topic) = fixed
                     /\ \A i \in 1..fixed : filter[i] \in {"+", topic[i]}
  <1>0. n \in Nat /\ n > 0 /\ Len(topic) \in Nat /\ Len(topic) > 0 /\ ~(1 > n)
    BY SMTT(30)
  <1>1. \A i \in 1..n : filter[i] = "#" => i = n
    BY HashIsLast
  <1>2. filter_matches(filter, topic) <=> Guard /\ FromLevel(filter, topic, 1)
    <2>1. LET walk == CHOOSE w : w = [i \in 1..(Len(filter) + 1) |-> AtLevel(filter, topic, w, i)]
          IN  walk[1] <=> FromLevel(filter, topic, 1)
      BY <1>1, LoopResult
    <2> QED BY <2>1 DEF filter_matches, AtLevel, is_valid_subscribe_filter
  <1>3. FromLevel(filter, topic, 1) <=> Rest
    <2>1. CASE hashed
      <3>1. (\A i \in 1..(n - 1) : i <= Len(topic)) <=> Len(topic) >= n - 1
        BY SMTT(30), <1>0
      <3> QED BY <1>0, <2>1, <3>1 DEF FromLevel, Fits
    <2>2. CASE ~hashed
      <3>1. Len(topic) = n => \A i \in 1..n : i <= Len(topic)
        BY SMTT(30), <1>0
      <3> QED BY <1>0, <2>2, <3>1 DEF FromLevel, Fits
    <2> QED BY <2>1, <2>2
  <1>4. Rest => (Guard <=> Root)
    <2>1. filter[1] \notin MixedLevels
      BY HashIsLast
    <2>2. topic[1] \in DollarLevels => topic[1] \notin {"#", "+", "#a"}
      BY SMTT(30) DEF DollarLevels
    <2>3. Rest => filter[1] = "#" \/ filter[1] \in {"+", topic[1]}
      <3>1. CASE fixed >= 1
        <4>1. 1 \in 1..fixed
          BY SMTT(30), <1>0, <3>1
        <4> QED BY <4>1
      <3>2. CASE ~(fixed >= 1)
        <4>1. n >= 1 /\ (~(n - 1 >= 1) => n = 1)
          <5>1. \A m \in Nat : m > 0 => m >= 1 /\ (~(m - 1 >= 1) => m = 1)
            BY SMTT(30)
          <5> QED BY <1>0, <5>1
        <4>2. hashed /\ n = 1
          BY <3>2, <4>1
        <4> QED BY <4>2
      <3> QED BY <3>1, <3>2
    <2> QED BY <2>1, <2>2, <2>3 DEF wildcard_at_root, MixedLevels
  <1>5. Covers(filter, topic) <=> Rest /\ Root
    BY DEF Covers
  <1> QED BY <1>2, <1>3, <1>4, <1>5

\* The instance that the run checks.
COROLLARY FiltersMatch == MatchesAsCovers
  <1> SUFFICES ASSUME NEW filter \in Strings, is_valid_subscribe_filter(filter),
                      NEW topic \in Strings, is_valid_publish_topic(topic)
               PROVE  filter_matches(filter, topic) <=> Covers(filter, topic)
    BY DEF MatchesAsCovers
  <1>1. \A s \in Strings : s \in Seq(Levels) /\ s # <<>>
    <2>1. ASSUME NEW n \in 1..3, NEW s \in [1..n -> Levels] PROVE s \in Seq(Levels) /\ s # <<>>
      <3>1. s \in Seq(Levels) /\ Len(s) = n
        BY SMTT(30)
      <3>2. Len(<<>>) # n
        BY SMTT(30)
      <3> QED BY <3>1, <3>2
    <2> QED BY <2>1 DEF Strings
  <1> QED BY <1>1, MatchingIsCovering DEF is_valid_publish_topic

\* A filter without wildcards matches only the topic it spells.
THEOREM LiteralMatch ==
    ASSUME NEW L, NEW filter \in Seq(L), NEW topic \in Seq(L), filter # <<>>, topic # <<>>,
           ~is_wildcard_filter(filter), filter_matches(filter, topic)
    PROVE  filter = topic
  <1>0. Len(filter) \in Nat /\ Len(filter) > 0 /\ DOMAIN filter = 1..Len(filter)
        /\ Len(filter) \in 1..Len(filter)
    BY SMTT(30)
  <1>1. filter # EmptyString /\ topic # EmptyString
    BY DEF filter_matches
  <1>2. is_valid_subscribe_filter(filter)
    BY <1>1 DEF is_valid_subscribe_filter, is_wildcard_filter
  <1>3. Covers(filter, topic)
    BY <1>1, <1>2, MatchingIsCovering
  <1>4. Len(topic) = Len(filter) /\ \A i \in 1..Len(filter) : filter[i] = topic[i]
    BY <1>0, <1>3 DEF Covers, is_wildcard_filter
  <1> QED BY SMTT(30), <1>0, <1>4

-----------------------------------------------------------------------------
(* The rows: Delivery implements MessageLife *)

States == {"none", "pending", "processing"} \cup Final

StoreType == status \in [Messages -> States] /\ attempts \in [Messages -> Nat]

\* What one step may do to the row of m.
RowStep(m) ==
    \/ status'[m] = status[m] /\ attempts'[m] = attempts[m]
    \/ status[m] = "pending" /\ status'[m] = "processing" /\ attempts'[m] = attempts[m] + 1
    \/ /\ attempts'[m] = attempts[m]
       /\ \/ status[m] = "none" /\ status'[m] = "pending"
          \/ status[m] = "processing" /\ status'[m] \in {"pending", "delivered", "dropped"}
          \/ status[m] = "processing" /\ status'[m] = "failed" /\ attempts[m] >= MaxAttempts
          \/ status[m] = "pending" /\ status'[m] = "dropped"

Rows == StoreType' /\ \A m \in Messages : RowStep(m)

\* A row that is claimed is put back, delivered or dropped.
LEMMA MoveRows ==
    ASSUME StoreType, NEW c, NEW s \in {"pending", "delivered", "dropped"},
           status' = [status EXCEPT ![c.msg] = IF Held(c) THEN s ELSE @],
           attempts' = attempts
    PROVE  Rows
  <1>1. StoreType'
    BY DEF StoreType, States, Final
  <1>2. ASSUME NEW m \in Messages PROVE RowStep(m)
    BY DEF Held, StoreType, RowStep
  <1> QED BY <1>1, <1>2 DEF Rows

\* delivered, release and drop_claimed.
LEMMA SettleRows ==
    ASSUME StoreType, NEW c, NEW s \in {"pending", "delivered", "dropped"}, Settle(c, s)
    PROVE  Rows
  BY MoveRows DEF Settle

\* failed moves a claimed row, for good only after MaxAttempts claims.
LEMMA FailRows ==
    ASSUME StoreType, NEW c, Fail(c)
    PROVE  Rows
  <1>1. StoreType'
    BY LimitAssumption DEF Fail, Held, StoreType, States, Final
  <1>2. ASSUME NEW m \in Messages PROVE RowStep(m)
    BY SMTT(30), LimitAssumption DEF Fail, Held, StoreType, RowStep
  <1> QED BY <1>1, <1>2 DEF Rows

\* A claim takes pending rows and counts one attempt of each.
LEMMA TakeRows ==
    ASSUME StoreType, NEW C, \A m \in C : status[m] = "pending", TakeClaims(C)
    PROVE  Rows
  <1>1. StoreType'
    BY SMTT(30) DEF TakeClaims, StoreType, States, Final
  <1>2. ASSUME NEW m \in Messages PROVE RowStep(m)
    BY DEF TakeClaims, StoreType, RowStep
  <1> QED BY <1>1, <1>2 DEF Rows

\* A step that leaves the rows alone.
LEMMA SameRows ==
    ASSUME StoreType, UNCHANGED <<status, attempts>>
    PROVE  Rows
  BY DEF StoreType, Rows, RowStep

\* A step of a loop works on rows the way RowStep says.
LEMMA LoopRows ==
    ASSUME StoreType, NEW s \in Subs, Loop(s)
    PROVE  Rows
  <1>1. CASE Register(s) \/ Watch(s) \/ Top(s) \/ Permit(s) \/ Idle(s)
    BY <1>1, SameRows DEF Register, Watch, Top, Permit, Idle, store
  <1>2. ASSUME NEW t \in todo[s], ClaimTopic(s, t) PROVE Rows
    <2>1. CASE UNCHANGED store
      BY <2>1, SameRows DEF store
    <2>2. ASSUME NEW C, C \subseteq Claimable(t), TakeClaims(C) PROVE Rows
      BY <2>2, TakeRows DEF Claimable
    <2> QED BY <1>2, <2>1, <2>2 DEF ClaimTopic
  <1>3. CASE ClaimFails(s)
    BY <1>3, SameRows DEF ClaimFails, Broken, store
  <1>4. ASSUME NEW c \in ready[s], TakeNext(s, c) PROVE Rows
    <2>1. CASE UNCHANGED store \/ Broken
      BY <2>1, SameRows DEF store, Broken
    <2>2. CASE ReleaseAndWake(c)
      BY <2>2, SettleRows DEF ReleaseAndWake
    <2> QED BY <1>4, <2>1, <2>2 DEF TakeNext
  <1>5. ASSUME NEW x \in Subs, Send(s, x) PROVE Rows
    BY <1>5, SameRows DEF Send, store
  <1>6. CASE AfterSend(s)
    <2>1. CASE UNCHANGED store \/ Broken
      BY <2>1, SameRows DEF store, Broken
    <2>2. CASE Settle(cur[s], "delivered") \/ Settle(cur[s], "dropped")
      BY <2>2, SettleRows
    <2>3. CASE Fail(cur[s])
      BY <2>3, FailRows
    <2> QED BY <1>6, <2>1, <2>2, <2>3 DEF AfterSend, Runs
  <1>7. ASSUME NEW c \in ready[s], ReleaseRest(s, c) PROVE Rows
    <2>1. CASE Broken
      BY <2>1, SameRows DEF store, Broken
    <2>2. CASE ReleaseAndWake(c)
      BY <2>2, SettleRows DEF ReleaseAndWake
    <2> QED BY <1>7, <2>1, <2>2 DEF ReleaseRest
  <1>8. CASE Leave(s) \/ CheckCovered(s)
    BY <1>8, SameRows DEF Leave, CheckCovered, store
  <1>9. CASE DropPending(s)
    <2>1. CASE Broken
      BY <2>1, SameRows DEF store, Broken
    <2>2. CASE ~Broken
      <3>1. /\ status' = [m \in Messages |-> IF status[m] = "pending" /\ TopicOf[m] = FilterOf[s]
                                             THEN "dropped" ELSE status[m]]
            /\ attempts' = attempts
        BY <1>9, <2>2 DEF DropPending, Runs
      <3>2. StoreType'
        BY <3>1 DEF StoreType, States, Final
      <3> QED BY <3>1, <3>2 DEF StoreType, Rows, RowStep
    <2> QED BY <2>1, <2>2
  <1> QED BY <1>1, <1>2, <1>3, <1>4, <1>5, <1>6, <1>7, <1>8, <1>9 DEF Loop

\* So does every other step.
LEMMA NextRows ==
    ASSUME StoreType, [Next]_vars
    PROVE  Rows
  <1>1. CASE UNCHANGED vars
    BY <1>1, SameRows DEF vars, store
  <1>2. ASSUME NEW m \in Messages,
               Publish(m) \/ NotifyReady(m) \/ BackoffEnds(m) \/ Reclaim(m) \/ Poll(m)
        PROVE  Rows
    <2>1. CASE Publish(m) \/ Reclaim(m)
      <3>1. /\ status' = [status EXCEPT ![m] = "pending"] /\ attempts' = attempts
            /\ status[m] \in {"none", "processing"}
        BY <2>1 DEF Publish, Reclaim
      <3>2. StoreType'
        BY <3>1 DEF StoreType, States
      <3> QED BY <3>1, <3>2 DEF StoreType, Rows, RowStep
    <2>2. CASE NotifyReady(m) \/ BackoffEnds(m)
      BY <2>2, SameRows DEF NotifyReady, BackoffEnds, store
    <2>3. CASE Poll(m)
      BY <2>3, TakeRows DEF Poll, Claimable
    <2> QED BY <1>2, <2>1, <2>2, <2>3
  <1>3. ASSUME NEW s \in Subs, Loop(s) \/ CloseStream(s) \/ CancelStream(s) PROVE Rows
    BY <1>3, LoopRows, SameRows DEF CloseStream, CancelStream, store
  <1>4. ASSUME NEW k \in tasks, TaskEnds(k) PROVE Rows
    <2>1. CASE UNCHANGED store \/ Broken
      BY <2>1, SameRows DEF store, Broken
    <2>2. CASE Settle(k, "delivered")
      BY <2>2, SettleRows
    <2>3. CASE Fail(k)
      BY <2>3, FailRows
    <2> QED BY <1>4, <2>1, <2>2, <2>3 DEF TaskEnds, Runs
  <1>5. ASSUME NEW a \in inflight, NEW ok \in BOOLEAN, Complete(a, ok) PROVE Rows
    BY <1>5, SameRows DEF Complete, store
  <1>6. ASSUME NEW c \in polled, NEW ok \in BOOLEAN, PollAck(c, ok) PROVE Rows
    <2>1. CASE Broken
      BY <2>1, SameRows DEF store, Broken
    <2>2. CASE Settle(c, "delivered")
      BY <2>2, SettleRows
    <2>3. CASE Fail(c)
      BY <2>3, FailRows
    <2> QED BY <1>6, <2>1, <2>2, <2>3 DEF PollAck, Runs
  <1>7. CASE Dispatcher
    <2>1. CASE UNCHANGED store \/ Broken
      BY <2>1, SameRows DEF store, Broken
    <2>2. CASE DispatchSkip
      BY <2>2, SameRows DEF DispatchSkip, store
    <2>3. CASE DispatchClaim
      <3>1. ASSUME NEW m \in Messages, m \in Claimable(TopicOf[m]), TakeClaims({m}) PROVE Rows
        BY <3>1, TakeRows DEF Claimable
      <3> QED BY <2>1, <2>3, <3>1 DEF DispatchClaim
    <2>4. CASE DispatchCheck
      <3>1. CASE ~Broken /\ store' # store
        <4>1. /\ status' = [status EXCEPT ![disp.msg] = IF Held(disp) THEN "pending" ELSE @]
              /\ attempts' = attempts
          BY <2>4, <3>1 DEF DispatchCheck, store
        <4> QED BY <4>1, MoveRows
      <3> QED BY <2>1, <3>1 DEF store
    <2>5. ASSUME NEW ok \in BOOLEAN, DispatchPost(ok) PROVE Rows
      <3>1. CASE Settle(disp, "delivered")
        BY <3>1, SettleRows
      <3>2. CASE Fail(disp)
        BY <3>2, FailRows
      <3> QED BY <2>1, <2>5, <3>1, <3>2 DEF DispatchPost, Runs
    <2> QED BY <1>7, <2>2, <2>3, <2>4, <2>5 DEF Dispatcher
  <1> QED BY <1>1, <1>2, <1>3, <1>4, <1>5, <1>6, <1>7 DEF Next, Task

\* A step of the broker is a step of MessageLife.
LEMMA NextLife ==
    ASSUME StoreType, [Next]_vars
    PROVE  Life!Next
  <1> DEFINE drawn == UNION {{m} \X (1..attempts[m]) : m \in Messages}
             holder(m) == IF status[m] = "processing" THEN <<m, attempts[m]>> ELSE <<>>
  <1>1. StoreType' /\ \A m \in Messages : RowStep(m)
    BY NextRows DEF Rows
  <1>2. \A m \in Messages : attempts[m] \in Nat /\ attempts'[m] \in {attempts[m], attempts[m] + 1}
    BY <1>1 DEF StoreType, RowStep
  <1>3. drawn \subseteq drawn'
    BY SMTT(30), <1>2
  <1>4. ASSUME NEW m \in Messages
        PROVE  \/ Life!Accept(m) \/ Life!Take(m) \/ Life!PutBack(m) \/ Life!Deliver(m)
               \/ Life!Fail(m) \/ Life!Drop(m) \/ Life!Forget(m) \/ Life!Stays(m)
    <2>0. RowStep(m)
      BY <1>1
    <2>1. CASE status'[m] = status[m] /\ attempts'[m] = attempts[m]
      BY <2>1 DEF Life!Stays
    <2>2. CASE status[m] = "pending" /\ status'[m] = "processing" /\ attempts'[m] = attempts[m] + 1
      <3>1. <<m, attempts[m] + 1>> \in drawn'
        BY SMTT(30), <1>2, <2>2
      <3>2. <<m, attempts[m] + 1>> \notin drawn
        BY SMTT(30), <1>2
      <3> QED BY <2>2, <3>1, <3>2 DEF Life!Take
    <2>3. CASE /\ attempts'[m] = attempts[m]
               /\ status[m] = "processing" /\ status'[m] = "failed" /\ attempts[m] >= MaxAttempts
      BY <2>3 DEF Life!Fail, Life!Moves
    <2>4. CASE /\ attempts'[m] = attempts[m]
               /\ \/ status[m] = "none" /\ status'[m] = "pending"
                  \/ status[m] = "processing" /\ status'[m] \in {"pending", "delivered", "dropped"}
                  \/ status[m] = "pending" /\ status'[m] = "dropped"
      BY <2>4 DEF Life!Accept, Life!PutBack, Life!Deliver, Life!Drop, Life!Moves
    <2> QED BY <2>0, <2>1, <2>2, <2>3, <2>4 DEF RowStep
  <1> QED BY <1>3, <1>4 DEF Life!Next

\* The loops, their tasks, the dispatcher and the HTTP polls together take a
\* message through the life that MessageLife allows, whatever fails or comes
\* late (delivery.rs:103-430, main.rs:587-652).
THEOREM DeliveryImplementsLife == Spec => ImplementsLife
  <1>1. ASSUME Init PROVE StoreType /\ Life!Init
    <2>1. StoreType
      BY <1>1 DEF Init, StoreType, States
    <2>2. UNION {{m} \X (1..attempts[m]) : m \in Messages} = {}
      BY SMTT(30), <1>1 DEF Init
    <2> QED BY <1>1, <2>1, <2>2 DEF Init, Life!Init
  <1>2. ASSUME StoreType, [Next]_vars PROVE StoreType' /\ [Life!Next]_Life!life
    BY <1>2, NextRows, NextLife DEF Rows
  <1> QED BY <1>1, <1>2, PTL DEF Spec, ImplementsLife, Life!Spec

-----------------------------------------------------------------------------
(* The registry *)

\* A loop is registered from its first step until it leaves; Watching alone is
\* not inductive, because a loop is registered before it watches.
RegistryInv ==
    /\ pc \in [Subs -> {"off", "registered", "top", "permit", "claim", "idle", "next", "send",
                        "closing", "left", "drop", "done"}]
    /\ \A s \in Subs : pc[s] \notin {"off", "left", "drop", "done"} => Entry(s) \in registry

\* A step that leaves the registry alone, and every loop on its side of it.
LEMMA RegistrySame ==
    ASSUME RegistryInv, registry' = registry, scene' = scene,
           \/ pc' = pc
           \/ \E s \in Subs : \E l \in {"top", "permit", "claim", "idle", "next", "send", "closing",
                                        "left", "drop", "done"} :
                 /\ pc' = [pc EXCEPT ![s] = l]
                 /\ pc[s] \in {"off", "left", "drop", "done"} => l \in {"left", "drop", "done"}
    PROVE  RegistryInv'
  BY DEF RegistryInv, Entry, FilterOf

\* Sessions that are not shared keep each other's entries.
LEMMA RegistryNext ==
    ASSUME \A s, t \in Subs : SessionOf[s] = SessionOf[t] => s = t,
           RegistryInv, [Next]_vars
    PROVE  RegistryInv'
  <1>1. CASE UNCHANGED vars
    BY <1>1, RegistrySame DEF vars, loops, ends
  <1>2. ASSUME NEW m \in Messages,
               Publish(m) \/ NotifyReady(m) \/ BackoffEnds(m) \/ Reclaim(m) \/ Poll(m)
        PROVE  RegistryInv'
    BY <1>2, RegistrySame DEF Publish, NotifyReady, BackoffEnds, Reclaim, Poll, loops, ends
  <1>3. ASSUME NEW s \in Subs, CloseStream(s) \/ CancelStream(s) PROVE RegistryInv'
    BY <1>3, RegistrySame DEF CloseStream, CancelStream, loops
  <1>4. ASSUME NEW k \in tasks, TaskEnds(k) PROVE RegistryInv'
    BY <1>4, RegistrySame DEF TaskEnds, loops, ends
  <1>5. ASSUME NEW a \in inflight, NEW ok \in BOOLEAN, Complete(a, ok) PROVE RegistryInv'
    BY <1>5, RegistrySame DEF Complete, loops, ends
  <1>6. ASSUME NEW c \in polled, NEW ok \in BOOLEAN, PollAck(c, ok) PROVE RegistryInv'
    BY <1>6, RegistrySame DEF PollAck, loops, ends
  <1>7. CASE Dispatcher
    BY <1>7, RegistrySame DEF Dispatcher, DispatchSkip, DispatchClaim, DispatchCheck,
       DispatchPost,
                              loops, ends
  <1>8. ASSUME NEW s \in Subs, Loop(s) PROVE RegistryInv'
    <2>1. CASE Register(s)
      <3>1. pc' = [pc EXCEPT ![s] = "registered"] /\ scene' = scene /\ Add(s)
        BY <2>1 DEF Register, Goto, ends
      <3>2. \A t \in Subs : Entry(t)' = Entry(t)
        BY <3>1 DEF Entry, FilterOf
      <3>3. \A t \in Subs : Entry(t) \in registry \/ t = s => Entry(t) \in registry'
        BY <3>1 DEF Add, SameSlot, Entry
      <3> QED BY <3>1, <3>2, <3>3 DEF RegistryInv
    <2>2. CASE Leave(s)
      <3>1. /\ pc' = [pc EXCEPT ![s] = "left"] \/ pc' = [pc EXCEPT ![s] = "done"]
            /\ scene' = scene /\ Remove(s)
        BY <2>2 DEF Leave, Goto, ends
      <3>2. \A t \in Subs : Entry(t)' = Entry(t)
        BY <3>1 DEF Entry, FilterOf
      <3>3. \A t \in Subs : Entry(t) \in registry /\ t # s => Entry(t) \in registry'
        BY <3>1 DEF Remove, SameSlot, Entry
      <3> QED BY <3>1, <3>2, <3>3 DEF RegistryInv
    <2>3. CASE Watch(s) \/ Top(s) \/ Permit(s) \/ Idle(s) \/ ClaimFails(s)
      BY <2>3, RegistrySame DEF Watch, Top, Permit, StartClaim, Idle, ClaimFails, Goto, ends
    <2>4. ASSUME NEW t \in todo[s], ClaimTopic(s, t) PROVE RegistryInv'
      BY <2>4, RegistrySame DEF ClaimTopic, Goto, ends
    <2>5. ASSUME NEW c \in ready[s], TakeNext(s, c) \/ ReleaseRest(s, c) PROVE RegistryInv'
      BY <2>5, RegistrySame DEF TakeNext, ReleaseRest, Goto, ends
    <2>6. CASE (\E x \in Subs : Send(s, x)) \/ AfterSend(s)
      BY <2>6, RegistrySame DEF Send, AfterSend, Goto, ends
    <2>7. CASE CheckCovered(s) \/ DropPending(s)
      BY <2>7, RegistrySame DEF CheckCovered, DropPending, Goto, ends
    <2> QED BY <1>8, <2>1, <2>2, <2>3, <2>4, <2>5, <2>6, <2>7 DEF Loop
  <1> QED BY <1>1, <1>2, <1>3, <1>4, <1>5, <1>6, <1>7, <1>8 DEF Next, Task

\* If no two streams share a session, every running loop can be found by
\* matching_senders (subscribers.rs:34-142).  That the condition is needed is
\* what a client shows that subscribes again.
THEOREM StreamsStayRegistered ==
    ASSUME \A s, t \in Subs : SessionOf[s] = SessionOf[t] => s = t
    PROVE  Spec => []LiveStreamRegistered
  <1>1. Init => RegistryInv
    BY SMTT(30) DEF Init, RegistryInv
  <1>2. RegistryInv /\ [Next]_vars => RegistryInv'
    BY RegistryNext
  <1>3. RegistryInv => LiveStreamRegistered
    BY DEF RegistryInv, LiveStreamRegistered, Watching
  <1> QED BY <1>1, <1>2, <1>3, PTL DEF Spec

\* Every entry of the registry is the one of a stream.
EntryInv == scene \in Scenes /\ registry \subseteq {Entry(s) : s \in Subs}

\* The streams that are connected from the start.
LEMMA InitEntries == Init => EntryInv
  <1> SUFFICES ASSUME Init PROVE EntryInv
    OBVIOUS
  <1>1. Staying \subseteq Subs
    BY SceneAssumption DEF Init, Staying
  <1> QED BY <1>1 DEF Init, EntryInv

\* A step that leaves the registry alone.
LEMMA SameEntries == EntryInv /\ registry' = registry /\ scene' = scene => EntryInv'
  BY DEF EntryInv, Entry, FilterOf

\* add and remove.
LEMMA NextEntries == EntryInv /\ [Next]_vars => EntryInv'
  <1> SUFFICES ASSUME EntryInv, [Next]_vars PROVE EntryInv'
    OBVIOUS
  <1>1. CASE UNCHANGED vars
    BY <1>1, SameEntries DEF vars, ends
  <1>2. ASSUME NEW m \in Messages,
               Publish(m) \/ NotifyReady(m) \/ BackoffEnds(m) \/ Reclaim(m) \/ Poll(m)
        PROVE  EntryInv'
    BY <1>2, SameEntries DEF Publish, NotifyReady, BackoffEnds, Reclaim, Poll, ends
  <1>3. ASSUME NEW s \in Subs, CloseStream(s) \/ CancelStream(s) PROVE EntryInv'
    BY <1>3, SameEntries DEF CloseStream, CancelStream
  <1>4. ASSUME NEW k \in tasks, TaskEnds(k) PROVE EntryInv'
    BY <1>4, SameEntries DEF TaskEnds, ends
  <1>5. ASSUME NEW a \in inflight, NEW ok \in BOOLEAN, Complete(a, ok) PROVE EntryInv'
    BY <1>5, SameEntries DEF Complete, ends
  <1>6. ASSUME NEW c \in polled, NEW ok \in BOOLEAN, PollAck(c, ok) PROVE EntryInv'
    BY <1>6, SameEntries DEF PollAck, ends
  <1>7. CASE Dispatcher
    BY <1>7, SameEntries DEF Dispatcher, DispatchSkip, DispatchClaim, DispatchCheck, DispatchPost,
                             ends
  <1>8. ASSUME NEW s \in Subs, Loop(s) PROVE EntryInv'
    <2>1. CASE Register(s) \/ Leave(s)
      <3>1. scene' = scene /\ registry' \subseteq registry \cup {Entry(s)}
        BY <2>1 DEF Register, Leave, Add, Remove, ends
      <3>2. \A t \in Subs : Entry(t)' = Entry(t)
        BY <3>1 DEF Entry, FilterOf
      <3> QED BY <3>1, <3>2 DEF EntryInv
    <2>2. CASE Watch(s) \/ Top(s) \/ Permit(s) \/ Idle(s) \/ ClaimFails(s)
      BY <2>2, SameEntries DEF Watch, Top, Permit, Idle, ClaimFails, ends
    <2>3. ASSUME NEW t \in todo[s], ClaimTopic(s, t) PROVE EntryInv'
      BY <2>3, SameEntries DEF ClaimTopic, ends
    <2>4. ASSUME NEW c \in ready[s], TakeNext(s, c) \/ ReleaseRest(s, c) PROVE EntryInv'
      BY <2>4, SameEntries DEF TakeNext, ReleaseRest, ends
    <2>5. CASE (\E x \in Subs : Send(s, x)) \/ AfterSend(s)
      BY <2>5, SameEntries DEF Send, AfterSend, ends
    <2>6. CASE CheckCovered(s) \/ DropPending(s)
      BY <2>6, SameEntries DEF CheckCovered, DropPending, ends
    <2> QED BY <1>8, <2>1, <2>2, <2>3, <2>4, <2>5, <2>6 DEF Loop
  <1> QED BY <1>1, <1>2, <1>3, <1>4, <1>5, <1>6, <1>7, <1>8 DEF Next, Task

\* Every registered stream is offered the topics that its filter covers by the
\* rules of MQTT, and no others (topic.rs:2-27, subscribers.rs:86-142).
THEOREM StreamsGetWhatTheyCover == Spec => []OfferedAsCovered
  <1>1. EntryInv => OfferedAsCovered
    <2> SUFFICES ASSUME EntryInv, NEW r \in registry, NEW m \in Messages,
                        is_valid_subscribe_filter(r.filter), is_valid_publish_topic(TopicOf[m])
                 PROVE  filter_matches(r.filter, TopicOf[m]) <=> Covers(r.filter, TopicOf[m])
      BY FiltersMatch DEF OfferedAsCovered, Topics
    <2>1. PICK s \in Subs : r = Entry(s)
      BY DEF EntryInv
    <2>2. r.filter = scene.filter[s]
      BY <2>1 DEF Entry, FilterOf
    <2>3. r.filter \in Seq(STRING) \ {<<>>}
      BY <2>2, SceneAssumption DEF EntryInv
    <2>4. TopicOf[m] \in Seq(STRING) \ {<<>>}
      BY TopicAssumption
    <2> QED BY <2>3, <2>4, MatchingIsCovering DEF is_valid_publish_topic
  <1> QED BY <1>1, InitEntries, NextEntries, PTL DEF Spec

-----------------------------------------------------------------------------
(* Claims and copies: who works on what *)

\* What holds a claim: the message in hand of a loop, or a task.
Has(h, c) == h.msg = c.msg /\ h.claim = c.claim

WorkType ==
    /\ attempts \in [Messages -> Nat]
    /\ ready \in [Subs -> SUBSET Claims]
    /\ cur \in [Subs -> InHand \cup {None}]
    /\ tasks \subseteq Tasks
    /\ polled \subseteq Claims
    /\ sent \subseteq Acks /\ inflight \subseteq sent
    /\ pc \in [Subs -> {"off", "registered", "top", "permit", "claim", "idle", "next", "send",
                        "closing", "left", "drop", "done"}]
    /\ \A s \in Subs : cur[s] # None <=> pc[s] = "send"
    /\ disp.stage \in {"check", "post"} =>
           disp = [stage |-> disp.stage, msg |-> disp.msg, claim |-> disp.claim]

\* Claims in work were handed out, ...
IssuedInv ==
    /\ \A s \in Subs : \A c \in ready[s] : c.claim <= attempts[c.msg]
    /\ \A s \in Subs : cur[s] # None => cur[s].claim <= attempts[cur[s].msg]
    /\ \A k \in tasks : k.claim <= attempts[k.msg]

\* ... each to one place, ...
UniqueInv ==
    /\ \A s, t \in Subs : s # t => ready[s] \cap ready[t] = {}
    /\ \A s, t \in Subs : cur[t] # None => \A c \in ready[s] : ~Has(cur[t], c)
    /\ \A s \in Subs : \A c \in ready[s], k \in tasks : ~Has(k, c)
    /\ \A s, t \in Subs : s # t /\ cur[s] # None /\ cur[t] # None => ~Has(cur[s], cur[t])
    /\ \A s \in Subs, k \in tasks : cur[s] # None => ~Has(k, cur[s])
    /\ \A k, l \in tasks : Has(k, l) => k = l

\* ... and the copies that were sent under a claim are those that its place
\* waits for.
SentInv ==
    /\ \A a \in sent : \/ \E s \in Subs : cur[s] # None /\ Has(cur[s], a) /\ a.to \in cur[s].waits
                       \/ \E k \in tasks : Has(k, a) /\ a.to \in k.waits
    /\ \A s \in Subs : cur[s] # None => \A x \in cur[s].waits : Ack(cur[s], x) \in sent
    /\ \A k \in tasks : k.waits # {} /\ \A x \in k.waits : Ack(k, x) \in sent

\* Only what is ephemeral is settled without an answer.
EphemeralInv == \A s \in Subs : cur[s] # None /\ cur[s].eph = TRUE => TopicOf[cur[s].msg] \in Ephemeral

WorkInv == WorkType /\ IssuedInv /\ UniqueInv /\ SentInv /\ EphemeralInv

\* Steps that only let go of claims that are ready, or of acknowledgements.
Quiet ==
    /\ attempts' = attempts /\ cur' = cur /\ tasks' = tasks /\ sent' = sent /\ scene' = scene
    /\ disp' = disp
    /\ inflight' \subseteq inflight /\ polled' \subseteq polled
    /\ ready' = ready \/ \E s \in Subs : \E c : ready' = [ready EXCEPT ![s] = @ \ {c}]
    /\ \/ pc' = pc
       \/ \E s \in Subs : \E l \in {"registered", "top", "permit", "claim", "idle", "next",
                                    "closing", "left", "drop", "done"} :
             pc' = [pc EXCEPT ![s] = l] /\ pc[s] # "send"

\* A claim is its message and its ordinal.
LEMMA ClaimByFields ==
    ASSUME NEW c \in Claims, NEW d \in Claims, c.msg = d.msg, c.claim = d.claim
    PROVE  c = d
  BY SMTT(30) DEF Claims

\* Steps that are quiet keep the invariant.
LEMMA QuietWork == ASSUME WorkInv, Quiet PROVE WorkInv'
  <1>1. /\ ready' \in [Subs -> SUBSET Claims]
        /\ \A s \in Subs : ready'[s] \subseteq ready[s]
    BY DEF WorkInv, WorkType, Quiet
  <1>2. WorkType'
    <2>1. /\ pc' \in [Subs -> {"off", "registered", "top", "permit", "claim", "idle", "next", "send",
                               "closing", "left", "drop", "done"}]
          /\ \A s \in Subs : pc[s] = "send" <=> pc'[s] = "send"
      BY DEF WorkInv, WorkType, Quiet
    <2> QED BY <1>1, <2>1 DEF WorkInv, WorkType, Quiet
  <1>3. IssuedInv'
    BY <1>1 DEF WorkInv, IssuedInv, Quiet
  <1>4. UniqueInv'
    BY SMTT(30), <1>1 DEF WorkInv, UniqueInv, Quiet, Has
  <1>5. SentInv'
    BY DEF WorkInv, SentInv, Quiet, Has, Ack
  <1>6. EphemeralInv'
    BY DEF WorkInv, EphemeralInv, Quiet, Ephemeral
  <1> QED BY <1>2, <1>3, <1>4, <1>5, <1>6 DEF WorkInv

\* A claim by somebody outside of the loops.
LEMMA OutsideWork ==
    ASSUME WorkInv, NEW C \in SUBSET Messages, TakeClaims(C),
           UNCHANGED <<acks, loops, tasks, scene>>, polled' \in {polled, polled \cup NewClaims(C)},
           \/ disp' = disp
           \/ \E m \in Messages : disp' = [stage |-> "check", msg |-> m, claim |-> attempts[m] + 1]
    PROVE  WorkInv'
  <1>1. attempts' \in [Messages -> Nat] /\ \A m \in Messages : attempts[m] <= attempts'[m]
    BY SMTT(30) DEF WorkInv, WorkType, TakeClaims
  <1>2. NewClaims(C) \subseteq Claims
    BY SMTT(30) DEF WorkInv, WorkType, NewClaims, Claims
  <1>3. /\ ready' = ready /\ cur' = cur /\ pc' = pc /\ tasks' = tasks
        /\ sent' = sent /\ inflight' = inflight /\ scene' = scene
    BY DEF acks, loops
  <1>4. WorkType'
    BY <1>1, <1>2, <1>3 DEF WorkInv, WorkType
  <1>5. IssuedInv'
    <2>1. \A n, i, j \in Nat : n <= i /\ i <= j => n <= j
      BY SMTT(30)
    <2> QED BY SMTT(30), <1>1, <1>3, <2>1 DEF WorkInv, WorkType, IssuedInv, Claims, InHand, Tasks
  <1>6. UniqueInv' /\ SentInv'
    BY SMTT(30), <1>3 DEF WorkInv, UniqueInv, SentInv, Has, Ack
  <1>7. EphemeralInv'
    BY <1>3 DEF WorkInv, EphemeralInv, Ephemeral
  <1> QED BY <1>4, <1>5, <1>6, <1>7 DEF WorkInv

\* What the loop, the dispatcher and the timers do to the rest of the state.
LEMMA RestWork ==
    ASSUME WorkInv, UNCHANGED <<attempts, acks, loops, tasks, scene, polled>>,
           disp'.stage \in {"check", "post"} =>
               disp' = [stage |-> disp'.stage, msg |-> disp'.msg, claim |-> disp'.claim]
    PROVE  WorkInv'
  <1>1. /\ ready' = ready /\ cur' = cur /\ pc' = pc /\ tasks' = tasks /\ polled' = polled
        /\ attempts' = attempts /\ sent' = sent /\ inflight' = inflight /\ scene' = scene
    BY DEF acks, loops
  <1>2. WorkType'
    BY <1>1 DEF WorkInv, WorkType
  <1>3. IssuedInv' /\ UniqueInv' /\ SentInv'
    BY SMTT(30), <1>1 DEF WorkInv, IssuedInv, UniqueInv, SentInv, Has, Ack
  <1>4. EphemeralInv'
    BY <1>1 DEF WorkInv, EphemeralInv, Ephemeral
  <1> QED BY <1>2, <1>3, <1>4 DEF WorkInv

\* A batch is claimed: its claims are later than all claims in work.
LEMMA ClaimWork ==
    ASSUME WorkInv, NEW s \in Subs, NEW C \in SUBSET Messages, TakeClaims(C), pc[s] = "claim",
           ready' = [ready EXCEPT ![s] = NewClaims(C)], pc' = [pc EXCEPT ![s] = "next"],
           UNCHANGED <<acks, cur, tasks, scene, polled, disp>>
    PROVE  WorkInv'
  <1>1. attempts' \in [Messages -> Nat] /\ \A m \in Messages : attempts[m] <= attempts'[m]
    BY SMTT(30) DEF WorkInv, WorkType, TakeClaims
  <1>2. /\ NewClaims(C) \subseteq Claims
        /\ \A c \in NewClaims(C) : c.claim = attempts'[c.msg] /\ c.claim > attempts[c.msg]
    BY SMTT(30) DEF WorkInv, WorkType, NewClaims, Claims, TakeClaims
  <1>3. /\ cur' = cur /\ tasks' = tasks /\ sent' = sent /\ inflight' = inflight
        /\ scene' = scene /\ polled' = polled /\ disp' = disp
    BY DEF acks
  <1>4. /\ ready' \in [Subs -> SUBSET Claims]
        /\ ready'[s] = NewClaims(C) /\ \A t \in Subs : t # s => ready'[t] = ready[t]
    BY <1>2 DEF WorkInv, WorkType
  <1>5. WorkType'
    BY <1>1, <1>3, <1>4 DEF WorkInv, WorkType
  <1>6. IssuedInv'
    <2>1. \A n, i, j \in Nat : n <= i /\ i <= j => n <= j
      BY SMTT(30)
    <2>2. \A t \in Subs : \A c \in ready'[t] : c.claim <= attempts'[c.msg]
      BY SMTT(30), <1>1, <1>2, <1>4, <2>1 DEF WorkInv, WorkType, IssuedInv, Claims
    <2>3. \A t \in Subs : cur[t] # None => cur[t].claim <= attempts'[cur[t].msg]
      BY SMTT(30), <1>1, <2>1 DEF WorkInv, WorkType, IssuedInv, InHand
    <2>4. \A k \in tasks : k.claim <= attempts'[k.msg]
      BY SMTT(30), <1>1, <2>1 DEF WorkInv, WorkType, IssuedInv, Tasks
    <2> QED BY <1>3, <2>2, <2>3, <2>4 DEF IssuedInv
  <1>7. UniqueInv'
    <2>1. \A c \in NewClaims(C) : c.claim \in Nat /\ attempts[c.msg] \in Nat /\ ~(c.claim <= attempts[c.msg])
      BY SMTT(30), <1>2 DEF WorkInv, WorkType, Claims
    <2>2. \A c \in NewClaims(C), t \in Subs : c \notin ready[t]
      BY <2>1 DEF WorkInv, IssuedInv
    <2>3. \A c \in NewClaims(C), t \in Subs : cur[t] # None => ~Has(cur[t], c)
      BY <2>1 DEF WorkInv, IssuedInv, Has
    <2>4. \A c \in NewClaims(C), k \in tasks : ~Has(k, c)
      BY <2>1 DEF WorkInv, IssuedInv, Has
    <2>5. \A t, u \in Subs : t # u => ready'[t] \cap ready'[u] = {}
      BY <1>4, <2>2 DEF WorkInv, UniqueInv
    <2>6. \A t, u \in Subs : cur[u] # None => \A c \in ready'[t] : ~Has(cur[u], c)
      BY <1>4, <2>3 DEF WorkInv, UniqueInv
    <2>7. \A t \in Subs : \A c \in ready'[t], k \in tasks : ~Has(k, c)
      BY <1>4, <2>4 DEF WorkInv, UniqueInv
    <2> QED BY SMTT(30), <1>3, <2>5, <2>6, <2>7 DEF WorkInv, UniqueInv, Has
  <1>8. SentInv'
    BY <1>3 DEF WorkInv, SentInv, Has, Ack
  <1>9. EphemeralInv'
    BY <1>3 DEF WorkInv, EphemeralInv, Ephemeral
  <1> QED BY <1>5, <1>6, <1>7, <1>8, <1>9 DEF WorkInv

\* A claim goes from the batch into the hand.
LEMMA HandWork ==
    ASSUME WorkInv, NEW s \in Subs, NEW c \in ready[s], pc[s] # "send",
           NEW e \in BOOLEAN, NEW T \in SUBSET Subs, e = TRUE => TopicOf[c.msg] \in Ephemeral,
           ready' = [ready EXCEPT ![s] = @ \ {c}], cur' = [cur EXCEPT ![s] = Hand(c, e, T)],
           pc' = [pc EXCEPT ![s] = "send"],
           UNCHANGED <<attempts, acks, tasks, scene, polled, disp>>
    PROVE  WorkInv'
  <1> DEFINE h == Hand(c, e, T)
  <1>0. c \in Claims /\ cur[s] = None
    BY DEF WorkInv, WorkType
  <1>1. /\ h \in InHand /\ h # None /\ h.msg = c.msg /\ h.claim = c.claim /\ h.waits = {}
        /\ h.eph = e
    BY SMTT(30), <1>0, NoneAssumption DEF Hand, InHand, Claims
  <1> HIDE DEF h
  <1>2. /\ attempts' = attempts /\ tasks' = tasks /\ sent' = sent /\ inflight' = inflight
        /\ scene' = scene /\ polled' = polled /\ disp' = disp
    BY DEF acks
  <1>3. /\ ready' \in [Subs -> SUBSET Claims] /\ c \notin ready'[s]
        /\ \A t \in Subs : ready'[t] \subseteq ready[t]
    BY DEF WorkInv, WorkType
  <1>4. /\ cur' \in [Subs -> InHand \cup {None}] /\ cur'[s] = h
        /\ \A t \in Subs : t # s => cur'[t] = cur[t]
    BY <1>1 DEF WorkInv, WorkType, h
  <1>5. WorkType'
    BY <1>1, <1>2, <1>3, <1>4 DEF WorkInv, WorkType
  <1>6. IssuedInv'
    BY SMTT(30), <1>1, <1>2, <1>3, <1>4 DEF WorkInv, IssuedInv
  <1>7. UniqueInv'
    <2>1. \A t \in Subs : \A d \in ready'[t] : ~Has(h, d)
      <3> SUFFICES ASSUME NEW t \in Subs, NEW d \in ready'[t], Has(h, d) PROVE FALSE
        OBVIOUS
      <3>1. d \in Claims /\ d \in ready[t]
        BY <1>3
      <3>2. d = c
        BY <1>0, <1>1, <3>1, ClaimByFields DEF Has
      <3> QED BY <1>3, <3>1, <3>2 DEF WorkInv, UniqueInv
    <2>2. \A t, u \in Subs : t # u => ready'[t] \cap ready'[u] = {}
      BY <1>3 DEF WorkInv, UniqueInv
    <2>3. \A t, u \in Subs : cur'[u] # None => \A d \in ready'[t] : ~Has(cur'[u], d)
      BY <1>3, <1>4, <2>1 DEF WorkInv, UniqueInv
    <2>4. \A t \in Subs : \A d \in ready'[t], k \in tasks : ~Has(k, d)
      BY <1>3 DEF WorkInv, UniqueInv
    <2>5. \A t \in Subs : t # s /\ cur[t] # None => ~Has(cur[t], h) /\ ~Has(h, cur[t])
      BY SMTT(30), <1>1 DEF WorkInv, UniqueInv, Has
    <2>6. \A k \in tasks : ~Has(k, h)
      BY <1>1 DEF WorkInv, UniqueInv, Has
    <2>7. \A t, u \in Subs : t # u /\ cur'[t] # None /\ cur'[u] # None => ~Has(cur'[t], cur'[u])
      BY <1>4, <2>5 DEF WorkInv, UniqueInv
    <2>8. \A t \in Subs, k \in tasks : cur'[t] # None => ~Has(k, cur'[t])
      BY <1>4, <2>6 DEF WorkInv, UniqueInv
    <2> QED BY <1>2, <2>2, <2>3, <2>4, <2>7, <2>8 DEF WorkInv, UniqueInv, Has
  <1>8. SentInv'
    <2>1. \A a \in sent : \/ \E t \in Subs : cur'[t] # None /\ Has(cur'[t], a) /\ a.to \in cur'[t].waits
                          \/ \E k \in tasks : Has(k, a) /\ a.to \in k.waits
      BY <1>0, <1>4 DEF WorkInv, SentInv
    <2>2. \A t \in Subs : cur'[t] # None => \A x \in cur'[t].waits : Ack(cur'[t], x) \in sent
      BY <1>1, <1>4 DEF WorkInv, SentInv
    <2> QED BY <1>2, <2>1, <2>2 DEF WorkInv, SentInv, Has, Ack
  <1>9. EphemeralInv'
    BY <1>1, <1>2, <1>4 DEF WorkInv, EphemeralInv, Ephemeral
  <1> QED BY <1>5, <1>6, <1>7, <1>8, <1>9 DEF WorkInv

\* What a send changes of the message in hand.
LEMMA SendHand ==
    ASSUME WorkType, NEW s \in Subs, NEW x \in Subs, Send(s, x)
    PROVE  /\ cur[s] \in InHand /\ cur[s] # None /\ pc[s] = "send"
           /\ cur' \in [Subs -> InHand \cup {None}] /\ cur'[s] \in InHand /\ cur'[s] # None
           /\ \A t \in Subs : t # s => cur'[t] = cur[t]
           /\ cur'[s].msg = cur[s].msg /\ cur'[s].claim = cur[s].claim /\ cur'[s].eph = cur[s].eph
           /\ \/ cur'[s].waits = cur[s].waits /\ sent' = sent /\ inflight' = inflight
              \/ /\ cur'[s].waits = cur[s].waits \cup {x}
                 /\ sent' = sent \cup {Ack(cur[s], x)} /\ inflight' = inflight \cup {Ack(cur[s], x)}
  <1> DEFINE h == cur[s]
             n == cur'[s]
  <1>1. h \in InHand /\ h # None /\ pc[s] = "send"
    BY DEF WorkType, Send
  <1>2. /\ n \in InHand /\ n.msg = h.msg /\ n.claim = h.claim /\ n.eph = h.eph
        /\ \/ n.waits = h.waits /\ sent' = sent /\ inflight' = inflight
           \/ /\ n.waits = h.waits \cup {x}
              /\ sent' = sent \cup {Ack(h, x)} /\ inflight' = inflight \cup {Ack(h, x)}
    <2>1. cur \in [Subs -> InHand \cup {None}]
      BY DEF WorkType
    <2>2. CASE /\ cur' = [cur EXCEPT ![s].todo = @ \ {x}, ![s].waits = @ \cup {x}]
               /\ sent' = sent \cup {Ack(h, x)} /\ inflight' = inflight \cup {Ack(h, x)}
      <3>1. n = [[h EXCEPT !.todo = @ \ {x}] EXCEPT !.waits = @ \cup {x}]
        BY <2>1, <2>2
      <3>2. [h EXCEPT !.todo = @ \ {x}] \in InHand
        BY <1>1 DEF InHand
      <3>3. n \in InHand
        <4>1. \A g \in InHand : [g EXCEPT !.waits = @ \cup {x}] \in InHand
          BY DEF InHand
        <4> QED BY <3>1, <3>2, <4>1
      <3>4. n.msg = h.msg /\ n.claim = h.claim /\ n.eph = h.eph
        BY <1>1, <3>1 DEF InHand
      <3>5. n.waits = h.waits \cup {x}
        BY <1>1, <3>1 DEF InHand
      <3> QED BY <2>2, <3>3, <3>4, <3>5
    <2>3. CASE cur' = [cur EXCEPT ![s].todo = @ \ {x}] /\ UNCHANGED <<inflight, sent>>
      <3>1. n = [h EXCEPT !.todo = @ \ {x}]
        BY <2>1, <2>3
      <3> QED BY SMTT(30), <1>1, <2>3, <3>1 DEF InHand
    <2> QED BY <2>2, <2>3 DEF Send
  <1>3. /\ cur' \in [Subs -> InHand \cup {None}] /\ n # None
        /\ \A t \in Subs : t # s => cur'[t] = cur[t]
    BY <1>2, NoneAssumption DEF WorkType, Send
  <1> QED BY <1>1, <1>2, <1>3

\* A copy is sent, or its target does not take it.
LEMMA SendWork ==
    ASSUME WorkInv, NEW s \in Subs, NEW x \in Subs, Send(s, x)
    PROVE  WorkInv'
  <1> DEFINE h == cur[s]
             n == cur'[s]
  <1>0. WorkType
    BY DEF WorkInv
  <1>1. h \in InHand /\ h # None /\ pc[s] = "send"
    BY <1>0, SendHand
  <1>2. /\ n \in InHand /\ n.msg = h.msg /\ n.claim = h.claim /\ n.eph = h.eph
        /\ \/ n.waits = h.waits /\ sent' = sent /\ inflight' = inflight
           \/ /\ n.waits = h.waits \cup {x}
              /\ sent' = sent \cup {Ack(h, x)} /\ inflight' = inflight \cup {Ack(h, x)}
    BY <1>0, SendHand
  <1>3. /\ cur' \in [Subs -> InHand \cup {None}] /\ n # None
        /\ \A t \in Subs : t # s => cur'[t] = cur[t]
    BY <1>0, SendHand
  <1>4. /\ attempts' = attempts /\ tasks' = tasks /\ ready' = ready /\ pc' = pc
        /\ scene' = scene /\ polled' = polled /\ disp' = disp
    BY DEF Send, store, ends, others
  <1>5. Ack(h, x) \in Acks /\ Ack(h, x).msg = h.msg /\ Ack(h, x).claim = h.claim /\ Ack(h, x).to = x
    BY <1>1 DEF Ack, Acks, InHand
  <1>6. Ack(n, x) = Ack(h, x) /\ \A y \in Subs : Ack(n, y) = Ack(h, y)
    BY <1>2 DEF Ack
  <1>7. WorkType'
    BY <1>1, <1>2, <1>3, <1>4, <1>5 DEF WorkInv, WorkType
  <1>8. IssuedInv'
    BY <1>1, <1>2, <1>3, <1>4 DEF WorkInv, IssuedInv
  <1>9. UniqueInv'
    <2>1. \A c : (Has(n, c) <=> Has(h, c)) /\ (Has(c, n) <=> Has(c, h))
      BY <1>2 DEF Has
    <2>2. \A t, u \in Subs : cur'[u] # None => \A c \in ready[t] : ~Has(cur'[u], c)
      BY <1>1, <1>3, <2>1 DEF WorkInv, UniqueInv
    <2>3. \A t, u \in Subs : t # u /\ cur'[t] # None /\ cur'[u] # None => ~Has(cur'[t], cur'[u])
      BY <1>1, <1>3, <2>1 DEF WorkInv, UniqueInv
    <2>4. \A t \in Subs, k \in tasks : cur'[t] # None => ~Has(k, cur'[t])
      BY <1>1, <1>3, <2>1 DEF WorkInv, UniqueInv
    <2> QED BY <1>4, <2>2, <2>3, <2>4 DEF WorkInv, UniqueInv, Has
  <1>10. SentInv'
    <2>1. ASSUME NEW a \in sent'
          PROVE  \/ \E t \in Subs : cur'[t] # None /\ Has(cur'[t], a) /\ a.to \in cur'[t].waits
                 \/ \E k \in tasks : Has(k, a) /\ a.to \in k.waits
      <3>1. CASE a \in sent
        BY SMTT(30), <1>2, <1>3, <3>1 DEF WorkInv, SentInv, Has
      <3>2. CASE a \notin sent
        <4>1. Has(n, a) /\ a.to \in n.waits
          BY <1>2, <1>5, <3>2 DEF Has
        <4> QED BY <1>3, <4>1
      <3> QED BY <3>1, <3>2
    <2>2. ASSUME NEW t \in Subs, cur'[t] # None, NEW y \in cur'[t].waits PROVE Ack(cur'[t], y) \in sent'
      <3>1. CASE t # s
        BY <1>2, <1>3, <2>2, <3>1 DEF WorkInv, SentInv
      <3>2. CASE t = s
        <4>1. y \in Subs
          BY <1>2, <3>2 DEF InHand
        <4> QED BY <1>1, <1>2, <1>6, <3>2, <4>1 DEF WorkInv, SentInv
      <3> QED BY <3>1, <3>2
    <2>3. \A k \in tasks : k.waits # {} /\ \A y \in k.waits : Ack(k, y) \in sent'
      BY <1>2 DEF WorkInv, SentInv
    <2> QED BY <1>4, <2>1, <2>2, <2>3 DEF SentInv, Has, Ack
  <1>11. EphemeralInv'
    BY <1>1, <1>2, <1>3, <1>4 DEF WorkInv, EphemeralInv, Ephemeral
  <1> QED BY <1>7, <1>8, <1>9, <1>10, <1>11 DEF WorkInv

\* The hand is emptied: the copies are discarded, or there are none, or a task
\* takes them over.
LEMMA EmptyWork ==
    ASSUME WorkInv, NEW s \in Subs, AfterSend(s)
    PROVE  WorkInv'
  <1> DEFINE h == cur[s]
             k == [sub |-> s, msg |-> h.msg, claim |-> h.claim, waits |-> h.waits]
  <1>1. h \in InHand /\ h # None /\ pc[s] = "send"
    BY DEF WorkInv, WorkType, AfterSend
  <1>2. /\ attempts' = attempts /\ ready' = ready
        /\ scene' = scene /\ polled' = polled /\ disp' = disp
    BY DEF AfterSend, Runs, Settle, Fail, Broken, store, ends, others
  <1>3. /\ cur' \in [Subs -> InHand \cup {None}] /\ cur'[s] = None
        /\ \A t \in Subs : t # s => cur'[t] = cur[t]
    BY DEF WorkInv, WorkType, AfterSend
  <1>4. /\ pc' \in [Subs -> {"off", "registered", "top", "permit", "claim", "idle", "next", "send",
                             "closing", "left", "drop", "done"}]
        /\ pc'[s] # "send" /\ \A t \in Subs : t # s => pc'[t] = pc[t]
    <2>1. \E l \in {"top", "closing"} : pc' = [pc EXCEPT ![s] = l]
      BY DEF AfterSend, Goto
    <2> QED BY <2>1 DEF WorkInv, WorkType
  <1>5. /\ k \in Tasks /\ k.waits = h.waits /\ k.msg = h.msg /\ k.claim = h.claim
        /\ \A y : Ack(k, y) = Ack(h, y)
        /\ \A c : (Has(k, c) <=> Has(h, c)) /\ (Has(c, k) <=> Has(c, h))
    BY <1>1 DEF InHand, Tasks, Ack, Has
  <1> HIDE DEF k
  <1>6. \/ tasks' = tasks /\ Discard(h)
        \/ tasks' = tasks /\ h.waits = {} /\ sent' = sent /\ inflight' = inflight
        \/ tasks' = tasks \cup {k} /\ h.waits # {} /\ sent' = sent /\ inflight' = inflight
    BY DEF AfterSend, acks, k
  <1>7. /\ sent' \subseteq sent /\ inflight' \subseteq sent'
        /\ tasks \subseteq tasks' /\ tasks' \subseteq tasks \cup {k}
    BY <1>6 DEF WorkInv, WorkType, Discard
  <1>8. WorkType'
    BY <1>2, <1>3, <1>4, <1>5, <1>7 DEF WorkInv, WorkType
  <1>9. IssuedInv'
    BY <1>1, <1>2, <1>3, <1>5, <1>7 DEF WorkInv, IssuedInv
  <1>10. UniqueInv'
    <2>1. \A t, u \in Subs : cur'[u] # None => \A c \in ready[t] : ~Has(cur'[u], c)
      BY <1>3 DEF WorkInv, UniqueInv
    <2>2. \A t \in Subs : \A c \in ready[t], l \in tasks' : ~Has(l, c)
      BY SMTT(30), <1>1, <1>5, <1>7 DEF WorkInv, UniqueInv
    <2>3. \A t, u \in Subs : t # u /\ cur'[t] # None /\ cur'[u] # None => ~Has(cur'[t], cur'[u])
      BY <1>3 DEF WorkInv, UniqueInv
    <2>4. \A t \in Subs, l \in tasks' : cur'[t] # None => ~Has(l, cur'[t])
      BY SMTT(30), <1>1, <1>3, <1>5, <1>7 DEF WorkInv, UniqueInv
    <2>5. \A l \in tasks : ~Has(l, k) /\ ~Has(k, l)
      BY <1>1, <1>5 DEF WorkInv, UniqueInv, Has
    <2>6. \A l, j \in tasks' : Has(l, j) => l = j
      BY <1>7, <2>5 DEF WorkInv, UniqueInv
    <2>7. \A t, u \in Subs : t # u => ready[t] \cap ready[u] = {}
      BY DEF WorkInv, UniqueInv
    <2> QED BY <1>2, <2>1, <2>2, <2>3, <2>4, <2>6, <2>7 DEF UniqueInv, Has
  <1>11. SentInv'
    <2>1. ASSUME NEW a \in sent'
          PROVE  \/ \E t \in Subs : cur'[t] # None /\ Has(cur'[t], a) /\ a.to \in cur'[t].waits
                 \/ \E l \in tasks' : Has(l, a) /\ a.to \in l.waits
      <3>1. CASE \E t \in Subs : t # s /\ cur[t] # None /\ Has(cur[t], a) /\ a.to \in cur[t].waits
        BY <1>3, <3>1
      <3>2. CASE \E l \in tasks : Has(l, a) /\ a.to \in l.waits
        BY <1>7, <3>2
      <3>3. CASE Has(h, a) /\ a.to \in h.waits
        <4>1. ~Discard(h)
          BY <3>3 DEF Discard, Has
        <4>2. k \in tasks'
          BY <1>6, <3>3, <4>1
        <4> QED BY <1>5, <3>3, <4>2
      <3> QED BY <1>7, <3>1, <3>2, <3>3 DEF WorkInv, SentInv
    <2>2. \A a \in sent : a \in sent' \/ Has(h, a)
      BY <1>6 DEF Discard, Has
    <2>3. ASSUME NEW t \in Subs, cur'[t] # None, NEW y \in cur'[t].waits PROVE Ack(cur'[t], y) \in sent'
      <3>1. t # s /\ cur'[t] = cur[t] /\ cur[t] # None
        BY <1>3, <2>3
      <3>2. Ack(cur[t], y) \in sent
        BY <2>3, <3>1 DEF WorkInv, SentInv
      <3>3. ~Has(h, Ack(cur[t], y))
        BY <1>1, <3>1 DEF WorkInv, UniqueInv, Has, Ack
      <3> QED BY <2>2, <3>1, <3>2, <3>3
    <2>4. ASSUME NEW l \in tasks' PROVE l.waits # {} /\ \A y \in l.waits : Ack(l, y) \in sent'
      <3>1. CASE l \in tasks
        <4>1. \A y : ~Has(h, Ack(l, y))
          BY <1>1, <3>1 DEF WorkInv, UniqueInv, Has, Ack
        <4> QED BY <2>2, <3>1, <4>1 DEF WorkInv, SentInv
      <3>2. CASE l \notin tasks
        <4>1. l = k /\ h.waits # {} /\ sent' = sent
          BY <1>6, <3>2
        <4> QED BY <1>1, <1>5, <4>1 DEF WorkInv, SentInv
      <3> QED BY <3>1, <3>2
    <2> QED BY <2>1, <2>3, <2>4 DEF SentInv, Has, Ack
  <1>12. EphemeralInv'
    BY <1>2, <1>3 DEF WorkInv, EphemeralInv, Ephemeral
  <1> QED BY <1>8, <1>9, <1>10, <1>11, <1>12 DEF WorkInv

\* A task ends and takes its copies along, and nobody else's.
LEMMA TaskWork ==
    ASSUME WorkInv, NEW k \in tasks, TaskEnds(k)
    PROVE  WorkInv'
  <1>1. /\ attempts' = attempts /\ ready' = ready /\ cur' = cur /\ pc' = pc
        /\ scene' = scene /\ polled' = polled /\ disp' = disp /\ tasks' = tasks \ {k}
    BY DEF TaskEnds, Runs, Settle, Fail, Broken, store, ends, others, loops
  <1>2. /\ sent' = {a \in sent : ~Has(k, a)}
        /\ inflight' = {a \in inflight : ~Has(k, a)}
    BY DEF TaskEnds, Discard, Has
  <1>3. WorkType'
    BY <1>1, <1>2 DEF WorkInv, WorkType
  <1>4. IssuedInv' /\ UniqueInv'
    BY <1>1 DEF WorkInv, IssuedInv, UniqueInv, Has
  <1>5. SentInv'
    <2>1. ASSUME NEW a \in sent'
          PROVE  \/ \E t \in Subs : cur[t] # None /\ Has(cur[t], a) /\ a.to \in cur[t].waits
                 \/ \E l \in tasks' : Has(l, a) /\ a.to \in l.waits
      BY <1>1, <1>2 DEF WorkInv, SentInv
    <2>2. ASSUME NEW t \in Subs, cur[t] # None, NEW y \in cur[t].waits PROVE Ack(cur[t], y) \in sent'
      <3>1. ~Has(k, Ack(cur[t], y))
        BY <2>2 DEF WorkInv, UniqueInv, Has, Ack
      <3> QED BY <1>2, <2>2, <3>1 DEF WorkInv, SentInv
    <2>3. ASSUME NEW l \in tasks' PROVE l.waits # {} /\ \A y \in l.waits : Ack(l, y) \in sent'
      <3>1. \A y : ~Has(k, Ack(l, y))
        BY <1>1 DEF WorkInv, UniqueInv, Has, Ack
      <3>2. l.waits # {} /\ \A y \in l.waits : Ack(l, y) \in sent
        BY <1>1, <2>3 DEF WorkInv, SentInv
      <3> QED BY <1>2, <3>1, <3>2
    <2> QED BY <1>1, <2>1, <2>2, <2>3 DEF SentInv, Has, Ack
  <1>6. EphemeralInv'
    BY <1>1 DEF WorkInv, EphemeralInv, Ephemeral
  <1> QED BY <1>3, <1>4, <1>5, <1>6 DEF WorkInv

\* Every step keeps the invariant.
LEMMA NextWork ==
    ASSUME WorkInv, [Next]_vars
    PROVE  WorkInv'
  <1>0. ASSUME disp' = disp
        PROVE  disp'.stage \in {"check", "post"} =>
                   disp' = [stage |-> disp'.stage, msg |-> disp'.msg, claim |-> disp'.claim]
    BY <1>0 DEF WorkInv, WorkType
  <1>1. CASE UNCHANGED vars
    BY <1>0, <1>1, RestWork DEF vars, store, ends, others
  <1>2. ASSUME NEW m \in Messages,
               Publish(m) \/ NotifyReady(m) \/ BackoffEnds(m) \/ Reclaim(m) \/ Poll(m)
        PROVE  WorkInv'
    <2>1. CASE Publish(m) \/ NotifyReady(m) \/ BackoffEnds(m) \/ Reclaim(m)
      <3>1. UNCHANGED <<attempts, acks, loops, tasks, scene, polled, disp>>
        BY <2>1 DEF Publish, NotifyReady, BackoffEnds, Reclaim, store, ends, others
      <3> QED BY <1>0, <3>1, RestWork
    <2>2. CASE Poll(m)
      <3>1. /\ TakeClaims({m}) /\ polled' = polled \cup NewClaims({m})
            /\ UNCHANGED <<acks, loops, tasks, scene>> /\ disp' = disp
        BY <2>2 DEF Poll, ends
      <3>2. {m} \in SUBSET Messages
        OBVIOUS
      <3> QED BY <3>1, <3>2, OutsideWork
    <2> QED BY <1>2, <2>1, <2>2
  <1>3. ASSUME NEW s \in Subs, CloseStream(s) \/ CancelStream(s) PROVE WorkInv'
    <2>1. UNCHANGED <<attempts, acks, loops, tasks, scene, polled, disp>>
      BY <1>3 DEF CloseStream, CancelStream, store, others
    <2> QED BY <1>0, <2>1, RestWork
  <1>4. ASSUME NEW k \in tasks, TaskEnds(k) PROVE WorkInv'
    BY <1>4, TaskWork
  <1>5. ASSUME NEW a \in inflight, NEW ok \in BOOLEAN, Complete(a, ok) PROVE WorkInv'
    BY <1>5, QuietWork DEF Complete, Quiet, store, ends, loops, others
  <1>6. ASSUME NEW c \in polled, NEW ok \in BOOLEAN, PollAck(c, ok) PROVE WorkInv'
    <2>1. attempts' = attempts
      BY <1>6 DEF PollAck, Runs, Settle, Fail, Broken, store
    <2> QED BY <1>6, <2>1, QuietWork DEF PollAck, Quiet, ends, loops, acks
  <1>7. CASE Dispatcher
    <2>1. CASE DispatchSkip
      <3>1. UNCHANGED <<attempts, acks, loops, tasks, scene, polled>>
        BY <2>1 DEF DispatchSkip, store, ends
      <3>2. PICK E \in {Ephemeral, {}} :
                disp' = [stage |-> "skip", skip |-> {r.filter : r \in registry} \cup E]
        BY <2>1 DEF DispatchSkip
      <3>3. disp'.stage = "skip"
        BY <3>2
      <3> QED BY <3>1, <3>3, RestWork
    <2>2. CASE DispatchClaim
      <3>1. CASE disp' = Resting /\ UNCHANGED store
        <4>1. /\ UNCHANGED <<attempts, acks, loops, tasks, scene, polled>>
              /\ disp'.stage = "rest"
          BY <2>2, <3>1 DEF DispatchClaim, store, ends, Resting
        <4> QED BY <4>1, RestWork
      <3>2. ASSUME NEW m \in Messages, TakeClaims({m}),
                   disp' = [stage |-> "check", msg |-> m, claim |-> attempts[m] + 1]
            PROVE  WorkInv'
        <4>1. UNCHANGED <<acks, loops, tasks, scene, polled>>
          BY <2>2 DEF DispatchClaim, ends
        <4> QED BY <3>2, <4>1, OutsideWork
      <3> QED BY <2>2, <3>1, <3>2 DEF DispatchClaim
    <2>3. CASE DispatchCheck
      <3>1. UNCHANGED <<attempts, acks, loops, tasks, scene, polled>>
        BY <2>3 DEF DispatchCheck, Broken, store, ends
      <3>2. CASE disp' = Resting
        <4>1. disp'.stage = "rest"
          BY <3>2 DEF Resting
        <4> QED BY <3>1, <4>1, RestWork
      <3>3. CASE disp' = [disp EXCEPT !.stage = "post"]
        <4>1. disp = [stage |-> disp.stage, msg |-> disp.msg, claim |-> disp.claim]
          BY <2>3 DEF DispatchCheck, WorkInv, WorkType
        <4>2. disp' = [stage |-> "post", msg |-> disp.msg, claim |-> disp.claim]
          BY <3>3, <4>1
        <4>3. disp' = [stage |-> disp'.stage, msg |-> disp'.msg, claim |-> disp'.claim]
          BY <4>2
        <4> QED BY <3>1, <4>3, RestWork
      <3> QED BY <2>3, <3>2, <3>3 DEF DispatchCheck
    <2>4. ASSUME NEW ok \in BOOLEAN, DispatchPost(ok) PROVE WorkInv'
      <3>1. UNCHANGED <<attempts, acks, loops, tasks, scene, polled>> /\ disp'.stage = "rest"
        BY <2>4 DEF DispatchPost, Runs, Settle, Fail, Broken, store, ends, Resting
      <3> QED BY <3>1, RestWork
    <2> QED BY <1>7, <2>1, <2>2, <2>3, <2>4 DEF Dispatcher
  <1>8. ASSUME NEW s \in Subs, Loop(s) PROVE WorkInv'
    <2>0. pc \in [Subs -> {"off", "registered", "top", "permit", "claim", "idle", "next", "send",
                            "closing", "left", "drop", "done"}]
      BY DEF WorkInv, WorkType
    <2>1. CASE Register(s) \/ Watch(s)
      BY <2>1, QuietWork DEF Register, Watch, Goto, Quiet, store, acks, ends, others
    <2>2. CASE Top(s) \/ Permit(s)
      BY <2>2, QuietWork DEF Top, Permit, StartClaim, Goto, Quiet, store, acks, ends, others
    <2>3. CASE Idle(s) \/ ClaimFails(s)
      <3>1. CASE Idle(s)
        BY <3>1, QuietWork DEF Idle, Goto, Quiet, store, acks, ends, others
      <3>2. CASE ClaimFails(s)
        BY <3>2, QuietWork DEF ClaimFails, Broken, Goto, Quiet, store, acks, ends, others
      <3> QED BY <2>3, <3>1, <3>2
    <2>4. CASE Leave(s) \/ CheckCovered(s)
      BY <2>4, QuietWork DEF Leave, CheckCovered, Goto, Quiet, store, acks, ends, others
    <2>5. CASE DropPending(s)
      BY <2>5, QuietWork DEF DropPending, Runs, Broken, Goto, Quiet, store, acks, ends, others
    <2>6. ASSUME NEW t \in todo[s], ClaimTopic(s, t) PROVE WorkInv'
      <3>1. pc[s] = "claim" /\ UNCHANGED <<acks, cur, tasks, scene, polled, disp>>
        BY <2>6 DEF ClaimTopic, ends, others
      <3>2. CASE UNCHANGED <<store, ready>> /\ pc' \in {[pc EXCEPT ![s] = "idle"], [pc EXCEPT ![s] = "claim"]}
        BY <3>1, <3>2, QuietWork DEF Quiet, store, acks
      <3>3. ASSUME NEW C \in SUBSET Messages, TakeClaims(C),
                   ready' = [ready EXCEPT ![s] = NewClaims(C)], pc' = [pc EXCEPT ![s] = "next"]
            PROVE  WorkInv'
        BY <3>1, <3>3, ClaimWork
      <3> QED BY <2>6, <3>2, <3>3 DEF ClaimTopic, Goto, Claimable
    <2>7. ASSUME NEW c \in ready[s], TakeNext(s, c) PROVE WorkInv'
      <3>1. /\ UNCHANGED <<attempts, acks, tasks, scene, polled, disp>>
            /\ ready' = [ready EXCEPT ![s] = @ \ {c}] /\ pc[s] # "send"
        BY <2>7 DEF TakeNext, ReleaseAndWake, Settle, Broken, store, ends, others
      <3>2. CASE pc' = [pc EXCEPT ![s] = "top"] /\ cur' = cur
        BY <3>1, <3>2, QuietWork DEF Quiet, acks
      <3>3. ASSUME NEW e \in BOOLEAN, NEW T \in SUBSET Subs, e = TRUE => TopicOf[c.msg] \in Ephemeral,
                   cur' = [cur EXCEPT ![s] = Hand(c, e, T)], pc' = [pc EXCEPT ![s] = "send"]
            PROVE  WorkInv'
        BY <3>1, <3>3, HandWork
      <3>4. \/ pc' = [pc EXCEPT ![s] = "top"] /\ cur' = cur
            \/ /\ pc' = [pc EXCEPT ![s] = "send"]
               /\ \/ \E T \in SUBSET Subs :
                        cur' = [cur EXCEPT ![s] = Hand(c, TopicOf[c.msg] \in Ephemeral,
                                                       IF T = {} THEN {s} ELSE T)]
                  \/ cur' = [cur EXCEPT ![s] = Hand(c, TopicOf[c.msg] \in Ephemeral, {s})]
                  \/ cur' = [cur EXCEPT ![s] = Hand(c, FALSE, {s})]
        BY <2>7 DEF TakeNext, Goto
      <3>5. \A T \in SUBSET Subs : (IF T = {} THEN {s} ELSE T) \in SUBSET Subs
        OBVIOUS
      <3>6. (TopicOf[c.msg] \in Ephemeral) \in BOOLEAN /\ {s} \in SUBSET Subs
        BY SMTT(30)
      <3>7. CASE \E T \in SUBSET Subs :
                     /\ pc' = [pc EXCEPT ![s] = "send"]
                     /\ cur' = [cur EXCEPT ![s] = Hand(c, TopicOf[c.msg] \in Ephemeral, T)]
        BY <3>3, <3>6, <3>7
      <3>8. CASE pc' = [pc EXCEPT ![s] = "send"] /\ cur' = [cur EXCEPT ![s] = Hand(c, FALSE, {s})]
        BY <3>3, <3>6, <3>8
      <3> QED BY <3>2, <3>4, <3>5, <3>6, <3>7, <3>8
    <2>8. ASSUME NEW c \in ready[s], ReleaseRest(s, c) PROVE WorkInv'
      <3>1. attempts' = attempts
        BY <2>8 DEF ReleaseRest, ReleaseAndWake, Settle, Broken, store
      <3> QED BY <2>8, <3>1, QuietWork DEF ReleaseRest, Quiet, acks, ends, others
    <2> QED BY <1>8, <2>1, <2>2, <2>3, <2>4, <2>5, <2>6, <2>7, <2>8, SendWork, EmptyWork DEF Loop
  <1> QED BY <1>1, <1>2, <1>3, <1>4, <1>5, <1>6, <1>7, <1>8 DEF Next, Task

\* Nothing is in work at the start.
LEMMA InitWork == ASSUME Init PROVE WorkInv
  <1>1. WorkType
    BY DEF Init, WorkType, Resting
  <1>2. IssuedInv /\ UniqueInv /\ SentInv /\ EphemeralInv
    BY DEF Init, IssuedInv, UniqueInv, SentInv, EphemeralInv
  <1> QED BY <1>1, <1>2 DEF WorkInv

\* No acknowledgement entry outlives its delivery (subscribers.rs:140-222 with
\* delivery.rs:255-430): an entry is in `sent`, and `sent` is owned.
THEOREM InflightIsOwned == Spec => []InflightOwned
  <1>1. WorkInv => InflightOwned
    <2> SUFFICES ASSUME WorkInv, NEW a \in inflight
                 PROVE  \/ \E s \in Subs : cur[s] # None /\ a.to \in cur[s].waits /\ Ack(cur[s], a.to) = a
                        \/ \E k \in tasks : a.to \in k.waits /\ Ack(k, a.to) = a
      BY DEF InflightOwned
    <2>1. a \in sent /\ a = [msg |-> a.msg, claim |-> a.claim, to |-> a.to]
      BY DEF WorkInv, WorkType, Acks
    <2>2. \A h : Has(h, a) => Ack(h, a.to) = a
      BY <2>1 DEF Has, Ack
    <2> QED BY <2>1, <2>2 DEF WorkInv, SentInv
  <1> QED BY <1>1, InitWork, NextWork, PTL DEF Spec

\* Who may mark the claimed row of m delivered.
Deliverer(m) ==
    \/ \E s \in Subs : pc[s] = "send" /\ cur[s].eph = TRUE /\ cur[s].msg = m
    \/ \E k \in tasks : /\ k.msg = m /\ k.claim = attempts[m]
                        /\ Answered(k) = k.waits
    \/ \E c \in polled : c.msg = m /\ c.claim = attempts[m]
    \/ disp.stage = "post" /\ disp.msg = m /\ disp.claim = attempts[m]

\* A statement that changes a row to delivered names the row and its claim.
LEMMA SettleDelivers ==
    ASSUME StoreType, NEW c, NEW v, Settle(c, v), NEW m \in Messages,
           status[m] = "processing", status'[m] = "delivered"
    PROVE  c.msg = m /\ c.claim = attempts[m] /\ v = "delivered"
  BY DEF StoreType, Settle, Held

\* failed, a claim, and a statement that fails deliver nothing.
LEMMA OthersDeliverNothing ==
    ASSUME StoreType, NEW m \in Messages, status[m] = "processing", status'[m] = "delivered",
           \/ \E c : Fail(c)
           \/ \E C : TakeClaims(C)
           \/ \E n, v : status' = [status EXCEPT ![n] = v] /\ v = "pending"
           \/ status' = status
    PROVE  FALSE
  BY DEF StoreType, Fail, TakeClaims

\* A row is marked delivered by the end of an ephemeral delivery, by a task
\* that has all its answers, by an HTTP consumer or by the dispatcher.
LEMMA DelivererNext ==
    ASSUME StoreType, [Next]_vars, NEW m \in Messages,
           status[m] = "processing", status'[m] = "delivered"
    PROVE  Deliverer(m)
  <1>0. status' # status /\ ~Broken /\ ~UNCHANGED store
    BY DEF Broken, store
  <1>1. \A c : ~Fail(c) /\ ~ReleaseAndWake(c)
    BY SMTT(30), OthersDeliverNothing, SettleDelivers DEF ReleaseAndWake
  <1>2. \A C : ~TakeClaims(C)
    BY OthersDeliverNothing
  <1>3. ASSUME NEW n \in Messages,
               Publish(n) \/ NotifyReady(n) \/ BackoffEnds(n) \/ Reclaim(n) \/ Poll(n)
        PROVE  FALSE
    BY <1>0, <1>2, <1>3, OthersDeliverNothing DEF Publish, NotifyReady, BackoffEnds, Reclaim,
       Poll, store
  <1>4. ASSUME NEW s \in Subs, CloseStream(s) \/ CancelStream(s) PROVE FALSE
    BY <1>0, <1>4 DEF CloseStream, CancelStream
  <1>5. ASSUME NEW k \in tasks, TaskEnds(k) PROVE Deliverer(m)
    <2>1. Answered(k) = k.waits /\ Settle(k, "delivered")
      BY <1>0, <1>1, <1>5 DEF TaskEnds, Runs
    <2> QED BY <2>1, SettleDelivers DEF Deliverer
  <1>6. ASSUME NEW b \in inflight, NEW ok \in BOOLEAN, Complete(b, ok) PROVE FALSE
    BY <1>0, <1>6 DEF Complete
  <1>7. ASSUME NEW c \in polled, NEW ok \in BOOLEAN, PollAck(c, ok) PROVE Deliverer(m)
    <2>1. Settle(c, "delivered")
      BY <1>0, <1>1, <1>7 DEF PollAck, Runs
    <2> QED BY <2>1, SettleDelivers DEF Deliverer
  <1>8. CASE Dispatcher
    <2>1. ~DispatchSkip /\ ~DispatchClaim
      BY <1>0, <1>2 DEF DispatchSkip, DispatchClaim
    <2>2. ~DispatchCheck
      <3>1. ASSUME status' = [status EXCEPT ![disp.msg] = IF Held(disp) THEN "pending" ELSE @] PROVE FALSE
        BY <3>1 DEF StoreType
      <3> QED BY <1>0, <3>1 DEF DispatchCheck
    <2>3. ASSUME NEW ok \in BOOLEAN, DispatchPost(ok) PROVE Deliverer(m)
      <3>1. disp.stage = "post" /\ Settle(disp, "delivered")
        BY <1>0, <1>1, <2>3 DEF DispatchPost, Runs
      <3> QED BY <3>1, SettleDelivers DEF Deliverer
    <2> QED BY <1>8, <2>1, <2>2, <2>3 DEF Dispatcher
  <1>9. ASSUME NEW s \in Subs, Loop(s) PROVE Deliverer(m)
    <2>1. /\ ~Register(s) /\ ~Watch(s) /\ ~Top(s) /\ ~Permit(s) /\ ~Idle(s) /\ ~ClaimFails(s)
          /\ ~Leave(s) /\ ~CheckCovered(s)
      BY <1>0 DEF Register, Watch, Top, Permit, Idle, ClaimFails, Leave, CheckCovered
    <2>2. \A t : ~ClaimTopic(s, t)
      BY <1>0, <1>2 DEF ClaimTopic, store
    <2>3. \A c : ~TakeNext(s, c) /\ ~ReleaseRest(s, c)
      BY <1>0, <1>1 DEF TakeNext, ReleaseRest
    <2>4. \A x : ~Send(s, x)
      BY <1>0 DEF Send
    <2>5. ~DropPending(s)
      <3>1. ASSUME status' = [n \in Messages |->
                                 IF status[n] = "pending" /\ TopicOf[n] = FilterOf[s]
                                 THEN "dropped" ELSE status[n]]
            PROVE  FALSE
        BY <3>1
      <3> QED BY <1>0, <3>1 DEF DropPending, Runs
    <2>6. CASE AfterSend(s)
      <3>1. ~Settle(cur[s], "dropped")
        BY SMTT(30), SettleDelivers
      <3>2. pc[s] = "send" /\ cur[s].eph /\ Settle(cur[s], "delivered")
        BY <1>0, <1>1, <2>6, <3>1 DEF AfterSend, Runs
      <3> QED BY SMTT(30), <3>2, SettleDelivers DEF Deliverer
    <2> QED BY <1>9, <2>1, <2>2, <2>3, <2>4, <2>5, <2>6 DEF Loop
  <1>10. CASE UNCHANGED vars
    BY <1>0, <1>10 DEF vars
  <1> QED BY <1>3, <1>4, <1>5, <1>6, <1>7, <1>8, <1>9, <1>10 DEF Next, Task

\* A message is marked delivered only when every consumer that was sent a copy
\* under the present claim has acknowledged it (delivery.rs:330-430): the copies
\* under a claim are those its only task waits for.
THEOREM DeliveredIsAcked == Spec => DeliveredMeansAcked
  <1> DEFINE Acked ==
        \A m \in Messages :
          LET copies == {a \in sent : a.msg = m /\ a.claim = attempts[m]} IN
          status[m] = "processing" /\ status'[m] = "delivered" /\ TopicOf[m] \notin Ephemeral =>
              \/ [msg |-> m, claim |-> attempts[m]] \in polled
              \/ disp = [stage |-> "post", msg |-> m, claim |-> attempts[m]]
              \/ /\ copies # {}
                 /\ \A a \in copies : a \in heard
  <1>1. ASSUME StoreType, WorkInv, [Next]_vars PROVE Acked
    <2> SUFFICES ASSUME NEW m \in Messages, status[m] = "processing", status'[m] = "delivered",
                        TopicOf[m] \notin Ephemeral
                 PROVE  LET copies == {a \in sent : a.msg = m /\ a.claim = attempts[m]} IN
                        \/ [msg |-> m, claim |-> attempts[m]] \in polled
                        \/ disp = [stage |-> "post", msg |-> m, claim |-> attempts[m]]
                        \/ /\ copies # {}
                           /\ \A a \in copies : a \in heard
      OBVIOUS
    <2>0. Deliverer(m)
      BY <1>1, DelivererNext
    <2>1. ASSUME NEW s \in Subs, pc[s] = "send", cur[s].eph = TRUE, cur[s].msg = m PROVE FALSE
      BY <1>1, <2>1 DEF WorkInv, WorkType, EphemeralInv
    <2>2. ASSUME NEW c \in polled, c.msg = m, c.claim = attempts[m]
          PROVE  [msg |-> m, claim |-> attempts[m]] \in polled
      <3>1. c \in Claims
        BY <1>1 DEF WorkInv, WorkType
      <3>2. c = [msg |-> m, claim |-> attempts[m]]
        BY <2>2, <3>1 DEF Claims
      <3> QED BY <3>2
    <2>3. CASE disp.stage = "post" /\ disp.msg = m /\ disp.claim = attempts[m]
      BY <1>1, <2>3 DEF WorkInv, WorkType
    <2>4. ASSUME NEW k \in tasks, k.msg = m, k.claim = attempts[m], Answered(k) = k.waits
          PROVE  /\ \E a \in sent : a.msg = m /\ a.claim = attempts[m]
                 /\ \A a \in sent : a.msg = m /\ a.claim = attempts[m] => a \in heard
      <3>1. \E x \in k.waits : Ack(k, x) \in sent
        BY <1>1 DEF WorkInv, SentInv
      <3>2. \A x : Ack(k, x).msg = m /\ Ack(k, x).claim = attempts[m]
        BY <2>4 DEF Ack
      <3>3. ASSUME NEW a \in sent, a.msg = m, a.claim = attempts[m] PROVE a \in heard
        <4>1. a = Ack(k, a.to)
          <5>1. a \in Acks
            BY <1>1 DEF WorkInv, WorkType
          <5> QED BY <2>4, <3>3, <5>1 DEF Acks, Ack
        <4>2. \A s \in Subs : cur[s] # None => ~Has(cur[s], a)
          BY <1>1, <2>4, <3>3 DEF WorkInv, UniqueInv, Has
        <4>3. \A l \in tasks : Has(l, a) => l = k
          BY <1>1, <2>4, <3>3 DEF WorkInv, UniqueInv, Has
        <4>4. a.to \in k.waits
          BY <1>1, <4>2, <4>3 DEF WorkInv, SentInv
        <4> QED BY <2>4, <4>1, <4>4 DEF Answered
      <3> QED BY <3>1, <3>2, <3>3
    <2> QED BY <2>0, <2>1, <2>2, <2>3, <2>4 DEF Deliverer
  <1>2. Init => StoreType /\ WorkInv
    <2>1. Init => StoreType
      BY SMTT(30) DEF Init, StoreType, States
    <2> QED BY <2>1, InitWork
  <1>3. StoreType /\ WorkInv /\ [Next]_vars => StoreType' /\ WorkInv' /\ Acked
    BY <1>1, NextRows, NextWork DEF Rows
  <1> QED BY <1>2, <1>3, PTL DEF Spec, DeliveredMeansAcked, Acked

-----------------------------------------------------------------------------
(* Wake-ups *)

\* A filter without wildcards matches only the topic it spells, so that a loop
\* that claims by the topic of its own filter misses none (delivery.rs, topic.rs).
LEMMA LiteralFilters ==
    \A c \in Scenes, s \in Subs, m \in Messages :
        filter_matches(c.filter[s], TopicOf[m]) /\ ~is_wildcard_filter(c.filter[s])
            => c.filter[s] = TopicOf[m]
  <1> SUFFICES ASSUME NEW c \in Scenes, NEW s \in Subs, NEW m \in Messages,
                      filter_matches(c.filter[s], TopicOf[m]), ~is_wildcard_filter(c.filter[s])
               PROVE  c.filter[s] = TopicOf[m]
    OBVIOUS
  <1>1. c.filter[s] \in Seq(STRING) /\ c.filter[s] # <<>>
    BY SceneAssumption
  <1>2. TopicOf[m] \in Seq(STRING) /\ TopicOf[m] # <<>>
    BY TopicAssumption
  <1> QED BY <1>1, <1>2, LiteralMatch

\* Stream s will not look for m again of its own accord: it waits, or it is
\* past the topic of m.
Past(s, m) ==
    /\ flag[s] = FALSE
    /\ filter_matches(FilterOf[s], TopicOf[m])
    /\ pc[s] = "idle" \/ (pc[s] = "claim" /\ TopicOf[m] \notin todo[s])

WakeInv ==
    /\ scene \in Scenes
    /\ flag \in [Subs -> BOOLEAN] /\ due \in [Messages -> BOOLEAN]
    /\ DOMAIN todo = Subs
    /\ \A m \in Messages : due[m] = FALSE => m \in silent
    /\ \A s \in Subs, m \in Messages :
          Past(s, m) /\ status[m] = "pending" => m \in toNotify \cup silent

\* What a step does to the rows: what becomes pending is to be notified or
\* known to be silent.
RowsWake ==
    /\ due' \in [Messages -> BOOLEAN]
    /\ \A m \in Messages : due'[m] = FALSE => m \in silent'
    /\ \A m \in Messages : status'[m] = "pending" =>
          /\ m \in toNotify \cup silent => m \in toNotify' \cup silent'
          /\ status[m] = "pending" \/ m \in toNotify' \cup silent'

\* What a step does to the loops: nobody gets past a message unseen.
LoopsWake ==
    /\ scene' = scene /\ flag' \in [Subs -> BOOLEAN] /\ DOMAIN todo' = Subs
    /\ \A s \in Subs, m \in Messages : Past(s, m)' => Past(s, m)

\* Both together keep the invariant.
LEMMA WakeStep == ASSUME WakeInv, RowsWake, LoopsWake PROVE WakeInv'
  BY DEF WakeInv, RowsWake, LoopsWake

\* Statements that do not touch rows, or only make them final.
LEMMA StillWake ==
    ASSUME WakeInv, StoreType, toNotify \subseteq toNotify', silent' = silent, due' = due,
           \/ status' = status
           \/ \E c, v : Settle(c, v) /\ v # "pending"
           \/ \E c : ReleaseAndWake(c)
           \/ \E m \in toNotify' : status' = [status EXCEPT ![m] = "pending"]
           \/ \E f : status' = [m \in Messages |-> IF status[m] = "pending" /\ TopicOf[m] = f
                                                    THEN "dropped" ELSE status[m]]
    PROVE  RowsWake
  <1>1. \A m \in Messages : status'[m] = "pending" => status[m] = "pending" \/ m \in toNotify'
    BY DEF StoreType, Settle, ReleaseAndWake
  <1> QED BY <1>1 DEF WakeInv, RowsWake

\* failed puts a row back in silence.
LEMMA FailWake ==
    ASSUME WakeInv, StoreType, NEW c, Fail(c), toNotify' = toNotify
    PROVE  RowsWake
  <1>1. due' \in [Messages -> BOOLEAN]
    BY DEF WakeInv, Fail
  <1>2. silent \subseteq silent'
    BY DEF Fail
  <1>3. ASSUME NEW m \in Messages, due'[m] = FALSE PROVE m \in silent'
    BY <1>3 DEF WakeInv, Fail
  <1>4. ASSUME NEW m \in Messages, status'[m] = "pending" PROVE status[m] = "pending" \/ m \in silent'
    BY <1>4 DEF StoreType, Fail
  <1> QED BY <1>1, <1>2, <1>3, <1>4 DEF RowsWake

\* A claim takes what is due.
LEMMA TakeWake ==
    ASSUME WakeInv, NEW C, \A m \in C : due[m] = TRUE, TakeClaims(C), toNotify' = toNotify
    PROVE  RowsWake
  BY DEF WakeInv, TakeClaims, RowsWake

\* Steps that leave the loops alone.
LEMMA LoopsRest ==
    ASSUME WakeInv, UNCHANGED <<scene, flag, pc, todo>>
    PROVE  LoopsWake
  BY DEF WakeInv, LoopsWake, Past, FilterOf

\* A loop that goes where it is not past anything.
LEMMA LoopsMove ==
    ASSUME WakeInv, WorkType, NEW s \in Subs, scene' = scene,
           \/ flag' = flag
           \/ flag' = [flag EXCEPT ![s] = FALSE],
           \/ todo' = todo
           \/ \E T : todo' = [todo EXCEPT ![s] = T],
           NEW l \in {"registered", "top", "permit", "next", "send", "closing", "left", "drop", "done"},
           pc' = [pc EXCEPT ![s] = l]
    PROVE  LoopsWake
  <1>1. DOMAIN todo' = Subs /\ \A t \in Subs : t # s => todo'[t] = todo[t]
    BY DEF WakeInv
  <1>2. flag' \in [Subs -> BOOLEAN] /\ \A t \in Subs : t # s => flag'[t] = flag[t]
    BY DEF WakeInv
  <1>3. pc'[s] = l /\ \A t \in Subs : t # s => pc'[t] = pc[t]
    BY DEF WorkType
  <1> QED BY <1>1, <1>2, <1>3 DEF LoopsWake, Past, FilterOf

\* A loop that begins to claim has all matching topics before it.
LEMMA LoopsStart ==
    ASSUME WakeInv, WorkType, NEW s \in Subs, StartClaim(s), scene' = scene, flag' = flag
    PROVE  LoopsWake
  <1>1. DOMAIN todo' = Subs /\ \A t \in Subs : t # s => todo'[t] = todo[t] /\ pc'[t] = pc[t]
    BY DEF WakeInv, WorkType, StartClaim, Goto
  <1>2. \A m \in Messages : filter_matches(FilterOf[s], TopicOf[m]) => TopicOf[m] \in todo'[s]
    BY LiteralFilters DEF WakeInv, StartClaim, Topics, FilterOf
  <1>3. pc'[s] = "claim"
    BY DEF WorkType, StartClaim, Goto
  <1> QED BY <1>1, <1>2, <1>3 DEF WakeInv, LoopsWake, Past, FilterOf

\* A loop that finds a topic empty is past silent messages only.
LEMMA ClaimWake ==
    ASSUME WakeInv, WorkType, StoreType, NEW s \in Subs, NEW t \in todo[s], ClaimTopic(s, t)
    PROVE  WakeInv'
  <1> DEFINE R == IF filter_matches(FilterOf[s], t) THEN Claimable(t) ELSE {}
  <1>0. scene' = scene /\ flag' = flag /\ toNotify' = toNotify /\ pc[s] = "claim"
    BY DEF ClaimTopic, ends, wake
  <1>1. ASSUME NEW C, C \subseteq Claimable(t), TakeClaims(C), todo' = [todo EXCEPT ![s] = {}],
               pc' = [pc EXCEPT ![s] = "next"]
        PROVE  WakeInv'
    <2>1. RowsWake
      BY <1>0, <1>1, TakeWake DEF Claimable, WakeInv
    <2>2. LoopsWake
      BY <1>0, <1>1, LoopsMove
    <2> QED BY <2>1, <2>2, WakeStep
  <1>2. ASSUME R = {}, todo' = [todo EXCEPT ![s] = @ \ {t}], UNCHANGED store,
               pc' = [pc EXCEPT ![s] = IF todo[s] = {t} THEN "idle" ELSE "claim"]
        PROVE  WakeInv'
    <2>1. /\ DOMAIN todo' = Subs /\ todo'[s] = todo[s] \ {t}
          /\ \A u \in Subs : u # s => todo'[u] = todo[u]
      BY <1>2 DEF WakeInv
    <2>2. /\ pc'[s] = IF todo[s] = {t} THEN "idle" ELSE "claim"
          /\ \A u \in Subs : u # s => pc'[u] = pc[u]
      BY <1>2 DEF WorkType
    <2>3. status' = status /\ due' = due /\ silent' = silent
      BY <1>2 DEF store
    <2>4. ASSUME NEW u \in Subs, NEW m \in Messages, Past(u, m)', status[m] = "pending"
          PROVE  m \in toNotify \cup silent
      <3>1. CASE Past(u, m)
        BY <2>4, <3>1 DEF WakeInv
      <3>2. CASE ~Past(u, m)
        <4>1. u = s
          BY <1>0, <2>1, <2>2, <2>4, <3>2 DEF Past, FilterOf
        <4>2. flag[s] = FALSE /\ filter_matches(FilterOf[s], TopicOf[m])
          BY <1>0, <2>4, <4>1 DEF Past, FilterOf
        <4>3. TopicOf[m] \in todo[s]
          BY <1>0, <3>2, <4>1, <4>2 DEF Past
        <4>4. TopicOf[m] \notin todo'[s] \/ todo[s] = {t}
          BY <2>2, <2>4, <4>1 DEF Past
        <4>5. TopicOf[m] = t
          BY <2>1, <4>3, <4>4
        <4>6. m \notin Claimable(t)
          BY <1>2, <4>2, <4>5
        <4>7. due[m] = FALSE
          BY <2>4, <4>5, <4>6 DEF Claimable, WakeInv
        <4> QED BY <4>7 DEF WakeInv
      <3> QED BY <3>1, <3>2
    <2> QED BY <1>0, <2>1, <2>3, <2>4 DEF WakeInv
  <1> QED BY <1>1, <1>2 DEF ClaimTopic, Goto

\* Every step keeps the invariant.
LEMMA NextWake ==
    ASSUME WakeInv, WorkType, StoreType, [Next]_vars
    PROVE  WakeInv'
  <1>1. CASE UNCHANGED vars
    BY <1>1, StillWake, LoopsRest, WakeStep DEF vars, store, wake, loops, ends
  <1>2. ASSUME NEW m \in Messages, Publish(m) PROVE WakeInv'
    <2>1. RowsWake
      BY <1>2, StillWake DEF Publish
    <2>2. LoopsWake
      BY <1>2, LoopsRest DEF Publish, loops, ends
    <2> QED BY <2>1, <2>2, WakeStep
  <1>3. ASSUME NEW m \in Messages, NotifyReady(m) PROVE WakeInv'
    <2>1. /\ scene' = scene /\ status' = status /\ due' = due /\ silent' = silent
          /\ pc' = pc /\ todo' = todo /\ toNotify' = toNotify \ {m}
      BY <1>3 DEF NotifyReady, store, ends, loops
    <2>2. flag' \in [Subs -> BOOLEAN] /\ \A s \in Subs : flag'[s] = FALSE => flag[s] = FALSE
      BY <1>3 DEF NotifyReady, WakeInv
    <2>3. \A s \in Subs, n \in Messages : Past(s, n)' => Past(s, n)
      BY <2>1, <2>2 DEF Past, FilterOf
    <2>4. ASSUME NEW s \in Subs, Past(s, m)' PROVE FALSE
      <3>1. Watching(s) /\ filter_matches(FilterOf[s], TopicOf[m])
        BY <2>1, <2>4 DEF Past, Watching, FilterOf
      <3>2. FilterOf[s] = TopicOf[m] \/ is_wildcard_filter(FilterOf[s])
        BY <3>1, LiteralFilters DEF WakeInv, FilterOf
      <3>3. flag'[s] = TRUE
        BY <1>3, <3>1, <3>2 DEF NotifyReady
      <3> QED BY <2>4, <3>3 DEF Past
    <2> QED BY <2>1, <2>2, <2>3, <2>4 DEF WakeInv
  <1>4. ASSUME NEW m \in Messages, BackoffEnds(m) \/ Reclaim(m) PROVE WakeInv'
    <2>1. RowsWake
      <3>1. due' \in [Messages -> BOOLEAN] /\ silent \subseteq silent' /\ toNotify' = toNotify
        BY <1>4 DEF BackoffEnds, Reclaim, wake, WakeInv
      <3>2. \A n \in Messages : due'[n] = FALSE => due[n] = FALSE
        BY <1>4 DEF BackoffEnds, Reclaim, WakeInv
      <3>3. \A n \in Messages : status'[n] = "pending" => status[n] = "pending" \/ n \in silent'
        BY <1>4 DEF BackoffEnds, Reclaim, StoreType
      <3> QED BY <3>1, <3>2, <3>3 DEF RowsWake, WakeInv
    <2>2. LoopsWake
      BY <1>4, LoopsRest DEF BackoffEnds, Reclaim, wake, loops, ends
    <2> QED BY <2>1, <2>2, WakeStep
  <1>5. ASSUME NEW m \in Messages, Poll(m) PROVE WakeInv'
    <2>1. RowsWake
      BY <1>5, TakeWake DEF Poll, Claimable, wake, WakeInv
    <2>2. LoopsWake
      BY <1>5, LoopsRest DEF Poll, wake, loops, ends
    <2> QED BY <2>1, <2>2, WakeStep
  <1>6. ASSUME NEW s \in Subs, CloseStream(s) \/ CancelStream(s) PROVE WakeInv'
    BY <1>6, StillWake, LoopsRest, WakeStep DEF CloseStream, CancelStream, store, wake, loops
  <1>7. ASSUME NEW k \in tasks, TaskEnds(k) PROVE WakeInv'
    <2>0. toNotify' = toNotify
      BY <1>7 DEF TaskEnds, wake
    <2>1. ASSUME UNCHANGED store \/ Broken \/ Settle(k, "delivered") PROVE RowsWake
      BY <2>0, <2>1, StillWake DEF store, Broken, Settle
    <2>2. RowsWake
      BY <1>7, <2>0, <2>1, FailWake DEF TaskEnds, Runs
    <2>3. LoopsWake
      BY <1>7, LoopsRest DEF TaskEnds, wake, loops, ends
    <2> QED BY <2>2, <2>3, WakeStep
  <1>8. ASSUME NEW a \in inflight, NEW ok \in BOOLEAN, Complete(a, ok) PROVE WakeInv'
    BY <1>8, StillWake, LoopsRest, WakeStep DEF Complete, store, wake, loops, ends
  <1>9. ASSUME NEW c \in polled, NEW ok \in BOOLEAN, PollAck(c, ok) PROVE WakeInv'
    <2>0. toNotify' = toNotify
      BY <1>9 DEF PollAck, wake
    <2>1. ASSUME Broken \/ Settle(c, "delivered") PROVE RowsWake
      BY <2>0, <2>1, StillWake DEF store, Broken, Settle
    <2>2. RowsWake
      BY <1>9, <2>0, <2>1, FailWake DEF PollAck, Runs
    <2>3. LoopsWake
      BY <1>9, LoopsRest DEF PollAck, wake, loops, ends
    <2> QED BY <2>2, <2>3, WakeStep
  <1>10. CASE Dispatcher
    <2>0. toNotify' = toNotify /\ LoopsWake
      BY <1>10, LoopsRest DEF Dispatcher, DispatchSkip, DispatchClaim, DispatchCheck,
         DispatchPost,
                              wake, loops, ends
    <2>1. ASSUME UNCHANGED store \/ Broken \/ Settle(disp, "delivered") PROVE RowsWake
      BY <2>0, <2>1, StillWake DEF store, Broken, Settle
    <2>2. ASSUME NEW m \in Messages, m \in Claimable(TopicOf[m]), TakeClaims({m}) PROVE RowsWake
      BY <2>0, <2>2, TakeWake DEF Claimable, WakeInv
    <2>3. ASSUME DispatchCheck, ~Broken, ~UNCHANGED store PROVE RowsWake
      <3>1. /\ status' = [status EXCEPT ![disp.msg] = IF Held(disp) THEN "pending" ELSE @]
            /\ silent' = IF Held(disp) THEN silent \cup {disp.msg} ELSE silent
            /\ due' = due
        BY <2>3 DEF DispatchCheck
      <3> QED BY <2>0, <3>1 DEF RowsWake, WakeInv, StoreType
    <2>4. RowsWake
      BY <1>10, <2>0, <2>1, <2>2, <2>3, FailWake DEF Dispatcher, DispatchSkip, DispatchClaim,
         DispatchPost, Runs
    <2> QED BY <2>0, <2>4, WakeStep
  <1>11. ASSUME NEW s \in Subs, Loop(s) PROVE WakeInv'
    <2>1. CASE Register(s) \/ Watch(s) \/ Idle(s) \/ CheckCovered(s) \/ Leave(s)
      <3>1. RowsWake
        BY <2>1, StillWake DEF Register, Watch, Idle, CheckCovered, Leave, store, wake
      <3>2. LoopsWake
        BY <2>1, LoopsMove DEF Register, Watch, Idle, CheckCovered, Leave, Goto, wake, ends
      <3> QED BY <3>1, <3>2, WakeStep
    <2>2. CASE Top(s) \/ Permit(s)
      <3>0. scene' = scene /\ flag' = flag /\ toNotify' = toNotify /\ UNCHANGED store
        BY <2>2 DEF Top, Permit, wake, ends
      <3>1. RowsWake
        BY <3>0, StillWake DEF store
      <3>2. \/ StartClaim(s)
            \/ \E l \in {"closing", "permit"} : pc' = [pc EXCEPT ![s] = l] /\ todo' = todo
        BY <2>2 DEF Top, Permit, Goto
      <3>3. LoopsWake
        BY <3>0, <3>2, LoopsMove, LoopsStart
      <3> QED BY <3>1, <3>3, WakeStep
    <2>3. ASSUME NEW t \in todo[s], ClaimTopic(s, t) PROVE WakeInv'
      BY <2>3, ClaimWake
    <2>4. CASE ClaimFails(s)
      <3>1. RowsWake
        BY <2>4, StillWake DEF ClaimFails, Broken, store, wake
      <3>2. LoopsWake
        BY <2>4, LoopsMove DEF ClaimFails, Goto, wake, ends
      <3> QED BY <3>1, <3>2, WakeStep
    <2>5. ASSUME NEW c \in ready[s], TakeNext(s, c) PROVE WakeInv'
      <3>1. ASSUME ReleaseAndWake(c) PROVE RowsWake
        BY <3>1, StillWake DEF ReleaseAndWake, Settle
      <3>2. ASSUME UNCHANGED wake, UNCHANGED store \/ Broken PROVE RowsWake
        BY <3>2, StillWake DEF store, wake, Broken
      <3>3. RowsWake
        BY <2>5, <3>1, <3>2 DEF TakeNext
      <3>4. LoopsWake
        BY <2>5, LoopsMove DEF TakeNext, ReleaseAndWake, Goto, wake, ends
      <3> QED BY <3>3, <3>4, WakeStep
    <2>6. ASSUME NEW x \in Subs, Send(s, x) PROVE WakeInv'
      BY <2>6, StillWake, LoopsRest, WakeStep DEF Send, store, wake, ends
    <2>7. CASE AfterSend(s)
      <3>0. toNotify' = toNotify
        BY <2>7 DEF AfterSend, wake
      <3>1. ASSUME \/ UNCHANGED store \/ Broken
                   \/ Settle(cur[s], "delivered") \/ Settle(cur[s], "dropped")
            PROVE  RowsWake
        BY <3>0, <3>1, StillWake DEF store, Broken, Settle
      <3>2. RowsWake
        BY <2>7, <3>0, <3>1, FailWake DEF AfterSend, Runs
      <3>3. LoopsWake
        BY <2>7, LoopsMove DEF AfterSend, Goto, wake, ends
      <3> QED BY <3>2, <3>3, WakeStep
    <2>8. ASSUME NEW c \in ready[s], ReleaseRest(s, c) PROVE WakeInv'
      <3>1. ASSUME ReleaseAndWake(c) PROVE RowsWake
        BY <3>1, StillWake DEF ReleaseAndWake, Settle
      <3>2. ASSUME UNCHANGED wake, Broken PROVE RowsWake
        BY <3>2, StillWake DEF store, wake, Broken
      <3>3. RowsWake
        BY <2>8, <3>1, <3>2 DEF ReleaseRest
      <3>4. LoopsWake
        BY <2>8, LoopsRest DEF ReleaseRest, ReleaseAndWake, wake, ends
      <3> QED BY <3>3, <3>4, WakeStep
    <2>9. CASE DropPending(s)
      <3>1. RowsWake
        BY <2>9, StillWake DEF DropPending, Runs, Broken, store, wake
      <3>2. LoopsWake
        BY <2>9, LoopsMove DEF DropPending, Goto, wake, ends
      <3> QED BY <3>1, <3>2, WakeStep
    <2> QED BY <1>11, <2>1, <2>2, <2>3, <2>4, <2>5, <2>6, <2>7, <2>8, <2>9 DEF Loop
  <1> QED BY <1>1, <1>2, <1>3, <1>4, <1>5, <1>6, <1>7, <1>8, <1>9, <1>10, <1>11 DEF Next, Task

\* A loop that waits has missed nothing (writer.rs:160-236 with delivery.rs:103-254):
\* the wake-up that a publish or a release owes is still to come, was seen
\* before the loop looked, or is set in its receiver.
THEOREM NoWakeupIsLost == Spec => []NoLostWakeup
  <1>1. Init => WakeInv /\ WorkInv /\ StoreType
    <2>1. Init => WakeInv
      BY DEF Init, WakeInv, Past
    <2>2. Init => StoreType
      BY SMTT(30) DEF Init, StoreType, States
    <2> QED BY <2>1, <2>2, InitWork
  <1>2. WakeInv /\ WorkInv /\ StoreType /\ [Next]_vars => WakeInv' /\ WorkInv' /\ StoreType'
    BY NextWake, NextWork, NextRows DEF WorkInv, Rows
  <1>3. WakeInv => NoLostWakeup
    BY DEF WakeInv, NoLostWakeup, Past
  <1> QED BY <1>1, <1>2, <1>3, PTL DEF Spec

-----------------------------------------------------------------------------
(* Claims in hand *)

Calm == broken = FALSE /\ \A s \in Subs : cancelled[s] = FALSE

\* Somebody holds claim i of m.
Owned(m, i) ==
    \/ \E s \in Subs : \E c \in ready[s] : c.msg = m /\ c.claim = i
    \/ \E s \in Subs : cur[s] # None /\ cur[s].msg = m /\ cur[s].claim = i
    \/ \E k \in tasks : k.msg = m /\ k.claim = i
    \/ disp.stage \in {"check", "post"} /\ disp.msg = m /\ disp.claim = i
    \/ \E c \in polled : c.msg = m /\ c.claim = i

\* A loop claims with an empty batch, so that a new one replaces nothing.
HandsInv ==
    /\ cancelled \in [Subs -> BOOLEAN] /\ broken \in BOOLEAN
    /\ \A s \in Subs : pc[s] \in {"permit", "claim"} => ready[s] = {}
    /\ Calm => \A m \in Messages : status[m] = "processing" => Owned(m, attempts[m])

\* What a calm step owes: a row that is claimed afterwards was so before and
\* has kept its owner, or has got one.
HandsKept ==
    Calm' => /\ Calm
             /\ \A m \in Messages : status'[m] = "processing" =>
                   \/ Owned(m, attempts[m])'
                   \/ /\ status[m] = "processing" /\ attempts'[m] = attempts[m]
                      /\ Owned(m, attempts[m]) => Owned(m, attempts[m])'

\* A claim that is let go of has been settled, unless it was out of date.
LEMMA LetGo ==
    ASSUME StoreType, NEW h,
           \/ \E v \in {"pending", "delivered", "dropped"} :
                 status' = [status EXCEPT ![h.msg] = IF Held(h) THEN v ELSE @] /\ attempts' = attempts
           \/ Fail(h),
           NEW m \in Messages, status'[m] = "processing"
    PROVE  /\ status[m] = "processing" /\ attempts' = attempts
           /\ ~(h.msg = m /\ h.claim = attempts[m])
  <1>1. CASE \E v \in {"pending", "delivered", "dropped"} :
                 status' = [status EXCEPT ![h.msg] = IF Held(h) THEN v ELSE @] /\ attempts' = attempts
    BY <1>1 DEF StoreType, Held
  <1>2. CASE Fail(h)
    BY <1>2 DEF StoreType, Fail, Held
  <1> QED BY <1>1, <1>2

\* A step that moves no claim.
LEMMA HandsStill ==
    ASSUME StoreType, Calm' => Calm, UNCHANGED <<attempts, ready, cur, tasks, disp, polled>>,
           \A m \in Messages : status'[m] = "processing" => status[m] = "processing"
    PROVE  HandsKept
  BY DEF HandsKept, Owned

\* A step that only moves claims from hand to hand.
LEMMA HandsMoved ==
    ASSUME Calm' => Calm, UNCHANGED <<status, attempts>>,
           \A m \in Messages : \A i : Owned(m, i) => Owned(m, i)'
    PROVE  HandsKept
  <1> SUFFICES ASSUME NEW m \in Messages PROVE Owned(m, attempts[m]) => Owned(m, attempts[m])'
    BY DEF HandsKept
  <1>1. PICK i : i = attempts[m]
    OBVIOUS
  <1>2. Owned(m, attempts[m]) => Owned(m, i)
    BY <1>1
  <1>3. Owned(m, i)' => Owned(m, attempts[m])'
    BY <1>1 DEF Owned
  <1> QED BY <1>2, <1>3

\* A claim leaves the batch of a loop.
LEMMA OwnedBut ==
    ASSUME NEW s \in Subs, NEW c,
           ready'[s] = ready[s] \ {c}, \A u \in Subs : u # s => ready'[u] = ready[u],
           UNCHANGED <<cur, tasks, disp, polled>>
    PROVE  \A m \in Messages : \A i : Owned(m, i) => Owned(m, i)' \/ (c.msg = m /\ c.claim = i)
  <1> SUFFICES ASSUME NEW m \in Messages, NEW i, Owned(m, i), ~(c.msg = m /\ c.claim = i)
               PROVE  Owned(m, i)'
    OBVIOUS
  <1>1. CASE \E t \in Subs : \E d \in ready[t] : d.msg = m /\ d.claim = i
    <2>1. \E t \in Subs : \E d \in ready'[t] : d.msg = m /\ d.claim = i
      BY <1>1
    <2> QED BY <2>1 DEF Owned
  <1>2. CASE ~\E t \in Subs : \E d \in ready[t] : d.msg = m /\ d.claim = i
    BY <1>2 DEF Owned
  <1> QED BY <1>1, <1>2

\* HandsKept is all there is to show.
LEMMA HandsStep ==
    ASSUME HandsInv, HandsKept, cancelled' \in [Subs -> BOOLEAN], broken' \in BOOLEAN,
           \A s \in Subs : pc'[s] \in {"permit", "claim"} => ready'[s] = {}
    PROVE  HandsInv'
  BY DEF HandsInv, HandsKept

\* The batch of a loop is empty when it claims.
LEMMA BatchKept ==
    ASSUME HandsInv, WorkType, NEW s \in Subs,
           \/ ready' = ready
           \/ \E c : ready' = [ready EXCEPT ![s] = @ \ {c}],
           \/ pc' = pc
           \/ \E l \in {"registered", "top", "idle", "next", "send", "closing", "left", "drop", "done"} :
                 pc' = [pc EXCEPT ![s] = l]
           \/ \E l \in {"permit", "claim"} : pc' = [pc EXCEPT ![s] = l] /\ ready[s] = {}
    PROVE  \A t \in Subs : pc'[t] \in {"permit", "claim"} => ready'[t] = {}
  <1>1. \A t \in Subs : ready'[t] \subseteq ready[t]
    BY DEF WorkType
  <1>2. \A t \in Subs : pc'[t] \in {"permit", "claim"} => ready[t] = {}
    BY DEF HandsInv, WorkType
  <1> QED BY <1>1, <1>2

\* A claim that leaves the hands of h, and nobody else's.
LEMMA HandsLetGo ==
    ASSUME StoreType, Calm' => Calm, NEW h,
           Calm' => \/ \E v \in {"pending", "delivered", "dropped"} :
                         /\ status' = [status EXCEPT ![h.msg] = IF Held(h) THEN v ELSE @]
                         /\ attempts' = attempts
                    \/ Fail(h),
           \A m \in Messages : \A i : Owned(m, i) => Owned(m, i)' \/ (h.msg = m /\ h.claim = i)
    PROVE  HandsKept
  <1> SUFFICES ASSUME Calm', NEW m \in Messages, status'[m] = "processing"
               PROVE  /\ status[m] = "processing" /\ attempts'[m] = attempts[m]
                      /\ Owned(m, attempts[m]) => Owned(m, attempts[m])'
    BY DEF HandsKept
  <1>1. status[m] = "processing" /\ attempts' = attempts /\ ~(h.msg = m /\ h.claim = attempts[m])
    BY LetGo
  <1>2. Owned(m, attempts[m]) => Owned(m, attempts[m])'
    <2>1. \A i : i = attempts[m] /\ Owned(m, i) => Owned(m, i)'
      BY <1>1
    <2> QED BY <1>1, <2>1 DEF Owned
  <1> QED BY <1>1, <1>2

\* Rows that are taken get an owner; nobody else loses any.
LEMMA HandsTake ==
    ASSUME StoreType, Calm' => Calm, NEW C \in SUBSET Messages, TakeClaims(C),
           \A m \in C : Owned(m, attempts[m])',
           \A m \in Messages : \A i : Owned(m, i) => Owned(m, i)'
    PROVE  HandsKept
  <1> SUFFICES ASSUME NEW m \in Messages, m \notin C, status'[m] = "processing"
               PROVE  /\ status[m] = "processing" /\ attempts'[m] = attempts[m]
                      /\ Owned(m, attempts[m]) => Owned(m, attempts[m])'
    BY DEF HandsKept
  <1>1. status[m] = "processing" /\ attempts'[m] = attempts[m]
    BY DEF TakeClaims
  <1>2. \A i : i = attempts[m] /\ Owned(m, i) => Owned(m, i)'
    OBVIOUS
  <1> QED BY SMTT(30), <1>1, <1>2 DEF Owned

\* What has been broken or cancelled stays so.
LEMMA LuckNext ==
    ASSUME HandsInv, [Next]_vars
    PROVE  cancelled' \in [Subs -> BOOLEAN] /\ broken' \in BOOLEAN /\ (Calm' => Calm)
  <1>1. broken' = broken \/ broken' = TRUE
    <2>1. ASSUME NEW m \in Messages,
                 Publish(m) \/ NotifyReady(m) \/ BackoffEnds(m) \/ Reclaim(m) \/ Poll(m)
          PROVE  broken' = broken
      BY <2>1 DEF Publish, NotifyReady, BackoffEnds, Reclaim, Poll, luck
    <2>2. ASSUME NEW s \in Subs, Loop(s) PROVE broken' = broken \/ broken' = TRUE
      BY <2>2 DEF Loop, Register, Watch, Top, Permit, Idle, ClaimTopic, ClaimFails, TakeNext,
         Send, AfterSend,
                  ReleaseRest, Leave, CheckCovered, DropPending, Runs, Broken, luck
    <2>3. ASSUME NEW k \in tasks, TaskEnds(k) PROVE broken' = broken \/ broken' = TRUE
      BY <2>3 DEF TaskEnds, Runs, Broken, luck
    <2>4. CASE Dispatcher
      BY <2>4 DEF Dispatcher, DispatchSkip, DispatchClaim, DispatchCheck, DispatchPost, Runs,
         Broken, luck
    <2> QED BY <2>1, <2>2, <2>3, <2>4 DEF Next, Task, CloseStream, CancelStream, Complete,
               PollAck, Runs,
                                          Broken, luck, vars
  <1>2. cancelled' = cancelled \/ \E s \in Subs : cancelled' = [cancelled EXCEPT ![s] = TRUE]
    <2>1. ASSUME NEW m \in Messages,
                 Publish(m) \/ NotifyReady(m) \/ BackoffEnds(m) \/ Reclaim(m) \/ Poll(m)
          PROVE  cancelled' = cancelled
      BY <2>1 DEF Publish, NotifyReady, BackoffEnds, Reclaim, Poll, ends
    <2>2. ASSUME NEW s \in Subs, Loop(s) PROVE cancelled' = cancelled
      BY <2>2 DEF Loop, Register, Watch, Top, Permit, Idle, ClaimTopic, ClaimFails, TakeNext,
         Send, AfterSend,
                  ReleaseRest, Leave, CheckCovered, DropPending, ends
    <2>3. CASE Dispatcher
      BY <2>3 DEF Dispatcher, DispatchSkip, DispatchClaim, DispatchCheck, DispatchPost, ends
    <2> QED BY <2>1, <2>2, <2>3 DEF Next, Task, TaskEnds, CloseStream, CancelStream, Complete,
               PollAck, ends, vars
  <1> QED BY <1>1, <1>2 DEF HandsInv, Calm

\* What a loop does to the claims.
LEMMA LoopHands ==
    ASSUME StoreType, WorkType, HandsInv, Calm' => Calm, NEW s \in Subs, Loop(s)
    PROVE  HandsKept /\ \A t \in Subs : pc'[t] \in {"permit", "claim"} => ready'[t] = {}
  <1> DEFINE Batch == \A t \in Subs : pc'[t] \in {"permit", "claim"} => ready'[t] = {}
  <1>1. CASE Register(s) \/ Watch(s) \/ Idle(s) \/ Leave(s) \/ CheckCovered(s)
    <2>1. UNCHANGED <<status, attempts, ready, cur, tasks, disp, polled>>
      BY <1>1 DEF Register, Watch, Idle, Leave, CheckCovered, store, others
    <2>2. Batch
      BY <1>1, <2>1, BatchKept DEF Register, Watch, Idle, Leave, CheckCovered, Goto
    <2> QED BY <2>1, <2>2, HandsStill
  <1>2. CASE Top(s) \/ Permit(s)
    <2>1. UNCHANGED <<status, attempts, ready, cur, tasks, disp, polled>>
      BY <1>2 DEF Top, Permit, store, others
    <2>2. \/ pc' = [pc EXCEPT ![s] = "closing"]
          \/ pc' \in {[pc EXCEPT ![s] = "permit"], [pc EXCEPT ![s] = "claim"]} /\ ready[s] = {}
      <3>1. CASE Top(s)
        BY <3>1 DEF Top, StartClaim, Goto
      <3>2. CASE Permit(s)
        <4>1. ready[s] = {}
          BY <3>2 DEF Permit, HandsInv
        <4> QED BY <3>2, <4>1 DEF Permit, StartClaim, Goto
      <3> QED BY <1>2, <3>1, <3>2
    <2>3. Batch
      BY <2>1, <2>2, BatchKept
    <2> QED BY <2>1, <2>3, HandsStill
  <1>3. CASE ClaimFails(s) \/ DropPending(s)
    <2>1. UNCHANGED <<attempts, ready, cur, tasks, disp, polled>>
      BY <1>3 DEF ClaimFails, DropPending, Runs, Broken, store, others
    <2>2. \A m \in Messages : status'[m] = "processing" => status[m] = "processing"
      BY <1>3 DEF ClaimFails, DropPending, Runs, Broken, store
    <2>3. Batch
      BY <1>3, <2>1, BatchKept DEF ClaimFails, DropPending, Goto
    <2> QED BY <2>1, <2>2, <2>3, HandsStill
  <1>4. ASSUME NEW t \in todo[s], ClaimTopic(s, t) PROVE HandsKept /\ Batch
    <2>0. pc[s] = "claim" /\ ready[s] = {} /\ UNCHANGED <<cur, tasks, disp, polled>>
      BY <1>4 DEF ClaimTopic, HandsInv, others
    <2>1. ASSUME UNCHANGED <<store, ready>>,
                 pc' \in {[pc EXCEPT ![s] = "idle"], [pc EXCEPT ![s] = "claim"]}
          PROVE  HandsKept /\ Batch
      <3>1. UNCHANGED <<status, attempts>>
        BY <2>1 DEF store
      <3>2. Batch
        BY <2>0, <2>1, BatchKept
      <3> QED BY <2>0, <2>1, <3>1, <3>2, HandsStill
    <2>2. ASSUME NEW C \in SUBSET Messages, TakeClaims(C), ready' = [ready EXCEPT ![s] = NewClaims(C)],
                 pc' = [pc EXCEPT ![s] = "next"]
          PROVE  HandsKept /\ Batch
      <3>1. ready'[s] = NewClaims(C) /\ \A u \in Subs : u # s => ready'[u] = ready[u]
        BY <2>2 DEF WorkType
      <3>2. Batch
        BY <2>2, <3>1 DEF WorkType, HandsInv
      <3>3. ASSUME NEW m \in C PROVE Owned(m, attempts[m])'
        <4>1. attempts'[m] = attempts[m] + 1
          BY <2>2 DEF TakeClaims
        <4>2. [msg |-> m, claim |-> attempts[m] + 1] \in ready'[s]
          BY <3>1 DEF NewClaims
        <4> QED BY <4>1, <4>2 DEF Owned
      <3>4. \A m \in Messages : \A i : Owned(m, i) => Owned(m, i)'
        BY <2>0, <3>1 DEF Owned
      <3> QED BY <2>2, <3>2, <3>3, <3>4, HandsTake
    <2> QED BY <1>4, <2>1, <2>2 DEF ClaimTopic, Goto, Claimable
  <1>5. ASSUME NEW c \in ready[s], TakeNext(s, c) PROVE HandsKept /\ Batch
    <2>0. /\ ready' = [ready EXCEPT ![s] = @ \ {c}] /\ pc[s] # "send" /\ cur[s] = None
          /\ UNCHANGED <<tasks, disp, polled>> /\ c \in Claims
      BY <1>5 DEF TakeNext, others, WorkType
    <2>1. ready'[s] = ready[s] \ {c} /\ \A u \in Subs : u # s => ready'[u] = ready[u]
      BY <2>0 DEF WorkType
    <2>2. Batch
      BY <1>5, <2>0, BatchKept DEF TakeNext, Goto
    <2>3. ASSUME cur' = cur, Calm' => ReleaseAndWake(c) PROVE HandsKept
      <3>1. \A m \in Messages : \A i : Owned(m, i) => Owned(m, i)' \/ (c.msg = m /\ c.claim = i)
        BY <2>0, <2>1, <2>3, OwnedBut
      <3> QED BY <2>3, <3>1, HandsLetGo DEF ReleaseAndWake, Settle
    <2>4. ASSUME NEW e, NEW T, cur' = [cur EXCEPT ![s] = Hand(c, e, T)], cur'[s] # None,
                 UNCHANGED <<status, attempts>>
          PROVE  HandsKept
      <3>1. /\ cur'[s].msg = c.msg /\ cur'[s].claim = c.claim
            /\ \A u \in Subs : u # s => cur'[u] = cur[u]
        BY <2>4 DEF WorkType, Hand
      <3>2. ASSUME NEW m \in Messages, NEW i, Owned(m, i) PROVE Owned(m, i)'
        <4>1. CASE c.msg = m /\ c.claim = i
          BY <2>4, <3>1, <4>1 DEF Owned
        <4>2. CASE \E t \in Subs : \E d \in ready[t] : d # c /\ d.msg = m /\ d.claim = i
          <5>1. \E t \in Subs : \E d \in ready'[t] : d.msg = m /\ d.claim = i
            BY <2>1, <4>2
          <5> QED BY <5>1 DEF Owned
        <4>3. CASE \E t \in Subs : cur[t] # None /\ cur[t].msg = m /\ cur[t].claim = i
          <5>1. \E t \in Subs : cur'[t] # None /\ cur'[t].msg = m /\ cur'[t].claim = i
            BY <2>0, <3>1, <4>3
          <5> QED BY <5>1 DEF Owned
        <4>4. CASE \E t \in Subs : \E d \in ready[t] : d = c /\ d.msg = m /\ d.claim = i
          BY <4>1, <4>4
        <4>5. CASE \/ \E k \in tasks : k.msg = m /\ k.claim = i
                   \/ disp.stage \in {"check", "post"} /\ disp.msg = m /\ disp.claim = i
                   \/ \E d \in polled : d.msg = m /\ d.claim = i
          BY <2>0, <4>5 DEF Owned
        <4> QED BY <3>2, <4>2, <4>3, <4>4, <4>5 DEF Owned
      <3> QED BY <2>4, <3>2, HandsMoved
    <2>5. \/ cur' = cur /\ (ReleaseAndWake(c) \/ broken' = TRUE)
          \/ /\ UNCHANGED <<status, attempts>>
             /\ \E e \in BOOLEAN, T \in SUBSET Subs : cur' = [cur EXCEPT ![s] = Hand(c, e, T)]
      <3>1. \A T \in SUBSET Subs : (IF T = {} THEN {s} ELSE T) \in SUBSET Subs
        OBVIOUS
      <3>2. (TopicOf[c.msg] \in Ephemeral) \in BOOLEAN /\ {s} \in SUBSET Subs
        BY SMTT(30)
      <3> QED BY <1>5, <3>1, <3>2 DEF TakeNext, Broken, store
    <2>6. \A e \in BOOLEAN, T \in SUBSET Subs : Hand(c, e, T) # None
      <3>1. c.msg \in Messages /\ c.claim \in Nat
        BY <2>0 DEF Claims
      <3>2. \A e \in BOOLEAN, T \in SUBSET Subs : Hand(c, e, T) \in InHand
        BY <3>1 DEF Hand, InHand
      <3> QED BY <3>2, NoneAssumption
    <2>7. HandsKept
      BY <2>3, <2>4, <2>5, <2>6 DEF Calm, WorkType
    <2> QED BY <2>2, <2>7
  <1>6. ASSUME NEW x \in Subs, Send(s, x) PROVE HandsKept /\ Batch
    <2>0. UNCHANGED <<status, attempts, ready, pc, tasks, disp, polled>>
      BY <1>6 DEF Send, store, others
    <2>1. cur[s] \in InHand
      BY <1>6 DEF Send, WorkType
    <2>2. /\ cur'[s].msg = cur[s].msg /\ cur'[s].claim = cur[s].claim /\ cur'[s] # None
          /\ \A u \in Subs : u # s => cur'[u] = cur[u]
      BY <1>6, SendHand
    <2>3. \A m \in Messages : Owned(m, attempts[m]) => Owned(m, attempts[m])'
      BY <2>0, <2>1, <2>2 DEF Owned
    <2> QED BY <2>0, <2>3 DEF HandsKept, HandsInv
  <1>7. CASE AfterSend(s)
    <2>0. cur[s] # None /\ UNCHANGED <<ready, disp, polled>>
      BY <1>7 DEF AfterSend, others, WorkType
    <2>1. cur'[s] = None /\ \A u \in Subs : u # s => cur'[u] = cur[u]
      BY <1>7 DEF AfterSend, WorkType
    <2>2. Batch
      BY <1>7, <2>0, BatchKept DEF AfterSend, Goto
    <2>3. ASSUME tasks' = tasks,
                 Calm' => \/ Settle(cur[s], "delivered") \/ Settle(cur[s], "dropped")
                          \/ Fail(cur[s])
          PROVE  HandsKept
      <3>1. \A m \in Messages : \A i :
               Owned(m, i) => Owned(m, i)' \/ (cur[s].msg = m /\ cur[s].claim = i)
        <4> SUFFICES ASSUME NEW m \in Messages, NEW i, Owned(m, i), ~(cur[s].msg = m /\ cur[s].claim = i)
                     PROVE  Owned(m, i)'
          OBVIOUS
        <4>1. CASE \E t \in Subs : cur[t] # None /\ cur[t].msg = m /\ cur[t].claim = i
          <5>1. \E t \in Subs : cur'[t] # None /\ cur'[t].msg = m /\ cur'[t].claim = i
            BY <2>1, <4>1
          <5> QED BY <5>1 DEF Owned
        <4>2. CASE ~\E t \in Subs : cur[t] # None /\ cur[t].msg = m /\ cur[t].claim = i
          BY <2>0, <2>3, <4>2 DEF Owned
        <4> QED BY <4>1, <4>2
      <3> QED BY <2>3, <3>1, HandsLetGo DEF Settle
    <2>4. ASSUME UNCHANGED store,
                 tasks' = tasks \cup {[sub |-> s, msg |-> cur[s].msg, claim |-> cur[s].claim,
                                       waits |-> cur[s].waits]}
          PROVE  HandsKept
      <3>1. UNCHANGED <<status, attempts>>
        BY <2>4 DEF store
      <3>2. /\ tasks \subseteq tasks'
            /\ \E k \in tasks' : k.msg = cur[s].msg /\ k.claim = cur[s].claim
        <4> DEFINE n == [sub |-> s, msg |-> cur[s].msg, claim |-> cur[s].claim, waits |-> cur[s].waits]
        <4>1. n.msg = cur[s].msg /\ n.claim = cur[s].claim
          OBVIOUS
        <4>2. tasks' = tasks \cup {n}
          BY <2>4
        <4> HIDE DEF n
        <4> QED BY <4>1, <4>2
      <3>3. ASSUME NEW m \in Messages, NEW i, Owned(m, i) PROVE Owned(m, i)'
        <4>1. CASE cur[s].msg = m /\ cur[s].claim = i
          BY <3>2, <4>1 DEF Owned
        <4>2. CASE ~(cur[s].msg = m /\ cur[s].claim = i)
          <5>1. ASSUME \E t \in Subs : cur[t] # None /\ cur[t].msg = m /\ cur[t].claim = i
                PROVE  \E t \in Subs : cur'[t] # None /\ cur'[t].msg = m /\ cur'[t].claim = i
            BY <2>1, <4>2, <5>1
          <5>2. ASSUME \E k \in tasks : k.msg = m /\ k.claim = i
                PROVE  \E k \in tasks' : k.msg = m /\ k.claim = i
            BY <3>2, <5>2
          <5> QED BY <2>0, <3>3, <5>1, <5>2 DEF Owned
        <4> QED BY <4>1, <4>2
      <3> QED BY <3>1, <3>3, HandsMoved
    <2>5. HandsKept
      BY <1>7, <2>3, <2>4 DEF AfterSend, Runs, Broken, Calm
    <2> QED BY <2>2, <2>5
  <1>8. ASSUME NEW c \in ready[s], ReleaseRest(s, c) PROVE HandsKept /\ Batch
    <2>0. ready' = [ready EXCEPT ![s] = @ \ {c}] /\ UNCHANGED <<pc, cur, tasks, disp, polled>>
      BY <1>8 DEF ReleaseRest, others
    <2>1. ready'[s] = ready[s] \ {c} /\ \A u \in Subs : u # s => ready'[u] = ready[u]
      BY <2>0 DEF WorkType
    <2>2. Batch
      BY <2>0, BatchKept
    <2>3. \A m \in Messages : \A i : Owned(m, i) => Owned(m, i)' \/ (c.msg = m /\ c.claim = i)
      BY <2>0, <2>1, OwnedBut
    <2>4. Calm' => ReleaseAndWake(c)
      BY <1>8 DEF ReleaseRest, Broken, Calm
    <2> QED BY <2>2, <2>3, <2>4, HandsLetGo DEF ReleaseAndWake, Settle
  <1> QED BY <1>1, <1>2, <1>3, <1>4, <1>5, <1>6, <1>7, <1>8 DEF Loop

\* Every step keeps the invariant.
LEMMA NextHands ==
    ASSUME StoreType, WorkType, HandsInv, [Next]_vars
    PROVE  HandsInv'
  <1>0. cancelled' \in [Subs -> BOOLEAN] /\ broken' \in BOOLEAN /\ (Calm' => Calm)
    BY LuckNext
  <1>1. ASSUME HandsKept, pc' = pc, ready' = ready PROVE HandsInv'
    BY <1>0, <1>1, HandsStep DEF HandsInv
  <1>2. CASE UNCHANGED vars
    BY <1>0, <1>1, <1>2, HandsStill DEF vars, store, loops, others
  <1>3. ASSUME NEW m \in Messages, Publish(m) \/ NotifyReady(m) \/ BackoffEnds(m) \/ Reclaim(m)
        PROVE  HandsInv'
    <2>1. UNCHANGED <<attempts, pc, ready, cur, tasks, disp, polled>>
      BY <1>3 DEF Publish, NotifyReady, BackoffEnds, Reclaim, store, loops, others
    <2>2. \A n \in Messages : status'[n] = "processing" => status[n] = "processing"
      BY <1>3 DEF Publish, NotifyReady, BackoffEnds, Reclaim, store, StoreType
    <2> QED BY <1>0, <1>1, <2>1, <2>2, HandsStill
  <1>4. ASSUME NEW m \in Messages, Poll(m) PROVE HandsInv'
    <2>1. UNCHANGED <<pc, ready, cur, tasks, disp>> /\ TakeClaims({m}) /\ polled' = polled \cup NewClaims({m})
      BY <1>4 DEF Poll, loops
    <2>2. Owned(m, attempts[m])'
      <3>1. attempts'[m] = attempts[m] + 1
        BY <2>1 DEF TakeClaims
      <3>2. [msg |-> m, claim |-> attempts[m] + 1] \in polled'
        BY <2>1 DEF NewClaims
      <3> QED BY <3>1, <3>2 DEF Owned
    <2>3. \A n \in Messages : \A i : Owned(n, i) => Owned(n, i)'
      BY <2>1 DEF Owned
    <2> QED BY <1>0, <1>1, <2>1, <2>2, <2>3, HandsTake
  <1>5. ASSUME NEW s \in Subs, CloseStream(s) \/ CancelStream(s) PROVE HandsInv'
    BY <1>0, <1>1, <1>5, HandsStill DEF CloseStream, CancelStream, store, loops, others
  <1>6. ASSUME NEW k \in tasks, TaskEnds(k) PROVE HandsInv'
    <2>1. UNCHANGED <<pc, ready, cur, disp, polled, cancelled>> /\ tasks' = tasks \ {k}
      BY <1>6 DEF TaskEnds, loops, others, ends
    <2>2. \A m \in Messages : \A i : Owned(m, i) => Owned(m, i)' \/ (k.msg = m /\ k.claim = i)
      BY <2>1 DEF Owned
    <2>3. Calm' => ~cancelled[k.sub]
      <3>1. k.sub \in Subs
        BY DEF WorkType, Tasks
      <3> QED BY <2>1, <3>1 DEF Calm
    <2>4. Calm' => Settle(k, "delivered") \/ Fail(k)
      BY <1>6, <2>3 DEF TaskEnds, Runs, Broken, Calm
    <2> QED BY <1>0, <1>1, <2>1, <2>2, <2>4, HandsLetGo DEF Settle
  <1>7. ASSUME NEW a \in inflight, NEW ok \in BOOLEAN, Complete(a, ok) PROVE HandsInv'
    BY <1>0, <1>1, <1>7, HandsStill DEF Complete, store, loops, others
  <1>8. ASSUME NEW c \in polled, NEW ok \in BOOLEAN, PollAck(c, ok) PROVE HandsInv'
    <2>1. UNCHANGED <<pc, ready, cur, disp, tasks>> /\ polled' = polled \ {c}
      BY <1>8 DEF PollAck, loops
    <2>2. \A m \in Messages : \A i : Owned(m, i) => Owned(m, i)' \/ (c.msg = m /\ c.claim = i)
      BY <2>1 DEF Owned
    <2>3. Calm' => Settle(c, "delivered") \/ Fail(c)
      BY <1>8 DEF PollAck, Runs, Broken, Calm
    <2> QED BY <1>0, <1>1, <2>1, <2>2, <2>3, HandsLetGo DEF Settle
  <1>9. CASE Dispatcher
    <2>0. UNCHANGED <<pc, ready, cur, tasks, polled>>
      BY <1>9 DEF Dispatcher, DispatchSkip, DispatchClaim, DispatchCheck, DispatchPost, loops
    <2>1. CASE DispatchSkip
      <3>1. disp.stage = "rest" /\ UNCHANGED <<status, attempts>>
        BY <2>1 DEF DispatchSkip, Resting, store
      <3>2. \A m \in Messages : Owned(m, attempts[m]) => Owned(m, attempts[m])'
        BY <2>0, <3>1 DEF Owned
      <3> QED BY <1>0, <1>1, <2>0, <3>1, <3>2 DEF HandsKept
    <2>2. CASE DispatchClaim
      <3>1. disp.stage = "skip"
        BY <2>2 DEF DispatchClaim
      <3>2. CASE UNCHANGED store
        <4>1. UNCHANGED <<status, attempts>>
          BY <3>2 DEF store
        <4>2. \A m \in Messages : Owned(m, attempts[m]) => Owned(m, attempts[m])'
          BY <2>0, <3>1, <4>1 DEF Owned
        <4> QED BY <1>0, <1>1, <2>0, <4>1, <4>2 DEF HandsKept
      <3>3. ASSUME NEW m \in Messages, TakeClaims({m}),
                   disp' = [stage |-> "check", msg |-> m, claim |-> attempts[m] + 1]
            PROVE  HandsInv'
        <4>1. attempts'[m] = attempts[m] + 1
          BY <3>3 DEF TakeClaims
        <4>2. disp'.stage = "check" /\ disp'.msg = m /\ disp'.claim = attempts[m] + 1
          BY <3>3
        <4>3. Owned(m, attempts[m])'
          BY <4>1, <4>2 DEF Owned
        <4>4. \A n \in Messages : \A i : Owned(n, i) => Owned(n, i)'
          BY <2>0, <3>1 DEF Owned
        <4> QED BY <1>0, <1>1, <2>0, <3>3, <4>3, <4>4, HandsTake
      <3> QED BY <2>2, <3>2, <3>3 DEF DispatchClaim
    <2>3. CASE DispatchCheck
      <3>0. disp.stage = "check"
        BY <2>3 DEF DispatchCheck
      <3>1. CASE disp' = Resting
        <4>1. disp'.stage = "rest"
          BY <3>1 DEF Resting
        <4>2. \A m \in Messages : \A i : Owned(m, i) => Owned(m, i)' \/ (disp.msg = m /\ disp.claim = i)
          BY <2>0 DEF Owned
        <4>3. Calm' => /\ status' = [status EXCEPT ![disp.msg] = IF Held(disp) THEN "pending" ELSE @]
                       /\ attempts' = attempts
          <5>1. [disp EXCEPT !.stage = "post"] # Resting
            <6>1. disp = [stage |-> disp.stage, msg |-> disp.msg, claim |-> disp.claim]
              BY <3>0 DEF WorkType
            <6>2. [disp EXCEPT !.stage = "post"].stage = "post"
              BY <6>1
            <6> QED BY <6>2 DEF Resting
          <5> QED BY <2>3, <3>1, <5>1 DEF DispatchCheck, Broken, Calm
        <4> QED BY <1>0, <1>1, <2>0, <4>2, <4>3, HandsLetGo
      <3>2. CASE disp' = [disp EXCEPT !.stage = "post"] /\ UNCHANGED store
        <4>1. disp = [stage |-> disp.stage, msg |-> disp.msg, claim |-> disp.claim]
          BY <3>0 DEF WorkType
        <4>2. disp'.stage = "post" /\ disp'.msg = disp.msg /\ disp'.claim = disp.claim
          BY <3>2, <4>1
        <4>3. UNCHANGED <<status, attempts>>
          BY <3>2 DEF store
        <4>4. \A m \in Messages : Owned(m, attempts[m]) => Owned(m, attempts[m])'
          BY <2>0, <4>2, <4>3 DEF Owned
        <4> QED BY <1>0, <1>1, <2>0, <4>3, <4>4 DEF HandsKept
      <3> QED BY <2>3, <3>1, <3>2 DEF DispatchCheck
    <2>4. ASSUME NEW ok \in BOOLEAN, DispatchPost(ok) PROVE HandsInv'
      <3>1. \A m \in Messages : \A i : Owned(m, i) => Owned(m, i)' \/ (disp.msg = m /\ disp.claim = i)
        BY <2>0 DEF Owned
      <3>2. Calm' => Settle(disp, "delivered") \/ Fail(disp)
        BY <2>4 DEF DispatchPost, Runs, Broken, Calm
      <3> QED BY <1>0, <1>1, <2>0, <3>1, <3>2, HandsLetGo DEF Settle
    <2> QED BY <1>9, <2>1, <2>2, <2>3, <2>4 DEF Dispatcher
  <1>10. ASSUME NEW s \in Subs, Loop(s) PROVE HandsInv'
    <2>1. HandsKept /\ \A t \in Subs : pc'[t] \in {"permit", "claim"} => ready'[t] = {}
      BY <1>0, <1>10, LoopHands
    <2> QED BY <1>0, <2>1, HandsStep
  <1> QED BY <1>2, <1>3, <1>4, <1>5, <1>6, <1>7, <1>8, <1>9, <1>10 DEF Next, Task

\* At the start there are no claims.
LEMMA InitHands == ASSUME Init PROVE HandsInv /\ StoreType
  <1>1. /\ cancelled = [s \in Subs |-> FALSE] /\ broken = FALSE
        /\ ready = [s \in Subs |-> {}] /\ status = [m \in Messages |-> "none"]
    BY DEF Init
  <1>2. cancelled \in [Subs -> BOOLEAN] /\ broken \in BOOLEAN
    BY <1>1
  <1>3. (\A s \in Subs : ready[s] = {}) /\ \A m \in Messages : status[m] # "processing"
    BY <1>1
  <1>4. StoreType
    BY SMTT(30) DEF Init, StoreType, States
  <1> QED BY <1>2, <1>3, <1>4 DEF HandsInv

\* No claim is forgotten as long as statements succeed and no stream is
\* cancelled (delivery.rs:180-430): whoever lets go of a claim settles the row,
\* unless the claim is out of date.
THEOREM NoClaimIsAbandoned == Spec => []NoAbandonedClaim
  <1>1. Init => HandsInv /\ WorkInv /\ StoreType
    BY InitHands, InitWork
  <1>2. HandsInv /\ WorkInv /\ StoreType /\ [Next]_vars => HandsInv' /\ WorkInv' /\ StoreType'
    BY NextHands, NextWork, NextRows DEF WorkInv, Rows
  <1>3. HandsInv /\ WorkInv => NoAbandonedClaim
    <2> SUFFICES ASSUME HandsInv, WorkInv, ~broken, \A s \in Subs : ~cancelled[s],
                        NEW m \in Messages, status[m] = "processing"
                 PROVE  InWork(m) \/ [msg |-> m, claim |-> attempts[m]] \in polled
      BY DEF NoAbandonedClaim
    <2>1. Owned(m, attempts[m])
      BY DEF HandsInv, Calm
    <2>2. \A c \in Claims : c.msg = m /\ c.claim = attempts[m] => c = [msg |-> m, claim |-> attempts[m]]
      BY SMTT(30) DEF Claims
    <2>3. polled \subseteq Claims /\ \A s \in Subs : ready[s] \subseteq Claims
      BY DEF WorkInv, WorkType
    <2> QED BY <2>1, <2>2, <2>3 DEF Owned, InWork
  <1> QED BY <1>1, <1>2, <1>3, PTL DEF Spec

-----------------------------------------------------------------------------
(* Types.  The parts above have the types they need; this is the rest.  The   *)
(* permits of a loop are counted by the tasks, so these must stay finite.     *)

StoreTypes == due \in [Messages -> BOOLEAN] /\ silent \subseteq Messages

WakeTypes == flag \in [Subs -> BOOLEAN] /\ open \in [Subs -> BOOLEAN]

RoomTypes ==
    /\ todo \in [Subs -> SUBSET (Topics \cup Filters)]
    /\ room \in [Subs -> 0..Prefetch]
    /\ IsFiniteSet(tasks)

RestInv ==
    /\ StoreTypes /\ toNotify \subseteq Messages
    /\ WakeTypes /\ RoomTypes
    /\ heard \subseteq Acks /\ disp \in Dispatching /\ trouble \in 0..MaxTrouble

\* The scene is chosen once.
LEMMA SceneStays == [Next]_vars => scene' = scene
  <1>1. ASSUME NEW s \in Subs, Loop(s) PROVE scene' = scene
    BY <1>1 DEF Loop, Register, Watch, Top, Permit, Idle, ClaimTopic, ClaimFails, TakeNext, Send,
                AfterSend, ReleaseRest, Leave, CheckCovered, DropPending, ends
  <1>2. ASSUME NEW m \in Messages,
               Publish(m) \/ NotifyReady(m) \/ BackoffEnds(m) \/ Reclaim(m) \/ Poll(m)
        PROVE  scene' = scene
    BY <1>2 DEF Publish, NotifyReady, BackoffEnds, Reclaim, Poll, ends
  <1>3. CASE Dispatcher
    BY <1>3 DEF Dispatcher, DispatchSkip, DispatchClaim, DispatchCheck, DispatchPost, ends
  <1> QED BY <1>1, <1>2, <1>3 DEF Next, Task, TaskEnds, CloseStream, CancelStream, Complete,
                                  PollAck, ends, vars

\* What counts against the bound is counted one at a time.
LEMMA NextTrouble ==
    ASSUME trouble \in 0..MaxTrouble, [Next]_vars PROVE trouble' \in 0..MaxTrouble
  <1>0. SUFFICES trouble' = trouble \/ Trouble
    BY SMTT(30), BoundAssumption DEF Trouble
  <1>1. ASSUME NEW s \in Subs, Loop(s) PROVE trouble' = trouble \/ Trouble
    BY <1>1 DEF Loop, Register, Watch, Top, Permit, Idle, ClaimTopic, ClaimFails, TakeNext, Send,
                AfterSend, ReleaseRest, Leave, CheckCovered, DropPending, Runs, Broken, luck
  <1>2. ASSUME NEW m \in Messages,
               Publish(m) \/ NotifyReady(m) \/ BackoffEnds(m) \/ Reclaim(m) \/ Poll(m)
        PROVE  trouble' = trouble \/ Trouble
    BY <1>2 DEF Publish, NotifyReady, BackoffEnds, Reclaim, Poll, luck
  <1>3. ASSUME NEW k \in tasks, TaskEnds(k) PROVE trouble' = trouble \/ Trouble
    BY <1>3 DEF TaskEnds, Runs, Broken, luck
  <1>4. CASE Dispatcher
    BY <1>4 DEF Dispatcher, DispatchSkip, DispatchClaim, DispatchCheck, DispatchPost, Runs,
                Broken, luck
  <1> QED BY <1>1, <1>2, <1>3, <1>4 DEF Next, Task, CloseStream, CancelStream, Complete,
                                        PollAck, Runs, Broken, luck, vars

\* The stages of the dispatcher hold what they need.
LEMMA DispStages ==
    ASSUME disp \in Dispatching
    PROVE  /\ disp.stage \in {"check", "post"} => disp \in [stage : {"check", "post"}, msg : Messages, claim : Nat]
           /\ disp.stage = "skip" => disp \in [stage : {"skip"}, skip : SUBSET (Filters \cup Ephemeral)]
  BY SMTT(30) DEF Dispatching, Resting

\* A claim is looked at, posted and let go.
LEMMA NextDisp ==
    ASSUME EntryInv, StoreType, disp \in Dispatching, [Next]_vars
    PROVE  (disp \in Dispatching)'
  <1>0. Filters' = Filters /\ Ephemeral' = Ephemeral
    BY SceneStays DEF Filters, FilterOf, Ephemeral
  <1>1. Dispatching' = Dispatching
    BY <1>0 DEF Dispatching
  <1>2. ASSUME disp' = disp PROVE (disp \in Dispatching)'
    BY <1>1, <1>2
  <1>3. ASSUME NEW s \in Subs, Loop(s) PROVE disp' = disp
    BY <1>3 DEF Loop, Register, Watch, Top, Permit, Idle, ClaimTopic, ClaimFails, TakeNext, Send,
                AfterSend, ReleaseRest, Leave, CheckCovered, DropPending, others
  <1>4. ASSUME NEW m \in Messages,
               Publish(m) \/ NotifyReady(m) \/ BackoffEnds(m) \/ Reclaim(m) \/ Poll(m)
        PROVE  disp' = disp
    BY <1>4 DEF Publish, NotifyReady, BackoffEnds, Reclaim, Poll, others
  <1>5. ASSUME disp' = Resting PROVE (disp \in Dispatching)'
    BY <1>1, <1>5 DEF Dispatching
  <1>6. CASE DispatchSkip
    <2>1. \A r \in registry : r.filter \in Filters
      <3> SUFFICES ASSUME NEW r \in registry PROVE r.filter \in Filters
        OBVIOUS
      <3>1. PICK s \in Subs : r = Entry(s)
        BY DEF EntryInv
      <3>2. r.filter = FilterOf[s]
        BY <3>1 DEF Entry
      <3> QED BY <3>2 DEF Filters
    <2>0. PICK E \in {Ephemeral, {}} :
              disp' = [stage |-> "skip", skip |-> {r.filter : r \in registry} \cup E]
      BY <1>6 DEF DispatchSkip
    <2> DEFINE S == {r.filter : r \in registry} \cup E
    <2>2. S \in SUBSET (Filters \cup Ephemeral)
      BY <2>0, <2>1
    <2>3. disp' = [stage |-> "skip", skip |-> S]
      BY <2>0
    <2> HIDE DEF S
    <2>4. disp' \in [stage : {"skip"}, skip : SUBSET (Filters \cup Ephemeral)]
      BY SMTT(30), <2>2, <2>3
    <2> QED BY <1>1, <2>4 DEF Dispatching
  <1>7. CASE DispatchClaim
    <2>1. ASSUME NEW m \in Messages, disp' = [stage |-> "check", msg |-> m, claim |-> attempts[m] + 1]
          PROVE  (disp \in Dispatching)'
      <3>1. attempts[m] + 1 \in Nat
        BY SMTT(30) DEF StoreType
      <3>2. disp' \in [stage : {"check", "post"}, msg : Messages, claim : Nat]
        BY SMTT(30), <2>1, <3>1
      <3> QED BY <1>1, <3>2 DEF Dispatching
    <2> QED BY <1>5, <1>7, <2>1 DEF DispatchClaim
  <1>8. CASE DispatchCheck
    <2>1. ASSUME disp' = [disp EXCEPT !.stage = "post"] PROVE (disp \in Dispatching)'
      <3>1. disp \in [stage : {"check", "post"}, msg : Messages, claim : Nat]
        BY <1>8, DispStages DEF DispatchCheck
      <3>2. disp' \in [stage : {"check", "post"}, msg : Messages, claim : Nat]
        BY SMTT(30), <2>1, <3>1
      <3> QED BY <1>1, <3>2 DEF Dispatching
    <2> QED BY <1>5, <1>8, <2>1 DEF DispatchCheck
  <1>9. CASE \E ok \in BOOLEAN : DispatchPost(ok)
    BY <1>5, <1>9 DEF DispatchPost
  <1> QED BY <1>2, <1>3, <1>4, <1>6, <1>7, <1>8, <1>9 DEF Next, Task, TaskEnds, CloseStream,
             CancelStream, Complete, PollAck, Dispatcher, others, vars

\* Settling, failing and claiming.
LEMMA SettleTypes ==
    ASSUME StoreTypes, NEW c, c.msg \in Messages, NEW s, Settle(c, s) \/ Fail(c)
    PROVE  StoreTypes'
  <1>1. CASE Settle(c, s)
    BY <1>1 DEF Settle, StoreTypes
  <1>2. CASE Fail(c)
    <2> DEFINE again == Held(c) /\ attempts[c.msg] < MaxAttempts
    <2>1. /\ due' = [due EXCEPT ![c.msg] = @ /\ ~again]
          /\ silent' = silent \cup {c.msg} \/ silent' = silent
      BY <1>2 DEF Fail
    <2> HIDE DEF again
    <2>2. due' \in [Messages -> BOOLEAN]
      BY <2>1 DEF StoreTypes
    <2> QED BY <2>1, <2>2 DEF StoreTypes
  <1> QED BY <1>1, <1>2

\* A row goes through one statement or none; the loops wake up for messages.
LEMMA NextStoreTypes ==
    ASSUME StoreTypes, toNotify \subseteq Messages, WorkType, disp \in Dispatching, [Next]_vars
    PROVE  StoreTypes' /\ toNotify' \subseteq Messages
  <1>0. ASSUME UNCHANGED store PROVE StoreTypes'
    BY <1>0 DEF store, StoreTypes
  <1>1. ASSUME NEW C, TakeClaims(C) PROVE StoreTypes'
    BY <1>1 DEF TakeClaims, StoreTypes
  <1>2. CASE UNCHANGED vars
    BY <1>0, <1>2 DEF vars, wake
  <1>3. ASSUME NEW m \in Messages,
               Publish(m) \/ NotifyReady(m) \/ BackoffEnds(m) \/ Reclaim(m) \/ Poll(m)
        PROVE  StoreTypes' /\ toNotify' \subseteq Messages
    <2>1. CASE Publish(m)
      BY <2>1 DEF Publish, StoreTypes
    <2>2. CASE NotifyReady(m)
      BY <2>2, <1>0 DEF NotifyReady
    <2>3. CASE BackoffEnds(m)
      BY <2>3 DEF BackoffEnds, StoreTypes, wake
    <2>4. CASE Reclaim(m)
      BY <2>4 DEF Reclaim, StoreTypes, wake
    <2>5. CASE Poll(m)
      BY <2>5, <1>1 DEF Poll, wake
    <2> QED BY <1>3, <2>1, <2>2, <2>3, <2>4, <2>5
  <1>4. ASSUME NEW s \in Subs, CloseStream(s) \/ CancelStream(s)
        PROVE  StoreTypes' /\ toNotify' \subseteq Messages
    BY <1>0, <1>4 DEF CloseStream, CancelStream, wake
  <1>5. ASSUME NEW k \in tasks, TaskEnds(k) PROVE StoreTypes' /\ toNotify' \subseteq Messages
    <2>1. k.msg \in Messages
      BY SMTT(30) DEF WorkType, Tasks
    <2>2. UNCHANGED store \/ Settle(k, "delivered") \/ Fail(k)
      BY <1>5 DEF TaskEnds, Runs, Broken
    <2>3. toNotify' = toNotify
      BY <1>5 DEF TaskEnds, wake
    <2> QED BY <1>0, <2>1, <2>2, <2>3, SettleTypes
  <1>6. ASSUME NEW a \in inflight, NEW ok \in BOOLEAN, Complete(a, ok)
        PROVE  StoreTypes' /\ toNotify' \subseteq Messages
    BY <1>0, <1>6 DEF Complete, wake
  <1>7. ASSUME NEW c \in polled, NEW ok \in BOOLEAN, PollAck(c, ok)
        PROVE  StoreTypes' /\ toNotify' \subseteq Messages
    <2>1. c.msg \in Messages
      BY SMTT(30) DEF WorkType, Claims
    <2>2. UNCHANGED store \/ Settle(c, "delivered") \/ Fail(c)
      BY <1>7 DEF PollAck, Runs, Broken
    <2>3. toNotify' = toNotify
      BY <1>7 DEF PollAck, wake
    <2> QED BY <1>0, <2>1, <2>2, <2>3, SettleTypes
  <1>8. CASE Dispatcher
    <2>0. toNotify' = toNotify
      BY <1>8 DEF Dispatcher, DispatchSkip, DispatchClaim, DispatchCheck, DispatchPost, wake
    <2>1. CASE DispatchSkip \/ DispatchClaim
      BY <1>0, <1>1, <2>0, <2>1 DEF DispatchSkip, DispatchClaim
    <2>2. ASSUME disp.stage \in {"check", "post"} PROVE disp.msg \in Messages
      <3>1. disp \in [stage : {"check", "post"}, msg : Messages, claim : Nat]
        BY <2>2, DispStages
      <3> QED BY SMTT(30), <3>1
    <2>3. CASE DispatchCheck
      <3>1. \/ UNCHANGED store
            \/ silent' \subseteq silent \cup {disp.msg} /\ due' = due
        BY <2>3 DEF DispatchCheck, Broken
      <3>2. disp.msg \in Messages
        BY <2>2, <2>3 DEF DispatchCheck
      <3> QED BY <1>0, <2>0, <3>1, <3>2 DEF StoreTypes
    <2>4. ASSUME NEW ok \in BOOLEAN, DispatchPost(ok) PROVE StoreTypes'
      <3>1. UNCHANGED store \/ Settle(disp, "delivered") \/ Fail(disp)
        BY <2>4 DEF DispatchPost, Runs, Broken
      <3>2. disp.msg \in Messages
        BY <2>2, <2>4 DEF DispatchPost
      <3> QED BY <1>0, <3>1, <3>2, SettleTypes
    <2> QED BY <1>8, <2>0, <2>1, <2>3, <2>4 DEF Dispatcher
  <1>9. ASSUME NEW s \in Subs, Loop(s) PROVE StoreTypes' /\ toNotify' \subseteq Messages
    <2>0. \A c \in ready[s] : c.msg \in Messages
      BY SMTT(30) DEF WorkType, Claims
    <2>1. CASE \/ Register(s) \/ Watch(s) \/ Top(s) \/ Permit(s) \/ Idle(s) \/ ClaimFails(s)
               \/ (\E x \in Subs : Send(s, x)) \/ Leave(s) \/ CheckCovered(s)
      BY <1>0, <2>1 DEF Register, Watch, Top, Permit, Idle, ClaimFails, Broken, Send, Leave,
                        CheckCovered, wake
    <2>2. ASSUME NEW t \in todo[s], ClaimTopic(s, t) PROVE StoreTypes' /\ toNotify' \subseteq Messages
      BY <1>0, <1>1, <2>2 DEF ClaimTopic, wake
    <2>3. ASSUME NEW c \in ready[s], TakeNext(s, c) \/ ReleaseRest(s, c)
          PROVE  StoreTypes' /\ toNotify' \subseteq Messages
      <3>1. UNCHANGED <<store, wake>> \/ ReleaseAndWake(c)
        BY <2>3 DEF TakeNext, ReleaseRest, Broken
      <3>2. CASE ReleaseAndWake(c)
        BY <2>0, <3>2, SettleTypes DEF ReleaseAndWake
      <3> QED BY <1>0, <3>1, <3>2 DEF wake
    <2>4. CASE AfterSend(s)
      <3>1. cur[s].msg \in Messages
        <4>1. cur[s] \in InHand
          BY <2>4 DEF AfterSend, WorkType
        <4> QED BY SMTT(30), <4>1 DEF InHand
      <3>2. \/ UNCHANGED store
            \/ \E t : Settle(cur[s], t) \/ Fail(cur[s])
        BY <2>4 DEF AfterSend, Runs, Broken
      <3>3. toNotify' = toNotify
        BY <2>4 DEF AfterSend, wake
      <3> QED BY <1>0, <3>1, <3>2, <3>3, SettleTypes
    <2>5. CASE DropPending(s)
      <3>1. UNCHANGED store \/ UNCHANGED <<due, silent>>
        BY <2>5 DEF DropPending, Runs, Broken
      <3>2. toNotify' = toNotify
        BY <2>5 DEF DropPending, wake
      <3> QED BY <1>0, <3>1, <3>2 DEF StoreTypes
    <2> QED BY <1>9, <2>1, <2>2, <2>3, <2>4, <2>5 DEF Loop
  <1> QED BY <1>2, <1>3, <1>4, <1>5, <1>6, <1>7, <1>8, <1>9 DEF Next, Task

\* Only answers that were waited for are heard.
LEMMA NextHeard ==
    ASSUME WorkType, heard \subseteq Acks, [Next]_vars PROVE heard' \subseteq Acks
  <1>1. inflight \subseteq Acks
    BY DEF WorkType
  <1>2. ASSUME NEW s \in Subs, Loop(s) PROVE heard' \subseteq heard
    BY <1>2 DEF Loop, Register, Watch, Top, Permit, Idle, ClaimTopic, ClaimFails, TakeNext, Send,
                AfterSend, Discard, ReleaseRest, Leave, CheckCovered, DropPending, acks
  <1>3. ASSUME NEW m \in Messages,
               Publish(m) \/ NotifyReady(m) \/ BackoffEnds(m) \/ Reclaim(m) \/ Poll(m)
        PROVE  heard' \subseteq heard
    BY <1>3 DEF Publish, NotifyReady, BackoffEnds, Reclaim, Poll, acks
  <1>4. CASE Dispatcher
    BY <1>4 DEF Dispatcher, DispatchSkip, DispatchClaim, DispatchCheck, DispatchPost, acks
  <1>5. ASSUME NEW a \in inflight, NEW ok \in BOOLEAN, Complete(a, ok) PROVE heard' \subseteq Acks
    BY <1>1, <1>5 DEF Complete
  <1> QED BY <1>2, <1>3, <1>4, <1>5 DEF Next, Task, TaskEnds, Discard, CloseStream,
             CancelStream, PollAck, acks, vars

\* What a receiver has to see, and what the client reads.
LEMMA NextWakeTypes == ASSUME WakeTypes, [Next]_vars PROVE WakeTypes'
  <1>0. ASSUME UNCHANGED <<flag, open>> PROVE WakeTypes'
    BY <1>0 DEF WakeTypes
  <1>1. ASSUME NEW s \in Subs, Loop(s)
        PROVE  open' = open /\ (flag' = flag \/ flag' = [flag EXCEPT ![s] = FALSE])
    BY <1>1 DEF Loop, Register, Watch, Top, Permit, Idle, ClaimTopic, ClaimFails, TakeNext,
                ReleaseAndWake, Send, AfterSend, ReleaseRest, Leave, CheckCovered, DropPending,
                ends, wake
  <1>2. ASSUME NEW m \in Messages, Publish(m) \/ BackoffEnds(m) \/ Reclaim(m) \/ Poll(m)
        PROVE  WakeTypes'
    BY <1>0, <1>2 DEF Publish, BackoffEnds, Reclaim, Poll, ends, wake
  <1>3. ASSUME NEW m \in Messages, NotifyReady(m) PROVE WakeTypes'
    BY <1>3 DEF NotifyReady, WakeTypes, ends
  <1>4. CASE Dispatcher
    BY <1>0, <1>4 DEF Dispatcher, DispatchSkip, DispatchClaim, DispatchCheck, DispatchPost, ends,
       wake
  <1>5. ASSUME NEW s \in Subs, CloseStream(s) \/ CancelStream(s) PROVE WakeTypes'
    BY <1>5 DEF CloseStream, CancelStream, WakeTypes, wake
  <1>6. ASSUME NEW s \in Subs, Loop(s) PROVE WakeTypes'
    BY <1>1, <1>6 DEF WakeTypes
  <1> QED BY <1>0, <1>2, <1>3, <1>4, <1>5, <1>6 DEF Next, Task, TaskEnds, Complete, PollAck,
             ends, wake, vars

\* What is needed of finite sets, whose theorems are about operators of their own.
FST == INSTANCE FiniteSetTheorems

LEMMA FiniteFacts ==
    /\ IsFiniteSet({}) /\ Cardinality({}) = 0
    /\ \A S : IsFiniteSet(S) => Cardinality(S) \in Nat
    /\ \A S : IsFiniteSet(S) => \A T \in SUBSET S : IsFiniteSet(T)
    /\ \A S, x : IsFiniteSet(S) => IsFiniteSet(S \cup {x})
  <1>1. \A S : IsFiniteSet(S) <=> FST!IsFiniteSet(S)
    BY DEF IsFiniteSet, FST!IsFiniteSet
  <1>2. \A S : Cardinality(S) = FST!Cardinality(S)
    BY DEF Cardinality, FST!Cardinality, IsFiniteSet, FST!IsFiniteSet
  <1>3. IsFiniteSet({}) /\ Cardinality({}) = 0
    BY <1>1, <1>2, FST!FS_EmptySet
  <1>4. \A S : IsFiniteSet(S) => Cardinality(S) \in Nat
    BY <1>1, <1>2, FST!FS_CardinalityType
  <1>5. \A S : IsFiniteSet(S) => \A T \in SUBSET S : IsFiniteSet(T)
    BY <1>1, FST!FS_Subset
  <1>6. \A S, x : IsFiniteSet(S) => IsFiniteSet(S \cup {x})
    BY <1>1, FST!FS_AddElement
  <1> QED BY <1>3, <1>4, <1>5, <1>6

\* A loop reserves no more permits than there are.
LEMMA StartTypes ==
    ASSUME EntryInv, RoomTypes, NEW s \in Subs, ready[s] = {}, Free(s) > 0, StartClaim(s),
           scene' = scene, tasks' = tasks
    PROVE  RoomTypes'
  <1>1. Prefetch \in Nat \ {0} /\ ClaimBatch \in Nat \ {0}
    BY SceneAssumption, LimitAssumption DEF EntryInv, Prefetch
  <1> DEFINE n == Cardinality({k \in tasks : k.sub = s})
  <1>2. n \in Nat
    BY FiniteFacts DEF RoomTypes
  <1>3. Free(s) = Prefetch - 0 - n
    BY FiniteFacts DEF Free
  <1> HIDE DEF n
  <1>4. (IF Free(s) < ClaimBatch THEN Free(s) ELSE ClaimBatch) \in 0..Prefetch
    BY SMTT(30), <1>1, <1>2, <1>3
  <1>5. room' \in [Subs -> 0..Prefetch]
    BY <1>4 DEF StartClaim, RoomTypes
  <1>6. (IF is_wildcard_filter(FilterOf[s]) THEN Topics ELSE {FilterOf[s]})
           \in SUBSET (Topics \cup Filters)
    BY DEF Filters
  <1>7. todo' \in [Subs -> SUBSET (Topics \cup Filters)]
    BY <1>6 DEF StartClaim, RoomTypes
  <1> QED BY <1>5, <1>7 DEF RoomTypes, Prefetch, Filters, FilterOf, Topics

\* Steps that reserve nothing: topics and permits are given up, and at most one
\* task is spawned.
LEMMA LessRoom ==
    ASSUME EntryInv, RoomTypes, NEW s \in Subs, NEW k, scene' = scene,
           tasks' \subseteq tasks \cup {k},
           todo' = todo \/ \E T \in SUBSET todo[s] : todo' = [todo EXCEPT ![s] = T],
           room' = room \/ room' = [room EXCEPT ![s] = 0]
    PROVE  RoomTypes'
  <1>1. IsFiniteSet(tasks')
    <2>1. IsFiniteSet(tasks \cup {k})
      BY FiniteFacts DEF RoomTypes
    <2> QED BY <2>1, FiniteFacts
  <1>2. 0 \in 0..Prefetch
    <2>1. Prefetch \in Nat \ {0}
      BY SceneAssumption DEF EntryInv, Prefetch
    <2> QED BY SMTT(30), <2>1
  <1>3. room' \in [Subs -> 0..Prefetch]
    BY <1>2 DEF RoomTypes
  <1>4. todo' \in [Subs -> SUBSET (Topics \cup Filters)]
    <2>1. \A T \in SUBSET todo[s] : T \in SUBSET (Topics \cup Filters)
      BY DEF RoomTypes
    <2> QED BY <2>1 DEF RoomTypes
  <1>5. Prefetch' = Prefetch /\ Filters' = Filters
    BY DEF Prefetch, Filters, FilterOf
  <1> QED BY <1>1, <1>3, <1>4, <1>5 DEF RoomTypes, Topics

\* Permits and tasks, over all steps.
LEMMA NextRoom ==
    ASSUME EntryInv, HandsInv, RoomTypes, [Next]_vars PROVE RoomTypes'
  <1>0. scene' = scene
    BY SceneStays
  <1>1. ASSUME NEW s \in Subs, Loop(s) PROVE RoomTypes'
    <2>1. CASE (Top(s) \/ Permit(s)) /\ StartClaim(s) /\ Free(s) > 0 /\ ready[s] = {}
      BY <1>0, <2>1, StartTypes DEF Top, Permit
    <2>2. CASE (Top(s) \/ Permit(s)) /\ UNCHANGED <<todo, room>>
      BY <1>0, <2>2, LessRoom DEF Top, Permit
    <2>3. CASE Top(s)
      BY <2>1, <2>2, <2>3 DEF Top
    <2>4. CASE Permit(s)
      BY <2>1, <2>2, <2>4 DEF Permit, HandsInv
    <2>5. CASE Register(s) \/ Watch(s) \/ Idle(s) \/ Leave(s) \/ CheckCovered(s) \/ DropPending(s)
      BY <1>0, <2>5, LessRoom DEF Register, Watch, Idle, Leave, CheckCovered, DropPending
    <2>6. ASSUME NEW t \in todo[s], ClaimTopic(s, t) PROVE RoomTypes'
      <3>1. tasks' = tasks /\ \E T \in SUBSET todo[s] : todo' = [todo EXCEPT ![s] = T]
        BY <2>6 DEF ClaimTopic
      <3>2. room' = room \/ room' = [room EXCEPT ![s] = 0]
        <4>1. room = [room EXCEPT ![s] = room[s]]
          BY DEF RoomTypes
        <4> QED BY <2>6, <4>1 DEF ClaimTopic
      <3> QED BY <1>0, <3>1, <3>2, LessRoom
    <2>7. CASE ClaimFails(s)
      BY <1>0, <2>7, LessRoom DEF ClaimFails
    <2>8. ASSUME NEW c \in ready[s], TakeNext(s, c) \/ ReleaseRest(s, c) PROVE RoomTypes'
      BY <1>0, <2>8, LessRoom DEF TakeNext, ReleaseRest
    <2>9. ASSUME NEW x \in Subs, Send(s, x) PROVE RoomTypes'
      BY <1>0, <2>9, LessRoom DEF Send
    <2>10. CASE AfterSend(s)
      <3>1. \E k : tasks' \subseteq tasks \cup {k}
        BY <2>10 DEF AfterSend
      <3>2. UNCHANGED <<todo, room>>
        BY <2>10 DEF AfterSend
      <3> QED BY <1>0, <3>1, <3>2, LessRoom
    <2> QED BY <1>1, <2>3, <2>4, <2>5, <2>6, <2>7, <2>8, <2>9, <2>10 DEF Loop
  <1>2. ASSUME UNCHANGED <<todo, room>>, tasks' \subseteq tasks PROVE RoomTypes'
    <2>1. IsFiniteSet(tasks')
      BY <1>2, FiniteFacts DEF RoomTypes
    <2> QED BY <1>0, <1>2, <2>1 DEF RoomTypes, Prefetch, Filters, FilterOf, Topics
  <1>3. ASSUME NEW m \in Messages,
               Publish(m) \/ NotifyReady(m) \/ BackoffEnds(m) \/ Reclaim(m) \/ Poll(m)
        PROVE  RoomTypes'
    BY <1>2, <1>3 DEF Publish, NotifyReady, BackoffEnds, Reclaim, Poll, loops
  <1>4. CASE Dispatcher
    BY <1>2, <1>4 DEF Dispatcher, DispatchSkip, DispatchClaim, DispatchCheck, DispatchPost, loops
  <1>5. ASSUME NEW k \in tasks, TaskEnds(k) PROVE RoomTypes'
    BY <1>2, <1>5 DEF TaskEnds, loops
  <1> QED BY <1>1, <1>2, <1>3, <1>4, <1>5 DEF Next, Task, CloseStream, CancelStream, Complete,
             PollAck, loops, vars

\* Every variable keeps its type; in particular a loop reserves no more permits
\* than CL_BROKER_CONSUMER_PREFETCH, and the dispatcher holds a claim whenever it
\* posts (delivery.rs:180-430, main.rs:606-652).
THEOREM DeliveryTypeCorrect == Spec => []TypeOK
  <1> DEFINE All == EntryInv /\ StoreType /\ WorkInv /\ HandsInv /\ RestInv
  <1>1. Init => All
    <2> SUFFICES ASSUME Init PROVE All
      OBVIOUS
    <2>1. StoreType /\ EntryInv /\ HandsInv
      BY InitEntries, InitHands
    <2>2. StoreTypes /\ WakeTypes
      BY DEF Init, StoreTypes, WakeTypes
    <2>3. RoomTypes
      <3>1. Prefetch \in Nat \ {0}
        BY <2>1, SceneAssumption DEF EntryInv, Prefetch
      <3>2. 0 \in 0..Prefetch
        BY SMTT(30), <3>1
      <3> QED BY <3>2, FiniteFacts DEF Init, RoomTypes
    <2>4. trouble \in 0..MaxTrouble
      BY SMTT(30), BoundAssumption DEF Init
    <2> QED BY <2>1, <2>2, <2>3, <2>4, InitWork DEF Init, RestInv, Dispatching
  <1>2. All /\ [Next]_vars => All'
    <2> SUFFICES ASSUME All, [Next]_vars PROVE All'
      OBVIOUS
    <2>1. EntryInv' /\ StoreType' /\ WorkInv' /\ HandsInv'
      BY NextEntries, NextRows, NextWork, NextHands DEF WorkInv, Rows
    <2>2. RestInv'
      BY NextStoreTypes, NextWakeTypes, NextRoom, NextHeard, NextDisp, NextTrouble
        DEF RestInv, WorkInv
    <2> QED BY <2>1, <2>2
  <1>3. All => TypeOK
    <2> SUFFICES ASSUME All PROVE TypeOK
      OBVIOUS
    <2>1. registry \subseteq [filter : Filters, session : {SessionOf[s] : s \in Subs}, sub : Subs]
      <3> SUFFICES ASSUME NEW s \in Subs
                   PROVE  Entry(s) \in [filter : Filters, session : {SessionOf[t] : t \in Subs}, sub : Subs]
        BY DEF EntryInv
      <3>1. FilterOf[s] \in Filters /\ SessionOf[s] \in {SessionOf[t] : t \in Subs}
        BY DEF Filters
      <3> QED BY SMTT(30), <3>1 DEF Entry
    <2> QED BY <2>1 DEF TypeOK, EntryInv, StoreType, States, WorkInv, WorkType, HandsInv, RestInv,
               StoreTypes, WakeTypes, RoomTypes
  <1> QED BY <1>1, <1>2, <1>3, PTL DEF Spec

=============================================================================
