------------------------------- MODULE Cache -------------------------------
(***************************************************************************)
(* The cache in memory (CacheStore in src/src/cache.rs, with its gRPC and   *)
(* HTTP handlers): a map behind a mutex.  Expired entries stay in the map   *)
(* until somebody finds them, and a set that makes the map too large evicts *)
(* the expired and then the least recently used entries.                    *)
(*                                                                          *)
(* A call is one step, because the mutex is held all the time; but set      *)
(* reads the clock before it has the mutex.                                 *)
(***************************************************************************)
EXTENDS Integers, FiniteSets, FiniteSetsExt

CONSTANTS
    Keys, Never, Missing,
    Text,        \* a value that is not a number
    Half,        \* half of the range of an integer, 2^63
    Deltas,      \* what incr may add
    Ttls,        \* ttl_seconds of set, incr and expire; <= 0 means no expiry
    MaxEntries,
    PerSecond,   \* ticks of the clock in a second
    MaxLag,      \* bound: how long a set waits for the mutex
    MaxClock,    \* bound: the clock stops here
    MaxWrites    \* bound: number of sets, increments and new deadlines

ASSUME SizeAssumption ==
    MaxEntries \in Nat \ {0} /\ PerSecond \in Nat \ {0} /\ Half \in Nat \ {0}
ASSUME BoundAssumption == MaxLag \in Nat /\ MaxClock \in Nat /\ MaxWrites \in Nat

VARIABLES
    clock,
    map,      \* the entries, expired ones included
    answer,   \* the last answer given; that of incr with what it added
    grown,    \* counters created by incr since the last set
    writes

vars == <<clock, map, answer, grown, writes>>

Numbers == (-Half)..(Half - 1)
Values == Numbers \cup {Text}
Entries == [value : Values, deadline : Nat \cup {Never}, last_accessed : Nat]
Views == [value : Values, deadline : Nat \cup {Never}]

\* The times to live are integers of some width, so that there is a longest one.
ASSUME TtlAssumption == Ttls \subseteq Int /\ \E longest \in Ttls : \A t \in Ttls : t <= longest
ASSUME ValueAssumption ==
    /\ Deltas \subseteq Numbers /\ Text \notin Numbers /\ Never \notin Nat
    /\ Missing \notin Entries /\ Missing \notin Views

TypeOK ==
    /\ clock \in 0..MaxClock
    /\ map \in [Keys -> Entries \cup {Missing}]
    /\ grown \in Nat /\ writes \in 0..MaxWrites

Init ==
    /\ clock = 0
    /\ map = [k \in Keys |-> Missing]
    /\ answer = <<"none">>
    /\ grown = 0 /\ writes = 0

-----------------------------------------------------------------------------
(* Entries *)

\* expire_at_utc
Deadline(now, ttl) == IF ttl <= 0 THEN Never ELSE now + ttl * PerSecond

is_expired(e) == e.deadline # Never /\ e.deadline <= clock

Held(m) == {k \in Keys : m[k] # Missing}
Retain(m, K) == [k \in Keys |-> IF k \in K THEN m[k] ELSE Missing]
Unexpired(m) == {k \in Held(m) : ~is_expired(m[k])}

\* Faulty variant: a sum that does not keep to the width.
AddWide(a, b) == a + b

\* i64 addition, as a release build does it.
Add(a, b) == ((a + b + Half) % (2 * Half)) - Half

Write == writes < MaxWrites /\ writes' = writes + 1

Replies(kind, what) == answer' = <<kind, what>> /\ UNCHANGED clock

-----------------------------------------------------------------------------
(* Writing *)

\* Faulty variant: a single entry is evicted.
EvictOne(m) ==
    IF Cardinality(Held(m)) <= MaxEntries THEN {m}
    ELSE {Retain(m, Unexpired(m) \ {old}) : old \in
             {k \in Unexpired(m) : \A j \in Unexpired(m) :
                 m[k].last_accessed <= m[j].last_accessed}}

\* What is left when set has made the map too large: the unexpired entries,
\* without the least recently used ones.  Equal stamps go in any order.
Evict(m) ==
    LET live == Unexpired(m)
        size == IF Cardinality(live) > MaxEntries THEN MaxEntries ELSE Cardinality(live)
    IN  IF Cardinality(Held(m)) <= MaxEntries THEN {m}
        ELSE {Retain(m, K) : K \in {K \in kSubset(size, live) :
                 \A k \in K, j \in live \ K : m[j].last_accessed <= m[k].last_accessed}}

Set(k, v, ttl) ==
    /\ Write
    /\ \E lag \in 0..MaxLag :
          /\ lag <= clock
          /\ map' \in Evict([map EXCEPT ![k] = [value |-> v, deadline |-> Deadline(clock - lag, ttl),
                                                last_accessed |-> clock - lag]])
    /\ answer' = <<"done">> /\ grown' = 0
    /\ UNCHANGED clock

\* Faulty variant: it answers the number that was there before.
IncrBefore(k, delta, ttl) ==
    /\ Write
    /\ \/ /\ k \notin Unexpired(map)
          /\ map' = [map EXCEPT ![k] = [value |-> delta, deadline |-> Deadline(clock, ttl),
                                        last_accessed |-> clock]]
          /\ grown' = grown + 1
          /\ answer' = <<"sum", delta, delta>>
       \/ /\ k \in Unexpired(map) /\ map[k].value # Text
          /\ map' = [map EXCEPT ![k] = [value |-> Add(@.value, delta), deadline |-> @.deadline,
                                        last_accessed |-> clock]]
          /\ answer' = <<"sum", delta, map[k].value>> /\ UNCHANGED grown
       \/ /\ k \in Unexpired(map) /\ map[k].value = Text
          /\ answer' = <<"error">>
          /\ UNCHANGED <<map, grown>>
    /\ UNCHANGED clock

Incr(k, delta, ttl) ==
    /\ Write
    /\ \/ /\ k \notin Unexpired(map)
          /\ map' = [map EXCEPT ![k] = [value |-> delta, deadline |-> Deadline(clock, ttl),
                                        last_accessed |-> clock]]
          /\ grown' = grown + 1
          /\ answer' = <<"sum", delta, delta>>
       \/ /\ k \in Unexpired(map) /\ map[k].value # Text
          /\ map' = [map EXCEPT ![k] = [value |-> Add(@.value, delta), deadline |-> @.deadline,
                                        last_accessed |-> clock]]
          /\ answer' = <<"sum", delta, map'[k].value>> /\ UNCHANGED grown
       \/ /\ k \in Unexpired(map) /\ map[k].value = Text
          /\ answer' = <<"error">>
          /\ UNCHANGED <<map, grown>>
    /\ UNCHANGED clock

\* get, expire and ttl remove an expired entry that they come across.
Cleaned(k) == IF k \in Unexpired(map) THEN map ELSE [map EXCEPT ![k] = Missing]

Expire(k, ttl) ==
    /\ Write
    /\ map' = IF k \in Unexpired(map) THEN [map EXCEPT ![k].deadline = Deadline(clock, ttl)]
              ELSE Cleaned(k)
    /\ Replies("found", k \in Unexpired(map)) /\ UNCHANGED grown

-----------------------------------------------------------------------------
(* Reading and deleting *)

Get(k) ==
    /\ IF k \in Unexpired(map)
       THEN /\ map' = [map EXCEPT ![k].last_accessed = clock]
            /\ answer' = <<"value", map[k].value>>
       ELSE map' = Cleaned(k) /\ answer' = <<"none">>
    /\ UNCHANGED <<clock, grown, writes>>

\* It does not look at the deadline.
Delete(k) ==
    /\ map' = [map EXCEPT ![k] = Missing]
    /\ Replies("found", map[k] # Missing)
    /\ UNCHANGED <<grown, writes>>

\* Redis-style; num_seconds rounds down.
Ttl(k) ==
    /\ map' = Cleaned(k)
    /\ Replies("ttl", IF k \notin Unexpired(map) THEN -2
                      ELSE IF map[k].deadline = Never THEN -1
                      ELSE (map[k].deadline - clock) \div PerSecond)
    /\ UNCHANGED <<grown, writes>>

\* entries
List ==
    /\ map' = Retain(map, Unexpired(map))
    /\ Replies("keys", Unexpired(map))
    /\ UNCHANGED <<grown, writes>>

\* purge_expired, in the retention loop
PurgeExpired ==
    /\ map' = Retain(map, Unexpired(map))
    /\ UNCHANGED <<clock, answer, grown, writes>>

Tick ==
    /\ clock < MaxClock
    /\ clock' = clock + 1
    /\ UNCHANGED <<map, answer, grown, writes>>

\* The broker starts again: the cache is empty.
Restart ==
    /\ map' = [k \in Keys |-> Missing]
    /\ grown' = 0
    /\ UNCHANGED <<clock, answer, writes>>

-----------------------------------------------------------------------------
\* The calls that change an entry.
Writes(k) ==
    \/ \E ttl \in Ttls :
          \/ \E v \in Deltas \cup {Text} : Set(k, v, ttl)
          \/ \E delta \in Deltas : Incr(k, delta, ttl)
          \/ Expire(k, ttl)
    \/ Delete(k)

\* The calls that only look at one; the HTTP get makes both, one after the other.
Reads(k) == Get(k) \/ Ttl(k)

\* The service refuses empty keys and passes the rest on.
Service(k) == Writes(k) \/ Reads(k)

Next ==
    \/ \E k \in Keys : Service(k)
    \/ List \/ PurgeExpired \/ Tick \/ Restart

Spec == Init /\ [][Next]_vars

-----------------------------------------------------------------------------
(* Properties *)

\* What a client can see: the entries whose deadline has not come.
Visible == [k \in Keys |-> IF map[k] # Missing
                              /\ (map[k].deadline = Never \/ map[k].deadline > clock)
                           THEN [value |-> map[k].value, deadline |-> map[k].deadline]
                           ELSE Missing]

KV == INSTANCE KeyValue WITH kv <- Visible, MaxTtl <- PerSecond * Max(Ttls)

\* The cache keeps the promises of KeyValue: clients cannot tell that expired
\* entries stay around, are found by get, ttl, expire, incr or a sweep, or are
\* evicted first; an entry ends at its deadline, to the tick; an unexpired one
\* is lost only to a set that finds the cache full of unexpired ones, and no
\* more of them than necessary; an increment answers the sum of the number that
\* was seen and of what it adds, unless that is out of range, stores what it
\* answers and keeps the deadline.
ImplementsKeyValue == KV!Spec

\* The README says (README.md:330-331): "Its size is bounded by
\* `CL_BROKER_CACHE_MAX_ENTRIES` (default 100000); when full, the least recently
\* used entries are evicted", and cache.rs:8 "An LRU cap bounds memory growth".
\* But incr inserts and evicts nothing.
SizeBounded == Cardinality(Held(map)) <= MaxEntries

\* What does bound the cache: it is larger than max_entries (SizeBounded) by no
\* more counters than incr has created since the last set, which evicts as many
\* entries as there are too many, not one.
GrowthBounded ==
    Cardinality(Held(map)) <= MaxEntries + grown

=============================================================================
