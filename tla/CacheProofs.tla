----------------------------- MODULE CacheProofs -----------------------------
(***************************************************************************)
(* Machine-checked proofs about Cache, for every set of keys, finite or     *)
(* not, every capacity, every set of times to live and any clock.           *)
(*                                                                          *)
(* Keys may be infinite, but the map is finite at all times (FiniteInv):    *)
(* that gives the cardinalities in GrowthBounded and in Evict a meaning.    *)
(* The refinement of KeyValue needs no more than the types besides: what a  *)
(* client sees of an entry (View) depends on the entry and the clock only,  *)
(* so that a call is looked at key by key.                                  *)
(***************************************************************************)
EXTENDS Cache, FiniteSetTheorems, TLAPS

\* Leaves are left to Zenon, but for those that cite SMT.
USE ZenonT(60)

Maps == [Keys -> Entries \cup {Missing}]

\* The map is finite, and as large as GrowthBounded says.
FiniteInv == IsFiniteSet(Held(map)) /\ GrowthBounded

-----------------------------------------------------------------------------
(* Entries *)

\* expire_at_utc
LEMMA DeadlineType ==
    ASSUME NEW now \in Nat, NEW ttl \in Ttls PROVE Deadline(now, ttl) \in Nat \cup {Never}
  <1>1. ttl \in Int /\ PerSecond \in Nat
    BY TtlAssumption, SizeAssumption
  <1>2. \A t \in Int, p \in Nat : ~(t <= 0) => t * p \in Nat
    BY SMTT(30)
  <1>3. \A n, t \in Nat : n + t \in Nat
    BY SMTT(30)
  <1> QED BY <1>1, <1>2, <1>3 DEF Deadline

\* Overflow does not leave the integers.
LEMMA AddType == ASSUME NEW a \in Numbers, NEW b \in Numbers PROVE Add(a, b) \in Numbers
  <1>1. a \in Int /\ b \in Int /\ Half \in Nat \ {0}
    BY SMTT(30), SizeAssumption DEF Numbers
  <1>2. \A x \in Int, h \in Nat \ {0} : (x % (2 * h)) - h \in (-h)..(h - 1)
    BY SMTT(30)
  <1>3. a + b + Half \in Int
    BY SMTT(30), <1>1
  <1> QED BY <1>1, <1>2, <1>3 DEF Add, Numbers

\* Without overflow it is addition.
LEMMA AddIsExact ==
    ASSUME NEW a \in Numbers, NEW b \in Numbers, a + b \in Numbers PROVE Add(a, b) = a + b
  <1>1. Half \in Nat \ {0} /\ a + b \in (-Half)..(Half - 1) /\ a \in Int /\ b \in Int
    BY SMTT(30), SizeAssumption DEF Numbers
  <1>2. \A h \in Nat \ {0} : \A x \in (-h)..(h - 1) : ((x + h) % (2 * h)) - h = x
    <2>1. \A n \in Nat \ {0} : \A y \in 0..(n - 1) : y % n = y
      BY SMTT(30)
    <2>2. \A h \in Nat \ {0} : \A x \in (-h)..(h - 1) :
             2 * h \in Nat \ {0} /\ x + h \in 0..(2 * h - 1) /\ (x + h) - h = x
      BY SMTT(30)
    <2> QED BY <2>1, <2>2
  <1> QED BY <1>1, <1>2 DEF Add

\* Building and changing entries.
LEMMA EntryType ==
    /\ \A v \in Values, d \in Nat \cup {Never}, t \in Nat :
          [value |-> v, deadline |-> d, last_accessed |-> t] \in Entries
    /\ \A e \in Entries : /\ e.value \in Values /\ e.deadline \in Nat \cup {Never}
                          /\ e.last_accessed \in Nat /\ e # Missing
    /\ \A e \in Entries, t \in Nat : [e EXCEPT !.last_accessed = t] \in Entries
    /\ \A e \in Entries, d \in Nat \cup {Never} : [e EXCEPT !.deadline = d] \in Entries
  <1>1. \A e \in Entries : e # Missing
    BY ValueAssumption
  <1> DEFINE D == Nat \cup {Never}
  <1> HIDE DEF D
  <1>2. \A v \in Values, d \in D, t \in Nat :
           [value |-> v, deadline |-> d, last_accessed |-> t]
             \in [value : Values, deadline : D, last_accessed : Nat]
    OBVIOUS
  <1>3. \A e \in [value : Values, deadline : D, last_accessed : Nat] :
           e.value \in Values /\ e.deadline \in D /\ e.last_accessed \in Nat
    BY SMTT(30)
  <1>4. \A e \in [value : Values, deadline : D, last_accessed : Nat], t \in Nat :
           [e EXCEPT !.last_accessed = t] \in [value : Values, deadline : D, last_accessed : Nat]
    BY SMTT(30)
  <1>5. \A e \in [value : Values, deadline : D, last_accessed : Nat], d \in D :
           [e EXCEPT !.deadline = d] \in [value : Values, deadline : D, last_accessed : Nat]
    BY SMTT(30)
  <1> QED BY <1>1, <1>2, <1>3, <1>4, <1>5 DEF Entries, D

\* Taking entries away.
LEMMA RetainFacts ==
    ASSUME NEW m \in Maps, NEW K
    PROVE  /\ Retain(m, K) \in Maps /\ Held(Retain(m, K)) \subseteq Held(m)
           /\ Held(Retain(m, K)) = Held(m) \cap K
           /\ \A j \in Keys : /\ j \in K => Retain(m, K)[j] = m[j]
                              /\ j \notin K => Retain(m, K)[j] = Missing
  BY DEF Maps, Retain, Held

\* The map after a change of one entry.
LEMMA ChangeOne ==
    ASSUME NEW m \in Maps, NEW k \in Keys, NEW e \in Entries \cup {Missing}
    PROVE  /\ [m EXCEPT ![k] = e] \in Maps /\ [m EXCEPT ![k] = e][k] = e
           /\ \A j \in Keys \ {k} : [m EXCEPT ![k] = e][j] = m[j]
           /\ Held([m EXCEPT ![k] = e]) \subseteq Held(m) \cup {k}
           /\ e = Missing => Held([m EXCEPT ![k] = e]) \subseteq Held(m)
  BY DEF Maps, Held

\* A smaller map is finite.
LEMMA FewerHeld ==
    ASSUME NEW S, NEW T, IsFiniteSet(S), T \subseteq S
    PROVE  IsFiniteSet(T) /\ Cardinality(T) <= Cardinality(S)
           /\ Cardinality(T) \in Nat /\ Cardinality(S) \in Nat
  <1>1. IsFiniteSet(T) /\ Cardinality(T) <= Cardinality(S)
    BY FS_Subset
  <1> QED BY <1>1, FS_CardinalityType

\* A map with one key more is finite.
LEMMA OneMore ==
    ASSUME NEW S, NEW T, NEW k, IsFiniteSet(S), T \subseteq S \cup {k}
    PROVE  IsFiniteSet(T) /\ Cardinality(T) <= Cardinality(S) + 1
           /\ Cardinality(T) \in Nat /\ Cardinality(S) \in Nat
  <1> DEFINE U == S \cup {k}
  <1>1. /\ IsFiniteSet(U)
        /\ Cardinality(U) = IF k \in S THEN Cardinality(S) ELSE Cardinality(S) + 1
    BY FS_AddElement
  <1>2. IsFiniteSet(T) /\ Cardinality(T) <= Cardinality(U) /\ Cardinality(T) \in Nat
    <2> HIDE DEF U
    <2>1. T \subseteq U
      BY DEF U
    <2> QED BY <1>1, <2>1, FewerHeld
  <1>3. Cardinality(S) \in Nat
    BY FS_CardinalityType
  <1> HIDE DEF U
  <1> QED BY SMTT(30), <1>1, <1>2, <1>3

\* The eviction of set: it leaves at most MaxEntries entries, and takes an
\* unexpired one only if MaxEntries unexpired ones stay.
LEMMA EvictFacts ==
    ASSUME NEW m \in Maps, IsFiniteSet(Held(m)), NEW q \in Evict(m)
    PROVE  /\ q \in Maps /\ IsFiniteSet(Held(q)) /\ Cardinality(Held(q)) <= MaxEntries
           /\ \A j \in Keys : q[j] = m[j] \/ q[j] = Missing
           /\ \/ \A j \in Unexpired(m) : q[j] = m[j]
              \/ Held(q) \subseteq Unexpired(m) /\ Cardinality(Held(q)) = MaxEntries
  <1> DEFINE live == Unexpired(m)
             size == IF Cardinality(live) > MaxEntries THEN MaxEntries ELSE Cardinality(live)
  <1>1. CASE Cardinality(Held(m)) <= MaxEntries
    <2>1. q = m
      BY <1>1 DEF Evict
    <2> QED BY <1>1, <2>1
  <1>2. CASE ~(Cardinality(Held(m)) <= MaxEntries)
    <2>1. PICK K \in SUBSET live : Cardinality(K) = size /\ q = Retain(m, K)
      <3>1. q \in {Retain(m, K) : K \in {K \in kSubset(size, live) :
                 \A k \in K, j \in live \ K : m[j].last_accessed <= m[k].last_accessed}}
        BY <1>2 DEF Evict
      <3> HIDE DEF size, live
      <3> QED BY <3>1 DEF kSubset
    <2>2. live \subseteq Held(m)
      BY DEF Unexpired
    <2>3. /\ q \in Maps /\ Held(q) = Held(m) \cap K
          /\ \A j \in Keys : (j \in K => q[j] = m[j]) /\ (j \notin K => q[j] = Missing)
      BY <2>1, RetainFacts
    <2>4. Held(q) = K
      BY <2>1, <2>2, <2>3
    <2>5. IsFiniteSet(live) /\ Cardinality(live) \in Nat
      <3> HIDE DEF live
      <3> QED BY <2>2, FewerHeld
    <2>6. IsFiniteSet(K) /\ Cardinality(K) \in Nat /\ (Cardinality(live) = Cardinality(K) => live = K)
      <3> HIDE DEF live
      <3>1. IsFiniteSet(K) /\ (Cardinality(live) = Cardinality(K) => live = K)
        BY <2>5, FS_Subset
      <3> QED BY <2>1, <2>5, <3>1, FewerHeld
    <2>7. live \subseteq Keys
      BY DEF Unexpired, Held
    <2>8. CASE Cardinality(live) > MaxEntries
      <3>1. Cardinality(K) = MaxEntries /\ K \subseteq live
        BY <2>1, <2>8
      <3>2. MaxEntries <= MaxEntries
        BY SMTT(30), SizeAssumption
      <3> QED BY <2>3, <2>4, <2>6, <3>1, <3>2
    <2>9. CASE ~(Cardinality(live) > MaxEntries)
      <3>1. K = live
        BY <2>1, <2>6, <2>9
      <3>2. \A c, x \in Nat : ~(c > x) => c <= x
        BY SMTT(30)
      <3>3. Cardinality(K) <= MaxEntries
        BY <2>5, <2>9, <3>1, <3>2, SizeAssumption
      <3>4. \A j \in live : q[j] = m[j]
        BY <2>3, <2>7, <3>1
      <3> QED BY <2>3, <2>4, <2>6, <3>3, <3>4
    <2> QED BY <2>8, <2>9
  <1> QED BY <1>1, <1>2

-----------------------------------------------------------------------------
(* Types and size *)

\* The entry that an access leaves of one that has not expired.
LEMMA LiveEntry ==
    ASSUME TypeOK, NEW k \in Unexpired(map)
    PROVE  k \in Keys /\ map[k] \in Entries /\ map[k] # Missing /\ ~is_expired(map[k])
  BY DEF TypeOK, Unexpired, Held

\* The clock and the map, in the form the steps use.
LEMMA MapType == TypeOK => map \in Maps /\ clock \in Nat
  <1>1. \A n \in Nat : 0..n \subseteq Nat
    BY SMTT(30)
  <1> QED BY <1>1, BoundAssumption DEF TypeOK, Maps

\* The new entry of set.
LEMMA NewEntry ==
    ASSUME TypeOK, NEW lag \in 0..MaxLag, lag <= clock,
           NEW v \in Deltas \cup {Text}, NEW ttl \in Ttls
    PROVE  [value |-> v, deadline |-> Deadline(clock - lag, ttl), last_accessed |-> clock - lag]
             \in Entries
  <1>1. clock - lag \in Nat
    <2>1. clock \in Nat /\ lag \in Nat
      BY SMTT(30), MapType, BoundAssumption
    <2>2. \A c, l \in Nat : l <= c => c - l \in Nat
      BY SMTT(30)
    <2> QED BY <2>1, <2>2
  <1>2. v \in Values
    BY ValueAssumption DEF Values
  <1> QED BY <1>1, <1>2, DeadlineType, EntryType

\* The new entry of incr.
LEMMA NewCounter ==
    ASSUME TypeOK, NEW delta \in Deltas, NEW ttl \in Ttls
    PROVE  [value |-> delta, deadline |-> Deadline(clock, ttl), last_accessed |-> clock] \in Entries
  <1>1. clock \in Nat
    BY MapType
  <1>2. delta \in Values
    BY ValueAssumption DEF Values
  <1> QED BY <1>1, <1>2, DeadlineType, EntryType

\* A step that puts one entry in the place of another, or takes entries away.
LEMMA StepTypes ==
    ASSUME TypeOK, FiniteInv, map' \in Maps, clock' \in 0..MaxClock, writes' \in 0..MaxWrites,
           \/ Held(map') \subseteq Held(map) /\ grown' = grown
           \/ Held(map') = {} /\ grown' = 0
           \/ IsFiniteSet(Held(map')) /\ Cardinality(Held(map')) <= MaxEntries /\ grown' = 0
           \/ \E k \in Keys : Held(map') \subseteq Held(map) \cup {k} /\ grown' = grown + 1
    PROVE  TypeOK' /\ FiniteInv'
  <1> DEFINE a == Cardinality(Held(map))
             b == Cardinality(Held(map'))
  <1>1. /\ IsFiniteSet(Held(map)) /\ a <= MaxEntries + grown /\ a \in Nat
        /\ grown \in Nat /\ MaxEntries \in Nat
    BY SizeAssumption, FS_CardinalityType DEF FiniteInv, GrowthBounded, TypeOK
  <1>2. IsFiniteSet(Held(map')) /\ b \in Nat /\ grown' \in Nat /\ b <= MaxEntries + grown'
    <2>1. CASE Held(map') \subseteq Held(map) /\ grown' = grown
      <3>1. IsFiniteSet(Held(map')) /\ b <= a /\ b \in Nat
        BY <1>1, <2>1, FewerHeld
      <3> HIDE DEF a, b
      <3>2. b <= MaxEntries + grown'
        BY SMTT(30), <1>1, <2>1, <3>1
      <3> QED BY <1>1, <2>1, <3>1, <3>2
    <2>2. CASE Held(map') = {} /\ grown' = 0
      <3>1. IsFiniteSet(Held(map')) /\ b = 0
        BY <2>2, FS_EmptySet
      <3> HIDE DEF a, b
      <3>2. b <= MaxEntries + grown' /\ b \in Nat /\ grown' \in Nat
        BY SMTT(30), <1>1, <2>2, <3>1
      <3> QED BY <3>1, <3>2
    <2>3. CASE IsFiniteSet(Held(map')) /\ b <= MaxEntries /\ grown' = 0
      <3>1. b \in Nat
        BY <2>3, FS_CardinalityType
      <3> HIDE DEF a, b
      <3>2. b <= MaxEntries + grown' /\ grown' \in Nat
        BY SMTT(30), <1>1, <2>3, <3>1
      <3> QED BY <2>3, <3>1, <3>2
    <2>4. CASE \E k \in Keys : Held(map') \subseteq Held(map) \cup {k} /\ grown' = grown + 1
      <3>1. PICK k \in Keys : Held(map') \subseteq Held(map) \cup {k} /\ grown' = grown + 1
        BY <2>4
      <3>2. IsFiniteSet(Held(map')) /\ b <= a + 1 /\ b \in Nat
        BY <1>1, <3>1, OneMore
      <3> HIDE DEF a, b
      <3>3. b <= MaxEntries + grown' /\ grown' \in Nat
        BY SMTT(30), <1>1, <3>1, <3>2
      <3> QED BY <3>2, <3>3
    <2> QED BY <2>1, <2>2, <2>3, <2>4
  <1>3. FiniteInv'
    BY <1>2 DEF FiniteInv, GrowthBounded, Held
  <1> QED BY <1>2, <1>3 DEF TypeOK, Maps

\* The counter of the bound.
LEMMA WriteType == TypeOK /\ Write => writes' \in 0..MaxWrites
  BY SMTT(30), BoundAssumption DEF TypeOK, Write

\* set
LEMMA SetTypes ==
    ASSUME TypeOK, FiniteInv, NEW k \in Keys, NEW v \in Deltas \cup {Text}, NEW ttl \in Ttls,
           Set(k, v, ttl)
    PROVE  TypeOK' /\ FiniteInv'
  <1>1. PICK lag \in 0..MaxLag :
           /\ lag <= clock
           /\ map' \in Evict([map EXCEPT ![k] = [value |-> v, deadline |-> Deadline(clock - lag, ttl),
                                                 last_accessed |-> clock - lag]])
    BY DEF Set
  <1> DEFINE e == [value |-> v, deadline |-> Deadline(clock - lag, ttl),
                   last_accessed |-> clock - lag]
             m == [map EXCEPT ![k] = e]
  <1>2. e \in Entries
    BY <1>1, NewEntry
  <1>3. map' \in Evict(m)
    BY <1>1
  <1> HIDE DEF e
  <1>4. m \in Maps /\ Held(m) \subseteq Held(map) \cup {k}
    BY <1>2, ChangeOne, MapType
  <1> HIDE DEF m
  <1>5. IsFiniteSet(Held(m))
    BY <1>4, OneMore DEF FiniteInv
  <1>6. map' \in Maps /\ IsFiniteSet(Held(map')) /\ Cardinality(Held(map')) <= MaxEntries
    BY <1>3, <1>4, <1>5, EvictFacts
  <1>7. writes' \in 0..MaxWrites /\ grown' = 0 /\ clock' \in 0..MaxClock
    BY WriteType DEF Set, TypeOK
  <1> QED BY <1>6, <1>7, StepTypes

\* incr
LEMMA IncrTypes ==
    ASSUME TypeOK, FiniteInv, NEW k \in Keys, NEW delta \in Deltas, NEW ttl \in Ttls,
           Incr(k, delta, ttl)
    PROVE  TypeOK' /\ FiniteInv'
  <1>1. writes' \in 0..MaxWrites /\ clock' \in 0..MaxClock
    BY WriteType DEF Incr, TypeOK
  <1>2. map \in Maps /\ clock \in Nat
    BY MapType
  <1>3. CASE k \notin Unexpired(map)
    <2> DEFINE e == [value |-> delta, deadline |-> Deadline(clock, ttl), last_accessed |-> clock]
    <2>1. map' = [map EXCEPT ![k] = e] /\ grown' = grown + 1
      BY <1>3 DEF Incr
    <2>2. e \in Entries
      BY NewCounter
    <2> HIDE DEF e
    <2>3. map' \in Maps /\ Held(map') \subseteq Held(map) \cup {k}
      BY <1>2, <2>1, <2>2, ChangeOne
    <2> QED BY <1>1, <2>1, <2>3, StepTypes
  <1>4. CASE k \in Unexpired(map) /\ map[k].value # Text
    <2> DEFINE e == [value |-> Add(map[k].value, delta), deadline |-> map[k].deadline,
                     last_accessed |-> clock]
    <2>1. map' = [map EXCEPT ![k] = e] /\ grown' = grown
      BY <1>2, <1>4 DEF Incr, Maps
    <2>2. e \in Entries
      <3>1. map[k] \in Entries
        BY <1>4, LiveEntry
      <3>2. map[k].value \in Numbers
        BY <1>4, <3>1, EntryType DEF Values
      <3>3. Add(map[k].value, delta) \in Values
        BY <3>2, AddType, ValueAssumption DEF Values
      <3> QED BY <1>2, <3>1, <3>3, EntryType
    <2> HIDE DEF e
    <2>3. map' \in Maps /\ Held(map') \subseteq Held(map) \cup {k}
      BY <1>2, <2>1, <2>2, ChangeOne
    <2>4. k \in Held(map)
      BY <1>4 DEF Unexpired
    <2>5. Held(map') \subseteq Held(map)
      BY <2>3, <2>4
    <2> QED BY <1>1, <2>1, <2>3, <2>5, StepTypes
  <1>5. CASE k \in Unexpired(map) /\ map[k].value = Text
    <2>1. map' = map /\ grown' = grown
      BY <1>5 DEF Incr
    <2> QED BY <1>1, <1>2, <2>1, StepTypes
  <1> QED BY <1>3, <1>4, <1>5

\* What get, ttl and expire do with an expired entry.
LEMMA CleanedFacts ==
    ASSUME TypeOK, NEW k \in Keys
    PROVE  /\ Cleaned(k) \in Maps /\ Held(Cleaned(k)) \subseteq Held(map)
           /\ \A j \in Keys \ {k} : Cleaned(k)[j] = map[j]
           /\ k \in Unexpired(map) => Cleaned(k)[k] = map[k]
           /\ k \notin Unexpired(map) => Cleaned(k)[k] = Missing
  <1>1. map \in Maps
    BY MapType
  <1>2. CASE k \in Unexpired(map)
    BY <1>1, <1>2 DEF Cleaned
  <1>3. CASE k \notin Unexpired(map)
    <2>1. Cleaned(k) = [map EXCEPT ![k] = Missing]
      BY <1>3 DEF Cleaned
    <2>2. /\ [map EXCEPT ![k] = Missing] \in Maps /\ [map EXCEPT ![k] = Missing][k] = Missing
          /\ \A j \in Keys \ {k} : [map EXCEPT ![k] = Missing][j] = map[j]
          /\ Held([map EXCEPT ![k] = Missing]) \subseteq Held(map)
      BY <1>1 DEF Maps, Held
    <2> QED BY <1>3, <2>1, <2>2
  <1> QED BY <1>2, <1>3

\* The other calls.
LEMMA OtherTypes ==
    ASSUME TypeOK, FiniteInv, NEW k \in Keys,
           \/ \E ttl \in Ttls : Expire(k, ttl)
           \/ Delete(k) \/ Get(k) \/ Ttl(k)
    PROVE  TypeOK' /\ FiniteInv'
  <1>1. map \in Maps /\ clock \in Nat /\ clock \in 0..MaxClock /\ writes \in 0..MaxWrites
    BY MapType DEF TypeOK
  <1>2. ASSUME NEW ttl \in Ttls, Expire(k, ttl) PROVE TypeOK' /\ FiniteInv'
    <2>1. writes' \in 0..MaxWrites /\ clock' \in 0..MaxClock /\ grown' = grown
      BY <1>2, WriteType DEF Expire, Replies, TypeOK
    <2>2. CASE k \in Unexpired(map)
      <3> DEFINE e == [map[k] EXCEPT !.deadline = Deadline(clock, ttl)]
      <3>1. map' = [map EXCEPT ![k] = e]
        BY SMTT(30), <1>1, <1>2, <2>2 DEF Expire, Maps
      <3>2. e \in Entries
        BY <1>1, <2>2, LiveEntry, EntryType, DeadlineType
      <3> HIDE DEF e
      <3>3. map' \in Maps /\ Held(map') \subseteq Held(map) \cup {k} /\ k \in Held(map)
        BY <1>1, <2>2, <3>1, <3>2, ChangeOne DEF Unexpired
      <3>4. Held(map') \subseteq Held(map)
        BY <3>3
      <3> QED BY <2>1, <3>3, <3>4, StepTypes
    <2>3. CASE k \notin Unexpired(map)
      <3>1. map' = Cleaned(k)
        BY <1>2, <2>3 DEF Expire
      <3> QED BY <2>1, <3>1, CleanedFacts, StepTypes
    <2> QED BY <2>2, <2>3
  <1>3. CASE Delete(k)
    <2>1. map' = [map EXCEPT ![k] = Missing] /\ UNCHANGED <<clock, grown, writes>>
      BY <1>3 DEF Delete, Replies
    <2>2. map' \in Maps /\ Held(map') \subseteq Held(map)
      BY <1>1, <2>1, ChangeOne
    <2> QED BY <1>1, <2>1, <2>2, StepTypes
  <1>4. CASE Get(k)
    <2>1. UNCHANGED <<clock, grown, writes>>
      BY <1>4 DEF Get
    <2>2. CASE k \in Unexpired(map)
      <3> DEFINE e == [map[k] EXCEPT !.last_accessed = clock]
      <3>1. map' = [map EXCEPT ![k] = e]
        BY SMTT(30), <1>1, <1>4, <2>2 DEF Get, Maps
      <3>2. e \in Entries
        BY <1>1, <2>2, LiveEntry, EntryType
      <3> HIDE DEF e
      <3>3. map' \in Maps /\ Held(map') \subseteq Held(map) \cup {k} /\ k \in Held(map)
        BY <1>1, <2>2, <3>1, <3>2, ChangeOne DEF Unexpired
      <3>4. Held(map') \subseteq Held(map)
        BY <3>3
      <3> QED BY <1>1, <2>1, <3>3, <3>4, StepTypes
    <2>3. CASE k \notin Unexpired(map)
      <3>1. map' = Cleaned(k)
        BY <1>4, <2>3 DEF Get
      <3> QED BY <1>1, <2>1, <3>1, CleanedFacts, StepTypes
    <2> QED BY <2>2, <2>3
  <1>5. CASE Ttl(k)
    <2>1. map' = Cleaned(k) /\ UNCHANGED <<clock, grown, writes>>
      BY <1>5 DEF Ttl, Replies
    <2> QED BY <1>1, <2>1, CleanedFacts, StepTypes
  <1> QED BY <1>2, <1>3, <1>4, <1>5

\* What happens without a key.
LEMMA SweepTypes ==
    ASSUME TypeOK, FiniteInv, List \/ PurgeExpired \/ Tick \/ Restart
    PROVE  TypeOK' /\ FiniteInv'
  <1>1. map \in Maps /\ clock \in Nat /\ clock \in 0..MaxClock /\ writes \in 0..MaxWrites
    BY MapType DEF TypeOK
  <1>2. CASE List \/ PurgeExpired
    <2>1. map' = Retain(map, Unexpired(map)) /\ UNCHANGED <<clock, grown, writes>>
      BY <1>2 DEF List, PurgeExpired, Replies
    <2>2. map' \in Maps /\ Held(map') \subseteq Held(map)
      BY <1>1, <2>1, RetainFacts
    <2> QED BY <1>1, <2>1, <2>2, StepTypes
  <1>3. CASE Tick
    <2>1. map' = map /\ UNCHANGED <<grown, writes>> /\ clock' \in 0..MaxClock
      BY SMTT(30), <1>1, <1>3, BoundAssumption DEF Tick
    <2> QED BY <1>1, <2>1, StepTypes
  <1>4. CASE Restart
    <2>1. map' = [j \in Keys |-> Missing] /\ grown' = 0 /\ UNCHANGED <<clock, writes>>
      BY <1>4 DEF Restart
    <2>2. map' \in Maps /\ Held(map') = {}
      BY <2>1 DEF Maps, Held
    <2> QED BY <1>1, <2>1, <2>2, StepTypes
  <1> QED BY <1>2, <1>3, <1>4

-----------------------------------------------------------------------------
(* What clients see *)

\* Of an entry, at a time.
View(e, now) ==
    IF e # Missing /\ (e.deadline = Never \/ e.deadline > now)
    THEN [value |-> e.value, deadline |-> e.deadline] ELSE Missing

\* The refinement mapping, key by key.
LEMMA VisibleIs ==
    /\ Visible = [k \in Keys |-> View(map[k], clock)]
    /\ Visible' = [k \in Keys |-> View(map'[k], clock')]
  BY DEF Visible, View

\* An entry is seen until its deadline.
LEMMA ViewFacts ==
    ASSUME NEW e \in Entries, NEW now
    PROVE  /\ View(Missing, now) = Missing
           /\ (e.deadline = Never \/ e.deadline > now) =>
                /\ View(e, now) = [value |-> e.value, deadline |-> e.deadline]
                /\ View(e, now).value = e.value /\ View(e, now).deadline = e.deadline
                /\ View(e, now) # Missing
           /\ ~(e.deadline = Never \/ e.deadline > now) => View(e, now) = Missing
  <1>1. e # Missing /\ e.value \in Values /\ e.deadline \in Nat \cup {Never}
    BY EntryType
  <1>2. [value |-> e.value, deadline |-> e.deadline] \in Views
    BY <1>1 DEF Views
  <1>3. [value |-> e.value, deadline |-> e.deadline] # Missing
    BY <1>2, ValueAssumption
  <1> QED BY <1>1, <1>3 DEF View

\* is_expired, the other way round.
LEMMA ExpiredOrNot ==
    ASSUME NEW e \in Entries, clock \in Nat
    PROVE  ~is_expired(e) <=> e.deadline = Never \/ e.deadline > clock
  <1>1. e.deadline \in Nat \cup {Never}
    BY EntryType
  <1>2. \A d, c \in Nat : ~(d <= c) <=> d > c
    BY SMTT(30)
  <1> QED BY <1>1, <1>2 DEF is_expired

SeenFacts ==
    /\ \A k \in Keys : k \in Unexpired(map) <=>
          map[k] # Missing /\ (map[k].deadline = Never \/ map[k].deadline > clock)
    /\ \A k \in Keys : k \notin Unexpired(map) => Visible[k] = Missing
    /\ \A k \in Unexpired(map) :
          /\ Visible[k] = [value |-> map[k].value, deadline |-> map[k].deadline]
          /\ Visible[k].value = map[k].value /\ Visible[k].deadline = map[k].deadline
          /\ Visible[k] # Missing
    /\ KV!Held(Visible) = Unexpired(map)

\* The unexpired entries are what is seen.
LEMMA Seen == TypeOK => SeenFacts
  <1> SUFFICES ASSUME TypeOK PROVE SeenFacts
    OBVIOUS
  <1>1. map \in Maps /\ clock \in Nat
    BY MapType
  <1>2. ASSUME NEW k \in Keys, k \notin Unexpired(map) PROVE Visible[k] = Missing
    <2>1. Visible[k] = View(map[k], clock)
      BY VisibleIs
    <2>2. CASE map[k] = Missing
      BY <2>1, <2>2 DEF View
    <2>3. CASE map[k] # Missing
      <3>1. map[k] \in Entries /\ is_expired(map[k])
        BY <1>1, <1>2, <2>3 DEF Maps, Unexpired, Held
      <3> QED BY <1>1, <2>1, <3>1, ExpiredOrNot, ViewFacts
    <2> QED BY <2>2, <2>3
  <1>3. ASSUME NEW k \in Unexpired(map)
        PROVE  /\ Visible[k] = [value |-> map[k].value, deadline |-> map[k].deadline]
               /\ Visible[k].value = map[k].value /\ Visible[k].deadline = map[k].deadline
               /\ Visible[k] # Missing
    <2>1. k \in Keys /\ map[k] \in Entries /\ ~is_expired(map[k])
      BY LiveEntry
    <2>2. Visible[k] = View(map[k], clock)
      BY <2>1, VisibleIs
    <2>3. map[k].deadline = Never \/ map[k].deadline > clock
      BY <1>1, <2>1, ExpiredOrNot
    <2> QED BY <2>1, <2>2, <2>3, ViewFacts
  <1>4. KV!Held(Visible) = Unexpired(map)
    BY <1>2, <1>3 DEF KV!Held, Unexpired, Held
  <1>5. ASSUME NEW k \in Keys
        PROVE  k \in Unexpired(map) <=>
                  map[k] # Missing /\ (map[k].deadline = Never \/ map[k].deadline > clock)
    <2>1. map[k] # Missing => map[k] \in Entries
      BY <1>1 DEF Maps
    <2> QED BY <1>1, <2>1, ExpiredOrNot DEF Unexpired, Held
  <1> QED BY <1>2, <1>3, <1>4, <1>5 DEF SeenFacts

\* The same after a step.
LEMMA SeenNext == TypeOK' => SeenFacts'
  BY Seen, PTL

\* What a step leaves alone looks the same.
LEMMA Same ==
    ASSUME clock' = clock, NEW K, \A j \in Keys \ K : map'[j] = map[j]
    PROVE  \A j \in Keys \ K : Visible'[j] = Visible[j]
  BY VisibleIs

\* A step that changes no view changes nothing for clients.
LEMMA AllSame ==
    ASSUME \A j \in Keys : Visible'[j] = Visible[j] PROVE Visible' = Visible
  BY DEF Visible

\* A new deadline is at most the longest time to live ahead.
LEMMA DeadlineAhead ==
    ASSUME clock \in Nat, NEW now \in Nat, now <= clock, NEW ttl \in Ttls,
           NEW d, d = Deadline(now, ttl), d = Never \/ d > clock
    PROVE  d \in {Never} \cup (clock + 1)..(clock + PerSecond * Max(Ttls))
  <1> DEFINE longest == Max(Ttls)
  <1>1. longest \in Ttls /\ \A t \in Ttls : longest >= t
    <2>1. \E x \in Ttls : \A t \in Ttls : x >= t
      <3>1. \A x, y \in Int : x <= y => y >= x
        BY SMTT(30)
      <3> QED BY <3>1, TtlAssumption
    <2> QED BY <2>1 DEF Max
  <1> HIDE DEF longest
  <1>2. ttl \in Int /\ longest \in Int /\ ttl <= longest /\ PerSecond \in Nat \ {0}
    BY SMTT(30), <1>1, TtlAssumption, SizeAssumption
  <1>3. CASE d = Never
    BY <1>3
  <1>4. CASE d # Never
    <2>1. d = now + ttl * PerSecond /\ d > clock
      BY <1>4 DEF Deadline
    <2>2. ttl * PerSecond \in Int /\ PerSecond * longest \in Int /\ ttl * PerSecond <= PerSecond * longest
      <3>1. \A t, m \in Int, p \in Nat : t <= m => t * p <= p * m /\ t * p \in Int /\ p * m \in Int
        BY SMTT(30)
      <3> QED BY <1>2, <3>1
    <2>3. d \in (clock + 1)..(clock + PerSecond * longest)
      <3>1. \A x, y \in Int : x <= y /\ now + x > clock => now + x \in (clock + 1)..(clock + y)
        BY SMTT(30)
      <3> QED BY <2>1, <2>2, <3>1
    <2> QED BY <2>3 DEF longest
  <1> QED BY <1>3, <1>4

\* Without a lag it is still to come.
LEMMA DeadlineToCome ==
    ASSUME clock \in Nat, NEW ttl \in Ttls
    PROVE  Deadline(clock, ttl) = Never \/ Deadline(clock, ttl) > clock
  <1>1. ttl \in Int /\ PerSecond \in Nat \ {0}
    BY TtlAssumption, SizeAssumption
  <1>2. \A t \in Int, p \in Nat \ {0} : ~(t <= 0) => t * p \in Nat \ {0}
    BY SMTT(30)
  <1>3. \A x \in Nat \ {0} : clock + x > clock
    BY SMTT(30)
  <1> QED BY <1>1, <1>2, <1>3 DEF Deadline

\* The entries of KeyValue.
LEMMA AbstractEntry ==
    ASSUME NEW v \in Values,
           NEW d \in {Never} \cup (clock + 1)..(clock + PerSecond * Max(Ttls))
    PROVE  [value |-> v, deadline |-> d] \in KV!Entries
  BY DEF KV!Entries

\* KeyValue counts as Cache does.
LEMMA SameCount == \A S : KV!Cardinality(S) = Cardinality(S)
  BY DEF KV!Cardinality, Cardinality, KV!IsFiniteSet, IsFiniteSet

-----------------------------------------------------------------------------
(* Every step is one of KeyValue, or none for clients *)

\* set
LEMMA SetImplements ==
    ASSUME TypeOK, FiniteInv, TypeOK',
           NEW k \in Keys, NEW v \in Deltas \cup {Text}, NEW ttl \in Ttls, Set(k, v, ttl)
    PROVE  KV!Set(k)
  <1>0. map \in Maps /\ clock \in Nat /\ clock' = clock /\ answer' = <<"done">>
    BY MapType DEF Set
  <1>1. PICK lag \in 0..MaxLag :
           /\ lag <= clock
           /\ map' \in Evict([map EXCEPT ![k] = [value |-> v, deadline |-> Deadline(clock - lag, ttl),
                                                 last_accessed |-> clock - lag]])
    BY DEF Set
  <1> DEFINE d == Deadline(clock - lag, ttl)
             e == [value |-> v, deadline |-> d, last_accessed |-> clock - lag]
             m == [map EXCEPT ![k] = e]
  <1>2. e \in Entries /\ e.value = v /\ e.deadline = d /\ v \in Values
    BY <1>1, NewEntry, EntryType
  <1>3. map' \in Evict(m)
    BY <1>1
  <1>4. clock - lag \in Nat /\ clock - lag <= clock
    <2>1. lag \in Nat
      BY SMTT(30), BoundAssumption
    <2>2. \A c, l \in Nat : l <= c => c - l \in Nat /\ c - l <= c
      BY SMTT(30)
    <2> QED BY <1>0, <1>1, <2>1, <2>2
  <1> HIDE DEF e
  <1>5. /\ m \in Maps /\ Held(m) \subseteq Held(map) \cup {k} /\ m[k] = e
        /\ \A j \in Keys \ {k} : m[j] = map[j]
    <2>1. m \in Maps /\ Held(m) \subseteq Held(map) \cup {k}
      BY <1>0, <1>2, ChangeOne
    <2> QED BY <1>0, <2>1 DEF Maps
  <1> HIDE DEF m
  <1>6. IsFiniteSet(Held(m))
    BY <1>5, OneMore DEF FiniteInv
  <1>7. /\ IsFiniteSet(Held(map')) /\ Cardinality(Held(map')) <= MaxEntries
        /\ \A j \in Keys : map'[j] = m[j] \/ map'[j] = Missing
        /\ \/ \A j \in Unexpired(m) : map'[j] = m[j]
           \/ Held(map') \subseteq Unexpired(m) /\ Cardinality(Held(map')) = MaxEntries
    BY <1>3, <1>5, <1>6, EvictFacts
  <1>8. SeenFacts /\ SeenFacts'
    BY Seen, SeenNext
  <1>9. Visible'[k] \in KV!Entries \cup {Missing}
    <2>1. CASE k \notin Unexpired(map)'
      BY <1>8, <2>1 DEF SeenFacts
    <2>2. CASE k \in Unexpired(map)'
      <3>1. map'[k] # Missing /\ (map'[k].deadline = Never \/ map'[k].deadline > clock)
        BY <1>0, <1>8, <2>2 DEF SeenFacts
      <3>2. map'[k] = e
        BY <1>5, <1>7, <3>1
      <3>3. Visible'[k] = [value |-> v, deadline |-> d]
        BY <1>2, <1>8, <2>2, <3>2 DEF SeenFacts
      <3>4. d = Never \/ d > clock
        BY <1>2, <3>1, <3>2
      <3> HIDE DEF d
      <3>5. d \in {Never} \cup (clock + 1)..(clock + PerSecond * Max(Ttls))
        BY <1>0, <1>4, <3>4, DeadlineAhead DEF d
      <3> QED BY <1>2, <3>3, <3>5, AbstractEntry
    <2> QED BY <2>1, <2>2
  <1>10. ASSUME NEW j \in Keys \ {k} PROVE Visible'[j] \in {Visible[j], Missing}
    <2>1. map'[j] = map[j] \/ map'[j] = Missing
      BY <1>5, <1>7
    <2>2. Visible'[j] = View(map'[j], clock) /\ Visible[j] = View(map[j], clock)
      BY <1>0, VisibleIs
    <2>3. View(Missing, clock) = Missing
      BY DEF View
    <2> QED BY <2>1, <2>2, <2>3
  <1>11. Unexpired(map)' \subseteq Held(map')
    BY DEF Unexpired, Held
  <1>12. Cardinality(Unexpired(map)') <= MaxEntries
    <2> DEFINE a == Cardinality(Unexpired(map)')
               b == Cardinality(Held(map'))
    <2>1. a <= b /\ a \in Nat /\ b \in Nat
      BY <1>7, <1>11, FewerHeld
    <2>2. b <= MaxEntries /\ MaxEntries \in Nat
      BY <1>7, SizeAssumption
    <2> HIDE DEF a, b
    <2>3. a <= MaxEntries
      BY SMTT(30), <2>1, <2>2
    <2> QED BY <2>3 DEF a
  <1>13. KV!Cardinality(KV!Held(Visible')) = Cardinality(Unexpired(map)')
    <2>1. KV!Held(Visible') = Unexpired(map)'
      BY <1>8 DEF SeenFacts, KV!Held
    <2> QED BY <2>1, SameCount
  <1>14. CASE \A j \in Unexpired(m) : map'[j] = m[j]
    <2>1. ASSUME NEW j \in Keys \ {k} PROVE Visible'[j] = Visible[j]
      <3>1. CASE j \in Unexpired(map)
        <4>1. j \in Unexpired(m)
          BY <1>5, <3>1 DEF Unexpired, Held
        <4>2. map'[j] = map[j]
          BY <1>5, <1>14, <4>1
        <4> QED BY <1>0, <4>2, VisibleIs
      <3>2. CASE j \notin Unexpired(map)
        <4>1. Visible[j] = Missing
          BY <1>8, <3>2 DEF SeenFacts
        <4> QED BY <1>10, <4>1
      <3> QED BY <3>1, <3>2
    <2> QED BY <1>0, <1>9, <1>10, <1>12, <1>13, <2>1 DEF KV!Set
  <1>15. CASE Held(map') \subseteq Unexpired(m) /\ Cardinality(Held(map')) = MaxEntries
    <2>1. ASSUME NEW j \in Held(map') PROVE j \in Unexpired(map)'
      <3>1. j \in Keys /\ map'[j] = m[j] /\ j \in Unexpired(m) /\ map'[j] # Missing
        BY <1>7, <1>15, <2>1 DEF Held
      <3>2. ~is_expired(m[j])
        BY <3>1 DEF Unexpired
      <3> QED BY <1>0, <3>1, <3>2 DEF Unexpired, Held, is_expired
    <2>2. Unexpired(map)' = Held(map')
      BY <1>11, <2>1
    <2>3. Cardinality(Unexpired(map)') = MaxEntries
      BY <1>15, <2>2
    <2> QED BY <1>0, <1>9, <1>10, <1>12, <1>13, <2>3 DEF KV!Set
  <1> QED BY <1>7, <1>14, <1>15

\* incr
LEMMA IncrImplements ==
    ASSUME TypeOK, TypeOK',
           NEW k \in Keys, NEW delta \in Deltas, NEW ttl \in Ttls, Incr(k, delta, ttl)
    PROVE  KV!Incr(k)
  <1>0. map \in Maps /\ clock \in Nat /\ clock' = clock
    BY MapType DEF Incr
  <1>1. SeenFacts /\ SeenFacts'
    BY Seen, SeenNext
  <1>2. delta \in Numbers /\ delta \in Values
    BY ValueAssumption DEF Values
  <1>3. CASE k \notin Unexpired(map)
    <2> DEFINE d == Deadline(clock, ttl)
               e == [value |-> delta, deadline |-> d, last_accessed |-> clock]
    <2>1. map' = [map EXCEPT ![k] = e] /\ answer' = <<"sum", delta, delta>>
      BY <1>3 DEF Incr
    <2>2. e \in Entries /\ e.value = delta /\ e.deadline = d /\ e # Missing
      BY NewCounter, EntryType
    <2>3. d = Never \/ d > clock
      BY <1>0, DeadlineToCome
    <2>4. clock <= clock
      BY SMTT(30), <1>0
    <2> HIDE DEF e, d
    <2>5. map'[k] = e /\ \A j \in Keys \ {k} : map'[j] = map[j]
      BY <1>0, <2>1 DEF Maps
    <2>6. k \in Unexpired(map)'
      BY <1>0, <1>1, <2>2, <2>3, <2>5 DEF SeenFacts
    <2>7. Visible'[k] = [value |-> delta, deadline |-> d] /\ Visible'[k].value = delta
      BY <1>1, <2>2, <2>5, <2>6 DEF SeenFacts
    <2>8. d \in {Never} \cup (clock + 1)..(clock + PerSecond * Max(Ttls))
      BY <1>0, <2>3, <2>4, DeadlineAhead DEF d
    <2>9. Visible'[k] \in KV!Entries
      BY <1>2, <2>7, <2>8, AbstractEntry
    <2>10. Visible[k] = Missing
      BY <1>1, <1>3 DEF SeenFacts
    <2>11. \A j \in Keys \ {k} : Visible'[j] = Visible[j]
      BY <1>0, <2>5, Same
    <2> QED BY <1>0, <1>2, <2>1, <2>7, <2>9, <2>10, <2>11 DEF KV!Incr
  <1>4. CASE k \in Unexpired(map) /\ map[k].value # Text
    <2> DEFINE x == Add(map[k].value, delta)
               e == [value |-> x, deadline |-> map[k].deadline, last_accessed |-> clock]
    <2>1. map' = [map EXCEPT ![k] = e] /\ answer' = <<"sum", delta, map'[k].value>>
      BY <1>0, <1>4 DEF Incr, Maps
    <2>2. map[k].value \in Numbers /\ map[k] \in Entries
      BY <1>4, LiveEntry, EntryType DEF Values
    <2>3. x \in Values /\ x \in Numbers
      BY <1>2, <2>2, AddType DEF Values
    <2>4. e \in Entries /\ e.value = x /\ e.deadline = map[k].deadline /\ e # Missing
      BY <1>0, <2>2, <2>3, EntryType
    <2> HIDE DEF e
    <2>5. map'[k] = e /\ \A j \in Keys \ {k} : map'[j] = map[j]
      BY <1>0, <2>1 DEF Maps
    <2>6. k \in Unexpired(map)'
      BY <1>0, <1>1, <1>4, <2>4, <2>5 DEF SeenFacts
    <2>7. /\ Visible'[k] = [value |-> x, deadline |-> map[k].deadline]
          /\ Visible'[k].value = x
      BY <1>1, <2>4, <2>5, <2>6 DEF SeenFacts
    <2>8. /\ Visible[k] = [value |-> map[k].value, deadline |-> map[k].deadline]
          /\ Visible[k].value = map[k].value /\ Visible[k] # Missing
      BY <1>1, <1>4 DEF SeenFacts
    <2>9. Visible'[k] = [Visible[k] EXCEPT !.value = x]
      <3> HIDE DEF x
      <3> QED BY SMTT(30), <2>7, <2>8
    <2>10. \A j \in Keys \ {k} : Visible'[j] = Visible[j]
      BY <1>0, <2>5, Same
    <2>11. answer' = <<"sum", delta, Visible'[k].value>>
      BY <2>1, <2>4, <2>5, <2>7
    <2>12. Visible[k].value + delta \in Numbers => Visible'[k].value = Visible[k].value + delta
      BY <1>2, <2>2, <2>7, <2>8, AddIsExact
    <2> HIDE DEF x
    <2>13. Visible'[k] \in {[Visible[k] EXCEPT !.value = sum] : sum \in Numbers}
      BY <2>3, <2>9
    <2> QED BY <1>0, <1>2, <2>2, <2>8, <2>10, <2>11, <2>12, <2>13 DEF KV!Incr
  <1>5. CASE k \in Unexpired(map) /\ map[k].value = Text
    <2>1. map' = map /\ answer' = <<"error">>
      BY <1>5 DEF Incr
    <2>2. Visible[k] # Missing /\ Visible[k].value = Text
      BY <1>1, <1>5 DEF SeenFacts
    <2>3. \A j \in Keys : Visible'[j] = Visible[j]
      BY <1>0, <2>1, VisibleIs
    <2>4. Text \notin Numbers
      BY ValueAssumption
    <2> QED BY <1>0, <2>1, <2>2, <2>3, <2>4 DEF KV!Incr
  <1> QED BY <1>3, <1>4, <1>5

\* get, expire and ttl remove only what is not seen.
LEMMA CleanedSame ==
    ASSUME TypeOK, TypeOK', NEW k \in Keys, map' = Cleaned(k), clock' = clock
    PROVE  Visible' = Visible
  <1>1. SeenFacts /\ SeenFacts'
    BY Seen, SeenNext
  <1>2. \A j \in Keys \ {k} : Visible'[j] = Visible[j]
    BY CleanedFacts, Same
  <1>3. Visible'[k] = Visible[k]
    <2>1. CASE k \in Unexpired(map)
      BY <2>1, CleanedFacts, VisibleIs
    <2>2. CASE k \notin Unexpired(map)
      <3>1. map'[k] = Missing /\ Visible[k] = Missing
        BY <1>1, <2>2, CleanedFacts DEF SeenFacts
      <3>2. Visible'[k] = Missing
        BY <1>1, <3>1 DEF SeenFacts
      <3> QED BY <3>1, <3>2
    <2> QED BY <2>1, <2>2
  <1> QED BY <1>2, <1>3, AllSame

\* expire
LEMMA ExpireImplements ==
    ASSUME TypeOK, TypeOK', NEW k \in Keys, NEW ttl \in Ttls, Expire(k, ttl)
    PROVE  KV!Expire(k)
  <1>0. /\ map \in Maps /\ clock \in Nat /\ clock' = clock
        /\ answer' = <<"found", k \in Unexpired(map)>>
    BY MapType DEF Expire, Replies
  <1>1. SeenFacts /\ SeenFacts'
    BY Seen, SeenNext
  <1>2. CASE k \in Unexpired(map)
    <2> DEFINE d == Deadline(clock, ttl)
               e == [map[k] EXCEPT !.deadline = d]
    <2>1. map' = [map EXCEPT ![k] = e]
      BY SMTT(30), <1>0, <1>2 DEF Expire, Maps
    <2>2. map[k] \in Entries /\ map[k].value \in Values
      BY <1>2, LiveEntry, EntryType
    <2>3. e \in Entries /\ e # Missing
      BY <1>0, <2>2, EntryType, DeadlineType
    <2>4. e.value = map[k].value /\ e.deadline = d
      <3> HIDE DEF d
      <3> QED BY SMTT(30), <2>2 DEF Entries
    <2>5. d = Never \/ d > clock
      BY <1>0, DeadlineToCome
    <2>6. clock <= clock
      BY SMTT(30), <1>0
    <2> HIDE DEF e, d
    <2>7. map'[k] = e /\ \A j \in Keys \ {k} : map'[j] = map[j]
      BY <1>0, <2>1 DEF Maps
    <2>8. k \in Unexpired(map)'
      BY <1>0, <1>1, <2>3, <2>4, <2>5, <2>7 DEF SeenFacts
    <2>9. /\ Visible'[k] = [value |-> map[k].value, deadline |-> d]
          /\ Visible'[k].value = map[k].value
      BY <1>1, <2>4, <2>7, <2>8 DEF SeenFacts
    <2>10. Visible[k] # Missing /\ Visible[k].value = map[k].value
      BY <1>1, <1>2 DEF SeenFacts
    <2>11. d \in {Never} \cup (clock + 1)..(clock + PerSecond * Max(Ttls))
      BY <1>0, <2>5, <2>6, DeadlineAhead DEF d
    <2>12. Visible'[k] \in {x \in KV!Entries : x.value = Visible[k].value}
      BY <2>2, <2>9, <2>10, <2>11, AbstractEntry
    <2>13. \A j \in Keys \ {k} : Visible'[j] = Visible[j]
      BY <1>0, <2>7, Same
    <2>14. answer' = <<"found", Visible[k] # Missing>>
      BY <1>0, <1>2, <2>10
    <2> QED BY <1>0, <2>10, <2>12, <2>13, <2>14 DEF KV!Expire
  <1>3. CASE k \notin Unexpired(map)
    <2>1. map' = Cleaned(k)
      BY <1>3 DEF Expire
    <2>2. Visible' = Visible
      BY <1>0, <2>1, CleanedSame
    <2>3. Visible[k] = Missing
      BY <1>1, <1>3 DEF SeenFacts
    <2>4. (k \in Unexpired(map)) = (Visible[k] # Missing)
      BY SMTT(30), <1>3, <2>3
    <2>5. answer' = <<"found", Visible[k] # Missing>>
      BY <1>0, <2>4
    <2> QED BY <1>0, <2>2, <2>3, <2>5 DEF KV!Expire
  <1> QED BY <1>2, <1>3

\* get
LEMMA GetImplements ==
    ASSUME TypeOK, TypeOK', NEW k \in Keys, Get(k) PROVE KV!Get(k)
  <1>0. map \in Maps /\ clock \in Nat /\ clock' = clock
    BY MapType DEF Get
  <1>1. SeenFacts /\ SeenFacts'
    BY Seen, SeenNext
  <1>2. CASE k \in Unexpired(map)
    <2> DEFINE e == [map[k] EXCEPT !.last_accessed = clock]
    <2>1. map' = [map EXCEPT ![k] = e] /\ answer' = <<"value", map[k].value>>
      BY SMTT(30), <1>0, <1>2 DEF Get, Maps
    <2>2. map[k] \in Entries
      BY <1>2, LiveEntry
    <2>3. e \in Entries /\ e # Missing
      BY <1>0, <2>2, EntryType
    <2>4. e.value = map[k].value /\ e.deadline = map[k].deadline
      BY SMTT(30), <2>2 DEF Entries
    <2> HIDE DEF e
    <2>5. map'[k] = e /\ \A j \in Keys \ {k} : map'[j] = map[j]
      BY <1>0, <2>1 DEF Maps
    <2>6. k \in Unexpired(map)'
      BY <1>0, <1>1, <1>2, <2>3, <2>4, <2>5 DEF SeenFacts
    <2>7. Visible'[k] = Visible[k]
      BY <1>1, <1>2, <2>4, <2>5, <2>6 DEF SeenFacts
    <2>8. \A j \in Keys \ {k} : Visible'[j] = Visible[j]
      BY <1>0, <2>5, Same
    <2>9. Visible' = Visible
      BY <2>7, <2>8, AllSame
    <2>10. Visible[k] # Missing /\ Visible[k].value = map[k].value
      BY <1>1, <1>2 DEF SeenFacts
    <2> QED BY <1>0, <2>1, <2>9, <2>10 DEF KV!Get
  <1>3. CASE k \notin Unexpired(map)
    <2>1. map' = Cleaned(k) /\ answer' = <<"none">>
      BY <1>3 DEF Get
    <2>2. Visible' = Visible
      BY <1>0, <2>1, CleanedSame
    <2>3. Visible[k] = Missing
      BY <1>1, <1>3 DEF SeenFacts
    <2> QED BY <1>0, <2>1, <2>2, <2>3 DEF KV!Get
  <1> QED BY <1>2, <1>3

\* delete
LEMMA DeleteImplements ==
    ASSUME TypeOK, TypeOK', NEW k \in Keys, Delete(k) PROVE KV!Delete(k)
  <1>0. map \in Maps /\ clock' = clock /\ map' = [map EXCEPT ![k] = Missing]
        /\ answer' = <<"found", map[k] # Missing>>
    BY MapType DEF Delete, Replies
  <1>1. SeenFacts /\ SeenFacts'
    BY Seen, SeenNext
  <1>2. map'[k] = Missing /\ \A j \in Keys \ {k} : map'[j] = map[j]
    BY <1>0 DEF Maps
  <1>3. Visible'[k] = Missing /\ \A j \in Keys \ {k} : Visible'[j] = Visible[j]
    <2>1. k \notin Unexpired(map)'
      BY <1>1, <1>2 DEF SeenFacts
    <2>2. Visible'[k] = Missing
      BY <1>1, <2>1 DEF SeenFacts
    <2> QED BY <1>0, <1>2, <2>2, Same
  <1>4. Visible' = [Visible EXCEPT ![k] = Missing]
    <2>1. /\ Visible = [j \in Keys |-> View(map[j], clock)]
          /\ Visible' = [j \in Keys |-> View(map'[j], clock')]
      BY VisibleIs
    <2> DEFINE f == Visible
               g == Visible'
    <2>2. DOMAIN f = Keys /\ DOMAIN g = Keys /\ f = [j \in Keys |-> f[j]] /\ g = [j \in Keys |-> g[j]]
      BY <2>1
    <2>3. g[k] = Missing /\ \A j \in Keys \ {k} : g[j] = f[j]
      BY <1>3
    <2> HIDE DEF f, g
    <2>4. g = [f EXCEPT ![k] = Missing]
      BY <2>2, <2>3
    <2> QED BY <2>4 DEF f, g
  <1>5. answer' \in {<<"found", b>> : b \in IF Visible[k] = Missing THEN BOOLEAN ELSE {TRUE}}
    <2>1. CASE Visible[k] = Missing
      <3>1. (map[k] # Missing) \in BOOLEAN
        OBVIOUS
      <3> QED BY <1>0, <2>1, <3>1
    <2>2. CASE Visible[k] # Missing
      <3>1. k \in Unexpired(map)
        BY <1>1, <2>2 DEF SeenFacts
      <3>2. (map[k] # Missing) = TRUE
        BY <3>1, LiveEntry
      <3>3. answer' = <<"found", TRUE>>
        BY <1>0, <3>2
      <3> QED BY <2>2, <3>3
    <2> QED BY <2>1, <2>2
  <1> QED BY <1>0, <1>4, <1>5 DEF KV!Delete

\* ttl
LEMMA TtlImplements ==
    ASSUME TypeOK, TypeOK', NEW k \in Keys, Ttl(k) PROVE KV!Ttl(k)
  <1>0. /\ clock' = clock /\ map' = Cleaned(k)
        /\ answer' = <<"ttl", IF k \notin Unexpired(map) THEN -2
                             ELSE IF map[k].deadline = Never THEN -1
                             ELSE (map[k].deadline - clock) \div PerSecond>>
    BY DEF Ttl, Replies
  <1>1. SeenFacts
    BY Seen
  <1>2. Visible' = Visible
    BY <1>0, CleanedSame
  <1>3. CASE k \in Unexpired(map)
    <2>1. Visible[k] # Missing /\ Visible[k].deadline = map[k].deadline
      BY <1>1, <1>3 DEF SeenFacts
    <2> QED BY <1>0, <1>2, <1>3, <2>1 DEF KV!Ttl
  <1>4. CASE k \notin Unexpired(map)
    <2>1. Visible[k] = Missing
      BY <1>1, <1>4 DEF SeenFacts
    <2> QED BY <1>0, <1>2, <1>4, <2>1 DEF KV!Ttl
  <1> QED BY <1>3, <1>4

\* entries and purge_expired remove what is not seen.
LEMMA SweepSame ==
    ASSUME TypeOK, TypeOK', map' = Retain(map, Unexpired(map)), clock' = clock
    PROVE  Visible' = Visible
  <1>1. SeenFacts /\ SeenFacts' /\ map \in Maps
    BY Seen, SeenNext, MapType
  <1>2. ASSUME NEW j \in Keys PROVE Visible'[j] = Visible[j]
    <2>1. CASE j \in Unexpired(map)
      <3>1. map'[j] = map[j]
        BY <2>1 DEF Retain
      <3> QED BY <3>1, VisibleIs
    <2>2. CASE j \notin Unexpired(map)
      <3>1. map'[j] = Missing /\ Visible[j] = Missing
        BY <1>1, <2>2 DEF Retain, SeenFacts
      <3>2. Visible'[j] = Missing
        BY <1>1, <3>1 DEF SeenFacts
      <3> QED BY <3>1, <3>2
    <2> QED BY <2>1, <2>2
  <1> QED BY <1>2, AllSame

\* The clock: what ends is not seen any more, and nothing else changes.
LEMMA TickImplements ==
    ASSUME TypeOK, TypeOK', Tick PROVE KV!Tick
  <1>0. map \in Maps /\ clock \in Nat /\ map' = map /\ clock' = clock + 1 /\ answer' = answer
    BY MapType DEF Tick
  <1>1. SeenFacts /\ SeenFacts'
    BY Seen, SeenNext
  <1>2. \A d \in Nat : d > clock + 1 => d > clock
    BY SMTT(30), <1>0
  <1>3. ASSUME NEW j \in Keys
        PROVE  Visible'[j] = IF KV!Alive(Visible[j], clock') THEN Visible[j] ELSE Missing
    <2>1. CASE j \notin Unexpired(map)
      <3>1. j \notin Unexpired(map)'
        <4>1. map[j] # Missing => map[j].deadline \in Nat \cup {Never}
          BY <1>0, EntryType DEF Maps
        <4> QED BY <1>0, <1>1, <1>2, <2>1, <4>1 DEF SeenFacts
      <3>2. Visible[j] = Missing /\ Visible'[j] = Missing
        BY <1>1, <2>1, <3>1 DEF SeenFacts
      <3> QED BY <3>2
    <2>2. CASE j \in Unexpired(map)
      <3>1. /\ Visible[j] = [value |-> map[j].value, deadline |-> map[j].deadline]
            /\ Visible[j].deadline = map[j].deadline /\ Visible[j] # Missing /\ map[j] # Missing
        BY <1>1, <2>2, LiveEntry DEF SeenFacts
      <3>2. KV!Alive(Visible[j], clock') <=> map[j].deadline = Never \/ map[j].deadline > clock'
        BY <3>1 DEF KV!Alive
      <3>3. j \in Unexpired(map)' <=> map[j].deadline = Never \/ map[j].deadline > clock'
        BY <1>0, <1>1, <3>1 DEF SeenFacts
      <3>4. CASE j \in Unexpired(map)'
        <4>1. Visible'[j] = [value |-> map[j].value, deadline |-> map[j].deadline]
          BY <1>0, <1>1, <3>4 DEF SeenFacts
        <4> QED BY <3>1, <3>2, <3>3, <3>4, <4>1
      <3>5. CASE j \notin Unexpired(map)'
        <4>1. Visible'[j] = Missing
          BY <1>1, <3>5 DEF SeenFacts
        <4> QED BY <3>2, <3>3, <3>5, <4>1
      <3> QED BY <3>4, <3>5
    <2> QED BY <2>1, <2>2
  <1>4. Visible' = [j \in Keys |-> IF KV!Alive(Visible[j], clock') THEN Visible[j] ELSE Missing]
    <2>1. Visible' = [j \in Keys |-> Visible'[j]]
      BY VisibleIs
    <2> QED BY <1>3, <2>1
  <1> QED BY <1>0, <1>4 DEF KV!Tick, KV!AliveAt

\* What happens without a call.
LEMMA OtherImplements ==
    ASSUME TypeOK, TypeOK', List \/ PurgeExpired \/ Tick \/ Restart
    PROVE  KV!Next \/ UNCHANGED KV!state
  <1>1. CASE List
    <2>1. /\ map' = Retain(map, Unexpired(map)) /\ clock' = clock
          /\ answer' = <<"keys", Unexpired(map)>>
      BY <1>1 DEF List, Replies
    <2>2. Visible' = Visible
      BY <2>1, SweepSame
    <2>3. KV!Held(Visible) = Unexpired(map)
      BY Seen DEF SeenFacts
    <2>4. KV!List
      BY <2>1, <2>2, <2>3 DEF KV!List
    <2> QED BY <2>4 DEF KV!Next
  <1>2. CASE PurgeExpired
    <2>1. map' = Retain(map, Unexpired(map)) /\ clock' = clock /\ answer' = answer
      BY <1>2 DEF PurgeExpired
    <2>2. Visible' = Visible
      BY <2>1, SweepSame
    <2> QED BY <2>1, <2>2 DEF KV!state
  <1>3. CASE Tick
    BY <1>3, TickImplements DEF KV!Next
  <1>4. CASE Restart
    <2>1. map' = [j \in Keys |-> Missing] /\ UNCHANGED <<clock, answer>>
      BY <1>4 DEF Restart
    <2>2. \A j \in Keys : View(map'[j], clock') = Missing
      BY <2>1 DEF View
    <2>3. Visible' = [j \in Keys |-> Missing]
      BY <2>2, VisibleIs
    <2>4. KV!Lose
      BY <2>1, <2>3 DEF KV!Lose
    <2> QED BY <2>4 DEF KV!Next
  <1> QED BY <1>1, <1>2, <1>3, <1>4

-----------------------------------------------------------------------------
(* The theorems *)

\* The cache starts empty.
LEMMA InitTypes == Init => TypeOK /\ FiniteInv
  <1> SUFFICES ASSUME Init PROVE TypeOK /\ FiniteInv
    OBVIOUS
  <1>1. clock = 0 /\ map = [k \in Keys |-> Missing] /\ grown = 0 /\ writes = 0
    BY DEF Init
  <1>2. Held(map) = {}
    BY <1>1 DEF Held
  <1>3. IsFiniteSet(Held(map)) /\ Cardinality(Held(map)) = 0
    BY <1>2, FS_EmptySet
  <1>4. 0 <= MaxEntries + 0 /\ 0 \in 0..MaxClock /\ 0 \in 0..MaxWrites /\ 0 \in Nat
    BY SMTT(30), SizeAssumption, BoundAssumption
  <1> QED BY <1>1, <1>3, <1>4 DEF TypeOK, FiniteInv, GrowthBounded

\* Every step keeps the types and the size.
LEMMA NextTypes == TypeOK /\ FiniteInv /\ [Next]_vars => TypeOK' /\ FiniteInv'
  <1> SUFFICES ASSUME TypeOK, FiniteInv, [Next]_vars PROVE TypeOK' /\ FiniteInv'
    OBVIOUS
  <1>1. ASSUME NEW k \in Keys, Service(k) PROVE TypeOK' /\ FiniteInv'
    BY <1>1, SetTypes, IncrTypes, OtherTypes DEF Service, Writes, Reads
  <1>2. CASE List \/ PurgeExpired \/ Tick \/ Restart
    BY <1>2, SweepTypes
  <1>3. CASE UNCHANGED vars
    BY <1>3 DEF vars, TypeOK, FiniteInv, GrowthBounded, Held
  <1> QED BY <1>1, <1>2, <1>3 DEF Next

\* What the theorems need of every state.
LEMMA Invariant == Spec => [](TypeOK /\ FiniteInv)
  BY InitTypes, NextTypes, PTL DEF Spec

\* An entry of the cache is always a value of the width the code keeps, with a
\* deadline or none and a stamp (CacheStore, cache.rs), however calls and the
\* clock interleave, whatever the keys, the capacity and the times to live.
THEOREM CacheTypeCorrect == Spec => []TypeOK
  BY Invariant, PTL

\* However incr, which evicts nothing, and set, which does, interleave with
\* expiry and restarts: the cache is larger than max_entries by at most the
\* number of counters that incr created since the last set (cache.rs).
THEOREM CacheGrowthBounded == Spec => []GrowthBounded
  <1>1. FiniteInv => GrowthBounded
    BY DEF FiniteInv
  <1> QED BY <1>1, Invariant, PTL

\* The map with expired entries, lazy removal and eviction implements what
\* KeyValue promises clients of the cache, for every set of keys, capacity,
\* times to live and lag of a set behind the clock.
THEOREM CacheImplementsKeyValue == Spec => ImplementsKeyValue
  <1>1. Init => KV!Init
    <2> SUFFICES ASSUME Init PROVE KV!Init
      OBVIOUS
    <2>1. map = [k \in Keys |-> Missing] /\ clock = 0 /\ answer = <<"none">>
      BY DEF Init
    <2>2. \A k \in Keys : View(map[k], clock) = Missing
      BY <2>1 DEF View
    <2>3. Visible = [k \in Keys |-> Missing]
      BY <2>2, VisibleIs
    <2> QED BY <2>1, <2>3 DEF KV!Init
  <1>2. ASSUME TypeOK, FiniteInv, TypeOK', [Next]_vars PROVE [KV!Next]_KV!state
    <2>1. ASSUME NEW k \in Keys, Service(k) PROVE KV!Next
      <3>1. ASSUME NEW ttl \in Ttls, NEW v \in Deltas \cup {Text}, Set(k, v, ttl) PROVE KV!Next
        BY <1>2, <3>1, SetImplements DEF KV!Next
      <3>2. ASSUME NEW ttl \in Ttls, NEW delta \in Deltas, Incr(k, delta, ttl) PROVE KV!Next
        BY <1>2, <3>2, IncrImplements DEF KV!Next
      <3>3. ASSUME NEW ttl \in Ttls, Expire(k, ttl) PROVE KV!Next
        BY <1>2, <3>3, ExpireImplements DEF KV!Next
      <3>4. CASE Get(k)
        BY <1>2, <3>4, GetImplements DEF KV!Next
      <3>5. CASE Delete(k)
        BY <1>2, <3>5, DeleteImplements DEF KV!Next
      <3>6. CASE Ttl(k)
        BY <1>2, <3>6, TtlImplements DEF KV!Next
      <3> QED BY <2>1, <3>1, <3>2, <3>3, <3>4, <3>5, <3>6 DEF Service, Writes, Reads
    <2>2. CASE List \/ PurgeExpired \/ Tick \/ Restart
      BY <1>2, <2>2, OtherImplements
    <2>3. CASE UNCHANGED vars
      BY <2>3 DEF vars, KV!state, Visible
    <2> QED BY <1>2, <2>1, <2>2, <2>3 DEF Next
  <1> QED BY <1>1, <1>2, Invariant, PTL DEF Spec, ImplementsKeyValue, KV!Spec

=============================================================================
