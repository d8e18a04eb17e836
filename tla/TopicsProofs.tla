----------------------------- MODULE TopicsProofs -----------------------------
(* Theorems about Topics, for any finite number of callers and any topics.    *)
(* That no change is counted twice or lost is an equation between the rows,   *)
(* the deltas not yet taken and the deltas that callers have taken but not    *)
(* yet written; the last is a sum over the callers, so the lemmas about sums  *)
(* come first.                                                                *)
EXTENDS Topics, FiniteSetTheorems, WellFoundedInduction, TLAPS

\* Leaves are left to Zenon, but for those that cite SMT.
USE ZenonT(60)

-----------------------------------------------------------------------------
(* Sums *)

\* A set of natural numbers has a least element.
LEMMA LeastNumber ==
    ASSUME NEW T \in SUBSET Nat, T # {} PROVE \E x \in T : \A y \in T : x <= y
  <1>1. PICK x \in T : \A y \in T : ~ (<<y, x>> \in OpToRel(<, Nat))
    BY NatLessThanWellFounded, WFMin
  <1>2. \A y \in T : ~(y < x)
    BY <1>1 DEF OpToRel
  <1> QED BY SMTT(30), <1>2

\* An element of s, the one that SumFunction adds first.
First(s) == CHOOSE x \in s : TRUE

\* The sum over s, h being the sums over smaller sets.
SumStep(f, h, s) == IF s = {} THEN 0 ELSE f[First(s)] + h[s \ {First(s)}]

\* h has the sums over the subsets of S.
Sums(h, f, S) == h = [s \in SUBSET S |-> SumStep(f, h, s)]

\* Taking an element out.
LEMMA Smaller ==
    ASSUME NEW S, IsFiniteSet(S), NEW s \in SUBSET S, s # {}
    PROVE  /\ First(s) \in s /\ s \ {First(s)} \in SUBSET S
           /\ Cardinality(s) \in Nat /\ Cardinality(s \ {First(s)}) = Cardinality(s) - 1
           /\ Cardinality(s) - 1 \in Nat
  <1>1. First(s) \in s
    BY DEF First
  <1>2. IsFiniteSet(s)
    BY FS_Subset
  <1>3. Cardinality(s \ {First(s)}) = Cardinality(s) - 1 /\ IsFiniteSet(s \ {First(s)})
    BY <1>1, <1>2, FS_RemoveElement
  <1>4. Cardinality(s) \in Nat /\ Cardinality(s \ {First(s)}) \in Nat
    BY <1>2, <1>3, FS_CardinalityType
  <1> QED BY <1>1, <1>3, <1>4

\* Sums that are right up to a size, and then up to the size of S.
LEMMA SumsExist ==
    ASSUME NEW S, IsFiniteSet(S), NEW f PROVE \E h : Sums(h, f, S)
  <1> DEFINE Good(h, n) == /\ DOMAIN h = SUBSET S /\ h = [s \in SUBSET S |-> h[s]]
                           /\ \A s \in SUBSET S : Cardinality(s) <= n => h[s] = SumStep(f, h, s)
             Bad == {n \in Nat : \A h : ~Good(h, n)}
  <1>0. \A s \in SUBSET S : IsFiniteSet(s) /\ Cardinality(s) \in Nat /\ Cardinality(s) <= Cardinality(S)
    BY FS_Subset, FS_CardinalityType
  <1>1. Good([s \in SUBSET S |-> 0], 0)
    <2> SUFFICES ASSUME NEW s \in SUBSET S, Cardinality(s) <= 0
                 PROVE  0 = SumStep(f, [t \in SUBSET S |-> 0], s)
      OBVIOUS
    <2>1. Cardinality(s) = 0
      BY SMTT(30), <1>0
    <2>2. s = {}
      BY <1>0, <2>1, FS_EmptySet
    <2> QED BY <2>2 DEF SumStep
  <1>2. ASSUME NEW n \in Nat, NEW h, Good(h, n) PROVE \E g : Good(g, n + 1)
    <2> DEFINE g == [s \in SUBSET S |-> IF Cardinality(s) <= n THEN h[s] ELSE SumStep(f, h, s)]
    <2>1. ASSUME NEW s \in SUBSET S, Cardinality(s) <= n + 1 PROVE g[s] = SumStep(f, g, s)
      <3>1. SumStep(f, g, s) = SumStep(f, h, s)
        <4>1. CASE s = {}
          BY <4>1 DEF SumStep
        <4>2. CASE s # {}
          <5>1. Cardinality(s \ {First(s)}) <= n /\ s \ {First(s)} \in SUBSET S
            <6>1. \A i \in Nat : i <= n + 1 => i - 1 <= n
              BY SMTT(30)
            <6> QED BY <2>1, <4>2, <6>1, Smaller
          <5>2. g[s \ {First(s)}] = h[s \ {First(s)}]
            BY <5>1
          <5> QED BY <4>2, <5>2 DEF SumStep
        <4> QED BY <4>1, <4>2
      <3> QED BY <1>2, <3>1
    <2>2. Good(g, n + 1)
      <3>1. DOMAIN g = SUBSET S /\ g = [s \in SUBSET S |-> g[s]]
        OBVIOUS
      <3> HIDE DEF g
      <3> QED BY <2>1, <3>1
    <2> QED BY <2>2
  <1>3. Bad = {}
    <2> SUFFICES ASSUME Bad # {} PROVE FALSE
      OBVIOUS
    <2>1. PICK n \in Bad : \A m \in Bad : n <= m
      <3>1. Bad \in SUBSET Nat
        OBVIOUS
      <3> HIDE DEF Bad
      <3> QED BY <3>1, LeastNumber
    <2>2. n \in Nat /\ n # 0
      BY <1>1
    <2>3. n - 1 \in Nat /\ (n - 1) + 1 = n /\ ~(n <= n - 1)
      BY SMTT(30), <2>2
    <2>4. PICK h : Good(h, n - 1)
      BY <2>1, <2>3
    <2>5. \E g : Good(g, n)
      <3> HIDE DEF Good
      <3> QED BY <1>2, <2>3, <2>4
    <2> QED BY <2>5
  <1>4. PICK h : Good(h, Cardinality(S))
    BY <1>0, <1>3
  <1>5. \A s \in SUBSET S : h[s] = SumStep(f, h, s)
    BY <1>0, <1>4
  <1>6. h = [s \in SUBSET S |-> SumStep(f, h, s)]
    BY <1>4, <1>5
  <1> QED BY <1>6 DEF Sums

\* SumFunction is the last of the sums.
LEMMA SumOfFunction ==
    ASSUME NEW S, IsFiniteSet(S), NEW f, DOMAIN f = S
    PROVE  \E h : Sums(h, f, S) /\ SumFunction(f) = h[S]
  <1> DEFINE h == CHOOSE h : Sums(h, f, S)
  <1>1. Sums(h, f, S)
    BY SumsExist
  <1>2. SumFunction(f) = h[S]
    BY DEF SumFunction, SumFunctionOnSet, FoldFunctionOnSet, MapThenFoldSet, Sums, SumStep, First
  <1> QED BY <1>1, <1>2

\* Induction over the subsets of a finite set.
LEMMA SubsetInduction ==
    ASSUME NEW S, IsFiniteSet(S), NEW G,
           \A s \in SUBSET S : (s # {} => s \ {First(s)} \in G) => s \in G
    PROVE  S \in G
  <1> DEFINE Bad == {n \in Nat : \E s \in SUBSET S : Cardinality(s) = n /\ s \notin G}
  <1>1. Bad = {}
    <2> SUFFICES ASSUME Bad # {} PROVE FALSE
      OBVIOUS
    <2>1. PICK n \in Bad : \A m \in Bad : n <= m
      <3>1. Bad \in SUBSET Nat
        OBVIOUS
      <3> HIDE DEF Bad
      <3> QED BY <3>1, LeastNumber
    <2>2. PICK s \in SUBSET S : Cardinality(s) = n /\ s \notin G
      OBVIOUS
    <2>3. s # {} /\ s \ {First(s)} \notin G
      BY <2>2
    <2>4. n - 1 \in Bad
      BY <2>2, <2>3, Smaller
    <2>5. ~(n <= n - 1)
      BY SMTT(30)
    <2> QED BY <2>1, <2>4, <2>5
  <1> QED BY <1>1, FS_CardinalityType

\* When one value changes, the sum changes by as much.
LEMMA SumChange ==
    ASSUME NEW S, IsFiniteSet(S), NEW f \in [S -> Int], NEW g \in [S -> Int], NEW c \in S,
           \A x \in S : x # c => g[x] = f[x]
    PROVE  SumFunction(f) \in Int /\ SumFunction(g) = SumFunction(f) + (g[c] - f[c])
  <1>1. PICK h : Sums(h, f, S) /\ SumFunction(f) = h[S]
    BY SumOfFunction
  <1>2. PICK j : Sums(j, g, S) /\ SumFunction(g) = j[S]
    BY SumOfFunction
  <1> DEFINE Right(s) == h[s] \in Int /\ j[s] = h[s] + (IF c \in s THEN g[c] - f[c] ELSE 0)
  <1>3. \A s \in SUBSET S : h[s] = SumStep(f, h, s) /\ j[s] = SumStep(g, j, s)
    BY <1>1, <1>2 DEF Sums
  <1>4. ASSUME NEW s \in SUBSET S, s # {} => Right(s \ {First(s)}) PROVE Right(s)
    <2>1. CASE s = {}
      <3>1. h[s] = 0 /\ j[s] = 0 /\ c \notin s
        BY <1>3, <2>1 DEF SumStep
      <3> QED BY SMTT(30), <3>1
    <2>2. CASE s # {}
      <3> DEFINE x == First(s)
                 r == s \ {x}
      <3>1. h[s] = f[x] + h[r] /\ j[s] = g[x] + j[r]
        BY <1>3, <2>2 DEF SumStep
      <3>2. x \in s /\ x \in S
        BY <2>2, Smaller
      <3>3. CASE x = c
        <4>1. h[r] \in Int /\ j[r] = h[r] + 0 /\ c \in s
          BY <1>4, <2>2, <3>2, <3>3
        <4>2. h[s] = f[c] + h[r] /\ j[s] = g[c] + j[r]
          BY <3>1, <3>3
        <4> HIDE DEF x, r
        <4> QED BY SMTT(30), <4>1, <4>2
      <3>4. CASE x # c
        <4>1. g[x] = f[x] /\ f[x] \in Int /\ (c \in r <=> c \in s)
          BY <3>2, <3>4
        <4>2. h[r] \in Int /\ j[r] = h[r] + (IF c \in s THEN g[c] - f[c] ELSE 0)
          BY <1>4, <2>2, <4>1
        <4> HIDE DEF x, r
        <4> QED BY SMTT(30), <3>1, <4>1, <4>2
      <3> QED BY <3>3, <3>4
    <2> QED BY <2>1, <2>2
  <1> HIDE DEF Right
  <1> DEFINE G == {s \in SUBSET S : Right(s)}
  <1>5. \A s \in SUBSET S : (s # {} => s \ {First(s)} \in G) => s \in G
    BY <1>4
  <1>6. S \in G
    <2> HIDE DEF G
    <2> QED BY <1>5, SubsetInduction
  <1> QED BY <1>1, <1>2, <1>6 DEF Right

\* The sum of nothing but zeros.
LEMMA SumZero ==
    ASSUME NEW S, IsFiniteSet(S), NEW f \in [S -> Int], \A x \in S : f[x] = 0
    PROVE  SumFunction(f) = 0
  <1>1. PICK h : Sums(h, f, S) /\ SumFunction(f) = h[S]
    BY SumOfFunction
  <1>2. \A s \in SUBSET S : h[s] = SumStep(f, h, s)
    BY <1>1 DEF Sums
  <1>3. ASSUME NEW s \in SUBSET S, s # {} => h[s \ {First(s)}] = 0 PROVE h[s] = 0
    <2>1. CASE s = {}
      BY <1>2, <2>1 DEF SumStep
    <2>2. CASE s # {}
      <3>1. h[s] = f[First(s)] + h[s \ {First(s)}] /\ First(s) \in S
        BY <1>2, <2>2, Smaller DEF SumStep
      <3>2. h[s] = 0 + 0
        BY <1>3, <2>2, <3>1
      <3> QED BY SMTT(30), <3>2
    <2> QED BY <2>1, <2>2
  <1> DEFINE G == {s \in SUBSET S : h[s] = 0}
  <1>4. \A s \in SUBSET S : (s # {} => s \ {First(s)} \in G) => s \in G
    BY <1>3
  <1>5. S \in G
    <2> HIDE DEF G
    <2> QED BY <1>4, SubsetInduction
  <1> QED BY <1>1, <1>5

\* The sum of natural numbers.
LEMMA SumNatural ==
    ASSUME NEW S, IsFiniteSet(S), NEW f \in [S -> Nat] PROVE SumFunction(f) \in Nat
  <1>1. PICK h : Sums(h, f, S) /\ SumFunction(f) = h[S]
    BY SumOfFunction
  <1>2. \A s \in SUBSET S : h[s] = SumStep(f, h, s)
    BY <1>1 DEF Sums
  <1>3. ASSUME NEW s \in SUBSET S, s # {} => h[s \ {First(s)}] \in Nat PROVE h[s] \in Nat
    <2>1. CASE s = {}
      <3>1. h[s] = 0
        BY <1>2, <2>1 DEF SumStep
      <3> QED BY SMTT(30), <3>1
    <2>2. CASE s # {}
      <3>1. h[s] = f[First(s)] + h[s \ {First(s)}] /\ f[First(s)] \in Nat
        BY <1>2, <2>2, Smaller DEF SumStep
      <3> QED BY SMTT(30), <1>3, <2>2, <3>1
    <2> QED BY <2>1, <2>2
  <1> DEFINE G == {s \in SUBSET S : h[s] \in Nat}
  <1>4. \A s \in SUBSET S : (s # {} => s \ {First(s)} \in G) => s \in G
    BY <1>3
  <1>5. S \in G
    <2> HIDE DEF G
    <2> QED BY <1>4, SubsetInduction
  <1> QED BY <1>1, <1>5

-----------------------------------------------------------------------------
(* Types *)

\* TypeOK but for the sign of what is owed, which depends on the counting.
Types ==
    /\ row \in Rows \cup {None}
    /\ cache \in Modes \cup {None}
    /\ stored \in Nat
    /\ delta \in [Kinds -> Nat] /\ owed \in [Kinds -> Int] /\ trend \in Nat
    /\ registered \in BOOLEAN
    /\ call \in [Everyone -> Calls \cup {Idle}]
    /\ started \in 0..MaxCalls /\ failures \in 0..MaxFails

\* The fields of the row, or what stands in for them.
LEMMA RowFields ==
    ASSUME Types
    PROVE  /\ RowCount \in Nat /\ RowMode \in Modes
           /\ row # None => row.persistence \in Modes /\ row.configured \in BOOLEAN /\ row.count \in Nat
  BY SMTT(30) DEF Types, Rows, RowCount, RowMode, Modes

\* A call in progress.
LEMMA CallFields ==
    ASSUME Types, NEW c \in Everyone, call[c] # Idle
    PROVE  call[c] \in Calls /\ call[c].got \in Modes /\ call[c].n \in Nat
  BY SMTT(30) DEF Types, Calls

\* Adding to the row.
LEMMA AddedType ==
    ASSUME Types, NEW n \in Nat PROVE Added(n) \in Rows
  BY SMTT(30) DEF Types, Added, Rows, Modes

\* A call begins, ...
LEMMA BeginType ==
    ASSUME Types, NEW c \in Everyone, NEW op, NEW step, NEW got \in Modes, NEW n \in Nat,
           [op |-> op, step |-> step, got |-> got, n |-> n] \in Calls, Begin(c, op, step, got, n)
    PROVE  call' \in [Everyone -> Calls \cup {Idle}] /\ started' \in 0..MaxCalls
  <1>1. call' \in [Everyone -> Calls \cup {Idle}]
    BY DEF Types, Begin
  <1>2. started' \in 0..MaxCalls
    BY SMTT(30), BoundAssumption DEF Types, Begin
  <1> QED BY <1>1, <1>2

Steps == {"fill", "act", "drop", "cache", "uncache", "commit", "select", "messages",
          "row", "delete", "reset", "covers", "count", "insert"}

\* ... goes on, ...
LEMMA GoOnType ==
    ASSUME Types, NEW c \in Everyone, call[c] # Idle, NEW step \in Steps, GoOn(c, step)
    PROVE  call' \in [Everyone -> Calls \cup {Idle}]
  BY SMTT(30) DEF Types, GoOn, Calls, Steps

\* ... and ends.
LEMMA EndType ==
    ASSUME Types, NEW c \in Everyone, End(c)
    PROVE  call' \in [Everyone -> Calls \cup {Idle}]
  BY DEF Types, End

\* What the steps of a publish do to the types.
LEMMA PublishTypes ==
    ASSUME Types, NEW c \in Everyone, PublishStep(c) PROVE Types'
  <1>1. CASE PublishFills(c)
    <2>1. call' \in [Everyone -> Calls \cup {Idle}] /\ cache' \in Modes
      BY <1>1, CallFields, GoOnType DEF PublishFills, At, Steps
    <2> QED BY <1>1, <2>1 DEF Types, PublishFills, counts, bounds
  <1>2. CASE PublishStores(c)
    <2>1. call' \in [Everyone -> Calls \cup {Idle}]
      BY <1>2, EndType DEF PublishStores
    <2>2. stored' \in Nat /\ delta' \in [Kinds -> Nat] /\ owed' \in [Kinds -> Int] /\ trend' = trend
      BY SMTT(30), <1>2 DEF Types, PublishStores, RecordTopicStats
    <2> QED BY <1>2, <2>1, <2>2 DEF Types, PublishStores, bounds
  <1>3. CASE PublishFansOut(c)
    <2>1. call' \in [Everyone -> Calls \cup {Idle}]
      BY <1>3, EndType, GoOnType DEF PublishFansOut, At, Steps
    <2>2. delta' \in [Kinds -> Nat] /\ owed' \in [Kinds -> Int] /\ trend' = trend
      BY SMTT(30), <1>3 DEF Types, PublishFansOut, BumpTopicStat, Bump, Kinds
    <2>3. row' \in Rows
      BY SMTT(30), <1>3, AddedType DEF PublishFansOut, BumpTopicStat, AddToRow
    <2> QED BY <1>3, <2>1, <2>2, <2>3 DEF Types, PublishFansOut, bounds
  <1>4. CASE CountsDropped(c)
    <2>1. call' \in [Everyone -> Calls \cup {Idle}]
      BY <1>4, EndType DEF CountsDropped
    <2>2. row' \in Rows
      BY SMTT(30), <1>4, AddedType DEF CountsDropped, AddToRow
    <2> QED BY <1>4, <2>1, <2>2 DEF Types, CountsDropped, counts, bounds
  <1> QED BY <1>1, <1>2, <1>3, <1>4 DEF PublishStep

\* What the other steps of a call do to them.
LEMMA UpkeepTypes ==
    ASSUME Types, NEW c \in Everyone,
           ConfigStep(c) \/ PurgeStep(c) \/ SweepStep(c) \/ ClearStep(c) \/ RegisterInserts(c)
    PROVE  Types'
  <1>1. CASE ConfigureCaches(c) \/ Uncaches(c)
    <2>1. call' \in [Everyone -> Calls \cup {Idle}] /\ cache' \in Modes \cup {None}
      BY <1>1, CallFields, EndType DEF ConfigureCaches, Uncaches, At
    <2> QED BY <1>1, <2>1 DEF Types, ConfigureCaches, Uncaches, counts, bounds
  <1>2. CASE PurgeSelects(c) \/ SweepAsks(c)
    <2>1. call' \in [Everyone -> Calls \cup {Idle}]
      BY <1>2, EndType, GoOnType DEF PurgeSelects, SweepAsks, At, Steps
    <2> QED BY <1>2, <2>1 DEF Types, PurgeSelects, SweepAsks, counts, bounds
  <1>3. CASE PurgesMessages(c) \/ SweepDrops(c) \/ ClearsMessages(c)
    <2>1. call' \in [Everyone -> Calls \cup {Idle}]
      BY <1>3, EndType, GoOnType DEF PurgesMessages, SweepDrops, ClearsMessages, At, Steps
    <2>2. stored' \in Nat
      BY SMTT(30), <1>3 DEF PurgesMessages, SweepDrops, ClearsMessages
    <2> QED BY <1>3, <2>1, <2>2 DEF Types, PurgesMessages, SweepDrops, ClearsMessages, counts,
               bounds
  <1>4. CASE PurgesRow(c) \/ ResetsStats(c)
    <2>1. call' \in [Everyone -> Calls \cup {Idle}]
      BY <1>4, EndType, GoOnType DEF PurgesRow, ResetsStats, At, Steps
    <2>2. row' \in Rows \cup {None}
      BY SMTT(30), <1>4 DEF Types, PurgesRow, ResetsStats, DropRow, Rows
    <2>3. owed' \in [Kinds -> Int]
      BY SMTT(30), <1>4, RowFields DEF Types, PurgesRow, ResetsStats, DropRow, Kinds
    <2> QED BY <1>4, <2>1, <2>2, <2>3 DEF Types, PurgesRow, ResetsStats, counts, bounds
  <1>5. CASE RegisterInserts(c)
    BY <1>5, EndType DEF Types, RegisterInserts, counts, bounds
  <1> QED BY <1>1, <1>2, <1>3, <1>4, <1>5 DEF ConfigStep, PurgeStep, SweepStep, ClearStep

\* What flushes do to them.
LEMMA FlushTypes ==
    ASSUME Types, NEW c \in Everyone, FlushStep(c) PROVE Types'
  <1>0. call[c] # Idle /\ call[c] \in Calls /\ call[c].n \in Nat
    BY CallFields DEF FlushStep, FlushCommits, FlushFails, Flushes
  <1>1. CASE FlushCommits(c)
    <2>1. call' \in [Everyone -> Calls \cup {Idle}]
      <3> DEFINE q == [call[c] EXCEPT !.n = 0, !.step = "select"]
                 r == [call[c] EXCEPT !.n = 0, !.step = "delete"]
      <3>1. q \in Calls /\ r \in Calls
        <4>1. ASSUME NEW k \in Calls, NEW s \in {"select", "delete"}
              PROVE  [k EXCEPT !.n = 0, !.step = s] \in Calls
          <5>1. [k EXCEPT !.n = 0] \in Calls
            BY SMTT(30) DEF Calls
          <5>2. \A j \in Calls : [j EXCEPT !.step = s] \in Calls
            BY SMTT(30) DEF Calls
          <5> QED BY <5>1, <5>2
        <4> QED BY <1>0, <4>1
      <3>2. call' = [call EXCEPT ![c] = CASE call[c].op = "purge" -> q
                                          [] call[c].op = "clear" -> r
                                          [] OTHER -> Idle]
        BY <1>1 DEF FlushCommits, AfterFlush
      <3>3. (CASE call[c].op = "purge" -> q [] call[c].op = "clear" -> r [] OTHER -> Idle)
                \in Calls \cup {Idle}
        <4> HIDE DEF q, r
        <4> QED BY <3>1
      <3> HIDE DEF q, r
      <3> QED BY <3>2, <3>3 DEF Types
    <2>2. row' \in Rows \cup {None} /\ trend' \in Nat
      BY SMTT(30), <1>0, <1>1, AddedType DEF Types, FlushCommits, AddToRow
    <2> QED BY <1>1, <2>1, <2>2 DEF Types, FlushCommits, bounds
  <1>2. CASE FlushFails(c)
    <2>1. call' \in [Everyone -> Calls \cup {Idle}]
      BY <1>2, EndType DEF FlushFails
    <2>2. delta' \in [Kinds -> Nat] /\ failures' \in 0..MaxFails
      BY SMTT(30), <1>0, <1>2, BoundAssumption DEF Types, FlushFails, Bump, Fails
    <2> QED BY <1>2, <2>1, <2>2 DEF Types, FlushFails
  <1> QED BY <1>1, <1>2 DEF FlushStep

\* What the first step of a call does to them.
LEMMA BeginTypes ==
    ASSUME Types, NEW c \in Everyone,
           \/ PublishReads(c) \/ NoteWrites(c) \/ RegisterUpdates(c) \/ Configure(c) \/ SweepReads(c)
           \/ Clear(c) \/ Snapshot(c) \/ FlushFirst(c, "purge", "select")
    PROVE  Types'
  <1>0. 0 \in Nat /\ "ephemeral" \in Modes /\ "persistent" \in Modes
    BY SMTT(30) DEF Modes
  <1>1. CASE PublishReads(c)
    <2>1. cache # None => cache \in Modes
      BY DEF Types
    <2>2. RowMode \in Modes
      BY RowFields
    <2>3. \A got \in Modes, step \in {"act", "fill"} :
              [op |-> "publish", step |-> step, got |-> got, n |-> 0] \in Calls
      BY SMTT(30) DEF Calls
    <2>4. call' \in [Everyone -> Calls \cup {Idle}] /\ started' \in 0..MaxCalls
      BY <1>0, <1>1, <2>1, <2>2, <2>3, BeginType DEF PublishReads
    <2>5. failures' \in 0..MaxFails
      BY SMTT(30), <1>1, BoundAssumption DEF Types, PublishReads, Fails
    <2> QED BY <1>1, <2>4, <2>5 DEF Types, PublishReads, counts
  <1>2. CASE NoteWrites(c) \/ RegisterUpdates(c) \/ SweepReads(c)
    <2>1. \A op \in {"note", "register", "sweep"}, step \in Steps :
              [op |-> op, step |-> step, got |-> "ephemeral", n |-> 0] \in Calls
      BY SMTT(30) DEF Calls, Modes, Steps
    <2>2. call' \in [Everyone -> Calls \cup {Idle}] /\ started' \in 0..MaxCalls
      BY <1>0, <1>2, <2>1, BeginType DEF NoteWrites, RegisterUpdates, SweepReads, Steps
    <2>3. row' \in Rows \cup {None}
      <3>1. CASE NoteWrites(c)
        BY SMTT(30), <3>1 DEF Types, NoteWrites, Rows, Modes
      <3>2. CASE RegisterUpdates(c) \/ SweepReads(c)
        BY <3>2 DEF Types, RegisterUpdates, SweepReads
      <3> QED BY <1>2, <3>1, <3>2
    <2> QED BY <1>2, <2>2, <2>3 DEF Types, NoteWrites, RegisterUpdates, SweepReads, counts
  <1>3. ASSUME NEW mode \in Modes, ConfigureWrites(c, mode) PROVE Types'
    <2>1. [op |-> "configure", step |-> "cache", got |-> mode, n |-> 0] \in Calls
      BY SMTT(30) DEF Calls
    <2>2. call' \in [Everyone -> Calls \cup {Idle}] /\ started' \in 0..MaxCalls
      BY <1>0, <1>3, <2>1, BeginType DEF ConfigureWrites
    <2>3. row' \in Rows
      BY SMTT(30), <1>3, RowFields DEF ConfigureWrites, Rows
    <2> QED BY <1>3, <2>2, <2>3 DEF Types, ConfigureWrites, counts
  <1>4. ASSUME NEW op \in {"clear", "snapshot", "purge"}, NEW next \in Steps, FlushFirst(c, op, next)
        PROVE  Types'
    <2> DEFINE step == IF delta["stats"] > 0 THEN "commit" ELSE next
    <2>1. delta["stats"] \in Nat /\ step \in Steps
      BY DEF Types, Kinds, Steps
    <2>2. [op |-> op, step |-> step, got |-> "ephemeral", n |-> delta["stats"]] \in Calls
      BY SMTT(30), <1>4, <2>1 DEF Calls, Modes, Steps
    <2>3. call' \in [Everyone -> Calls \cup {Idle}] /\ started' \in 0..MaxCalls
      BY <1>0, <1>4, <2>1, <2>2, BeginType DEF FlushFirst
    <2>4. delta' \in [Kinds -> Nat]
      BY <1>0, <1>4 DEF Types, FlushFirst
    <2> QED BY <1>4, <2>3, <2>4 DEF Types, FlushFirst
  <1>5. "select" \in Steps /\ "delete" \in Steps /\ "commit" \in Steps
    BY DEF Steps
  <1> QED BY <1>1, <1>2, <1>3, <1>4, <1>5 DEF Configure, Clear, Snapshot

\* What opening the database does to them.
LEMMA OpenTypes ==
    ASSUME Types, NEW r \in Rows \cup {None}, Opens(r), owed' \in [Kinds -> Int], trend' \in Nat
    PROVE  Types'
  <1>1. row' \in Rows \cup {None}
    BY SMTT(30), AddedType DEF Opens
  <1>2. cache' \in Modes \cup {None}
    BY SMTT(30), <1>1 DEF Opens, Rows
  <1>3. delta' \in [Kinds -> Nat] /\ call' \in [Everyone -> Calls \cup {Idle}]
    BY SMTT(30) DEF Opens
  <1> QED BY <1>1, <1>2, <1>3 DEF Types, Opens, bounds

\* Every step keeps them.
LEMMA NextTypes == Types /\ [Next]_vars => Types'
  <1> SUFFICES ASSUME Types, [Next]_vars PROVE Types'
    OBVIOUS
  <1>0. Keeper \in Everyone /\ Worker \in Everyone /\ Callers \subseteq Everyone
    BY DEF Everyone
  <1>1. CASE UNCHANGED vars
    BY <1>1 DEF Types, vars, counts, bounds
  <1>2. ASSUME NEW c \in Callers,
               \/ PublishReads(c) \/ NoteWrites(c) \/ RegisterUpdates(c)
               \/ Configure(c) \/ Clear(c) \/ Snapshot(c)
        PROVE  Types'
    BY <1>0, <1>2, BeginTypes
  <1>3. CASE Upkeep
    BY <1>0, <1>3, BeginTypes DEF Upkeep
  <1>4. ASSUME NEW k \in Kinds, FlushTakes(k) PROVE Types'
    <2>1. [op |-> k, step |-> "commit", got |-> "ephemeral", n |-> delta[k]] \in Calls
      BY SMTT(30), <1>4 DEF Types, Calls, Modes, Kinds
    <2>2. call' \in [Everyone -> Calls \cup {Idle}]
      BY <1>4, <2>1 DEF Types, FlushTakes
    <2>3. delta' \in [Kinds -> Nat]
      BY SMTT(30), <1>4 DEF Types, FlushTakes
    <2> QED BY <1>4, <2>2, <2>3 DEF Types, FlushTakes, bounds
  <1>5. ASSUME NEW c \in Everyone, Step(c) PROVE Types'
    BY <1>5, PublishTypes, UpkeepTypes, FlushTypes DEF Step
  <1>6. CASE DeliverStored
    <2>1. stored' \in Nat /\ delta' \in [Kinds -> Nat] /\ owed' \in [Kinds -> Int] /\ trend' = trend
      BY SMTT(30), <1>6 DEF Types, DeliverStored, RecordTopicStats
    <2> QED BY <1>6, <2>1 DEF Types, DeliverStored, bounds
  <1>7. CASE ForgetConsumer
    BY <1>7 DEF Types, ForgetConsumer, counts, bounds
  <1>8. CASE Restart
    <2>1. owed' \in [Kinds -> Int] /\ trend' \in Nat
      BY SMTT(30), <1>8, RowFields DEF Types, Restart
    <2> QED BY <1>8, <2>1, OpenTypes DEF Types, Restart
  <1>9. CASE CloseAndOpen
    <2> DEFINE r(lost) == IF "stats" \in lost \/ delta["stats"] = 0 THEN row
                          ELSE Added(delta["stats"])
    <2>1. PICK lost \in SUBSET Kinds :
             /\ owed' = [k \in Kinds |-> IF k \in lost THEN owed[k] - delta[k] ELSE owed[k]]
             /\ trend' = IF "trends" \in lost THEN trend ELSE trend + delta["trends"]
             /\ Opens(r(lost))
      BY <1>9 DEF CloseAndOpen
    <2>2. delta["stats"] \in Nat /\ delta["trends"] \in Nat
      BY DEF Types, Kinds
    <2>3. r(lost) \in Rows \cup {None}
      BY <2>2, AddedType DEF Types
    <2> HIDE DEF r
    <2>4. owed' \in [Kinds -> Int]
      BY SMTT(30), <2>1 DEF Types
    <2>5. trend' \in Nat
      BY SMTT(30), <2>1, <2>2 DEF Types
    <2> QED BY <2>1, <2>3, <2>4, <2>5, OpenTypes
  <1> QED BY <1>1, <1>2, <1>3, <1>4, <1>5, <1>6, <1>7, <1>8, <1>9 DEF Next

-----------------------------------------------------------------------------
(* Counting *)

\* What a call in state x has taken out of the increments of kind k.
TakenBy(x, k) ==
    IF x # Idle /\ x.step = "commit" /\ k = (IF x.op = "trends" THEN "trends" ELSE "stats")
    THEN x.n ELSE 0

\* What a caller has taken depends on its call only.
LEMMA TakenForm ==
    ASSUME NEW c, NEW k
    PROVE  Taken(c, k) = TakenBy(call[c], k) /\ Taken(c, k)' = TakenBy(call'[c], k)
  BY DEF Taken, TakenBy, Flushes

\* It is a number of increments.
LEMMA TakenType == ASSUME NEW x \in Calls \cup {Idle}, NEW k PROVE TakenBy(x, k) \in Nat
  BY SMTT(30) DEF TakenBy, Calls

\* Calls are finitely many.
LEMMA EveryoneFinite == IsFiniteSet(Everyone)
  <1>1. IsFiniteSet(Callers)
    BY CallerAssumption
  <1>2. IsFiniteSet((Callers \cup {Worker}) \cup {Keeper})
    BY <1>1, FS_AddElement
  <1>3. Everyone = (Callers \cup {Worker}) \cup {Keeper}
    BY DEF Everyone
  <1> QED BY <1>2, <1>3

\* When one call changes, what is in hand changes by what it takes or gives.
LEMMA HandChange ==
    ASSUME Types, Types', NEW c \in Everyone, NEW k,
           \A d \in Everyone : d # c => call'[d] = call[d]
    PROVE  /\ InHand(k) \in Int
           /\ InHand(k)' = InHand(k) + (TakenBy(call'[c], k) - TakenBy(call[c], k))
  <1> DEFINE f == [d \in Everyone |-> TakenBy(call[d], k)]
             g == [d \in Everyone |-> TakenBy(call'[d], k)]
  <1>1. \A d \in Everyone : call[d] \in Calls \cup {Idle} /\ call'[d] \in Calls \cup {Idle}
    BY DEF Types
  <1>2. \A d \in Everyone : TakenBy(call[d], k) \in Int /\ TakenBy(call'[d], k) \in Int
    <2>1. \A i \in Nat : i \in Int
      BY SMTT(30)
    <2> QED BY <1>1, <2>1, TakenType
  <1>3. f \in [Everyone -> Int] /\ g \in [Everyone -> Int]
    BY <1>2
  <1>4. InHand(k) = SumFunction(f) /\ InHand(k)' = SumFunction(g)
    BY TakenForm DEF InHand
  <1>5. \A d \in Everyone : d # c => g[d] = f[d]
    OBVIOUS
  <1>6. f[c] = TakenBy(call[c], k) /\ g[c] = TakenBy(call'[c], k)
    OBVIOUS
  <1> HIDE DEF f, g
  <1>7. SumFunction(f) \in Int /\ SumFunction(g) = SumFunction(f) + (g[c] - f[c])
    BY <1>3, <1>5, EveryoneFinite, SumChange
  <1> QED BY <1>4, <1>6, <1>7

\* When all calls are idle, nothing is in hand.
LEMMA NothingInHand ==
    ASSUME NEW k
    PROVE  /\ (\A d \in Everyone : call[d] = Idle) => InHand(k) = 0
           /\ (\A d \in Everyone : call'[d] = Idle) => InHand(k)' = 0
  <1> DEFINE f == [d \in Everyone |-> TakenBy(call[d], k)]
             g == [d \in Everyone |-> TakenBy(call'[d], k)]
             z == [d \in Everyone |-> 0]
  <1>1. SumFunction(z) = 0
    <2>1. z \in [Everyone -> Int] /\ \A x \in Everyone : z[x] = 0
      BY SMTT(30)
    <2> HIDE DEF z
    <2> QED BY <2>1, EveryoneFinite, SumZero
  <1>2. TakenBy(Idle, k) = 0
    BY DEF TakenBy
  <1>3. (\A d \in Everyone : call[d] = Idle) => f = z
    BY <1>2
  <1>4. (\A d \in Everyone : call'[d] = Idle) => g = z
    BY <1>2
  <1>5. InHand(k) = SumFunction(f) /\ InHand(k)' = SumFunction(g)
    BY TakenForm DEF InHand
  <1> HIDE DEF f, g, z
  <1> QED BY <1>1, <1>3, <1>4, <1>5


\* What is owed changes as the table, the memory and the call of c do.
Balanced(c, k, n) ==
    owed'[k] - owed[k] = (n' - n) + (delta'[k] - delta[k])
                           + (TakenBy(call'[c], k) - TakenBy(call[c], k))

\* If that is so of both kinds and no other call moves, the accounts balance.
LEMMA Balance ==
    ASSUME Types, Types', CountersConserved, NEW c \in Everyone,
           \A d \in Everyone : d # c => call'[d] = call[d],
           Balanced(c, "stats", RowCount), Balanced(c, "trends", trend)
    PROVE  CountersConserved'
  <1>1. /\ RowCount \in Int /\ trend \in Int /\ trend' \in Int
        /\ \A k \in Kinds : /\ owed[k] \in Int /\ owed'[k] \in Int /\ delta[k] \in Int /\ delta'[k] \in Int
                            /\ InHand(k) \in Int
                            /\ TakenBy(call'[c], k) - TakenBy(call[c], k) \in Int
    <2>1. \A i \in Nat : i \in Int
      BY SMTT(30)
    <2>2. \A k \in Kinds : TakenBy(call'[c], k) \in Int /\ TakenBy(call[c], k) \in Int
      BY <2>1, TakenType DEF Types
    <2>3. \A i, j \in Int : i - j \in Int
      BY SMTT(30)
    <2> QED BY <2>1, <2>2, <2>3, RowFields, HandChange DEF Types
  <1>2. RowCount' \in Int
    BY SMTT(30) DEF Types, RowCount, Rows
  <1>3. owed'["stats"] = RowCount' + delta'["stats"] + InHand("stats")'
    <2> DEFINE t == TakenBy(call'[c], "stats") - TakenBy(call[c], "stats")
               h == InHand("stats")
               i == InHand("stats")'
               m == RowCount'
               n == RowCount
    <2>1. /\ owed["stats"] \in Int /\ owed'["stats"] \in Int /\ delta["stats"] \in Int
          /\ delta'["stats"] \in Int /\ h \in Int /\ t \in Int /\ m \in Int /\ n \in Int
      BY <1>1, <1>2 DEF Kinds
    <2>2. i = h + t
      BY HandChange
    <2>3. owed["stats"] = n + delta["stats"] + h
      BY DEF CountersConserved
    <2>4. owed'["stats"] - owed["stats"] = (m - n) + (delta'["stats"] - delta["stats"]) + t
      BY DEF Balanced
    <2> HIDE DEF t, h, i, m, n
    <2>5. owed'["stats"] = m + delta'["stats"] + i
      BY SMTT(30), <2>1, <2>2, <2>3, <2>4
    <2> QED BY <2>5 DEF m, i
  <1>4. owed'["trends"] = trend' + delta'["trends"] + InHand("trends")'
    <2> DEFINE t == TakenBy(call'[c], "trends") - TakenBy(call[c], "trends")
               h == InHand("trends")
               i == InHand("trends")'
    <2>1. /\ owed["trends"] \in Int /\ owed'["trends"] \in Int /\ delta["trends"] \in Int
          /\ delta'["trends"] \in Int /\ h \in Int /\ t \in Int /\ trend \in Int /\ trend' \in Int
      BY <1>1 DEF Kinds
    <2>2. i = h + t
      BY HandChange
    <2>3. owed["trends"] = trend + delta["trends"] + h
      BY DEF CountersConserved
    <2>4. owed'["trends"] - owed["trends"] = (trend' - trend) + (delta'["trends"] - delta["trends"]) + t
      BY DEF Balanced
    <2> HIDE DEF t, h, i
    <2>5. owed'["trends"] = trend' + delta'["trends"] + i
      BY SMTT(30), <2>1, <2>2, <2>3, <2>4
    <2> QED BY <2>5 DEF i
  <1> QED BY <1>3, <1>4 DEF CountersConserved

\* A call that has taken nothing.
Empty(x) == \A k : TakenBy(x, k) = 0

\* Such is a call that is idle or not at the commit of a flush.
LEMMA EmptyCalls ==
    /\ Empty(Idle)
    /\ \A x : x.step # "commit" => Empty(x)
  BY DEF Empty, TakenBy

\* Calls that do not flush.
LEMMA QuietCall ==
    ASSUME Types, NEW c \in Everyone,
           \/ End(c)
           \/ call[c] # Idle /\ \E step \in Steps : step # "commit" /\ GoOn(c, step)
           \/ \E op, step, got, n : step # "commit" /\ Begin(c, op, step, got, n)
    PROVE  Empty(call'[c]) /\ \A d \in Everyone : d # c => call'[d] = call[d]
  <1>1. CASE End(c)
    <2>1. call'[c] = Idle /\ \A d \in Everyone : d # c => call'[d] = call[d]
      BY <1>1 DEF Types, End
    <2> QED BY <2>1, EmptyCalls
  <1>2. ASSUME call[c] # Idle, NEW step \in Steps, step # "commit", GoOn(c, step)
        PROVE  Empty(call'[c]) /\ \A d \in Everyone : d # c => call'[d] = call[d]
    <2>1. call[c] \in Calls
      BY <1>2, CallFields
    <2>2. call'[c] = [call[c] EXCEPT !.step = step] /\ \A d \in Everyone : d # c => call'[d] = call[d]
      BY <1>2 DEF Types, GoOn
    <2>3. \A x \in Calls : [x EXCEPT !.step = step].step = step
      BY SMTT(30) DEF Calls
    <2> QED BY <1>2, <2>1, <2>2, <2>3, EmptyCalls
  <1>3. ASSUME NEW op, NEW step, NEW got, NEW n, step # "commit", Begin(c, op, step, got, n)
        PROVE  Empty(call'[c]) /\ \A d \in Everyone : d # c => call'[d] = call[d]
    <2>1. call'[c].step = step /\ \A d \in Everyone : d # c => call'[d] = call[d]
      BY <1>3 DEF Types, Begin
    <2> QED BY <1>3, <2>1, EmptyCalls
  <1> QED BY <1>1, <1>2, <1>3

\* What any call does that takes nothing, before and after it.
LEMMA Unmoved ==
    ASSUME Types, Types', CountersConserved, NEW c \in Everyone, Empty(call[c]), Empty(call'[c]),
           \A d \in Everyone : d # c => call'[d] = call[d],
           owed'["stats"] - owed["stats"] = (RowCount' - RowCount) + (delta'["stats"] - delta["stats"]),
           owed'["trends"] - owed["trends"] = (trend' - trend) + (delta'["trends"] - delta["trends"])
    PROVE  CountersConserved'
  <1>1. \A k : TakenBy(call[c], k) = 0 /\ TakenBy(call'[c], k) = 0
    BY DEF Empty
  <1>2. RowCount \in Int /\ RowCount' \in Int
    BY SMTT(30) DEF Types, RowCount, Rows
  <1>3. (RowCount' - RowCount) + (delta'["stats"] - delta["stats"]) \in Int
    BY SMTT(30), <1>2 DEF Types, Kinds
  <1>4. (trend' - trend) + (delta'["trends"] - delta["trends"]) \in Int
    BY SMTT(30) DEF Types, Kinds
  <1>5. \A i \in Int : i + (0 - 0) = i
    BY SMTT(30)
  <1>6. Balanced(c, "stats", RowCount)
    BY <1>1, <1>3, <1>5 DEF Balanced
  <1>7. Balanced(c, "trends", trend)
    BY <1>1, <1>4, <1>5 DEF Balanced
  <1> QED BY <1>6, <1>7, Balance

\* ... and the counters alone.
LEMMA SameCounts ==
    ASSUME Types, Types', CountersConserved, NEW c \in Everyone, Empty(call[c]), Empty(call'[c]),
           \A d \in Everyone : d # c => call'[d] = call[d],
           UNCHANGED counts, RowCount' = RowCount
    PROVE  CountersConserved'
  <1>1. \A i \in Int : i - i = 0
    BY SMTT(30)
  <1>2. 0 = 0 + 0
    BY SMTT(30)
  <1>3. \A i \in Nat : i \in Int
    BY SMTT(30)
  <1>4. RowCount \in Int /\ trend \in Int /\ \A k \in Kinds : owed[k] \in Int /\ delta[k] \in Int
    BY <1>3, RowFields DEF Types
  <1> QED BY <1>1, <1>2, <1>4, Unmoved DEF counts, Kinds

\* The count of a row that was added to.
LEMMA AddedCount ==
    ASSUME Types, NEW n \in Nat, AddToRow(n) PROVE RowCount' = RowCount + n
  <1>1. CASE row = None
    <2>1. Added(n).count = n /\ Added(n) \in Rows
      BY <1>1, AddedType DEF Added
    <2>2. RowCount = 0 /\ (row' = None \/ row'.count = n)
      BY <1>1, <2>1 DEF RowCount, AddToRow
    <2> QED BY SMTT(30), <2>1, <2>2, NoneAssumption DEF RowCount, AddToRow
  <1>2. CASE row # None
    <2>1. Added(n) = [row EXCEPT !.count = @ + n] /\ row \in Rows
      BY <1>2 DEF Added, Types
    <2>2. Added(n).count = row.count + n /\ Added(n) \in Rows
      BY SMTT(30), <2>1, AddedType DEF Rows
    <2> QED BY <1>2, <2>2, NoneAssumption DEF RowCount, AddToRow
  <1> QED BY <1>1, <1>2

\* Publishing: the event and its counter come together.
LEMMA PublishCounts ==
    ASSUME Types, Types', CountersConserved, NEW c \in Everyone, PublishStep(c) PROVE CountersConserved'
  <1>0. Empty(call[c]) /\ Empty(call'[c]) /\ \A d \in Everyone : d # c => call'[d] = call[d]
    <2>1. call[c] # Idle /\ call[c].step # "commit"
      BY DEF PublishStep, PublishFills, PublishStores, PublishFansOut, CountsDropped, At
    <2>2. Empty(call[c])
      BY <2>1, EmptyCalls
    <2>3. End(c) \/ \E step \in Steps : step # "commit" /\ GoOn(c, step)
      BY DEF PublishStep, PublishFills, PublishStores, PublishFansOut, CountsDropped, Steps
    <2> QED BY <2>1, <2>2, <2>3, QuietCall
  <1>1. CASE PublishFills(c)
    BY <1>0, <1>1, SameCounts DEF PublishFills, RowCount
  <1>2. CASE PublishStores(c)
    <2>1. RowCount' = RowCount /\ RowCount \in Nat
      BY <1>2, RowFields DEF PublishStores, RowCount
    <2>2. owed'["stats"] - owed["stats"] = (RowCount' - RowCount) + (delta'["stats"] - delta["stats"])
      BY SMTT(30), <1>2, <2>1 DEF Types, PublishStores, RecordTopicStats, Kinds
    <2>3. owed'["trends"] - owed["trends"] = (trend' - trend) + (delta'["trends"] - delta["trends"])
      BY SMTT(30), <1>2 DEF Types, PublishStores, RecordTopicStats, Kinds
    <2> QED BY <1>0, <2>2, <2>3, Unmoved
  <1>3. CASE PublishFansOut(c)
    <2>1. RowCount' = RowCount + 1 /\ RowCount \in Nat
      BY SMTT(30), <1>3, AddedCount, RowFields DEF PublishFansOut, BumpTopicStat
    <2>2. owed'["stats"] - owed["stats"] = (RowCount' - RowCount) + (delta'["stats"] - delta["stats"])
      BY SMTT(30), <1>3, <2>1 DEF Types, PublishFansOut, BumpTopicStat, Bump, Kinds
    <2>3. owed'["trends"] - owed["trends"] = (trend' - trend) + (delta'["trends"] - delta["trends"])
      BY SMTT(30), <1>3 DEF Types, PublishFansOut, BumpTopicStat, Bump, Kinds
    <2> QED BY <1>0, <2>2, <2>3, Unmoved
  <1>4. CASE CountsDropped(c)
    <2>1. RowCount' = RowCount + 0 /\ RowCount \in Nat
      BY SMTT(30), <1>4, AddedCount, RowFields DEF CountsDropped
    <2>2. RowCount' = RowCount
      BY SMTT(30), <2>1
    <2> QED BY <1>0, <1>4, <2>2, SameCounts DEF CountsDropped
  <1> QED BY <1>1, <1>2, <1>3, <1>4 DEF PublishStep

\* Clearing and purging: what is owed goes down by what the row said.
LEMMA UpkeepCounts ==
    ASSUME Types, Types', CountersConserved, NEW c \in Everyone,
           ConfigStep(c) \/ PurgeStep(c) \/ SweepStep(c) \/ ClearStep(c) \/ RegisterInserts(c)
    PROVE  CountersConserved'
  <1> USE DEF ConfigStep, PurgeStep, SweepStep, ClearStep
  <1>0. Empty(call[c]) /\ Empty(call'[c]) /\ \A d \in Everyone : d # c => call'[d] = call[d]
    <2>1. call[c] # Idle /\ call[c].step # "commit"
      BY DEF ConfigureCaches, Uncaches, PurgeSelects, PurgesMessages, PurgesRow, SweepAsks,
         SweepDrops,
             ClearsMessages, ResetsStats, RegisterInserts, At
    <2>2. Empty(call[c])
      BY <2>1, EmptyCalls
    <2>3. End(c) \/ \E step \in Steps : step # "commit" /\ GoOn(c, step)
      BY DEF ConfigureCaches, Uncaches, PurgeSelects, PurgesMessages, PurgesRow, SweepAsks,
         SweepDrops,
             ClearsMessages, ResetsStats, RegisterInserts, Steps
    <2> QED BY <2>1, <2>2, <2>3, QuietCall
  <1>1. CASE UNCHANGED <<row, counts>>
    BY <1>0, <1>1, SameCounts DEF RowCount
  <1>2. CASE PurgesRow(c) \/ ResetsStats(c)
    <2>0. RowCount \in Nat
      BY RowFields
    <2>1. \/ RowCount' = RowCount /\ owed' = owed
          \/ RowCount' = 0 /\ owed' = [owed EXCEPT !["stats"] = @ - RowCount]
      <3>1. CASE PurgesRow(c)
        BY <3>1 DEF Types, PurgesRow, DropRow, RowCount
      <3>2. CASE ResetsStats(c)
        <4>1. CASE row = None
          BY <3>2, <4>1 DEF ResetsStats, RowCount
        <4>2. CASE row # None
          <5>1. row'.count = 0 /\ row' \in Rows
            BY SMTT(30), <3>2, <4>2 DEF Types, ResetsStats, Rows
          <5> QED BY <3>2, <5>1 DEF ResetsStats, RowCount
        <4> QED BY <4>1, <4>2
      <3> QED BY <1>2, <3>1, <3>2
    <2>2. delta' = delta /\ trend' = trend
      BY <1>2 DEF PurgesRow, ResetsStats
    <2>3. owed'["stats"] - owed["stats"] = (RowCount' - RowCount) + (delta'["stats"] - delta["stats"])
      BY SMTT(30), <2>0, <2>1, <2>2 DEF Types, Kinds
    <2>4. owed'["trends"] - owed["trends"] = (trend' - trend) + (delta'["trends"] - delta["trends"])
      BY SMTT(30), <2>1, <2>2 DEF Types, Kinds
    <2> QED BY <1>0, <2>3, <2>4, Unmoved
  <1> QED BY <1>1, <1>2 DEF ConfigureCaches, Uncaches, PurgeSelects, PurgesMessages, SweepAsks,
             SweepDrops,
             ClearsMessages, RegisterInserts

\* Flushing: the increments move from the memory to a call, from there to the
\* table, or back.
LEMMA FlushCounts ==
    ASSUME Types, Types', CountersConserved, NEW c \in Everyone, FlushStep(c) PROVE CountersConserved'
  <1> DEFINE kind == IF call[c].op = "trends" THEN "trends" ELSE "stats"
             n == call[c].n
  <1>0. call[c] # Idle /\ call[c].step = "commit" /\ call[c] \in Calls /\ n \in Nat
    BY CallFields DEF FlushStep, FlushCommits, FlushFails, Flushes
  <1>1. /\ kind \in Kinds /\ TakenBy(call[c], kind) = n
        /\ \A k : k # kind => TakenBy(call[c], k) = 0
    BY <1>0 DEF TakenBy, Kinds
  <1>2. Empty(call'[c]) /\ \A d \in Everyone : d # c => call'[d] = call[d]
    <2>1. CASE FlushFails(c)
      BY <2>1, QuietCall DEF FlushFails
    <2>2. CASE FlushCommits(c)
      <3> DEFINE q == [call[c] EXCEPT !.n = 0, !.step = "select"]
                 r == [call[c] EXCEPT !.n = 0, !.step = "delete"]
      <3>1. q.step = "select" /\ r.step = "delete"
        <4>1. ASSUME NEW k \in Calls, NEW s PROVE [k EXCEPT !.n = 0, !.step = s].step = s
          BY SMTT(30) DEF Calls
        <4> QED BY <1>0, <4>1
      <3>2. call' = [call EXCEPT ![c] = CASE call[c].op = "purge" -> q
                                          [] call[c].op = "clear" -> r
                                          [] OTHER -> Idle]
        BY <2>2 DEF FlushCommits, AfterFlush
      <3> HIDE DEF q, r
      <3>3. call'[c] \in {q, r, Idle} /\ \A d \in Everyone : d # c => call'[d] = call[d]
        BY <3>2 DEF Types
      <3> QED BY <3>1, <3>3, EmptyCalls
    <2> QED BY <2>1, <2>2 DEF FlushStep
  <1>3. \A k : TakenBy(call'[c], k) = 0
    BY <1>2 DEF Empty
  <1>4. RowCount \in Nat
    BY RowFields
  <1>5. /\ TakenBy(call[c], "stats") = IF kind = "stats" THEN n ELSE 0
        /\ TakenBy(call[c], "trends") = IF kind = "trends" THEN n ELSE 0
    BY <1>1
  <1>6. CASE FlushCommits(c)
    <2>1. \/ kind = "stats" /\ RowCount' = RowCount + n /\ trend' = trend
          \/ kind = "trends" /\ RowCount' = RowCount /\ trend' = trend + n
      BY <1>0, <1>6, AddedCount DEF FlushCommits, Flushes, RowCount
    <2>2. owed' = owed /\ delta' = delta
      BY <1>6 DEF FlushCommits
    <2> HIDE DEF kind, n
    <2>3. Balanced(c, "stats", RowCount)
      <3>1. owed["stats"] - owed["stats"] = (RowCount' - RowCount) + (delta["stats"] - delta["stats"])
                  + (0 - (IF kind = "stats" THEN n ELSE 0))
        BY SMTT(30), <1>0, <1>4, <2>1 DEF Types, Kinds
      <3> QED BY <1>3, <1>5, <2>2, <3>1 DEF Balanced
    <2>4. Balanced(c, "trends", trend)
      <3>1. owed["trends"] - owed["trends"] = (trend' - trend) + (delta["trends"] - delta["trends"])
                  + (0 - (IF kind = "trends" THEN n ELSE 0))
        BY SMTT(30), <1>0, <2>1 DEF Types, Kinds
      <3> QED BY <1>3, <1>5, <2>2, <3>1 DEF Balanced
    <2> QED BY <1>2, <2>3, <2>4, Balance
  <1>7. CASE FlushFails(c)
    <2>1. delta' = [delta EXCEPT ![kind] = @ + n]
      BY <1>7 DEF FlushFails, Flushes, Bump
    <2>2. owed' = owed /\ RowCount' = RowCount /\ trend' = trend
      BY <1>7 DEF FlushFails, RowCount
    <2>3. /\ delta'["stats"] = delta["stats"] + (IF kind = "stats" THEN n ELSE 0)
          /\ delta'["trends"] = delta["trends"] + (IF kind = "trends" THEN n ELSE 0)
      BY SMTT(30), <1>0, <1>1, <2>1 DEF Types, Kinds
    <2> HIDE DEF kind, n
    <2>4. Balanced(c, "stats", RowCount)
      <3>1. owed["stats"] - owed["stats"] = (RowCount - RowCount) + (delta'["stats"] - delta["stats"])
                  + (0 - (IF kind = "stats" THEN n ELSE 0))
        BY SMTT(30), <1>0, <1>4, <2>3 DEF Types, Kinds
      <3> QED BY <1>3, <1>5, <2>2, <3>1 DEF Balanced
    <2>5. Balanced(c, "trends", trend)
      <3>1. owed["trends"] - owed["trends"] = (trend - trend) + (delta'["trends"] - delta["trends"])
                  + (0 - (IF kind = "trends" THEN n ELSE 0))
        BY SMTT(30), <1>0, <2>3 DEF Types, Kinds
      <3> QED BY <1>3, <1>5, <2>2, <3>1 DEF Balanced
    <2> QED BY <1>2, <2>4, <2>5, Balance
  <1> QED BY <1>6, <1>7 DEF FlushStep

\* A call or the worker takes the increments of kind k, to write them.
LEMMA TakeCounts ==
    ASSUME Types, Types', CountersConserved, NEW c \in Everyone, NEW k \in Kinds, Empty(call[c]),
           TakenBy(call'[c], k) = delta[k],
           \A j : j # k => TakenBy(call'[c], j) = 0,
           \A d \in Everyone : d # c => call'[d] = call[d],
           delta' = [delta EXCEPT ![k] = 0], owed' = owed, row' = row, trend' = trend
    PROVE  CountersConserved'
  <1>0. RowCount' = RowCount /\ RowCount \in Nat
    BY RowFields DEF RowCount
  <1>1. \A j : TakenBy(call[c], j) = 0
    BY DEF Empty
  <1>2. Balanced(c, "stats", RowCount)
    <2>1. owed["stats"] - owed["stats"] = (RowCount - RowCount) + (delta'["stats"] - delta["stats"])
              + (TakenBy(call'[c], "stats") - 0)
      BY SMTT(30), <1>0 DEF Types, Kinds
    <2> QED BY <1>0, <1>1, <2>1 DEF Balanced
  <1>3. Balanced(c, "trends", trend)
    <2>1. owed["trends"] - owed["trends"] = (trend - trend) + (delta'["trends"] - delta["trends"])
              + (TakenBy(call'[c], "trends") - 0)
      BY SMTT(30) DEF Types, Kinds
    <2> QED BY <1>1, <2>1 DEF Balanced
  <1> QED BY <1>2, <1>3, Balance

\* The first step of a call.
LEMMA BeginCounts ==
    ASSUME Types, Types', CountersConserved, NEW c \in Everyone,
           \/ PublishReads(c) \/ NoteWrites(c) \/ RegisterUpdates(c) \/ Configure(c) \/ SweepReads(c)
           \/ Clear(c) \/ Snapshot(c) \/ FlushFirst(c, "purge", "select")
    PROVE  CountersConserved'
  <1>0. Empty(call[c])
    <2>1. call[c] = Idle
      BY DEF PublishReads, NoteWrites, RegisterUpdates, Configure, ConfigureWrites, SweepReads,
         Clear,
             Snapshot, FlushFirst, Begin
    <2> QED BY <2>1, EmptyCalls
  <1>1. CASE PublishReads(c) \/ NoteWrites(c) \/ RegisterUpdates(c) \/ Configure(c) \/ SweepReads(c)
    <2>1. \E op, step, got, n : step # "commit" /\ Begin(c, op, step, got, n)
      BY <1>1 DEF PublishReads, NoteWrites, RegisterUpdates, Configure, ConfigureWrites,
         SweepReads
    <2>2. Empty(call'[c]) /\ \A d \in Everyone : d # c => call'[d] = call[d]
      BY <2>1, QuietCall
    <2>3. UNCHANGED counts
      BY <1>1 DEF PublishReads, NoteWrites, RegisterUpdates, Configure, ConfigureWrites,
         SweepReads
    <2>4. RowCount' = RowCount
      <3>1. CASE row' = row
        BY <3>1 DEF RowCount
      <3>2. CASE NoteWrites(c)
        <4>1. CASE row = None
          <5>1. row' = [persistence |-> "ephemeral", configured |-> FALSE, count |-> 0]
            BY <3>2, <4>1 DEF NoteWrites
          <5>2. row' \in Rows /\ row'.count = 0
            BY SMTT(30), <5>1 DEF Rows, Modes
          <5> QED BY <4>1, <5>2 DEF RowCount
        <4>2. CASE row # None /\ row' # row
          <5>1. row' = [row EXCEPT !.persistence = "ephemeral"] /\ row \in Rows
            BY <3>2, <4>2 DEF Types, NoteWrites
          <5>2. row' \in Rows /\ row'.count = row.count
            BY SMTT(30), <5>1 DEF Rows, Modes
          <5> QED BY <4>2, <5>2, NoneAssumption DEF RowCount
        <4> QED BY <3>1, <4>1, <4>2
      <3>3. ASSUME NEW mode \in Modes, ConfigureWrites(c, mode) PROVE RowCount' = RowCount
        <4>1. row' = [persistence |-> mode, configured |-> TRUE, count |-> RowCount]
          BY <3>3 DEF ConfigureWrites
        <4>2. row' \in Rows /\ row'.count = RowCount
          BY SMTT(30), <4>1, RowFields DEF Rows
        <4>3. RowCount' = row'.count
          BY <4>2, NoneAssumption DEF RowCount
        <4> QED BY <4>2, <4>3
      <3> QED BY <1>1, <3>1, <3>2, <3>3 DEF PublishReads, RegisterUpdates, SweepReads, Configure
    <2> QED BY <1>0, <2>2, <2>3, <2>4, SameCounts
  <1>2. ASSUME NEW op \in {"clear", "snapshot", "purge"}, NEW next \in Steps, FlushFirst(c, op, next),
               delta["stats"] > 0 \/ next # "commit"
        PROVE  CountersConserved'
    <2> DEFINE step == IF delta["stats"] > 0 THEN "commit" ELSE next
               x == [op |-> op, step |-> step, got |-> "ephemeral", n |-> delta["stats"]]
    <2>1. call'[c] = x /\ \A d \in Everyone : d # c => call'[d] = call[d]
      BY <1>2 DEF Types, FlushFirst, Begin
    <2>2. x.step = step /\ x.op # "trends" /\ x # Idle /\ x.n = delta["stats"]
      <3>1. x.op = op /\ Idle.op = "idle" /\ op # "trends" /\ op # "idle"
        BY DEF Idle
      <3> QED BY <3>1
    <2>3. delta["stats"] \in Nat /\ (~(delta["stats"] > 0) => delta["stats"] = 0)
      BY SMTT(30) DEF Types, Kinds
    <2>4. TakenBy(x, "stats") = delta["stats"] /\ \A j : j # "stats" => TakenBy(x, j) = 0
      BY <1>2, <2>2, <2>3 DEF TakenBy
    <2> HIDE DEF x
    <2> QED BY <1>0, <1>2, <2>1, <2>4, TakeCounts DEF FlushFirst, Kinds
  <1>3. "select" \in Steps /\ "delete" \in Steps /\ "commit" \in Steps
    BY DEF Steps
  <1> QED BY <1>1, <1>2, <1>3 DEF Clear, Snapshot

\* Opening the database: nothing is in hand or in memory.
LEMMA OpenCounts ==
    ASSUME Types, NEW r \in Rows \cup {None}, r = None => row = None, Opens(r),
           owed'["stats"] = IF r = None THEN 0 ELSE r.count, owed'["trends"] = trend', trend' \in Nat
    PROVE  CountersConserved'
  <1>1. InHand("stats")' = 0 /\ InHand("trends")' = 0
    <2>1. \A d \in Everyone : call'[d] = Idle
      BY DEF Opens
    <2> QED BY <2>1, NothingInHand
  <1>2. delta'["stats"] = 0 /\ delta'["trends"] = 0
    BY DEF Opens, Kinds
  <1>3. RowCount' = IF r = None THEN 0 ELSE r.count
    <2>1. CASE row' = r
      BY <2>1 DEF RowCount
    <2>2. CASE row' # r
      <3>1. r = None /\ row' = [persistence |-> "ephemeral", configured |-> FALSE, count |-> 0]
        BY <2>2 DEF Opens, Added
      <3>2. row' \in Rows /\ row'.count = 0
        BY SMTT(30), <3>1 DEF Rows, Modes
      <3> QED BY <3>1, <3>2 DEF RowCount
    <2> QED BY <2>1, <2>2
  <1>4. RowCount' \in Int /\ trend' \in Int
    BY SMTT(30), <1>3 DEF Rows
  <1>5. \A i \in Int : i = i + 0 + 0
    BY SMTT(30)
  <1> QED BY <1>1, <1>2, <1>3, <1>4, <1>5 DEF CountersConserved

\* Every step keeps the accounts.
LEMMA NextCounts == Types /\ Types' /\ CountersConserved /\ [Next]_vars => CountersConserved'
  <1> SUFFICES ASSUME Types, Types', CountersConserved, [Next]_vars PROVE CountersConserved'
    OBVIOUS
  <1>0. Keeper \in Everyone /\ Worker \in Everyone /\ Callers \subseteq Everyone
    BY DEF Everyone
  <1>1. CASE UNCHANGED <<row, counts, call>>
    BY <1>1 DEF CountersConserved, RowCount, InHand, Taken, Flushes, counts
  <1>2. ASSUME NEW c \in Callers,
               \/ PublishReads(c) \/ NoteWrites(c) \/ RegisterUpdates(c)
               \/ Configure(c) \/ Clear(c) \/ Snapshot(c)
        PROVE  CountersConserved'
    BY <1>0, <1>2, BeginCounts
  <1>3. CASE Upkeep
    BY <1>0, <1>3, BeginCounts DEF Upkeep
  <1>4. ASSUME NEW k \in Kinds, FlushTakes(k) PROVE CountersConserved'
    <2> DEFINE x == [op |-> k, step |-> "commit", got |-> "ephemeral", n |-> delta[k]]
    <2>1. call'[Worker] = x /\ \A d \in Everyone : d # Worker => call'[d] = call[d]
      BY <1>0, <1>4 DEF Types, FlushTakes
    <2>2. x.op = k /\ x.step = "commit" /\ x.n = delta[k] /\ x # Idle
      <3>1. x.op = k /\ Idle.op = "idle" /\ k # "idle"
        BY DEF Idle, Kinds
      <3> QED BY <3>1
    <2>3. TakenBy(x, k) = delta[k] /\ \A j : j # k => TakenBy(x, j) = 0
      BY <2>2 DEF TakenBy, Kinds
    <2>4. Empty(call[Worker])
      BY <1>4, EmptyCalls DEF FlushTakes
    <2> HIDE DEF x
    <2> QED BY <1>0, <1>4, <2>1, <2>3, <2>4, TakeCounts DEF FlushTakes
  <1>5. ASSUME NEW c \in Everyone, Step(c) PROVE CountersConserved'
    BY <1>5, PublishCounts, UpkeepCounts, FlushCounts DEF Step
  <1>6. CASE DeliverStored
    <2>1. \A k \in Kinds : owed'[k] = owed[k] + 1 /\ delta'[k] = delta[k] + 1
      BY <1>6 DEF DeliverStored, RecordTopicStats
    <2>2. \A k \in Kinds : InHand(k)' = InHand(k) /\ InHand(k) \in Int
      BY <1>0, <1>6, HandChange DEF DeliverStored, InHand, Taken, Flushes
    <2>3. RowCount' = RowCount /\ trend' = trend
      BY <1>6 DEF DeliverStored, RecordTopicStats, RowCount
    <2>4. \A k \in Kinds : owed[k] \in Int /\ delta[k] \in Nat
      BY DEF Types
    <2>5. RowCount \in Nat /\ trend \in Nat
      BY RowFields DEF Types
    <2>6. "stats" \in Kinds /\ "trends" \in Kinds
      BY DEF Kinds
    <2>7. ASSUME NEW o, NEW h \in Int, NEW n \in Nat, NEW d \in Nat, o = n + d + h
          PROVE  o + 1 = n + (d + 1) + h
      BY SMTT(30), <2>7
    <2>8. owed["stats"] + 1 = RowCount + (delta["stats"] + 1) + InHand("stats")
      BY <2>2, <2>4, <2>5, <2>6, <2>7 DEF CountersConserved
    <2>9. owed["trends"] + 1 = trend + (delta["trends"] + 1) + InHand("trends")
      BY <2>2, <2>4, <2>5, <2>6, <2>7 DEF CountersConserved
    <2> QED BY <2>1, <2>2, <2>3, <2>6, <2>8, <2>9 DEF CountersConserved
  <1>7. CASE ForgetConsumer
    BY <1>1, <1>7 DEF ForgetConsumer
  <1>8. CASE Restart
    <2>1. owed'["stats"] = (IF row = None THEN 0 ELSE row.count) /\ owed'["trends"] = trend'
      BY <1>8 DEF Restart, Kinds, RowCount
    <2> QED BY <1>8, <2>1, OpenCounts DEF Types, Restart
  <1>9. CASE CloseAndOpen
    <2> DEFINE n == delta["stats"]
               r(lost) == IF "stats" \in lost \/ n = 0 THEN row ELSE Added(n)
    <2>1. PICK lost \in SUBSET Kinds :
             /\ owed' = [k \in Kinds |-> IF k \in lost THEN owed[k] - delta[k] ELSE owed[k]]
             /\ trend' = IF "trends" \in lost THEN trend ELSE trend + delta["trends"]
             /\ Opens(r(lost))
      BY <1>9 DEF CloseAndOpen
    <2>2. InHand("stats") = 0 /\ InHand("trends") = 0
      BY <1>9, NothingInHand DEF CloseAndOpen
    <2>3. n \in Nat /\ delta["trends"] \in Nat /\ RowCount \in Nat /\ trend \in Nat
      BY RowFields DEF Types, Kinds
    <2>4. owed["stats"] = RowCount + n /\ owed["trends"] = trend + delta["trends"]
      <3>1. \A i, j \in Nat : i + j + 0 = i + j
        BY SMTT(30)
      <3> QED BY <2>2, <2>3, <3>1 DEF CountersConserved
    <2>5. \A i, j \in Nat : (i + j) - j = i /\ i + 0 = i
      BY SMTT(30)
    <2>6. owed'["trends"] = trend' /\ trend' \in Nat
      <3>1. "trends" \in Kinds
        BY DEF Kinds
      <3>2. CASE "trends" \in lost
        BY <2>1, <2>3, <2>4, <2>5, <3>1, <3>2
      <3>3. CASE "trends" \notin lost
        <4>1. owed'["trends"] = trend' /\ trend' = trend + delta["trends"]
          BY <2>1, <2>4, <3>1, <3>3
        <4> QED BY SMTT(30), <2>3, <4>1
      <3> QED BY <3>2, <3>3
    <2>7. /\ r(lost) \in Rows \cup {None} /\ (r(lost) = None => row = None)
          /\ owed'["stats"] = IF r(lost) = None THEN 0 ELSE r(lost).count
      <3>1. owed'["stats"] = IF "stats" \in lost THEN owed["stats"] - n ELSE owed["stats"]
        BY <2>1 DEF Kinds
      <3>2. CASE "stats" \in lost \/ n = 0
        <4>1. owed'["stats"] = RowCount
          BY <2>3, <2>4, <2>5, <3>1, <3>2
        <4> QED BY <3>2, <4>1 DEF Types, RowCount
      <3>3. CASE ~("stats" \in lost \/ n = 0)
        <4>1. Added(n) \in Rows /\ Added(n).count = RowCount + n
          <5>1. CASE row = None
            BY SMTT(30), <2>3, <5>1 DEF Added, RowCount, Rows, Modes
          <5>2. CASE row # None
            <6>1. Added(n) = [row EXCEPT !.count = @ + n] /\ row \in Rows /\ RowCount = row.count
              BY <5>2 DEF Added, Types, RowCount
            <6> QED BY SMTT(30), <2>3, <6>1 DEF Rows
          <5> QED BY <5>1, <5>2
        <4>2. owed'["stats"] = RowCount + n
          BY <2>4, <3>1, <3>3
        <4> QED BY <3>3, <4>1, <4>2, NoneAssumption
      <3> QED BY <3>2, <3>3
    <2> HIDE DEF r
    <2> QED BY <2>1, <2>6, <2>7, OpenCounts
  <1>10. CASE UNCHANGED vars
    BY <1>1, <1>10 DEF vars
  <1> QED BY <1>2, <1>3, <1>4, <1>5, <1>6, <1>7, <1>8, <1>9, <1>10 DEF Next

\* The initial state.
LEMMA InitCounts == Init => Types /\ CountersConserved
  <1> SUFFICES ASSUME Init PROVE Types /\ CountersConserved
    OBVIOUS
  <1>1. Types
    <2>1. 0 \in Nat /\ 0 \in Int /\ 0 \in 0..MaxCalls /\ 0 \in 0..MaxFails
      BY SMTT(30), BoundAssumption
    <2> QED BY <2>1 DEF Init, Types
  <1>2. InHand("stats") = 0 /\ InHand("trends") = 0
    BY NothingInHand DEF Init
  <1>3. RowCount = 0 /\ trend = 0 /\ \A k \in Kinds : owed[k] = 0 /\ delta[k] = 0
    BY DEF Init, RowCount
  <1>4. 0 = 0 + 0 + 0
    BY SMTT(30)
  <1> QED BY <1>1, <1>2, <1>3, <1>4 DEF CountersConserved, Kinds

\* No event is counted twice or forgotten (db.rs, writer.rs): what the tables
\* say, what waits in memory and what flushes have in hand is together what
\* happened, for any number of calls that overlap, fail, clear or purge.
THEOREM CountersAreConserved == Spec => []CountersConserved
  BY InitCounts, NextTypes, NextCounts, PTL DEF Spec

\* The variables stay in their ranges; what is owed is never negative, because
\* the accounts balance.
THEOREM TopicsTypeCorrect == Spec => []TypeOK
  <1>1. Types /\ CountersConserved => TypeOK
    <2> SUFFICES ASSUME Types, CountersConserved PROVE owed \in [Kinds -> Nat]
      BY DEF Types, TypeOK
    <2>1. \A k : InHand(k) \in Nat
      <3> SUFFICES ASSUME NEW k PROVE InHand(k) \in Nat
        OBVIOUS
      <3> DEFINE f == [d \in Everyone |-> TakenBy(call[d], k)]
      <3>1. InHand(k) = SumFunction(f)
        BY TakenForm DEF InHand
      <3>2. f \in [Everyone -> Nat]
        BY TakenType DEF Types
      <3> HIDE DEF f
      <3> QED BY <3>1, <3>2, EveryoneFinite, SumNatural
    <2>2. RowCount \in Nat /\ trend \in Nat /\ \A k \in Kinds : delta[k] \in Nat
      BY RowFields DEF Types
    <2>3. \A i, j, k \in Nat : i + j + k \in Nat
      BY SMTT(30)
    <2>4. \A k \in Kinds : owed[k] \in Nat
      BY <2>1, <2>2, <2>3 DEF CountersConserved, Kinds
    <2> QED BY <2>4 DEF Types
  <1> QED BY <1>1, InitCounts, NextTypes, NextCounts, PTL DEF Spec

-----------------------------------------------------------------------------
(* Configured rows *)

Configured == row # None /\ row.configured

\* The counters leave the configuration alone.
LEMMA AddedConfigured ==
    ASSUME Types, Configured, NEW n \in Nat
    PROVE  Added(n) # None /\ Added(n).configured
  <1>1. row \in Rows /\ Added(n) = [row EXCEPT !.count = @ + n]
    BY DEF Types, Configured, Added
  <1>2. Added(n).configured = row.configured
    BY SMTT(30), <1>1 DEF Rows
  <1>3. Added(n) # None
    BY AddedType, NoneAssumption
  <1> QED BY <1>2, <1>3 DEF Configured

\* Every step leaves a configured row configured.
LEMMA NextConfigured == ASSUME Types, [Next]_vars, Configured PROVE Configured'
  <1>1. CASE row' = row
    BY <1>1 DEF Configured
  <1>2. ASSUME NEW n \in Nat, AddToRow(n) PROVE Configured'
    BY <1>2, AddedConfigured DEF Configured, AddToRow
  <1>3. ASSUME NEW c, NoteWrites(c) PROVE Configured'
    BY <1>1, <1>3 DEF NoteWrites, Configured
  <1>4. ASSUME NEW c, Configure(c) PROVE Configured'
    <2>1. PICK mode \in Modes : ConfigureWrites(c, mode)
      BY <1>4 DEF Configure
    <2>2. row' = [persistence |-> mode, configured |-> TRUE, count |-> RowCount]
      BY <2>1 DEF ConfigureWrites
    <2>3. row' \in Rows
      BY SMTT(30), <2>2, RowFields DEF Rows
    <2>4. row'.configured = TRUE
      BY <2>2
    <2> QED BY <2>3, <2>4, NoneAssumption DEF Configured
  <1>5. ASSUME NEW c, PurgesRow(c) PROVE Configured'
    BY <1>1, <1>5 DEF PurgesRow, DropRow, Configured
  <1>6. ASSUME NEW c, ResetsStats(c) PROVE Configured'
    <2>1. row \in Rows /\ row' = [row EXCEPT !.count = 0]
      BY <1>6 DEF ResetsStats, Configured, Types
    <2>2. row' \in Rows /\ row'.configured = row.configured
      BY SMTT(30), <2>1 DEF Rows
    <2> QED BY <2>2, NoneAssumption DEF Configured
  <1>7. ASSUME NEW r, Opens(r), r # None, r.configured PROVE Configured'
    BY <1>7 DEF Opens, Configured
  <1>8. CASE CloseAndOpen
    <2>1. delta["stats"] \in Nat
      BY DEF Types, Kinds
    <2> QED BY <1>7, <1>8, <2>1, AddedConfigured DEF CloseAndOpen, Configured
  <1>9. ASSUME NEW c \in Everyone, Step(c) PROVE Configured'
    <2>1. 0 \in Nat /\ 1 \in Nat
      BY SMTT(30)
    <2>2. CASE PublishStep(c)
      BY <1>1, <1>2, <2>1, <2>2
         DEF PublishStep, PublishFills, PublishStores, PublishFansOut, CountsDropped,
         BumpTopicStat
    <2>3. CASE FlushStep(c)
      <3>1. call[c] # Idle => call[c].n \in Nat
        BY CallFields
      <3> QED BY <1>1, <1>2, <2>3, <3>1 DEF FlushStep, FlushCommits, FlushFails, Flushes
    <2>4. CASE PurgeStep(c) \/ ClearStep(c)
      BY <1>1, <1>5, <1>6, <2>4 DEF PurgeStep, ClearStep, PurgeSelects, PurgesMessages,
         ClearsMessages
    <2>5. CASE ConfigStep(c) \/ SweepStep(c) \/ RegisterInserts(c)
      BY <1>1, <2>5 DEF ConfigStep, SweepStep, ConfigureCaches, Uncaches, SweepAsks, SweepDrops,
                        RegisterInserts
    <2> QED BY <1>9, <2>2, <2>3, <2>4, <2>5 DEF Step
  <1>10. ASSUME NEW c, \/ PublishReads(c) \/ RegisterUpdates(c) \/ SweepReads(c) \/ Clear(c)
                       \/ Snapshot(c) \/ FlushFirst(c, "purge", "select")
         PROVE  Configured'
    BY <1>1, <1>10 DEF PublishReads, RegisterUpdates, SweepReads, Clear, Snapshot, FlushFirst
  <1>11. CASE DeliverStored \/ ForgetConsumer \/ UNCHANGED vars \/ \E k \in Kinds : FlushTakes(k)
    BY <1>1, <1>11 DEF DeliverStored, ForgetConsumer, FlushTakes, vars
  <1>12. CASE Restart
    BY <1>7, <1>12 DEF Restart, Configured
  <1> QED BY <1>3, <1>4, <1>8, <1>9, <1>10, <1>11, <1>12 DEF Next, Upkeep

\* ConfigureTopics is for good (db.rs, configure_topics, note_subscribed_topic,
\* purge_idle_ephemeral, reset_topic_stats, connect): no step of anybody deletes the
\* row of a configured topic or makes it implicit again.
THEOREM ConfigurationStays == Spec => ConfiguredRowStays
  <1>1. Types /\ [Next]_vars => (Configured => Configured')
    BY NextConfigured
  <1>2. Init => Types
    BY InitCounts
  <1>3. (Configured => Configured') => [row # None /\ row.configured => row' # None /\ row'.configured]_vars
    BY DEF Configured
  <1> QED BY <1>1, <1>2, <1>3, NextTypes, PTL DEF Spec, ConfiguredRowStays

=============================================================================
