----------------------------- MODULE LocksProofs -----------------------------
(***************************************************************************)
(* Proofs about Locks for every number of owners and every time to live:    *)
(* types, the exclusion of owners, and what is_locked tells.                *)
(***************************************************************************)
EXTENDS Locks, TLAPS

\* Leaves are left to Zenon, but for those that cite SMT.
USE ZenonT(60)

-----------------------------------------------------------------------------
(* Types *)

\* The initial state is well typed.
LEMMA InitType == Init => TypeOK
  BY SMTT(30), ClockAssumption DEF Init, TypeOK

\* A call that is not idle is a call.
LEMMA CallType ==
    ASSUME TypeOK, NEW o \in Owners, call[o] # Idle
    PROVE  call[o] \in Calls
  BY DEF TypeOK

\* A call that starts is a call.
LEMMA StartType ==
    ASSUME TypeOK, NEW o \in Owners, NEW op \in {"acquire", "renew", "release"},
           NEW stage \in {"delete", "sql"}, Start(o, op, stage)
    PROVE  call' \in [Owners -> Calls \cup {Idle}]
  <1>1. [op |-> op, stage |-> stage, start |-> clock, since |-> clock, ok |-> FALSE] \in Calls
    BY SMTT(30), ClockAssumption DEF TypeOK, Calls
  <1> QED BY <1>1 DEF Start, TypeOK

\* A statement that replies leaves a call.
LEMMA ReplyType ==
    ASSUME TypeOK, NEW o \in Owners, call[o] # Idle, NEW b \in BOOLEAN, Reply(o, b)
    PROVE  call' \in [Owners -> Calls \cup {Idle}]
  <1>1. [call[o] EXCEPT !.stage = "answer", !.ok = b] \in Calls
    BY CallType DEF Calls
  <1>2. call' = [call EXCEPT ![o] = [call[o] EXCEPT !.stage = "answer", !.ok = b]]
    BY DEF Reply, TypeOK
  <1> QED BY <1>1, <1>2 DEF TypeOK

\* Every step keeps the types.
LEMMA NextType == TypeOK /\ [Next]_vars => TypeOK'
  <1> SUFFICES ASSUME TypeOK, [Next]_vars PROVE TypeOK'
    OBVIOUS
  <1> USE ClockAssumption
  <1>1. CASE Tick \/ UNCHANGED vars
    <2>1. CASE Tick
      <3>1. until' \in [Owners -> Nat]
        BY SMTT(30), <2>1 DEF Tick, TypeOK
      <3>2. clock' \in 0..MaxClock
        BY SMTT(30), <2>1 DEF Tick, TypeOK
      <3> QED BY <2>1, <3>1, <3>2 DEF Tick, TypeOK, row
    <2>2. CASE UNCHANGED vars
      BY <2>2 DEF TypeOK, vars, row
    <2> QED BY <1>1, <2>1, <2>2
  <1>2. ASSUME NEW o \in Owners, StartAcquire(o) \/ StartRenew(o) \/ StartRelease(o)
        PROVE  TypeOK'
    <2>1. call' \in [Owners -> Calls \cup {Idle}]
      BY <1>2, StartType DEF StartAcquire, StartRenew, StartRelease
    <2>2. until' \in [Owners -> Nat]
      BY SMTT(30), <1>2 DEF StartAcquire, StartRenew, StartRelease, TypeOK
    <2>3. /\ clock' = clock /\ owner' = owner /\ expire' = expire /\ crashed' = crashed
          /\ look' = look
      BY <1>2 DEF StartAcquire, StartRenew, StartRelease, Start, row
    <2> QED BY <2>1, <2>2, <2>3 DEF TypeOK
  <1>3. ASSUME NEW o \in Owners, DeleteExpired(o) PROVE TypeOK'
    <2>0. call[o] \in Calls /\ clock \in Nat
      BY SMTT(30), <1>3, CallType DEF DeleteExpired, At, TypeOK
    <2>1. [call[o] EXCEPT !.stage = "sql", !.since = clock] \in Calls
      BY <2>0 DEF Calls
    <2>2. call' = [call EXCEPT ![o] = [call[o] EXCEPT !.stage = "sql", !.since = clock]]
      BY <1>3 DEF DeleteExpired, TypeOK
    <2>3. call' \in [Owners -> Calls \cup {Idle}]
      BY <2>1, <2>2 DEF TypeOK
    <2>4. owner' \in Owners \cup {Nobody} /\ expire' \in {expire, 0}
      BY <1>3 DEF DeleteExpired, DeleteRow, TypeOK, row
    <2>5. expire' \in 0..MaxClock
      BY SMTT(30), <2>4 DEF TypeOK
    <2> QED BY <1>3, <2>3, <2>4, <2>5 DEF DeleteExpired, TypeOK
  <1>4. ASSUME NEW o \in Owners, Insert(o) \/ Renew(o) \/ Release(o) PROVE TypeOK'
    <2>0. call[o] # Idle /\ call[o].since \in Nat /\ TtlOf[o] \in Nat
      BY <1>4, CallType, TtlAssumption DEF Insert, Renew, Release, At, Calls
    <2>1. \E b \in BOOLEAN : Reply(o, b)
      BY <1>4 DEF Insert, Renew, Release
    <2>2. call' \in [Owners -> Calls \cup {Idle}]
      BY <2>0, <2>1, ReplyType
    <2>3. UNCHANGED <<clock, until, crashed, look>>
      BY <2>1 DEF Reply
    <2>4. owner' \in {owner, o, Nobody}
      BY <1>4 DEF Insert, Renew, Release, DeleteRow, row
    <2>5. expire' \in 0..MaxClock
      <3>1. CASE Insert(o)
        <4>1. expire' = expire \/ \E now \in call[o].since..clock :
                 now + TtlOf[o] <= MaxClock /\ expire' = now + TtlOf[o]
          BY <3>1 DEF Insert, row
        <4> QED BY SMTT(30), <2>0, <4>1 DEF TypeOK
      <3>2. CASE Renew(o)
        BY SMTT(30), <2>0, <3>2 DEF Renew, TypeOK
      <3>3. CASE Release(o)
        <4>1. expire' \in {expire, 0}
          BY <3>3 DEF Release, DeleteRow, row
        <4> QED BY SMTT(30), <4>1 DEF TypeOK
      <3> QED BY <1>4, <3>1, <3>2, <3>3
    <2> QED BY <2>2, <2>3, <2>4, <2>5 DEF TypeOK
  <1>5. ASSUME NEW o \in Owners, Answer(o) \/ LoseAnswer(o) PROVE TypeOK'
    <2>1. Ahead(call[o].start + TtlOf[o]) \in Nat
      BY SMTT(30), <1>5, CallType, TtlAssumption DEF Answer, LoseAnswer, Calls, Ahead
    <2>2. call' \in [Owners -> Calls \cup {Idle}]
      BY <1>5 DEF Answer, LoseAnswer, TypeOK
    <2>3. \/ until' = [until EXCEPT ![o] = Ahead(call[o].start + TtlOf[o])]
          \/ until' = [until EXCEPT ![o] = 0]
          \/ until' = until
      BY <1>5 DEF Answer, LoseAnswer
    <2>4. until' \in [Owners -> Nat]
      BY SMTT(30), <2>1, <2>3 DEF TypeOK
    <2> QED BY <1>5, <2>2, <2>4 DEF Answer, LoseAnswer, TypeOK, row
  <1>6. ASSUME NEW o \in Owners, Crash(o) PROVE TypeOK'
    BY <1>6 DEF Crash, TypeOK, row
  <1>7. ASSUME NEW o \in Owners, IsLockedSelects(o) PROVE TypeOK'
    <2>1. look' \in Looks
      BY SMTT(30), <1>7 DEF IsLockedSelects, Looks, TypeOK
    <2> QED BY <1>7, <2>1 DEF IsLockedSelects, TypeOK, row
  <1>8. CASE PurgeExpired
    <2>1. expire' \in 0..MaxClock
      BY SMTT(30), <1>8 DEF PurgeExpired, DeleteRow
    <2> QED BY <1>8, <2>1 DEF PurgeExpired, DeleteRow, TypeOK
  <1>9. CASE Restart \/ IsLockedAnswers
    BY <1>9 DEF Restart, IsLockedAnswers, TypeOK, row
  <1> QED BY <1>1, <1>2, <1>3, <1>4, <1>5, <1>6, <1>7, <1>8, <1>9 DEF Next

\* The row, the calls and what the owners rely on stay in their ranges, for
\* any owners (cache.rs:272-366).
THEOREM TypeCorrect == Spec => []TypeOK
  BY InitType, NextType, PTL DEF Spec

-----------------------------------------------------------------------------
(* The row backs what owners rely on.                                       *)
(*                                                                          *)
(* until alone is not inductive.  An answer under way grants what its       *)
(* statement wrote some time ago, and a renewal replaces the deadline by    *)
(* one counted from an old clock reading: it must not be earlier than what  *)
(* the owner was told before.                                               *)

\* A deadline d that lies ahead is backed by a row of o that lives as long.
Backs(o, d) == d > clock => owner = o /\ expire >= d

Granted(o) == call[o].stage = "answer" /\ call[o].ok = TRUE /\ call[o].op # "release"

CallInv(o) ==
    call[o] # Idle =>
        /\ call[o].start <= call[o].since /\ call[o].since <= clock
        /\ until[o] <= call[o].start + TtlOf[o]
        /\ call[o].op = "release" => until[o] = 0
        /\ Granted(o) => Backs(o, call[o].start + TtlOf[o])

OwnerInv(o) ==
    /\ Backs(o, until[o])
    /\ until[o] <= clock + TtlOf[o]
    /\ CallInv(o)

IInv == \A o \in Owners : OwnerInv(o)

\* The numbers of an owner.
LEMMA OwnerNumbers ==
    ASSUME TypeOK, NEW o \in Owners
    PROVE  /\ clock \in Nat /\ expire \in Nat /\ until[o] \in Nat /\ TtlOf[o] \in Nat
           /\ call[o] # Idle => /\ call[o].start \in Nat /\ call[o].since \in Nat
                               /\ call[o].ok \in BOOLEAN
  <1>1. clock \in Nat /\ expire \in Nat /\ until[o] \in Nat /\ TtlOf[o] \in Nat
    BY SMTT(30), ClockAssumption, TtlAssumption DEF TypeOK
  <1>2. call[o] # Idle => call[o].start \in Nat /\ call[o].since \in Nat /\ call[o].ok \in BOOLEAN
    BY CallType DEF Calls
  <1> QED BY <1>1, <1>2

\* Nothing is promised at first.
LEMMA InitInv == Init => IInv
  <1> SUFFICES ASSUME Init, NEW o \in Owners PROVE OwnerInv(o)
    BY DEF IInv
  <1>1. clock = 0 /\ until[o] = 0 /\ call[o] = Idle /\ TtlOf[o] \in Nat
    BY TtlAssumption DEF Init
  <1> QED BY SMTT(30), <1>1 DEF OwnerInv, Backs, CallInv

\* An owner that a step does not speak of keeps its invariant, if the step
\* leaves a live row of that owner alone.
LEMMA OthersKept ==
    ASSUME TypeOK, TypeOK', NEW o \in Owners, OwnerInv(o),
           clock' = clock, until'[o] = until[o], call'[o] = call[o] \/ call'[o] = Idle,
           owner = o /\ expire > clock => owner' = o /\ expire' >= expire
    PROVE  OwnerInv(o)'
  <1>0. /\ clock \in Nat /\ expire \in Nat /\ expire' \in Nat /\ until[o] \in Nat /\ TtlOf[o] \in Nat
    BY SMTT(30), OwnerNumbers, ClockAssumption DEF TypeOK
  <1>1. ASSUME NEW d \in Nat, Backs(o, d) PROVE d > clock => owner' = o /\ expire' >= d
    BY SMTT(30), <1>0, <1>1 DEF Backs
  <1>2. Backs(o, until[o])' /\ (until[o] <= clock + TtlOf[o])'
    BY <1>0, <1>1 DEF OwnerInv, Backs
  <1>3. CASE call'[o] = Idle
    BY <1>2, <1>3 DEF OwnerInv, CallInv
  <1>4. CASE call'[o] = call[o] /\ call[o] # Idle
    <2>0. call[o].start + TtlOf[o] \in Nat
      BY SMTT(30), <1>0, <1>4, OwnerNumbers
    <2>1. Granted(o)' => Backs(o, call[o].start + TtlOf[o])'
      BY <1>1, <1>4, <2>0 DEF OwnerInv, CallInv, Backs, Granted
    <2>2. CallInv(o)'
      BY <1>4, <2>1 DEF OwnerInv, CallInv
    <2> QED BY <1>2, <2>2 DEF OwnerInv
  <1> QED BY <1>3, <1>4

\* What a reply of owner o has to show.
LEMMA ReplyKept ==
    ASSUME TypeOK, TypeOK', NEW o \in Owners, OwnerInv(o), call[o] # Idle,
           NEW b \in BOOLEAN, Reply(o, b),
           Backs(o, until[o])',
           b = TRUE /\ call[o].op # "release" =>
               owner' = o /\ expire' >= call[o].start + TtlOf[o]
    PROVE  OwnerInv(o)'
  <1>0. /\ clock \in Nat /\ until[o] \in Nat /\ TtlOf[o] \in Nat /\ call[o].start \in Nat
        /\ call[o].since \in Nat
    BY OwnerNumbers
  <1>1. clock' = clock /\ until'[o] = until[o]
    BY DEF Reply
  <1>2. call'[o] = [call[o] EXCEPT !.stage = "answer", !.ok = b]
    BY DEF Reply, TypeOK
  <1>3. /\ call'[o].start = call[o].start /\ call'[o].since = call[o].since
        /\ call'[o].op = call[o].op /\ call'[o].ok = b
    BY <1>2, CallType DEF Calls
  <1>4. Granted(o)' => Backs(o, call[o].start + TtlOf[o])'
    BY <1>3 DEF Granted, Backs
  <1> QED BY <1>0, <1>1, <1>3, <1>4 DEF OwnerInv, CallInv, Backs

\* A statement of owner o: the acquire's INSERT, the renewal, the release.
LEMMA StatementInv ==
    ASSUME TypeOK, TypeOK', IInv, NEW o \in Owners, Insert(o) \/ Renew(o) \/ Release(o)
    PROVE  IInv'
  <1>0. /\ call[o] # Idle /\ clock \in Nat /\ expire \in Nat /\ until[o] \in Nat
        /\ TtlOf[o] \in Nat /\ call[o].start \in Nat /\ call[o].since \in Nat
    BY OwnerNumbers DEF Insert, Renew, Release, At
  <1>1. PICK b \in BOOLEAN :
           /\ Reply(o, b)
           /\ \/ /\ b = TRUE /\ call[o].op # "release" /\ owner \in {o, Nobody} /\ owner' = o
                 /\ \E now \in call[o].since..clock : expire' = now + TtlOf[o]
              \/ /\ call[o].op = "release"
                 /\ owner = o \/ (owner' = owner /\ expire' = expire)
              \/ b = FALSE /\ owner' = owner /\ expire' = expire
    <2>1. CASE Insert(o)
      <3>1. CASE owner = Nobody
        BY <2>1, <3>1 DEF Insert, At
      <3>2. CASE owner # Nobody
        BY <2>1, <3>2 DEF Insert, row
      <3> QED BY <3>1, <3>2
    <2>2. CASE Renew(o)
      <3>1. CASE owner = o
        BY <2>2, <3>1 DEF Renew, At
      <3>2. CASE owner # o
        BY <2>2, <3>2 DEF Renew
      <3> QED BY <3>1, <3>2
    <2>3. CASE Release(o)
      <3>1. Reply(o, owner = o) /\ (owner = o) \in BOOLEAN
        BY <2>3 DEF Release
      <3>2. owner = o \/ (owner' = owner /\ expire' = expire)
        BY <2>3 DEF Release, row
      <3> QED BY <2>3, <3>1, <3>2 DEF Release, At
    <2> QED BY <2>1, <2>2, <2>3
  <1>2. call[o].start <= call[o].since /\ until[o] <= call[o].start + TtlOf[o]
    BY <1>0 DEF IInv, OwnerInv, CallInv
  <1>3. clock' = clock /\ until' = until
    BY <1>1 DEF Reply
  <1>4. OwnerInv(o)'
    <2>1. CASE b = TRUE /\ call[o].op # "release"
      <3>1. owner' = o /\ \E now \in call[o].since..clock : expire' = now + TtlOf[o]
        BY <1>1, <2>1
      <3>2. expire' >= call[o].start + TtlOf[o] /\ expire' >= until[o]
        BY SMTT(30), <1>0, <1>2, <3>1
      <3>3. Backs(o, until[o])'
        BY <1>3, <3>1, <3>2 DEF Backs
      <3> QED BY <1>0, <1>1, <3>1, <3>2, <3>3, ReplyKept DEF IInv
    <2>2. CASE call[o].op = "release"
      <3>1. until[o] = 0
        BY <1>0, <2>2 DEF IInv, OwnerInv, CallInv
      <3>2. Backs(o, until[o])'
        BY SMTT(30), <1>0, <1>3, <3>1 DEF Backs
      <3> QED BY <1>0, <1>1, <2>2, <3>2, ReplyKept DEF IInv
    <2>3. CASE b = FALSE /\ owner' = owner /\ expire' = expire
      <3>1. Backs(o, until[o])'
        BY <1>3, <2>3 DEF IInv, OwnerInv, Backs
      <3> QED BY <1>0, <1>1, <2>3, <3>1, ReplyKept DEF IInv
    <2> QED BY <1>1, <2>1, <2>2, <2>3
  <1>5. ASSUME NEW p \in Owners, p # o PROVE OwnerInv(p)'
    <2>1. call'[p] = call[p]
      BY <1>1, <1>5 DEF Reply, TypeOK
    <2>2. owner = p => owner' = p /\ expire' = expire
      BY <1>1, <1>5, OwnerAssumption
    <2> QED BY SMTT(30), <1>0, <1>3, <2>1, <2>2, OthersKept DEF IInv
  <1> QED BY <1>4, <1>5 DEF IInv

\* The inductive invariant is kept by every step.
LEMMA NextInv == TypeOK /\ TypeOK' /\ IInv /\ [Next]_vars => IInv'
  <1> SUFFICES ASSUME TypeOK, TypeOK', IInv, [Next]_vars PROVE IInv'
    OBVIOUS
  <1>1. CASE Tick
    <2> SUFFICES ASSUME NEW o \in Owners PROVE OwnerInv(o)'
      BY DEF IInv
    <2>1. /\ clock' = clock + 1 /\ call' = call /\ until'[o] \in {until[o], 0}
          /\ owner' = owner /\ expire' = expire
      BY <1>1 DEF Tick, row
    <2> QED BY SMTT(30), <2>1, OwnerNumbers DEF IInv, OwnerInv, CallInv, Backs, Granted
  <1>2. ASSUME clock' = clock, until' = until,
               \A o \in Owners : call'[o] = call[o] \/ call'[o] = Idle,
               (owner' = owner /\ expire' = expire) \/ expire <= clock
        PROVE  IInv'
    <2> SUFFICES ASSUME NEW o \in Owners PROVE OwnerInv(o)'
      BY DEF IInv
    <2>1. owner = o /\ expire > clock => owner' = o /\ expire' >= expire
      BY SMTT(30), <1>2, OwnerNumbers
    <2> QED BY <1>2, <2>1, OthersKept DEF IInv
  <1>3. CASE \/ UNCHANGED vars \/ PurgeExpired \/ Restart \/ IsLockedAnswers
            \/ \E o \in Owners : Crash(o) \/ IsLockedSelects(o)
    BY <1>2, <1>3 DEF vars, row, PurgeExpired, Restart, Crash, IsLockedSelects, IsLockedAnswers
  <1>4. ASSUME NEW o \in Owners, LoseAnswer(o) PROVE IInv'
    BY <1>2, <1>4 DEF LoseAnswer, row, TypeOK
  <1>5. ASSUME NEW o \in Owners, StartAcquire(o) \/ StartRenew(o) \/ StartRelease(o)
        PROVE  IInv'
    <2>0. clock \in Nat /\ until[o] \in Nat /\ TtlOf[o] \in Nat
      BY OwnerNumbers
    <2>1. /\ clock' = clock /\ owner' = owner /\ expire' = expire
          /\ \A p \in Owners \ {o} : call'[p] = call[p] /\ until'[p] = until[p]
      BY <1>5 DEF StartAcquire, StartRenew, StartRelease, Start, row, TypeOK
    <2>2. /\ call'[o].stage # "answer" /\ call'[o].start = clock /\ call'[o].since = clock
          /\ until'[o] \in {until[o], 0} /\ (call'[o].op = "release" => until'[o] = 0)
      BY SMTT(30), <1>5 DEF StartAcquire, StartRenew, StartRelease, Start, TypeOK
    <2>3. OwnerInv(o)'
      BY SMTT(30), <2>0, <2>1, <2>2 DEF IInv, OwnerInv, CallInv, Backs, Granted
    <2>4. ASSUME NEW p \in Owners \ {o} PROVE OwnerInv(p)'
      BY SMTT(30), <2>1, OthersKept, OwnerNumbers DEF IInv
    <2> QED BY <2>3, <2>4 DEF IInv
  <1>6. ASSUME NEW o \in Owners, DeleteExpired(o) PROVE IInv'
    <2>0. /\ clock \in Nat /\ expire \in Nat /\ until[o] \in Nat /\ TtlOf[o] \in Nat
          /\ call[o].start \in Nat /\ call[o].since \in Nat /\ call[o] \in Calls
      BY <1>6, OwnerNumbers, CallType DEF DeleteExpired, At
    <2>1. /\ clock' = clock /\ until' = until
          /\ \A p \in Owners \ {o} : call'[p] = call[p]
          /\ call'[o] = [call[o] EXCEPT !.stage = "sql", !.since = clock]
      BY <1>6 DEF DeleteExpired, TypeOK
    <2>2. (owner' = owner /\ expire' = expire) \/ expire <= clock
      BY SMTT(30), <1>6, <2>0 DEF DeleteExpired, row
    <2>3. /\ call'[o].stage = "sql" /\ call'[o].since = clock
          /\ call'[o].start = call[o].start /\ call'[o].op = call[o].op
      BY <2>0, <2>1 DEF Calls
    <2>4. call[o] # Idle
      BY <1>6 DEF DeleteExpired, At
    <2>5. OwnerInv(o)'
      BY SMTT(30), <2>0, <2>1, <2>2, <2>3, <2>4 DEF IInv, OwnerInv, CallInv, Backs, Granted
    <2>6. ASSUME NEW p \in Owners \ {o} PROVE OwnerInv(p)'
      <3>1. owner = p /\ expire > clock => owner' = p /\ expire' >= expire
        BY SMTT(30), <2>0, <2>1, <2>2
      <3> QED BY <2>1, <3>1, OthersKept DEF IInv
    <2> QED BY <2>5, <2>6 DEF IInv
  <1>7. ASSUME NEW o \in Owners, Insert(o) \/ Renew(o) \/ Release(o) PROVE IInv'
    BY <1>7, StatementInv
  <1>8. ASSUME NEW o \in Owners, Answer(o) PROVE IInv'
    <2>0. /\ clock \in Nat /\ until[o] \in Nat /\ TtlOf[o] \in Nat /\ call[o] # Idle
          /\ call[o].start \in Nat /\ call[o].since \in Nat /\ call[o].ok \in BOOLEAN
      BY <1>8, OwnerNumbers DEF Answer
    <2>1. /\ clock' = clock /\ owner' = owner /\ expire' = expire /\ call'[o] = Idle
          /\ \A p \in Owners \ {o} : call'[p] = call[p] /\ until'[p] = until[p]
      BY <1>8 DEF Answer, row, TypeOK
    <2>2. \/ until'[o] \in {until[o], 0}
          \/ Granted(o) /\ until'[o] = Ahead(call[o].start + TtlOf[o])
      BY <1>8, <2>0 DEF Answer, TypeOK, Granted
    <2>3. OwnerInv(o)'
      BY SMTT(30), <2>0, <2>1, <2>2 DEF IInv, OwnerInv, CallInv, Backs, Ahead
    <2>4. ASSUME NEW p \in Owners \ {o} PROVE OwnerInv(p)'
      BY SMTT(30), <2>1, OthersKept, OwnerNumbers DEF IInv
    <2> QED BY <2>3, <2>4 DEF IInv
  <1> QED BY <1>1, <1>3, <1>4, <1>5, <1>6, <1>7, <1>8 DEF Next

-----------------------------------------------------------------------------
(* is_locked answers by a row that may be gone.  What it found backed what  *)
(* owners relied on then, and the clock has only gone on since.             *)

LookInv ==
    look # NotLooking /\ look.relied > clock =>
        look.row = "found" /\ look.deadline >= look.relied

\* Nothing was looked at in the beginning.
LEMMA InitLook == Init => LookInv
  BY DEF Init, LookInv

\* Every step keeps it: the SELECT by what the row is worth at that moment.
LEMMA NextLook == TypeOK /\ IInv /\ LookInv /\ [Next]_vars => LookInv'
  <1> SUFFICES ASSUME TypeOK, IInv, LookInv, [Next]_vars PROVE LookInv'
    OBVIOUS
  <1>0. clock \in Nat /\ (look # NotLooking => look.relied \in Nat)
    <2>1. clock \in Nat
      BY SMTT(30), ClockAssumption DEF TypeOK
    <2>2. look # NotLooking => look.relied \in Nat
      BY DEF TypeOK, Looks
    <2> QED BY <2>1, <2>2
  <1>1. CASE Tick
    <2>1. clock' = clock + 1 /\ look' = look
      BY <1>1 DEF Tick
    <2> QED BY SMTT(30), <1>0, <2>1 DEF LookInv
  <1>2. ASSUME NEW o \in Owners, IsLockedSelects(o) PROVE LookInv'
    <2>1. /\ clock' = clock /\ look'.deadline = expire /\ look'.relied = until[o]
          /\ look'.row = IF owner = Nobody THEN "none" ELSE "found"
      BY <1>2 DEF IsLockedSelects
    <2>2. until[o] > clock => owner = o /\ expire >= until[o]
      BY DEF IInv, OwnerInv, Backs
    <2> QED BY <2>1, <2>2, OwnerAssumption DEF LookInv
  <1>3. CASE clock' = clock /\ look' \in {look, NotLooking}
    BY <1>3 DEF LookInv
  <1>4. ASSUME NEW o \in Owners, Insert(o) \/ Renew(o) \/ Release(o) PROVE LookInv'
    BY <1>3, <1>4 DEF Insert, Renew, Release, Reply
  <1>5. ASSUME NEW o \in Owners,
               \/ StartAcquire(o) \/ StartRenew(o) \/ StartRelease(o) \/ DeleteExpired(o)
               \/ Answer(o) \/ LoseAnswer(o) \/ Crash(o)
        PROVE  LookInv'
    BY <1>3, <1>5 DEF StartAcquire, StartRenew, StartRelease, Start, DeleteExpired, Answer,
                      LoseAnswer, Crash
  <1>6. CASE UNCHANGED vars \/ PurgeExpired \/ IsLockedAnswers \/ Restart
    BY <1>3, <1>6 DEF vars, PurgeExpired, IsLockedAnswers, Restart
  <1> QED BY <1>1, <1>2, <1>4, <1>5, <1>6 DEF Next

-----------------------------------------------------------------------------
\* The inductive invariant holds throughout.
LEMMA Invariant == Spec => [](TypeOK /\ IInv /\ LookInv)
  <1>1. TypeOK /\ IInv /\ LookInv /\ [Next]_vars => (TypeOK /\ IInv /\ LookInv)'
    BY NextType, NextInv, NextLook
  <1> QED BY InitType, InitInv, InitLook, <1>1, PTL DEF Spec

\* Two owners never rely on the lock at the same time (cache.rs:272-330),
\* whatever statements are late, answers lost and leases renewed after they
\* expired.
THEOREM LocksExclude == Spec => []ExclusiveOwners
  <1>1. TypeOK /\ IInv => ExclusiveOwners
    BY DEF IInv, OwnerInv, Backs, ExclusiveOwners, Relies
  <1> QED BY <1>1, Invariant, PTL

\* is_locked (cache.rs:320-331), which reads the row and then the clock, answers
\* TRUE if a lease that was relied on when it read the row still runs, whatever
\* happens to the row in between.
THEOREM HoldersAreSeen == Spec => []HolderIsLocked
  <1>1. ASSUME TypeOK, LookInv, look # NotLooking, look.relied > clock PROVE is_locked
    <2>1. clock \in Nat /\ look.relied \in Nat /\ look.deadline \in Nat
      <3>1. clock \in Nat
        BY SMTT(30), <1>1, ClockAssumption DEF TypeOK
      <3>2. look \in Looks
        BY <1>1 DEF TypeOK
      <3> QED BY <3>1, <3>2 DEF Looks
    <2>2. look.row = "found" /\ look.deadline >= look.relied
      BY <1>1 DEF LookInv
    <2> QED BY SMTT(30), <1>1, <2>1, <2>2 DEF is_locked
  <1>2. TypeOK /\ LookInv => HolderIsLocked
    BY <1>1 DEF HolderIsLocked
  <1> QED BY <1>2, Invariant, PTL

=============================================================================
