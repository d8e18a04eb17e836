------------------------------ MODULE KeyValue ------------------------------
(***************************************************************************)
(* What the cache promises its clients: a map whose entries end at their    *)
(* deadline, which loses an entry before that only when it is full.  The    *)
(* module Cache implements it.                                              *)
(***************************************************************************)
EXTENDS Integers, FiniteSets

CONSTANTS
    Keys,
    Values,
    Numbers,      \* the values that are integers
    Never,        \* the deadline of an entry without one
    Missing,      \* no entry
    MaxEntries,
    MaxTtl,       \* the longest time to live, in ticks of the clock
    PerSecond     \* ticks in a second

VARIABLES
    clock,
    kv,      \* the entries, [value, deadline] or Missing
    answer   \* the last answer given, with its kind; a sum with what was added

state == <<clock, kv, answer>>

Held(m) == {k \in Keys : m[k] # Missing}
Alive(e, now) == e # Missing /\ (e.deadline = Never \/ e.deadline > now)
AliveAt(m, now) == [k \in Keys |-> IF Alive(m[k], now) THEN m[k] ELSE Missing]

Init == clock = 0 /\ kv = [k \in Keys |-> Missing] /\ answer = <<"none">>

\* Time passes, and entries end.
Tick ==
    /\ clock' = clock + 1
    /\ kv' = AliveAt(kv, clock')
    /\ UNCHANGED answer

Entries == [value : Values, deadline : {Never} \cup (clock + 1)..(clock + MaxTtl)]

\* The new entry may have ended already.  Entries are lost, the new one or
\* others, only so that as many are left as there is room for.
Set(k) ==
    /\ answer' = <<"done">>
    /\ UNCHANGED clock
    /\ kv'[k] \in Entries \cup {Missing}
    /\ \A j \in Keys \ {k} : kv'[j] \in {kv[j], Missing}
    /\ Cardinality(Held(kv')) <= MaxEntries
    /\ (\E j \in Keys \ {k} : kv'[j] # kv[j]) => Cardinality(Held(kv')) = MaxEntries

Get(k) ==
    /\ answer' = IF kv[k] = Missing THEN <<"none">> ELSE <<"value", kv[k].value>>
    /\ UNCHANGED <<clock, kv>>

\* An entry that has ended may be reported as deleted.
Delete(k) ==
    /\ answer' \in {<<"found", b>> : b \in IF kv[k] = Missing THEN BOOLEAN ELSE {TRUE}}
    /\ kv' = [kv EXCEPT ![k] = Missing]
    /\ UNCHANGED clock

\* A new entry starts with what is added, and has a deadline to come; an old one
\* keeps its own.  The answer is the exact sum, if that is an integer of the width.
Incr(k) ==
    /\ \/ /\ kv[k] = Missing
          /\ kv'[k] \in Entries /\ kv'[k].value \in Numbers
          /\ answer' = <<"sum", kv'[k].value, kv'[k].value>>
       \/ /\ kv[k] # Missing /\ kv[k].value \in Numbers
          /\ kv'[k] \in {[kv[k] EXCEPT !.value = sum] : sum \in Numbers}
          /\ \E delta \in Numbers :
                /\ answer' = <<"sum", delta, kv'[k].value>>
                /\ kv[k].value + delta \in Numbers => kv'[k].value = kv[k].value + delta
       \/ /\ kv[k] # Missing /\ kv[k].value \notin Numbers
          /\ answer' = <<"error">>
          /\ kv'[k] = kv[k]
    /\ \A j \in Keys \ {k} : kv'[j] = kv[j]
    /\ UNCHANGED clock

Expire(k) ==
    /\ answer' = <<"found", kv[k] # Missing>>
    /\ kv'[k] \in IF kv[k] = Missing THEN {Missing}
                  ELSE {e \in Entries : e.value = kv[k].value}
    /\ \A j \in Keys \ {k} : kv'[j] = kv[j]
    /\ UNCHANGED clock

\* -2 without an entry, -1 without a deadline, else the whole seconds left.
Ttl(k) ==
    /\ answer' = <<"ttl", IF kv[k] = Missing THEN -2
                          ELSE IF kv[k].deadline = Never THEN -1
                          ELSE (kv[k].deadline - clock) \div PerSecond>>
    /\ UNCHANGED <<clock, kv>>

List ==
    /\ answer' = <<"keys", Held(kv)>>
    /\ UNCHANGED <<clock, kv>>

\* The broker starts again, with nothing.
Lose ==
    /\ kv' = [k \in Keys |-> Missing]
    /\ UNCHANGED <<clock, answer>>

-----------------------------------------------------------------------------
Next ==
    \/ Tick
    \/ \E k \in Keys : Set(k) \/ Incr(k) \/ Expire(k) \/ Get(k) \/ Delete(k) \/ Ttl(k)
    \/ List \/ Lose

Spec == Init /\ [][Next]_state

=============================================================================
