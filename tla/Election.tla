------------------------------ MODULE Election ------------------------------
(***************************************************************************)
(* Lease election with fencing terms (src/src/election.rs), one election:   *)
(* the row of sys_election, and the campaign, renew and resign calls that   *)
(* candidates make.  Elections of other names have rows of their own and    *)
(* share nothing with it.                                                   *)
(*                                                                          *)
(* A call reads the clock first and runs its SQL statement later, any time  *)
(* later: the connection pool and SQLite's write lock make it wait.  A      *)
(* campaign whose statement matched no row reads the row in a second        *)
(* statement, and judges it by a clock it reads after that.                 *)
(*                                                                          *)
(* A candidate makes one call at a time and keeps to one time to live, as   *)
(* the clients' ElectionHandle does.  A call that the client gives up may   *)
(* still run its statement; such calls are the orphans.                     *)
(***************************************************************************)
EXTENDS Integers, FiniteSets

CONSTANTS
    Candidates,
    Nobody,      \* no candidate
    TtlOf,       \* ttl_seconds of a candidate's calls
    MaxClock,    \* bound: the clock stops here
    MaxTerm,     \* bound: number of elections won
    MaxOrphans   \* bound: abandoned calls whose statement has yet to run

ASSUME CandidateAssumption == Nobody \notin Candidates
ASSUME TtlAssumption == TtlOf \in [Candidates -> Nat \ {0}]
ASSUME BoundAssumption == MaxClock \in Nat /\ MaxTerm \in Nat /\ MaxOrphans \in Nat

VARIABLES
    clock,
    leader, term, lease, expire, \* the row of sys_election; term 0 when there is none
    issued,   \* number of lease ids in use so far (Uuid::new_v4 never repeats)
    call,     \* per candidate: the call it waits for
    orphans,  \* calls given up by their candidate
    grants,   \* the (leader, term, lease) tuples that answers contained
    told,     \* per term: until when its leader was told to lead
    patient   \* no candidate has given up a call so far

row == <<leader, term, lease, expire, issued>>
vars == <<clock, row, call, orphans, grants, told, patient>>

Terms == 1..MaxTerm
Tuples == [leader : Candidates, term : Terms, lease : Nat]
NoView == [leader |-> Nobody, term |-> 0, lease |-> 0, expire |-> 0]
Views == [leader : Candidates, term : Terms, lease : Nat, expire : Nat] \cup {NoView}
Row == [leader |-> leader, term |-> term, lease |-> lease, expire |-> expire]

\* stage "sql": the statement has yet to run; "get": a campaign that has to
\* read the row; "answer": seen is the row that will be answered.
Calls == [op : {"campaign", "renew", "resign"}, who : Candidates,
          stage : {"sql", "get", "answer"}, now : Nat,
          term : Nat, lease : Nat, seen : Views]
Idle == [op |-> "none"]

TypeOK ==
    /\ clock \in Nat
    /\ Row \in Views
    /\ issued \in Nat
    /\ call \in [Candidates -> Calls \cup {Idle}]
    /\ orphans \in SUBSET Calls
    /\ grants \in SUBSET Tuples
    /\ told \in [Terms -> Nat]
    /\ patient \in BOOLEAN

Init ==
    /\ clock = 0
    /\ leader = Nobody /\ term = 0 /\ lease = 0 /\ expire = 0
    /\ issued = 0
    /\ call = [c \in Candidates |-> Idle]
    /\ orphans = {}
    /\ grants = {}
    /\ told = [t \in Terms |-> 0]
    /\ patient = TRUE

Tick ==
    /\ clock < MaxClock
    /\ clock' = clock + 1
    /\ UNCHANGED <<row, call, orphans, grants, told, patient>>

-----------------------------------------------------------------------------
(* A call starts: the service reads the clock. *)

Start(c, op, t, l) ==
    /\ call[c] = Idle
    /\ call' = [call EXCEPT ![c] = [op |-> op, who |-> c, stage |-> "sql", now |-> clock,
                                    term |-> t, lease |-> l, seen |-> NoView]]
    /\ UNCHANGED <<clock, row, orphans, grants, patient>>

StartCampaign(c) ==
    /\ Start(c, "campaign", 0, 0)
    /\ UNCHANGED told

StartRenew(c, g) ==
    /\ g.leader = c
    /\ Start(c, "renew", g.term, g.lease)
    /\ UNCHANGED told

\* A leader that resigns no longer relies on its lease.
StartResign(c, g) ==
    /\ g.leader = c
    /\ Start(c, "resign", g.term, g.lease)
    /\ told' = [told EXCEPT ![g.term] = 0]

-----------------------------------------------------------------------------
(* The SQL statements *)

\* Faulty variant: a leader may win its own election again at any time.
WinsOwnAgain(k) == term = 0 \/ expire <= k.now \/ leader = k.who

\* INSERT ... ON CONFLICT DO UPDATE ... WHERE expire_at_ms<=now
Wins(k) == term = 0 \/ expire <= k.now

\* WHERE leader_id=? AND term=? AND lease_id=? AND expire_at_ms>now
Matches(k) == leader = k.who /\ term = k.term /\ lease = k.lease /\ expire > k.now

\* Faulty variant: a leader that comes back keeps its term.
CampaignStatementSameTerm(k) ==
    /\ k.op = "campaign"
    /\ \/ /\ Wins(k)
          /\ term < MaxTerm
          /\ leader' = k.who
          /\ term' = IF leader = k.who THEN term ELSE term + 1
          /\ lease' = issued + 1
          /\ issued' = issued + 1
          /\ expire' = k.now + TtlOf[k.who]
       \/ ~Wins(k) /\ UNCHANGED row

CampaignStatement(k) ==
    /\ k.op = "campaign"
    /\ \/ /\ Wins(k)
          /\ term < MaxTerm
          /\ leader' = k.who
          /\ term' = term + 1
          /\ lease' = issued + 1
          /\ issued' = issued + 1
          /\ expire' = k.now + TtlOf[k.who]
       \/ ~Wins(k) /\ UNCHANGED row

RenewStatement(k) ==
    /\ k.op = "renew"
    /\ expire' = IF Matches(k) THEN k.now + TtlOf[k.who] ELSE expire
    /\ UNCHANGED <<leader, term, lease, issued>>

\* Faulty variant: the deadline is set to just before the clock reading.
ResignStatementEarly(k) ==
    /\ k.op = "resign"
    /\ expire' = IF Matches(k) THEN k.now - 1 ELSE expire
    /\ UNCHANGED <<leader, term, lease, issued>>

ResignStatement(k) ==
    /\ k.op = "resign"
    /\ expire' = IF Matches(k) THEN k.now ELSE expire
    /\ UNCHANGED <<leader, term, lease, issued>>

Statement(k) == CampaignStatement(k) \/ RenewStatement(k) \/ ResignStatement(k)

-----------------------------------------------------------------------------
(* The rest of a call *)

\* The statement runs.  RETURNING gives the row it wrote.  The answer to a
\* resignation says only whether there was a row, and ends the call.
Execute(c) ==
    LET k == call[c]
        wrote == IF k.op = "campaign" THEN Wins(k) ELSE Matches(k)
    IN  /\ k # Idle /\ k.stage = "sql"
        /\ Statement(k)
        /\ call' = [call EXCEPT ![c] =
               IF k.op = "resign" THEN Idle
               ELSE IF wrote THEN [k EXCEPT !.stage = "answer", !.seen = Row']
               ELSE IF k.op = "campaign" THEN [k EXCEPT !.stage = "get"]
               ELSE [k EXCEPT !.stage = "answer"]]
        /\ UNCHANGED <<clock, orphans, grants, told, patient>>

\* campaign: self.get(election), when the statement returned no row.
ReadRow(c) ==
    /\ call[c] # Idle /\ call[c].stage = "get"
    /\ call' = [call EXCEPT ![c].stage = "answer", ![c].seen = Row]
    /\ UNCHANGED <<clock, row, orphans, grants, told, patient>>

\* leader.active() && leader.leader_id == candidate_id; a renewal is answered
\* with the row it wrote, and does not look at the clock again.
Won(k) == k.seen.leader = k.who /\ (k.op = "campaign" => k.seen.expire > clock)

\* The candidate gets its answer.
Answer(c) ==
    LET k == call[c] IN
    /\ k # Idle /\ k.stage = "answer"
    /\ call' = [call EXCEPT ![c] = Idle]
    /\ grants' = IF k.seen = NoView THEN grants
                 ELSE grants \cup {[leader |-> k.seen.leader, term |-> k.seen.term,
                                    lease |-> k.seen.lease]}
    /\ told' = IF Won(k) THEN [told EXCEPT ![k.seen.term] = k.seen.expire] ELSE told
    /\ UNCHANGED <<clock, row, orphans, patient>>

\* The answer is lost, or comes too late for the candidate.
LoseAnswer(c) ==
    /\ call[c] # Idle /\ call[c].stage \in {"get", "answer"}
    /\ call' = [call EXCEPT ![c] = Idle]
    /\ UNCHANGED <<clock, row, orphans, grants, told, patient>>

\* The broker stops and starts again: its calls are lost, the row is not.
Restart ==
    /\ call' = [c \in Candidates |-> Idle]
    /\ orphans' = {}
    /\ UNCHANGED <<clock, row, grants, told, patient>>

\* The candidate gives up a call whose statement has yet to run.
Abandon(c) ==
    /\ call[c] # Idle /\ call[c].stage = "sql"
    /\ Cardinality(orphans) < MaxOrphans
    /\ orphans' = orphans \cup {call[c]}
    /\ call' = [call EXCEPT ![c] = Idle]
    /\ patient' = FALSE
    /\ UNCHANGED <<clock, row, grants, told>>

ExecuteOrphan(k) ==
    /\ k \in orphans
    /\ Statement(k)
    /\ orphans' = orphans \ {k}
    /\ UNCHANGED <<clock, call, grants, told, patient>>

-----------------------------------------------------------------------------
Next ==
    \/ Tick
    \/ \E c \in Candidates :
          \/ StartCampaign(c)
          \/ \E g \in grants : StartRenew(c, g) \/ StartResign(c, g)
          \/ Execute(c)
          \/ ReadRow(c)
          \/ Answer(c)
          \/ LoseAnswer(c)
          \/ Abandon(c)
    \/ \E k \in orphans : ExecuteOrphan(k)
    \/ Restart

Spec == Init /\ [][Next]_vars

-----------------------------------------------------------------------------
(* Properties *)

\* A term is a fencing token: whatever answers candidates got, from winning,
\* renewing or merely observing, with statements delayed, reordered, abandoned
\* and the broker restarted, one term always names one leader and one lease.
OneLeaderPerTerm ==
    \A g, h \in grants : g.term = h.term => g = h

\* No two terms are led at the same time, as long as no candidate gives up a
\* call: what campaign and renew told a leader stays true until the deadline it
\* was told, unless it resigns.  (A renewal or resignation that its caller gave
\* up may run after a later renewal and shorten the lease that one was granted.)
ExclusiveLeaders ==
    patient => \A s, t \in Terms : told[s] > clock /\ told[t] > clock => s = t

=============================================================================
