--------------------------- MODULE ElectionProofs ---------------------------
(***************************************************************************)
(* Proofs about Election for every number of candidates and every time to   *)
(* live: types, the fencing of terms, and the exclusion of leaders.         *)
(***************************************************************************)
EXTENDS Election, TLAPS

\* Leaves are left to Zenon, but for those that cite SMT.
USE ZenonT(60)

-----------------------------------------------------------------------------
(* Types *)

\* The initial state is well typed.
LEMMA InitType == Init => TypeOK
  BY SMTT(30) DEF Init, TypeOK, Row, Views, NoView, Terms

\* A statement leaves a well-typed row.
LEMMA StatementType ==
    ASSUME TypeOK, NEW k \in Calls, Statement(k)
    PROVE  Row' \in Views /\ issued' \in Nat
  <1>0. k.who \in Candidates /\ k.now \in Nat /\ TtlOf[k.who] \in Nat /\ k.now + TtlOf[k.who] \in Nat
    BY SMTT(30), TtlAssumption DEF Calls
  <1>1. CASE CampaignStatement(k)
    <2>1. CASE Wins(k)
      <3>1. term \in 0..MaxTerm
        BY SMTT(30), BoundAssumption DEF TypeOK, Views, NoView, Row, Terms
      <3>2. /\ leader' \in Candidates /\ term' \in Terms /\ lease' \in Nat /\ issued' \in Nat
            /\ expire' \in Nat
        BY SMTT(30), <1>0, <1>1, <2>1, <3>1, BoundAssumption DEF CampaignStatement, TypeOK, Terms
      <3> QED BY <3>2 DEF Row, Views
    <2>2. CASE ~Wins(k)
      BY <1>1, <2>2 DEF CampaignStatement, TypeOK, Row, row
    <2> QED BY <2>1, <2>2
  <1>2. CASE RenewStatement(k) \/ ResignStatement(k)
    <2>1. CASE Matches(k)
      <3>1. leader \in Candidates /\ term \in Terms /\ lease \in Nat
        BY <1>0, <2>1, CandidateAssumption DEF TypeOK, Views, NoView, Row, Matches
      <3>2. /\ leader' = leader /\ term' = term /\ lease' = lease /\ issued' = issued
            /\ expire' \in Nat
        BY <1>0, <1>2, <2>1 DEF RenewStatement, ResignStatement
      <3> QED BY <3>1, <3>2 DEF Row, Views, TypeOK
    <2>2. CASE ~Matches(k)
      BY <1>2, <2>2 DEF RenewStatement, ResignStatement, TypeOK, Row
    <2> QED BY <2>1, <2>2
  <1> QED BY <1>1, <1>2 DEF Statement

\* A call that is not idle is a call.
LEMMA CallType ==
    ASSUME TypeOK, NEW c \in Candidates, call[c] # Idle
    PROVE  call[c] \in Calls
  BY DEF TypeOK

\* A call that starts is a call.
LEMMA StartType ==
    ASSUME TypeOK, NEW c \in Candidates, NEW op \in {"campaign", "renew", "resign"},
           NEW t \in Nat, NEW l \in Nat, Start(c, op, t, l)
    PROVE  call' \in [Candidates -> Calls \cup {Idle}]
  <1>1. [op |-> op, who |-> c, stage |-> "sql", now |-> clock,
         term |-> t, lease |-> l, seen |-> NoView] \in Calls
    BY DEF TypeOK, Calls, Views
  <1> QED BY <1>1 DEF Start, TypeOK

\* Every step is well typed.
LEMMA NextType == TypeOK /\ [Next]_vars => TypeOK'
  <1> SUFFICES ASSUME TypeOK, [Next]_vars PROVE TypeOK'
    OBVIOUS
  <1>1. CASE Tick
    BY SMTT(30), <1>1 DEF Tick, TypeOK, row, Row
  <1>2. ASSUME NEW c \in Candidates, StartCampaign(c) PROVE TypeOK'
    BY <1>2, StartType DEF StartCampaign, Start, TypeOK, row, Row
  <1>3. ASSUME NEW c \in Candidates, NEW g \in grants, StartRenew(c, g) \/ StartResign(c, g)
        PROVE  TypeOK'
    <2>1. g.term \in Nat /\ g.lease \in Nat
      BY SMTT(30), BoundAssumption DEF TypeOK, Tuples, Terms
    <2>2. CASE StartRenew(c, g)
      BY <2>1, <2>2, StartType DEF StartRenew, Start, TypeOK, row, Row
    <2>3. CASE StartResign(c, g)
      <3>1. told' \in [Terms -> Nat]
        BY <2>3 DEF StartResign, TypeOK
      <3> QED BY <2>1, <2>3, <3>1, StartType DEF StartResign, Start, TypeOK, row, Row
    <2> QED BY <1>3, <2>2, <2>3
  <1>4. ASSUME NEW c \in Candidates, Execute(c) PROVE TypeOK'
    <2> DEFINE k == call[c]
    <2>1. k \in Calls /\ Statement(k)
      BY <1>4, CallType DEF Execute
    <2>2. Row' \in Views /\ issued' \in Nat
      BY <2>1, StatementType
    <2>3. [k EXCEPT !.stage = "answer", !.seen = Row'] \in Calls
      BY <2>1, <2>2 DEF Calls
    <2>4. [k EXCEPT !.stage = "get"] \in Calls /\ [k EXCEPT !.stage = "answer"] \in Calls
      BY <2>1 DEF Calls
    <2>5. call' \in [Candidates -> Calls \cup {Idle}]
      BY <1>4, <2>3, <2>4 DEF Execute, TypeOK
    <2> QED BY <1>4, <2>2, <2>5 DEF Execute, TypeOK
  <1>5. ASSUME NEW c \in Candidates, ReadRow(c) PROVE TypeOK'
    <2>1. call[c] \in Calls /\ Row \in Views
      BY <1>5, CallType DEF ReadRow, TypeOK
    <2>2. [call[c] EXCEPT !.stage = "answer", !.seen = Row] \in Calls
      BY <2>1 DEF Calls
    <2>3. call' = [call EXCEPT ![c] = [call[c] EXCEPT !.stage = "answer", !.seen = Row]]
      BY <1>5, <2>1 DEF ReadRow, TypeOK
    <2> QED BY <1>5, <2>2, <2>3 DEF ReadRow, TypeOK, row, Row
  <1>6. ASSUME NEW c \in Candidates, Answer(c) PROVE TypeOK'
    <2> DEFINE k == call[c]
    <2>1. k \in Calls
      BY <1>6, CallType DEF Answer
    <2>2. k.seen \in Views
      BY <2>1 DEF Calls
    <2>3. grants' \in SUBSET Tuples
      <3>1. CASE k.seen = NoView
        BY <1>6, <3>1 DEF Answer, TypeOK
      <3>2. CASE k.seen # NoView
        <4>1. [leader |-> k.seen.leader, term |-> k.seen.term, lease |-> k.seen.lease] \in Tuples
          BY <2>2, <3>2 DEF Views, Tuples
        <4> QED BY <1>6, <3>2, <4>1 DEF Answer, TypeOK
      <3> QED BY <3>1, <3>2
    <2>4. told' \in [Terms -> Nat]
      <3>1. k.seen.expire \in Nat
        BY SMTT(30), <2>2 DEF Views, NoView
      <3> QED BY <1>6, <3>1 DEF Answer, TypeOK
    <2> QED BY <1>6, <2>3, <2>4 DEF Answer, TypeOK, row, Row
  <1>7. ASSUME NEW c \in Candidates, LoseAnswer(c) PROVE TypeOK'
    BY <1>7 DEF LoseAnswer, TypeOK, row, Row
  <1>8. CASE Restart
    BY <1>8 DEF Restart, TypeOK, row, Row
  <1>9. ASSUME NEW c \in Candidates, Abandon(c) PROVE TypeOK'
    BY <1>9, CallType DEF Abandon, TypeOK, row, Row
  <1>10. ASSUME NEW k \in orphans, ExecuteOrphan(k) PROVE TypeOK'
    <2>1. k \in Calls /\ Statement(k)
      BY <1>10 DEF ExecuteOrphan, TypeOK
    <2>2. Row' \in Views /\ issued' \in Nat
      BY <2>1, StatementType
    <2> QED BY <1>10, <2>2 DEF ExecuteOrphan, TypeOK
  <1>11. CASE UNCHANGED vars
    BY <1>11 DEF vars, TypeOK, row, Row
  <1> QED
    BY <1>1, <1>2, <1>3, <1>4, <1>5, <1>6, <1>7, <1>8, <1>9, <1>10, <1>11 DEF Next

\* Every variable of the election stays in its range.
THEOREM TypeCorrect == Spec => []TypeOK
  BY InitType, NextType, PTL DEF Spec

-----------------------------------------------------------------------------
(* Fencing *)

TupleOf(v) == [leader |-> v.leader, term |-> v.term, lease |-> v.lease]

\* The tuples that are, or will be, in somebody's hands: those answered, those
\* about to be answered, and the row's own.
Known ==
    grants \cup {TupleOf(call[c].seen) :
                    c \in {d \in Candidates : call[d] # Idle /\ call[d].seen # NoView}}
           \cup {TupleOf(Row)}

\* They agree on every term, and none is newer than the row.
FenceInv ==
    /\ \A g, h \in Known : g.term = h.term => g = h
    /\ \A g \in Known : g.term <= term

\* Initially there is only the tuple of the missing row.
LEMMA InitFence == Init => FenceInv
  <1> SUFFICES ASSUME Init PROVE FenceInv
    OBVIOUS
  <1>1. Known = {TupleOf(Row)}
    BY DEF Init, Known
  <1> QED BY SMTT(30), <1>1 DEF FenceInv, TupleOf, Row, Init

\* It is enough that no tuple appears but the row's, and that the row keeps
\* its tuple or moves to a later term.
LEMMA FenceStep ==
    ASSUME TypeOK, FenceInv, Known' \subseteq Known \cup {TupleOf(Row')},
           TupleOf(Row') = TupleOf(Row) \/ term' = term + 1
    PROVE  FenceInv'
  <1>1. term \in Nat /\ \A g \in Known : g.term <= term
    BY SMTT(30), BoundAssumption DEF TypeOK, FenceInv, Row, Views, NoView, Terms
  <1>2. TupleOf(Row).term = term /\ TupleOf(Row') .term = term'
    BY DEF TupleOf, Row
  <1>3. TupleOf(Row) \in Known
    BY DEF Known
  <1>4. CASE TupleOf(Row') = TupleOf(Row)
    <2>1. Known' \subseteq Known /\ term' = term
      BY <1>2, <1>3, <1>4
    <2> QED BY <2>1 DEF FenceInv
  <1>5. CASE term' = term + 1
    <2>1. \A g \in Known' : g \in Known \/ g = TupleOf(Row')
      OBVIOUS
    <2>2. \A g \in Known : g.term # term' /\ g.term <= term'
      <3> SUFFICES ASSUME NEW g \in Known PROVE g.term # term' /\ g.term <= term'
        OBVIOUS
      <3>1. g.term <= term
        BY <1>1
      <3>2. g.term \in Int
        BY SMTT(30), BoundAssumption DEF Known, TypeOK, Tuples, TupleOf, Row, Views, NoView,
           Terms, Calls
      <3> QED BY SMTT(30), <1>1, <1>5, <3>1, <3>2
    <2> QED BY SMTT(30), <1>1, <1>2, <1>5, <2>1, <2>2 DEF FenceInv
  <1> QED BY <1>4, <1>5

\* A statement leaves the row's tuple alone or moves to the next term.
LEMMA StatementTuple ==
    ASSUME NEW k, Statement(k)
    PROVE  TupleOf(Row') = TupleOf(Row) \/ term' = term + 1
  <1>1. CASE CampaignStatement(k)
    BY <1>1 DEF CampaignStatement, row, Row, TupleOf
  <1>2. CASE RenewStatement(k) \/ ResignStatement(k)
    BY <1>2 DEF RenewStatement, ResignStatement, Row, TupleOf
  <1> QED BY <1>1, <1>2 DEF Statement

\* It is enough to look at the answers and at the calls one by one.
LEMMA FenceByCall ==
    ASSUME TypeOK, FenceInv, grants' \subseteq Known,
           \A d \in Candidates : call'[d] # Idle /\ call'[d].seen # NoView =>
               TupleOf(call'[d].seen) \in Known \cup {TupleOf(Row')},
           TupleOf(Row') = TupleOf(Row) \/ term' = term + 1
    PROVE  FenceInv'
  <1>1. Known' \subseteq Known \cup {TupleOf(Row')}
    <2> SUFFICES ASSUME NEW g \in Known' PROVE g \in Known \cup {TupleOf(Row')}
      OBVIOUS
    <2>1. CASE g \in grants'
      BY <2>1
    <2>2. CASE \E d \in Candidates :
                  call'[d] # Idle /\ call'[d].seen # NoView /\ g = TupleOf(call'[d].seen)
      BY <2>2
    <2>3. CASE g = TupleOf(Row')
      BY <2>3
    <2> QED BY <2>1, <2>2, <2>3 DEF Known, TupleOf
  <1> QED BY <1>1, FenceStep

\* What a call has seen is known.
LEMMA SeenKnown ==
    ASSUME NEW d \in Candidates, call[d] # Idle, call[d].seen # NoView
    PROVE  TupleOf(call[d].seen) \in Known
  BY DEF Known

\* Every step keeps the terms fenced.
LEMMA NextFence == TypeOK /\ FenceInv /\ [Next]_vars => FenceInv'
  <1> SUFFICES ASSUME TypeOK, FenceInv, [Next]_vars PROVE FenceInv'
    OBVIOUS
  <1>0. grants \subseteq Known /\ TupleOf(Row) \in Known
    BY DEF Known
  <1>1. CASE Tick \/ UNCHANGED vars
    BY SMTT(30), <1>1 DEF Tick, vars, row, FenceInv, Known, TupleOf, Row
  <1>2. ASSUME NEW c \in Candidates, NEW op, NEW t, NEW l, Start(c, op, t, l) PROVE FenceInv'
    <2>1. \A d \in Candidates : d # c => call'[d] = call[d]
      BY <1>2 DEF Start, TypeOK
    <2>2. call'[c].seen = NoView
      BY <1>2 DEF Start, TypeOK
    <2>3. grants' = grants /\ TupleOf(Row') = TupleOf(Row)
      BY <1>2 DEF Start, row, Row, TupleOf
    <2> QED BY <1>0, <2>1, <2>2, <2>3, SeenKnown, FenceByCall
  <1>3. ASSUME NEW c \in Candidates, Execute(c) PROVE FenceInv'
    <2> DEFINE k == call[c]
    <2>1. k \in Calls /\ Statement(k) /\ k # Idle
      BY <1>3, CallType DEF Execute
    <2>2. \A d \in Candidates : d # c => call'[d] = call[d]
      BY <1>3 DEF Execute, TypeOK
    <2>3. \/ call'[c] = Idle
          \/ call'[c].seen = Row'
          \/ call'[c].seen = k.seen
      <3>1. call'[c] \in {Idle, [k EXCEPT !.stage = "answer", !.seen = Row'],
                          [k EXCEPT !.stage = "get"], [k EXCEPT !.stage = "answer"]}
        BY <1>3 DEF Execute, TypeOK
      <3>2. [k EXCEPT !.stage = "answer", !.seen = Row'].seen = Row'
        BY <2>1 DEF Calls
      <3>3. [k EXCEPT !.stage = "get"].seen = k.seen /\ [k EXCEPT !.stage = "answer"].seen = k.seen
        BY <2>1 DEF Calls
      <3> QED BY <3>1, <3>2, <3>3
    <2>4. grants' = grants
      BY <1>3 DEF Execute
    <2>5. TupleOf(Row') = TupleOf(Row) \/ term' = term + 1
      BY <2>1, StatementTuple
    <2> HIDE DEF k
    <2>6. ASSUME NEW d \in Candidates, call'[d] # Idle, call'[d].seen # NoView
          PROVE  TupleOf(call'[d].seen) \in Known \cup {TupleOf(Row')}
      <3>1. CASE d # c
        BY <2>2, <2>6, <3>1, SeenKnown
      <3>2. CASE d = c
        BY <2>1, <2>3, <2>6, <3>2, SeenKnown DEF k
      <3> QED BY <3>1, <3>2
    <2> QED BY <1>0, <2>4, <2>5, <2>6, FenceByCall
  <1>4. ASSUME NEW c \in Candidates, ReadRow(c) PROVE FenceInv'
    <2>1. \A d \in Candidates : d # c => call'[d] = call[d]
      BY <1>4 DEF ReadRow, TypeOK
    <2>2. call'[c].seen = Row
      <3>1. call[c] \in Calls
        BY <1>4, CallType DEF ReadRow
      <3> QED BY <1>4, <3>1 DEF ReadRow, TypeOK, Calls
    <2>3. grants' = grants /\ TupleOf(Row') = TupleOf(Row)
      BY <1>4 DEF ReadRow, row, Row, TupleOf
    <2>4. ASSUME NEW d \in Candidates, call'[d] # Idle, call'[d].seen # NoView
          PROVE  TupleOf(call'[d].seen) \in Known \cup {TupleOf(Row')}
      BY <1>0, <2>1, <2>2, <2>4, SeenKnown
    <2> QED BY <1>0, <2>3, <2>4, FenceByCall
  <1>5. ASSUME NEW c \in Candidates, Answer(c) PROVE FenceInv'
    <2>1. \A d \in Candidates : call'[d] = call[d] \/ call'[d] = Idle
      BY <1>5 DEF Answer, TypeOK
    <2>2. grants' \subseteq Known
      BY <1>0, <1>5, SeenKnown DEF Answer, TupleOf
    <2>3. TupleOf(Row') = TupleOf(Row)
      BY <1>5 DEF Answer, row, Row, TupleOf
    <2> QED BY <2>1, <2>2, <2>3, SeenKnown, FenceByCall
  <1>6. ASSUME NEW c \in Candidates, LoseAnswer(c) \/ Abandon(c) PROVE FenceInv'
    <2>1. \A d \in Candidates : call'[d] = call[d] \/ call'[d] = Idle
      BY <1>6 DEF LoseAnswer, Abandon, TypeOK
    <2>2. grants' = grants /\ TupleOf(Row') = TupleOf(Row)
      BY <1>6 DEF LoseAnswer, Abandon, row, Row, TupleOf
    <2> QED BY <1>0, <2>1, <2>2, SeenKnown, FenceByCall
  <1>7. CASE Restart
    <2>1. \A d \in Candidates : call'[d] = Idle
      BY <1>7 DEF Restart
    <2>2. grants' = grants /\ TupleOf(Row') = TupleOf(Row)
      BY <1>7 DEF Restart, row, Row, TupleOf
    <2> QED BY <1>0, <2>1, <2>2, FenceByCall
  <1>8. ASSUME NEW k \in orphans, ExecuteOrphan(k) PROVE FenceInv'
    <2>1. TupleOf(Row') = TupleOf(Row) \/ term' = term + 1
      BY <1>8, StatementTuple DEF ExecuteOrphan
    <2>2. call' = call /\ grants' = grants
      BY <1>8 DEF ExecuteOrphan
    <2> QED BY <1>0, <2>1, <2>2, SeenKnown, FenceByCall
  <1> QED
    BY <1>1, <1>2, <1>3, <1>4, <1>5, <1>6, <1>7, <1>8
    DEF Next, StartCampaign, StartRenew, StartResign

\* One term names one leader and one lease, in all answers ever given
\* (election.rs:59-162), with calls delayed, reordered and abandoned.
THEOREM TermsFence == Spec => []OneLeaderPerTerm
  <1>1. FenceInv => OneLeaderPerTerm
    BY DEF FenceInv, OneLeaderPerTerm, Known
  <1> QED BY <1>1, InitFence, NextFence, TypeCorrect, PTL DEF Spec

-----------------------------------------------------------------------------
(* Exclusion, as long as no candidate gives up a call                       *)
(*                                                                          *)
(* What leaders were told is backed by the row.  To be inductive this needs *)
(* the answers under way, which grant what a statement wrote some time ago; *)
(* that a renewal, although it counts from an old clock reading, does not   *)
(* shorten the lease; and that a resignation that matches the row comes     *)
(* from a leader that relies on nothing.                                    *)

Backed == \A t \in Terms : told[t] > clock => term = t /\ expire >= told[t]

RowBound == leader \in Candidates => expire <= clock + TtlOf[leader]

CallLead(c) ==
    call[c] # Idle =>
        /\ call[c].who = c /\ call[c].now <= clock
        /\ call[c].stage = "sql" => call[c].seen = NoView
        /\ call[c].stage = "sql" /\ leader = c => expire <= call[c].now + TtlOf[c]
        /\ call[c].stage = "sql" /\ call[c].op = "resign" /\ leader = c /\ term = call[c].term =>
               told[term] <= clock
        /\ call[c].stage = "answer" /\ call[c].seen.leader = c /\ call[c].seen.expire > clock =>
               leader = c /\ term = call[c].seen.term /\ expire >= call[c].seen.expire

LeadInv ==
    patient = TRUE =>
        orphans = {} /\ Backed /\ RowBound /\ \A c \in Candidates : CallLead(c)

\* The numbers of the row.
LEMMA RowNumbers ==
    ASSUME TypeOK
    PROVE  /\ clock \in Nat /\ expire \in Nat /\ term \in Nat
           /\ term = 0 => expire = 0
           /\ leader \in Candidates => term \in Terms
           /\ \A t \in Terms : told[t] \in Nat /\ t \in Nat
           /\ \A c \in Candidates : TtlOf[c] \in Nat
  <1>1. Row \in Views
    BY DEF TypeOK
  <1>2. CASE Row = NoView
    BY SMTT(30), <1>2, CandidateAssumption, TtlAssumption DEF TypeOK, Row, NoView, Terms
  <1>3. CASE Row # NoView
    BY SMTT(30), <1>1, <1>3, BoundAssumption, TtlAssumption DEF TypeOK, Row, Views, Terms
  <1> QED BY <1>2, <1>3

\* The numbers of a call.
LEMMA CallNumbers ==
    ASSUME TypeOK, NEW c \in Candidates, call[c] # Idle
    PROVE  call[c].now \in Nat /\ call[c].seen.expire \in Nat
  <1>1. call[c].now \in Nat /\ call[c].seen \in Views
    BY CallType DEF Calls
  <1> QED BY SMTT(30), <1>1 DEF Views, NoView

\* Nobody was told anything at first.
LEMMA InitLead == Init => LeadInv
  <1> SUFFICES ASSUME Init PROVE LeadInv
    OBVIOUS
  <1>1. orphans = {} /\ \A c \in Candidates : CallLead(c)
    BY DEF Init, CallLead
  <1>2. Backed /\ RowBound
    BY SMTT(30), CandidateAssumption DEF Init, Backed, RowBound
  <1> QED BY <1>1, <1>2 DEF LeadInv

\* A step that leaves the row and the clock alone keeps what it does not touch.
LEMMA CallsKept ==
    ASSUME TypeOK, NEW c \in Candidates, CallLead(c), UNCHANGED <<clock, row>>,
           call'[c] = call[c] \/ call'[c] = Idle,
           leader = c => told'[term] = told[term] \/ told'[term] = 0
    PROVE  CallLead(c)'
  <1>1. clock' = clock /\ leader' = leader /\ term' = term /\ expire' = expire
    BY DEF row
  <1> QED BY SMTT(30), <1>1, RowNumbers DEF CallLead

\* What the statement of a call does to the row.
LEMMA StatementRow ==
    ASSUME TypeOK, NEW c \in Candidates, call[c] # Idle, call[c].who = c,
           call[c].now <= clock, Statement(call[c])
    PROVE  \/ UNCHANGED <<leader, term, expire>>
           \/ /\ expire <= clock /\ leader' = c /\ term' = term + 1 /\ term' \in Terms
              /\ call[c].op = "campaign" /\ expire' = call[c].now + TtlOf[c]
           \/ /\ leader = c /\ leader' = c /\ term' = term
              /\ call[c].op = "renew" /\ expire' = call[c].now + TtlOf[c]
           \/ /\ leader = c /\ leader' = c /\ term' = term /\ term = call[c].term
              /\ call[c].op = "resign" /\ expire > call[c].now /\ expire' = call[c].now
  <1>0. call[c].now \in Nat
    BY CallNumbers
  <1>1. CASE CampaignStatement(call[c])
    <2>1. CASE Wins(call[c])
      BY SMTT(30), <1>0, <1>1, <2>1, RowNumbers, BoundAssumption
        DEF CampaignStatement, Wins, Terms
    <2>2. CASE ~Wins(call[c])
      BY <1>1, <2>2 DEF CampaignStatement, row
    <2> QED BY <2>1, <2>2
  <1>2. CASE RenewStatement(call[c])
    BY <1>2 DEF RenewStatement, Matches
  <1>3. CASE ResignStatement(call[c])
    BY <1>3 DEF ResignStatement, Matches
  <1> QED BY <1>1, <1>2, <1>3 DEF Statement

\* What becomes of the call whose statement has run.
LEMMA ExecutedCall ==
    ASSUME TypeOK, NEW c \in Candidates, Execute(c), CallLead(c)
    PROVE  \/ call'[c] = Idle
           \/ /\ call'[c] # Idle => call'[c].who = c /\ call'[c].now = call[c].now
              /\ call'[c].stage \in {"get", "answer"}
              /\ call'[c].seen \in {NoView, Row'}
  <1> DEFINE k == call[c]
  <1>1. k \in Calls /\ k.who = c /\ k.seen = NoView
    BY CallType DEF Execute, CallLead
  <1>2. call'[c] \in {Idle, [k EXCEPT !.stage = "answer", !.seen = Row'],
                      [k EXCEPT !.stage = "get"], [k EXCEPT !.stage = "answer"]}
    BY DEF Execute, TypeOK
  <1>3. CASE call'[c] = [k EXCEPT !.stage = "answer", !.seen = Row']
    BY <1>1, <1>3 DEF Calls
  <1>4. CASE call'[c] = [k EXCEPT !.stage = "get"] \/ call'[c] = [k EXCEPT !.stage = "answer"]
    BY <1>1, <1>4 DEF Calls
  <1> QED BY <1>2, <1>3, <1>4

\* A statement keeps what leaders were told backed by the row.
LEMMA ExecuteLead ==
    ASSUME TypeOK, TypeOK', LeadInv, NEW c \in Candidates, Execute(c)
    PROVE  LeadInv'
  <1> SUFFICES ASSUME patient' = TRUE
               PROVE  (orphans = {})' /\ Backed' /\ RowBound' /\ \A d \in Candidates : CallLead(d)'
    BY DEF LeadInv
  <1>0. /\ clock' = clock /\ told' = told /\ patient = TRUE /\ orphans' = orphans
        /\ call[c] # Idle /\ call[c].stage = "sql" /\ Statement(call[c])
    BY DEF Execute
  <1>1. orphans = {} /\ Backed /\ RowBound /\ \A d \in Candidates : CallLead(d)
    BY <1>0 DEF LeadInv
  <1>2. call[c].who = c /\ call[c].now <= clock /\ call[c].now \in Nat
    BY <1>0, <1>1, CallNumbers DEF CallLead
  <1>3. \A d \in Candidates : d # c => call'[d] = call[d]
    BY DEF Execute, TypeOK
  <1>4. /\ clock \in Nat /\ expire \in Nat /\ term \in Nat /\ TtlOf[c] \in Nat
        /\ \A t \in Terms : told[t] \in Nat /\ t \in Nat
        /\ \A d \in Candidates : TtlOf[d] \in Nat
    BY RowNumbers
  <1>5. \/ UNCHANGED <<leader, term, expire>>
        \/ /\ expire <= clock /\ leader' = c /\ term' = term + 1
           /\ expire' = call[c].now + TtlOf[c]
        \/ /\ leader = c /\ leader' = c /\ term' = term /\ expire' = call[c].now + TtlOf[c]
           /\ expire <= expire'
        \/ /\ leader = c /\ leader' = c /\ term' = term /\ expire' = call[c].now
           /\ told[term] <= clock
    <2>1. leader = c => expire <= call[c].now + TtlOf[c]
      BY <1>0, <1>1 DEF CallLead
    <2>2. leader = c /\ call[c].op = "resign" /\ term = call[c].term => told[term] <= clock
      BY <1>0, <1>1 DEF CallLead
    <2> QED BY <1>0, <1>2, <2>1, <2>2, StatementRow
  <1>6. Backed'
    BY SMTT(30), <1>0, <1>1, <1>2, <1>4, <1>5 DEF Backed
  <1>7. RowBound'
    BY SMTT(30), <1>0, <1>1, <1>2, <1>4, <1>5 DEF RowBound
  <1>8. CallLead(c)'
    <2>1. CASE call'[c] = Idle
      BY <2>1 DEF CallLead
    <2>2. CASE /\ call'[c] # Idle => call'[c].who = c /\ call'[c].now = call[c].now
               /\ call'[c].stage \in {"get", "answer"}
               /\ call'[c].seen \in {NoView, Row'}
      <3>1. call'[c].seen.leader = c => call'[c].seen = Row'
        BY SMTT(30), <2>2, CandidateAssumption DEF NoView
      <3>2. Row'.leader = leader' /\ Row'.term = term' /\ Row'.expire = expire'
        BY DEF Row
      <3>3. expire' \in Nat
        BY SMTT(30), <1>2, <1>4, <1>5
      <3> QED BY SMTT(30), <1>0, <1>2, <2>2, <3>1, <3>2, <3>3 DEF CallLead
    <2> QED BY <1>1, <2>1, <2>2, ExecutedCall
  <1>9. ASSUME NEW d \in Candidates, d # c PROVE CallLead(d)'
    <2>1. CallLead(d) /\ call'[d] = call[d]
      BY <1>1, <1>3, <1>9
    <2>2. call[d] # Idle => call[d].seen.expire \in Nat
      BY CallNumbers
    <2>3. CASE UNCHANGED <<leader, term, expire>>
      BY <1>0, <2>1, <2>3 DEF CallLead
    <2>4. CASE leader' = c /\ (leader = c \/ expire <= clock)
      BY SMTT(30), <1>0, <1>4, <1>9, <2>1, <2>2, <2>4 DEF CallLead
    <2> QED BY <1>5, <2>3, <2>4
  <1> QED BY <1>0, <1>1, <1>6, <1>7, <1>8, <1>9

\* The inductive invariant is kept by every step.
LEMMA NextLead == TypeOK /\ TypeOK' /\ LeadInv /\ [Next]_vars => LeadInv'
  <1> SUFFICES ASSUME TypeOK, TypeOK', LeadInv, [Next]_vars, patient' = TRUE
               PROVE  (orphans = {})' /\ Backed' /\ RowBound' /\ \A d \in Candidates : CallLead(d)'
    BY DEF LeadInv
  <1>0. patient = TRUE
    BY DEF Next, Tick, StartCampaign, StartRenew, StartResign, Start, Execute, ReadRow, Answer,
           LoseAnswer, Restart, Abandon, ExecuteOrphan, vars
  <1>1. orphans = {} /\ Backed /\ RowBound /\ \A d \in Candidates : CallLead(d)
    BY <1>0 DEF LeadInv
  <1>2. /\ clock \in Nat /\ expire \in Nat /\ term \in Nat
        /\ leader \in Candidates => term \in Terms
        /\ \A t \in Terms : told[t] \in Nat /\ t \in Nat
        /\ \A d \in Candidates : TtlOf[d] \in Nat
    BY RowNumbers
  <1>3. CASE Tick
    <2>1. /\ clock' = clock + 1 /\ call' = call /\ told' = told /\ orphans' = orphans
          /\ leader' = leader /\ term' = term /\ expire' = expire
      BY <1>3 DEF Tick, row
    <2>2. Backed' /\ RowBound'
      BY SMTT(30), <1>1, <1>2, <2>1 DEF Backed, RowBound
    <2>3. ASSUME NEW d \in Candidates PROVE CallLead(d)'
      <3>1. call[d] # Idle => call[d].now \in Nat /\ call[d].seen.expire \in Nat
        BY CallNumbers
      <3>2. CallLead(d)
        BY <1>1
      <3> QED BY SMTT(30), <1>2, <2>1, <3>1, <3>2 DEF CallLead
    <2> QED BY <1>1, <2>1, <2>2, <2>3
  <1>4. ASSUME UNCHANGED <<clock, row, told>>, orphans' = {},
               \A d \in Candidates : call'[d] = call[d] \/ call'[d] = Idle
        PROVE  (orphans = {})' /\ Backed' /\ RowBound' /\ \A d \in Candidates : CallLead(d)'
    <2>1. Backed' /\ RowBound'
      BY <1>1, <1>4 DEF Backed, RowBound, row
    <2> QED BY <1>1, <1>4, <2>1, CallsKept
  <1>5. CASE UNCHANGED vars \/ Restart \/ \E c \in Candidates : LoseAnswer(c)
    BY <1>1, <1>4, <1>5 DEF vars, row, Restart, LoseAnswer, TypeOK
  <1>6. ASSUME NEW c \in Candidates, NEW op, NEW t, NEW l, Start(c, op, t, l),
               told' = told \/ (t \in Terms /\ told' = [told EXCEPT ![t] = 0]),
               op = "resign" => t \in Terms /\ told' = [told EXCEPT ![t] = 0]
        PROVE  (orphans = {})' /\ Backed' /\ RowBound' /\ \A d \in Candidates : CallLead(d)'
    <2>1. /\ clock' = clock /\ leader' = leader /\ term' = term /\ expire' = expire
          /\ orphans' = orphans
          /\ \A d \in Candidates : d # c => call'[d] = call[d]
          /\ call'[c] = [op |-> op, who |-> c, stage |-> "sql", now |-> clock,
                         term |-> t, lease |-> l, seen |-> NoView]
      BY <1>6 DEF Start, row, TypeOK
    <2>2. \A u \in Terms : told'[u] \in {told[u], 0}
      BY <1>6 DEF TypeOK
    <2>3. Backed' /\ RowBound'
      BY SMTT(30), <1>1, <1>2, <2>1, <2>2 DEF Backed, RowBound
    <2>4. CallLead(c)'
      <3>1. op = "resign" /\ term = t => told'[term] = 0
        BY <1>6 DEF TypeOK
      <3>2. leader = c => expire <= clock + TtlOf[c]
        BY <1>1 DEF RowBound
      <3>3. /\ call'[c].who = c /\ call'[c].now = clock /\ call'[c].stage = "sql"
            /\ call'[c].seen = NoView /\ call'[c].op = op /\ call'[c].term = t
        BY SMTT(30), <2>1
      <3> QED BY SMTT(30), <1>2, <2>1, <3>1, <3>2, <3>3 DEF CallLead
    <2>5. ASSUME NEW d \in Candidates, d # c PROVE CallLead(d)'
      BY <1>1, <1>2, <1>6, <2>1, <2>2, <2>5, CallsKept DEF Start
    <2> QED BY <1>1, <2>1, <2>3, <2>4, <2>5
  <1>7. ASSUME NEW c \in Candidates, StartCampaign(c)
        PROVE  (orphans = {})' /\ Backed' /\ RowBound' /\ \A d \in Candidates : CallLead(d)'
    BY <1>6, <1>7 DEF StartCampaign
  <1>8. ASSUME NEW c \in Candidates, NEW g \in grants, StartRenew(c, g) \/ StartResign(c, g)
        PROVE  (orphans = {})' /\ Backed' /\ RowBound' /\ \A d \in Candidates : CallLead(d)'
    <2>1. g.term \in Terms
      BY DEF TypeOK, Tuples
    <2> QED BY <1>6, <1>8, <2>1 DEF StartRenew, StartResign
  <1>9. ASSUME NEW c \in Candidates, Execute(c)
        PROVE  (orphans = {})' /\ Backed' /\ RowBound' /\ \A d \in Candidates : CallLead(d)'
    BY <1>9, ExecuteLead DEF LeadInv
  <1>10. ASSUME NEW c \in Candidates, ReadRow(c)
         PROVE  (orphans = {})' /\ Backed' /\ RowBound' /\ \A d \in Candidates : CallLead(d)'
    <2>1. /\ UNCHANGED <<clock, row, told>> /\ orphans' = orphans
          /\ clock' = clock /\ leader' = leader /\ term' = term /\ expire' = expire /\ told' = told
          /\ \A d \in Candidates : d # c => call'[d] = call[d]
      BY <1>10 DEF ReadRow, row, TypeOK
    <2>2. Backed' /\ RowBound'
      BY <1>1, <2>1 DEF Backed, RowBound
    <2>3. /\ call'[c].stage = "answer" /\ call'[c].who = call[c].who /\ call'[c].now = call[c].now
          /\ call'[c].seen = Row
      BY <1>10, CallType DEF ReadRow, Calls, TypeOK
    <2>4. Row.leader = leader /\ Row.term = term /\ Row.expire = expire
      BY DEF Row
    <2>5. CallLead(c)'
      BY SMTT(30), <1>1, <1>2, <1>10, <2>1, <2>3, <2>4 DEF CallLead, ReadRow
    <2> QED BY <1>1, <2>1, <2>2, <2>5, CallsKept
  <1>11. ASSUME NEW c \in Candidates, Answer(c)
         PROVE  (orphans = {})' /\ Backed' /\ RowBound' /\ \A d \in Candidates : CallLead(d)'
    <2>1. /\ clock' = clock /\ leader' = leader /\ term' = term /\ expire' = expire
          /\ orphans' = orphans /\ call'[c] = Idle
          /\ \A d \in Candidates : d # c => call'[d] = call[d]
      BY <1>11 DEF Answer, row, TypeOK
    <2>2. call[c] # Idle /\ call[c].stage = "answer" /\ call[c].who = c
          /\ call[c].seen.expire \in Nat
      BY <1>1, <1>11, CallNumbers DEF Answer, CallLead
    <2>3. \/ told' = told
          \/ /\ call[c].seen.leader = c
             /\ told' = [told EXCEPT ![call[c].seen.term] = call[c].seen.expire]
      BY <1>11, <2>2 DEF Answer, Won
    <2>4. call[c].seen.leader = c /\ call[c].seen.expire > clock =>
             leader = c /\ term = call[c].seen.term /\ expire >= call[c].seen.expire
      BY <1>1, <2>2 DEF CallLead
    <2>5. Backed' /\ RowBound'
      BY <1>1, <1>2, <2>1, <2>2, <2>3, <2>4 DEF Backed, RowBound, TypeOK
    <2>6. ASSUME NEW d \in Candidates, d # c PROVE CallLead(d)'
      <3>1. leader = d => told'[term] = told[term] \/ told'[term] <= clock
        BY SMTT(30), <1>2, <2>2, <2>3, <2>4, <2>6 DEF TypeOK
      <3>2. CallLead(d) /\ call'[d] = call[d]
        BY <1>1, <2>1, <2>6
      <3> QED BY <2>1, <3>1, <3>2 DEF CallLead
    <2>7. CallLead(c)'
      BY <2>1 DEF CallLead
    <2> QED BY <1>1, <2>1, <2>5, <2>6, <2>7
  <1>12. ASSUME NEW c \in Candidates, Abandon(c) PROVE FALSE
    BY <1>12 DEF Abandon
  <1>13. ASSUME NEW k \in orphans, ExecuteOrphan(k) PROVE FALSE
    BY <1>1, <1>13
  <1> QED
    BY <1>3, <1>5, <1>7, <1>8, <1>9, <1>10, <1>11, <1>12, <1>13 DEF Next

\* No two terms are led at the same time, as long as no candidate gives up a
\* call (election.rs:59-152): whatever statements run late and answers are
\* lost, and over restarts.
THEOREM LeadersExclude == Spec => []ExclusiveLeaders
  <1>1. TypeOK /\ LeadInv => ExclusiveLeaders
    <2> SUFFICES ASSUME TypeOK, LeadInv, patient PROVE \A s, t \in Terms :
                           told[s] > clock /\ told[t] > clock => s = t
      BY DEF ExclusiveLeaders
    <2>1. patient = TRUE
      BY DEF TypeOK
    <2> QED BY <2>1 DEF LeadInv, Backed
  <1>2. TypeOK /\ LeadInv /\ [Next]_vars => (TypeOK /\ LeadInv)'
    BY NextType, NextLead
  <1> QED BY <1>1, <1>2, InitType, InitLead, PTL DEF Spec

=============================================================================
