---------------------------- MODULE WriterProofs ----------------------------
(***************************************************************************)
(* Proofs about the queue writer, for every number of callers and every     *)
(* size of queue, batch and RecentIds.                                      *)
(*                                                                          *)
(* Order: a command enters the channel and the history at the same end;     *)
(* from there it moves, at the other end, into the batch and then into the  *)
(* history of what was committed.  Two facts about the writer's phase make  *)
(* this inductive (IInv): an empty-handed writer has no batch, and a        *)
(* Shutdown is remembered only between collecting and stopping.             *)
(*                                                                          *)
(* RecentIds: order holds each key of values once, and nothing else         *)
(* (RecentInv).  So a full map always has an oldest key to evict.           *)
(*                                                                          *)
(* Storage: a publish is at most once in the channel and the batch, and has *)
(* no row as long as it is there (FreshInv); rows are apart by id and by    *)
(* key (RowsInv), and what was committed has its row (DoneInv).  Loops over *)
(* a batch, over order and over the rows are recursive functions: LoopRuns  *)
(* shows that they have values, Rounds is the induction over their rounds,  *)
(* by way of the least counterexample.                                      *)
(***************************************************************************)
EXTENDS Writer, SequenceTheorems, FiniteSetTheorems, WellFoundedInduction, TLAPS

\* Leaves are left to Zenon, but for those that cite SMT.
USE ZenonT(60)

Commands == Publishers \cup Ackers \cup {Shutdown}

\* The sequences the argument is about, and the writer's phase.
FlowType ==
    /\ queue \in Seq(Commands)
    /\ batch \in Seq(Commands)
    /\ sent \in Seq(Commands)
    /\ done \in Seq(Commands)

PhaseInv ==
    /\ phase = "recv" => ~stopping
    /\ phase = "collect" => ~stopping

IInv == FlowType /\ PhaseInv /\ AdmittedInOrder

\* What has left the channel: committed, in hand, and a Shutdown that was met.
InHand == IF phase \in {"collect", "persist"} THEN batch ELSE <<>>
Met == IF stopping THEN <<Shutdown>> ELSE <<>>
Taken == done \o InHand \o Met

-----------------------------------------------------------------------------
(* Sequences *)

\* Appending to the second part of a sequence appends to the whole.
LEMMA AppendRight ==
    ASSUME NEW s \in Seq(Commands), NEW q \in Seq(Commands), NEW x \in Commands
    PROVE  Append(s \o q, x) = s \o Append(q, x)
  <1>1. Append(s \o q, x) \in Seq(Commands) /\ s \o Append(q, x) \in Seq(Commands)
    BY SMTT(30)
  <1>2. Len(Append(s \o q, x)) = Len(s \o Append(q, x))
    BY SMTT(30)
  <1>3. \A i \in 1..Len(Append(s \o q, x)) : Append(s \o q, x)[i] = (s \o Append(q, x))[i]
    BY SMTT(30)
  <1> QED BY <1>1, <1>2, <1>3, SeqEqual

\* Moving the head of the second part to the end of the first changes nothing.
LEMMA MoveHead ==
    ASSUME NEW S, NEW s \in Seq(S), NEW q \in Seq(S), q # <<>>
    PROVE  s \o q = Append(s, Head(q)) \o Tail(q)
  <1>1. s \o q \in Seq(S) /\ Append(s, Head(q)) \o Tail(q) \in Seq(S)
    BY SMTT(30)
  <1>2. Len(s \o q) = Len(Append(s, Head(q)) \o Tail(q))
    BY SMTT(30)
  <1>3. \A i \in 1..Len(s \o q) : (s \o q)[i] = (Append(s, Head(q)) \o Tail(q))[i]
    BY SMTT(30)
  <1> QED BY <1>1, <1>2, <1>3, SeqEqual

\* The empty sequence is neutral.
LEMMA EmptyNeutral == ASSUME NEW S, NEW s \in Seq(S) PROVE s \o <<>> = s
  BY ConcatEmptySeq

\* A sequence of one element appends it.
LEMMA ConcatOne == ASSUME NEW S, NEW s \in Seq(S), NEW x \in S PROVE s \o <<x>> = Append(s, x)
  <1>1. s \o <<x>> \in Seq(S) /\ Append(s, x) \in Seq(S)
    BY SMTT(30)
  <1>2. Len(s \o <<x>>) = Len(Append(s, x))
    BY SMTT(30)
  <1>3. \A i \in 1..Len(s \o <<x>>) : (s \o <<x>>)[i] = Append(s, x)[i]
    BY SMTT(30)
  <1> QED BY <1>1, <1>2, <1>3, SeqEqual

-----------------------------------------------------------------------------
(* The flow of commands *)

\* AdmittedInOrder, with its three parts named.
LEMMA Flow == AdmittedInOrder <=> (phase # "stopped" => sent = Taken \o queue)
  BY DEF AdmittedInOrder, Taken, InHand, Met

\* What has left the channel is a sequence of commands.
LEMMA TakenType == FlowType => Taken \in Seq(Commands)
  <1>1. FlowType => InHand \in Seq(Commands)
    BY SMTT(30) DEF FlowType, InHand
  <1>2. Met \in Seq(Commands)
    <2>1. <<Shutdown>> \in Seq(Commands) /\ <<>> \in Seq(Commands)
      BY SMTT(30) DEF Commands
    <2> QED BY <2>1, Zenon DEF Met
  <1> QED BY <1>1, <1>2, ConcatProperties DEF FlowType, Taken

\* Initially nothing was sent.
LEMMA InitFlow == Init => IInv
  <1> SUFFICES ASSUME Init PROVE IInv
    OBVIOUS
  <1>1. FlowType /\ PhaseInv
    <2>1. FlowType
      BY EmptySeq DEF Init, FlowType
    <2>2. PhaseInv
      BY DEF Init, PhaseInv
    <2> QED BY <2>1, <2>2
  <1>2. Taken = <<>> \o <<>> \o <<>>
    BY DEF Init, Taken, InHand, Met
  <1>3. <<>> \o <<>> \o <<>> = <<>> /\ <<>> \o <<>> = <<>>
    BY SMTT(30), EmptyNeutral
  <1> QED BY <1>1, <1>2, <1>3, Flow DEF Init, IInv

\* Putting a command into the channel keeps the invariant.
LEMMA SendFlow ==
    ASSUME IInv, NEW x \in Commands,
           queue' = Append(queue, x), sent' = Append(sent, x),
           UNCHANGED <<done, batch, phase, stopping>>
    PROVE  IInv'
  <1>1. FlowType' /\ PhaseInv'
    <2>1. FlowType'
      BY SMTT(30) DEF IInv, FlowType
    <2>2. PhaseInv'
      BY DEF IInv, PhaseInv
    <2> QED BY <2>1, <2>2
  <1>2. Taken' = Taken
    BY DEF Taken, InHand, Met
  <1>3. Append(Taken \o queue, x) = Taken \o Append(queue, x)
    <2>1. Taken \in Seq(Commands) /\ queue \in Seq(Commands)
      BY TakenType DEF IInv, FlowType
    <2> QED BY <2>1, AppendRight
  <1>4. (phase # "stopped" => sent = Taken \o queue)'
    BY <1>2, <1>3, Flow DEF IInv
  <1>5. AdmittedInOrder'
    BY <1>4, Flow, PTL
  <1> QED BY <1>1, <1>5 DEF IInv

\* So does a step that leaves the channel, the writer and the histories alone.
LEMMA QuietFlow ==
    ASSUME IInv, UNCHANGED <<queue, sent, done, batch, phase, stopping>>
    PROVE  IInv'
  BY DEF IInv, FlowType, PhaseInv, AdmittedInOrder

\* A writer that stopped owes nothing to this invariant.
LEMMA StopFlow ==
    ASSUME IInv, phase' = "stopped", queue' = <<>>, stopping' = FALSE,
           UNCHANGED <<sent, done>>, batch' \in Seq(Commands)
    PROVE  IInv'
  <1>1. FlowType'
    BY EmptySeq DEF IInv, FlowType
  <1>2. PhaseInv' /\ AdmittedInOrder'
    BY DEF PhaseInv, AdmittedInOrder
  <1> QED BY <1>1, <1>2 DEF IInv

\* Taking the first command out of the channel keeps the invariant when what
\* has left the channel grows by that command.
LEMMA TakeFlow ==
    ASSUME IInv, FlowType', PhaseInv', queue # <<>>, phase # "stopped",
           queue' = Tail(queue), sent' = sent, Taken' = Append(Taken, Head(queue))
    PROVE  IInv'
  <1>1. Taken \o queue = Append(Taken, Head(queue)) \o Tail(queue)
    BY TakenType, MoveHead DEF IInv, FlowType
  <1>2. (phase # "stopped" => sent = Taken \o queue)'
    BY <1>1, Flow DEF IInv
  <1>3. AdmittedInOrder'
    BY <1>2, Flow, PTL
  <1> QED BY <1>3 DEF IInv

\* Every step of the writer and its callers keeps the invariant.
LEMMA NextFlow == IInv /\ [Next]_vars => IInv'
  <1> SUFFICES ASSUME IInv, [Next]_vars PROVE IInv'
    OBVIOUS
  <1> USE DEF IInv
  <1>1. ASSUME NEW c \in Publishers, Enqueue(c) \/ Refuse(c) \/ Cancel(c) PROVE IInv'
    <2>1. UNCHANGED <<queue, sent, done, batch, phase, stopping>>
      BY <1>1 DEF Enqueue, Refuse, Cancel, writer
    <2> QED BY <2>1, QuietFlow
  <1>2. ASSUME NEW c \in Publishers, Admit(c) PROVE IInv'
    BY <1>2, SendFlow DEF Admit, writer, Commands
  <1>3. ASSUME NEW c \in Directs, Direct(c) PROVE IInv'
    BY <1>3, QuietFlow DEF Direct, writer
  <1>4. ASSUME NEW c \in Ackers, Ack(c) PROVE IInv'
    BY <1>4, QuietFlow DEF Ack, writer
  <1>5. ASSUME NEW c \in Ackers, AckSend(c) PROVE IInv'
    <2>1. CASE phase # "stopped"
      BY <1>5, <2>1, SendFlow DEF AckSend, writer, Commands
    <2>2. CASE phase = "stopped"
      BY <1>5, <2>2, QuietFlow DEF AckSend, writer
    <2> QED BY <2>1, <2>2
  <1>6. CASE AskShutdown
    BY <1>6, SendFlow DEF AskShutdown, writer, Commands
  <1>7. CASE Recv
    <2>1. CASE Head(queue) = Shutdown
      <3>1. phase' = "stopped" /\ queue' = <<>> /\ stopping' = stopping /\ batch' = batch
            /\ sent' = sent /\ done' = done /\ phase = "recv"
        BY <1>7, <2>1 DEF Recv, Stop
      <3>2. FlowType'
        BY <3>1, EmptySeq DEF FlowType
      <3>3. PhaseInv' /\ AdmittedInOrder'
        BY <3>1 DEF PhaseInv, AdmittedInOrder
      <3> QED BY <3>2, <3>3
    <2>2. CASE Head(queue) # Shutdown
      <3>1. /\ queue # <<>> /\ queue' = Tail(queue) /\ batch' = <<Head(queue)>>
            /\ phase = "recv" /\ phase' = "collect" /\ sent' = sent /\ done' = done
            /\ stopping' = stopping
        BY <1>7, <2>2 DEF Recv
      <3>2. ~stopping
        BY <3>1 DEF PhaseInv
      <3>3. Head(queue) \in Commands /\ Tail(queue) \in Seq(Commands)
        BY <3>1, HeadTailProperties DEF FlowType
      <3>4. FlowType' /\ PhaseInv'
        <4>1. FlowType'
          BY SMTT(30), <3>1, <3>3 DEF FlowType
        <4> QED BY <3>1, <3>2, <4>1, Zenon DEF PhaseInv
      <3>5. Taken = done \o <<>> \o <<>> /\ Taken' = done \o <<Head(queue)>> \o <<>>
        BY <3>1, <3>2 DEF Taken, InHand, Met
      <3>6. done \in Seq(Commands) /\ done \o <<Head(queue)>> \in Seq(Commands)
        BY SMTT(30), <3>3 DEF FlowType
      <3>7. Taken = done /\ Taken' = done \o <<Head(queue)>>
        BY <3>5, <3>6, EmptyNeutral
      <3>8. Taken' = Append(Taken, Head(queue))
        BY <3>3, <3>6, <3>7, ConcatOne
      <3> QED BY <3>1, <3>4, <3>8, TakeFlow
    <2> QED BY <2>1, <2>2
  <1>8. CASE Collect
    <2>1. /\ queue # <<>> /\ queue' = Tail(queue) /\ phase = "collect"
          /\ sent' = sent /\ done' = done
      BY <1>8 DEF Collect
    <2>2. ~stopping
      BY <2>1 DEF PhaseInv
    <2>3. Head(queue) \in Commands /\ Tail(queue) \in Seq(Commands)
      BY <2>1, HeadTailProperties DEF FlowType
    <2>4. done \in Seq(Commands) /\ batch \in Seq(Commands) /\ done \o batch \in Seq(Commands)
      BY SMTT(30) DEF FlowType
    <2>5. Taken = done \o batch \o <<>>
      BY <2>1, <2>2 DEF Taken, InHand, Met
    <2>6. Taken = done \o batch
      BY <2>4, <2>5, EmptyNeutral
    <2>7. CASE Head(queue) = Shutdown
      <3>1. stopping' = TRUE /\ phase' = "persist" /\ batch' = batch
        BY <1>8, <2>7 DEF Collect
      <3>2. FlowType' /\ PhaseInv'
        <4>1. FlowType'
          BY <2>1, <2>3, <3>1 DEF FlowType
        <4>2. PhaseInv'
          BY <3>1 DEF PhaseInv
        <4> QED BY <4>1, <4>2
      <3>3. Taken' = done \o batch \o <<Head(queue)>>
        BY <2>1, <2>7, <3>1 DEF Taken, InHand, Met
      <3>4. Taken' = Append(Taken, Head(queue))
        BY <2>3, <2>4, <2>6, <3>3, ConcatOne
      <3> QED BY <2>1, <3>2, <3>4, TakeFlow
    <2>8. CASE Head(queue) # Shutdown
      <3>1. stopping' = stopping /\ phase' = phase /\ batch' = Append(batch, Head(queue))
        BY <1>8, <2>8 DEF Collect
      <3>2. FlowType' /\ PhaseInv'
        <4>1. FlowType'
          BY SMTT(30), <2>1, <2>3, <3>1 DEF FlowType
        <4>2. PhaseInv'
          BY <3>1, Zenon DEF PhaseInv
        <4> QED BY <4>1, <4>2
      <3>3. Taken' = done \o Append(batch, Head(queue)) \o <<>>
        BY <2>1, <2>2, <3>1 DEF Taken, InHand, Met
      <3>4. done \o Append(batch, Head(queue)) \in Seq(Commands)
        BY SMTT(30), <2>3, <2>4
      <3>5. Taken' = done \o Append(batch, Head(queue))
        BY <3>3, <3>4, EmptyNeutral
      <3>6. Taken' = Append(Taken, Head(queue))
        BY <2>3, <2>4, <2>6, <3>5, AppendRight
      <3> QED BY <2>1, <3>2, <3>6, TakeFlow
    <2> QED BY <2>7, <2>8
  <1>9. CASE CloseBatch
    <2>1. /\ phase = "collect" /\ phase' = "persist"
          /\ UNCHANGED <<queue, sent, done, batch, stopping>>
      BY <1>9 DEF CloseBatch
    <2>2. FlowType' /\ AdmittedInOrder'
      BY <2>1 DEF FlowType, AdmittedInOrder
    <2>3. PhaseInv'
      BY <2>1 DEF PhaseInv
    <2> QED BY <2>2, <2>3
  <1>10. CASE Persist
    <2>1. /\ phase = "persist" /\ phase' = "acks" /\ done' = done \o batch
          /\ UNCHANGED <<queue, sent, batch, stopping>>
      BY <1>10 DEF Persist
    <2>2. FlowType'
      BY SMTT(30), <2>1 DEF FlowType
    <2>3. PhaseInv'
      BY <2>1 DEF PhaseInv
    <2>4. Taken = done \o batch \o Met /\ Taken' = (done \o batch) \o <<>> \o Met
      BY <2>1, Zenon DEF Taken, InHand, Met
    <2>5. (done \o batch) \o <<>> = done \o batch
      BY SMTT(30), EmptyNeutral DEF FlowType
    <2>6. (phase # "stopped" => sent = Taken \o queue)'
      BY <2>1, <2>4, <2>5, Flow
    <2>7. AdmittedInOrder'
      BY <2>6, Flow, PTL
    <2> QED BY <2>2, <2>3, <2>7
  <1>11. CASE CommitAcks
    <2>1. phase = "acks" /\ batch' = <<>> /\ stopping' = FALSE /\ sent' = sent /\ done' = done
      BY <1>11 DEF CommitAcks
    <2>2. CASE stopping
      <3>1. phase' = "stopped" /\ queue' = <<>>
        BY <1>11, <2>2 DEF CommitAcks, Stop
      <3> QED BY <2>1, <3>1, EmptySeq, StopFlow
    <2>3. CASE ~stopping
      <3>1. phase' = "recv" /\ queue' = queue
        BY <1>11, <2>3 DEF CommitAcks
      <3>2. FlowType'
        BY <2>1, <3>1, EmptySeq DEF FlowType
      <3>3. PhaseInv' /\ AdmittedInOrder'
        BY <2>1, <2>3, <3>1 DEF PhaseInv, AdmittedInOrder
      <3> QED BY <3>2, <3>3
    <2> QED BY <2>2, <2>3
  <1>12. CASE Restart
    <2>1. /\ queue' = <<>> /\ batch' = <<>> /\ sent' = <<>> /\ done' = <<>>
          /\ phase' = "recv" /\ stopping' = FALSE
      BY <1>12 DEF Restart
    <2>2. FlowType'
      BY <2>1, EmptySeq DEF FlowType
    <2>3. PhaseInv'
      BY <2>1 DEF PhaseInv
    <2>4. Taken' = <<>> \o <<>> \o <<>>
      BY <2>1 DEF Taken, InHand, Met
    <2>5. <<>> \o <<>> \o <<>> = <<>> /\ <<>> \o <<>> = <<>>
      BY SMTT(30), EmptyNeutral
    <2>6. (phase # "stopped" => sent = Taken \o queue)'
      BY <2>1, <2>4, <2>5
    <2>7. AdmittedInOrder'
      BY <2>6, Flow, PTL
    <2> QED BY <2>2, <2>3, <2>7
  <1>13. CASE UNCHANGED vars
    BY <1>13, QuietFlow DEF vars, writer
  <1> QED
    BY <1>1, <1>2, <1>3, <1>4, <1>5, <1>6, <1>7, <1>8, <1>9, <1>10, <1>11, <1>12, <1>13
    DEF Next, WriterStep

\* While the writer runs it loses, repeats and reorders no command it admitted
\* (writer.rs:285-399), whatever its callers, cancellations and restarts do.
THEOREM NothingLostInOrder == Spec => []AdmittedInOrder
  BY InitFlow, NextFlow, PTL DEF Spec, IInv

-----------------------------------------------------------------------------
(* Loops over a sequence *)

\* A set of natural numbers has a least element.
LEMMA LeastNatural ==
    ASSUME NEW T \in SUBSET Nat, T # {} PROVE \E x \in T : \A y \in T : x <= y
  <1>1. PICK x \in T : \A y \in T : ~ (<<y, x>> \in OpToRel(<, Nat))
    BY NatLessThanWellFounded, WFMin
  <1>2. \A y \in T : ~(y < x)
    BY <1>1 DEF OpToRel
  <1> QED BY SMTT(30), <1>2

\* What holds before a loop and is kept by each of its n rounds holds after it.
LEMMA Rounds ==
    ASSUME NEW n \in Nat, NEW G, 0 \in G, \A i \in 1..n : i - 1 \in G => i \in G
    PROVE  n \in G
  <1> DEFINE T == (0..n) \ G
  <1> SUFFICES ASSUME n \notin G PROVE FALSE
    OBVIOUS
  <1>1. T \in SUBSET Nat /\ T # {}
    <2>1. n \in 0..n /\ 0..n \subseteq Nat
      BY SMTT(30)
    <2> QED BY <2>1
  <1>2. PICK x \in T : \A y \in T : x <= y
    <2> HIDE DEF T
    <2> QED BY <1>1, LeastNatural
  <1>3. x # 0
    OBVIOUS
  <1>4. x \in 1..n /\ x - 1 \in 0..n /\ ~(x <= x - 1)
    <2>1. x \in 0..n
      OBVIOUS
    <2> HIDE DEF T
    <2> QED BY SMTT(30), <1>3, <2>1
  <1>5. x - 1 \notin T
    BY <1>2, <1>4
  <1> QED BY <1>4, <1>5

\* f holds the values of a loop that starts with b and whose rounds are given by g.
Runs(f, V, m, b, g) ==
    f \in [0..m -> V] /\ f[0] = b /\ \A i \in 1..m : f[i] = g[<<i, f[i - 1]>>]

\* Every such loop has values.
LEMMA LoopRuns ==
    ASSUME NEW V, NEW n \in Nat, NEW b \in V, NEW g \in [(1..n) \X V -> V]
    PROVE  \E f : Runs(f, V, n, b, g)
  <1> DEFINE G == {m \in 0..n : \E f : Runs(f, V, m, b, g)}
  <1>1. 0 \in G
    <2> DEFINE f == [i \in 0..0 |-> b]
    <2>1. 0 \in 0..0 /\ 0 \in 0..n /\ 1..0 = {}
      BY SMTT(30)
    <2>2. f \in [0..0 -> V] /\ f[0] = b
      BY <2>1
    <2>3. Runs(f, V, 0, b, g)
      BY <2>1, <2>2 DEF Runs
    <2> HIDE DEF f
    <2> QED BY <2>1, <2>3
  <1>2. ASSUME NEW m \in 1..n, m - 1 \in G PROVE m \in G
    <2>1. PICK f : Runs(f, V, m - 1, b, g)
      BY <1>2
    <2>0. /\ f \in [0..(m - 1) -> V] /\ f[0] = b
          /\ \A i \in 1..(m - 1) : f[i] = g[<<i, f[i - 1]>>]
      BY <2>1 DEF Runs
    <2> DEFINE h == [i \in 0..m |-> IF i = m THEN g[<<m, f[m - 1]>>] ELSE f[i]]
    <2>2. /\ m \in 0..n /\ m \in 0..m /\ 0 \in 0..m /\ m - 1 \in 0..(m - 1) /\ 0 # m /\ m \in 1..m
          /\ \A i \in 0..m : i # m => i \in 0..(m - 1)
          /\ \A i \in 1..m : i \in 1..n /\ i \in 0..m /\ i - 1 \in 0..m /\ i - 1 # m
          /\ \A i \in 1..m : i # m => i \in 1..(m - 1)
      BY SMTT(30)
    <2>3. f[m - 1] \in V
      BY <2>0, <2>2
    <2>4. g[<<m, f[m - 1]>>] \in V
      BY <2>2, <2>3
    <2>5. h \in [0..m -> V]
      BY <2>0, <2>2, <2>4
    <2>6. h[0] = b
      BY <2>0, <2>2
    <2>7. ASSUME NEW i \in 1..m PROVE h[i] = g[<<i, h[i - 1]>>]
      <3>1. h[i - 1] = f[i - 1]
        BY <2>2
      <3>2. CASE i = m
        BY <2>2, <3>1, <3>2
      <3>3. CASE i # m
        <4>1. h[i] = f[i]
          BY <2>2, <3>3
        <4>2. f[i] = g[<<i, f[i - 1]>>]
          BY <2>0, <2>2, <3>3
        <4> QED BY <3>1, <4>1, <4>2
      <3> QED BY <3>2, <3>3
    <2>8. Runs(h, V, m, b, g)
      BY <2>5, <2>6, <2>7 DEF Runs
    <2> HIDE DEF h
    <2> QED BY <2>2, <2>8
  <1>3. n \in G
    <2> HIDE DEF G
    <2> QED BY <1>1, <1>2, Rounds
  <1> QED BY <1>3

\* The values of the loop of Kept.
LEMMA KeptLoop ==
    ASSUME NEW X, NEW s \in Seq(X), NEW S
    PROVE  \E w : /\ Kept(s, S) = w[Len(s)] /\ w[0] = <<>>
                  /\ \A i \in 1..Len(s) : /\ s[i] \in S => w[i] = Append(w[i - 1], s[i])
                                          /\ s[i] \notin S => w[i] = w[i - 1]
  <1> DEFINE n == Len(s)
             V == Seq(X)
             Body(f, i) == IF i = 0 THEN <<>>
                           ELSE IF s[i] \in S THEN Append(f[i - 1], s[i]) ELSE f[i - 1]
             Obeys(f) == f = [i \in 0..n |-> Body(f, i)]
             w == CHOOSE f : Obeys(f)
             g == [p \in (1..n) \X V |-> IF s[p[1]] \in S THEN Append(p[2], s[p[1]]) ELSE p[2]]
  <1>0. /\ n \in Nat /\ 0 \in 0..n /\ n \in 0..n /\ <<>> \in V
        /\ \A i \in 1..n : i \in 0..n /\ i # 0 /\ i - 1 \in 0..n
        /\ \A i \in 0..n : i # 0 => i \in 1..n
    BY SMTT(30)
  <1>1. \A i \in 1..n, v \in V : Append(v, s[i]) \in V
    BY SMTT(30)
  <1>2. \A i \in 1..n, v \in V :
           /\ <<i, v>> \in (1..n) \X V
           /\ g[<<i, v>>] = IF s[i] \in S THEN Append(v, s[i]) ELSE v
    OBVIOUS
  <1>3. g \in [(1..n) \X V -> V]
    <2>1. \A p \in (1..n) \X V : p[1] \in 1..n /\ p[2] \in V
      OBVIOUS
    <2> QED BY <1>1, <2>1
  <1>4. PICK f \in [0..n -> V] : f[0] = <<>> /\ \A i \in 1..n : f[i] = g[<<i, f[i - 1]>>]
    <2>1. n \in Nat /\ <<>> \in V
      BY <1>0
    <2> HIDE DEF g, V, n
    <2>2. \E f : Runs(f, V, n, <<>>, g)
      BY <1>3, <2>1, LoopRuns
    <2> QED BY <2>2 DEF Runs
  <1>5. \A i \in 0..n : f[i] = Body(f, i)
    <2> SUFFICES ASSUME NEW i \in 0..n PROVE f[i] = Body(f, i)
      OBVIOUS
    <2>1. CASE i = 0
      BY <1>4, <2>1
    <2>2. CASE i # 0
      <3>1. i \in 1..n /\ f[i - 1] \in V
        BY <1>0, <1>4, <2>2
      <3> QED BY <1>2, <1>4, <2>2, <3>1
    <2> QED BY <2>1, <2>2
  <1>6. Obeys(f)
    BY <1>4, <1>5
  <1>7. Obeys(w)
    <2> HIDE DEF Obeys
    <2> QED BY <1>6
  <1>8. Kept(s, S) = w[n]
    BY DEF Kept
  <1>9. \A i \in 0..n : w[i] = Body(w, i)
    <2> HIDE DEF w
    <2> QED BY <1>7
  <1> HIDE DEF w
  <1> QED BY <1>0, <1>8, <1>9

\* The values of the loop of enqueue_batch.
LEMMA InsertLoop ==
    ASSUME NEW rows \in Seq(Publishes), NEW s \in Seq(Publishes)
    PROVE  \E w : /\ InsertAll(rows, s) = w[Len(s)] /\ w[0] = rows
                  /\ \A i \in 1..Len(s) : w[i] = InsertOrIgnore(w[i - 1], s[i])
  <1> DEFINE n == Len(s)
             V == Seq(Publishes)
             Body(f, i) == IF i = 0 THEN rows ELSE InsertOrIgnore(f[i - 1], s[i])
             Obeys(f) == f = [i \in 0..n |-> Body(f, i)]
             w == CHOOSE f : Obeys(f)
             g == [p \in (1..n) \X V |-> InsertOrIgnore(p[2], s[p[1]])]
  <1>0. /\ n \in Nat /\ 0 \in 0..n /\ n \in 0..n
        /\ \A i \in 1..n : i \in 0..n /\ i # 0 /\ i - 1 \in 0..n
        /\ \A i \in 0..n : i # 0 => i \in 1..n
    BY SMTT(30)
  <1>1. \A i \in 1..n, v \in V : Append(v, s[i]) \in V
    BY SMTT(30)
  <1>2. \A i \in 1..n, v \in V :
           <<i, v>> \in (1..n) \X V /\ g[<<i, v>>] = InsertOrIgnore(v, s[i])
    OBVIOUS
  <1>3. g \in [(1..n) \X V -> V]
    <2>1. \A p \in (1..n) \X V : p[1] \in 1..n /\ p[2] \in V
      OBVIOUS
    <2> QED BY <1>1, <2>1 DEF InsertOrIgnore
  <1>4. PICK f \in [0..n -> V] : f[0] = rows /\ \A i \in 1..n : f[i] = g[<<i, f[i - 1]>>]
    <2>1. n \in Nat /\ rows \in V
      BY <1>0
    <2> HIDE DEF g, V, n
    <2>2. \E f : Runs(f, V, n, rows, g)
      BY <1>3, <2>1, LoopRuns
    <2> QED BY <2>2 DEF Runs
  <1>5. \A i \in 0..n : f[i] = Body(f, i)
    <2> SUFFICES ASSUME NEW i \in 0..n PROVE f[i] = Body(f, i)
      OBVIOUS
    <2>1. CASE i = 0
      BY <1>4, <2>1
    <2>2. CASE i # 0
      <3>1. i \in 1..n /\ f[i - 1] \in V
        BY <1>0, <1>4, <2>2
      <3> QED BY <1>2, <1>4, <2>2, <3>1
    <2> QED BY <2>1, <2>2
  <1>6. Obeys(f)
    BY <1>4, <1>5
  <1>7. Obeys(w)
    <2> HIDE DEF Obeys
    <2> QED BY <1>6
  <1>8. InsertAll(rows, s) = w[n]
    BY DEF InsertAll
  <1>9. \A i \in 0..n : w[i] = Body(w, i)
    <2> HIDE DEF w
    <2> QED BY <1>7
  <1> HIDE DEF w
  <1> QED BY <1>0, <1>8, <1>9

-----------------------------------------------------------------------------
(* What the loops compute *)

\* The elements of a sequence.
LEMMA Elements ==
    ASSUME NEW X, NEW r \in Seq(X)
    PROVE  /\ Len(r) \in Nat /\ Range(r) \subseteq X
           /\ \A x : x \in Range(r) <=> \E j \in 1..Len(r) : r[j] = x
  <1>1. Len(r) \in Nat /\ DOMAIN r = 1..Len(r) /\ \A j \in 1..Len(r) : r[j] \in X
    BY SMTT(30)
  <1> QED BY <1>1 DEF Range

\* q is r with x behind it.
Extends(q, r, x) ==
    /\ \A j \in 1..Len(r) : q[j] = r[j]
    /\ \A j \in 1..Len(q) : j \in 1..Len(r) \/ j = Len(r) + 1
    /\ q[Len(r) + 1] = x

\* Appending an element.
LEMMA AppendElements ==
    ASSUME NEW X, NEW r \in Seq(X), NEW x \in X
    PROVE  /\ Append(r, x) \in Seq(X) /\ Len(Append(r, x)) = Len(r) + 1
           /\ Extends(Append(r, x), r, x)
           /\ Range(Append(r, x)) = Range(r) \cup {x}
  <1>1. /\ Append(r, x) \in Seq(X) /\ Len(Append(r, x)) = Len(r) + 1 /\ Len(r) \in Nat
        /\ \A j \in 1..Len(r) : Append(r, x)[j] = r[j]
        /\ Append(r, x)[Len(r) + 1] = x
    BY SMTT(30)
  <1>2. /\ \A j \in 1..Len(Append(r, x)) : j \in 1..Len(r) \/ j = Len(r) + 1
        /\ 1..Len(r) \subseteq 1..Len(Append(r, x))
        /\ Len(r) + 1 \in 1..Len(Append(r, x))
    <2>1. \A m \in Nat : /\ \A j \in 1..(m + 1) : j \in 1..m \/ j = m + 1
                         /\ 1..m \subseteq 1..(m + 1) /\ m + 1 \in 1..(m + 1)
      BY SMTT(30)
    <2> QED BY <1>1, <2>1
  <1>3. \A y : y \in Range(Append(r, x)) <=> y \in Range(r) \/ y = x
    <2>1. \A y : y \in Range(r) <=> \E j \in 1..Len(r) : r[j] = y
      BY Elements
    <2>2. \A y : y \in Range(Append(r, x))
                   <=> \E j \in 1..Len(Append(r, x)) : Append(r, x)[j] = y
      BY <1>1, Elements
    <2> QED BY <1>1, <1>2, <2>1, <2>2
  <1>4. Extends(Append(r, x), r, x)
    BY <1>1, <1>2 DEF Extends
  <1>5. Range(Append(r, x)) = Range(r) \cup {x}
    BY <1>3
  <1> QED BY <1>1, <1>4, <1>5

\* Kept keeps what is in S, ...
LEMMA KeptElements ==
    ASSUME NEW X, NEW s \in Seq(X), NEW S
    PROVE  /\ Kept(s, S) \in Seq(X) /\ Len(Kept(s, S)) <= Len(s)
           /\ Range(Kept(s, S)) = Range(s) \cap S
  <1>1. PICK w : /\ Kept(s, S) = w[Len(s)] /\ w[0] = <<>>
                 /\ \A i \in 1..Len(s) : /\ s[i] \in S => w[i] = Append(w[i - 1], s[i])
                                         /\ s[i] \notin S => w[i] = w[i - 1]
    BY SMTT(30), KeptLoop
  <1> DEFINE n == Len(s)
             First(i) == {s[a] : a \in 1..i}
             P(i) == w[i] \in Seq(X) /\ Len(w[i]) <= i /\ Range(w[i]) = First(i) \cap S
             G == {i \in 0..n : P(i)}
  <1>2. n \in Nat /\ n \in 0..n /\ 0 \in 0..n /\ \A i \in 1..n : s[i] \in X /\ i \in 0..n
    BY SMTT(30)
  <1>3. P(0)
    <2>1. <<>> \in Seq(X) /\ Len(<<>>) = 0 /\ 0 <= 0 /\ 1..0 = {}
      BY SMTT(30)
    <2>2. Range(<<>>) = {}
      BY <2>1, Elements
    <2> QED BY <1>1, <2>1, <2>2
  <1>4. ASSUME NEW i \in 1..n, P(i - 1) PROVE P(i)
    <2>1. i - 1 \in Nat /\ 1..i = (1..(i - 1)) \cup {i}
      BY SMTT(30)
    <2>2. First(i) = First(i - 1) \cup {s[i]}
      BY <2>1
    <2>3. \A l \in Nat : l <= i - 1 => l <= i /\ l + 1 <= i
      BY SMTT(30)
    <2>4. w[i - 1] \in Seq(X) /\ Len(w[i - 1]) \in Nat
      <3>1. w[i - 1] \in Seq(X)
        BY <1>4
      <3> QED BY SMTT(30), <3>1, Elements
    <2>5. CASE s[i] \in S
      <3>1. w[i] = Append(w[i - 1], s[i])
        BY <1>1, <2>5
      <3>2. /\ w[i] \in Seq(X) /\ Len(w[i]) = Len(w[i - 1]) + 1
            /\ Range(w[i]) = Range(w[i - 1]) \cup {s[i]}
        <4>1. s[i] \in X
          BY <1>2
        <4> HIDE DEF P
        <4> QED BY SMTT(30), <2>4, <3>1, <4>1, AppendElements
      <3>3. Range(w[i]) = First(i) \cap S
        <4> HIDE DEF First
        <4> QED BY <1>4, <2>2, <2>5, <3>2
      <3> QED BY <1>4, <2>3, <2>4, <3>2, <3>3
    <2>6. CASE s[i] \notin S
      <3>1. w[i] = w[i - 1]
        BY <1>1, <2>6
      <3>2. Range(w[i]) = First(i) \cap S
        <4> HIDE DEF First
        <4> QED BY <1>4, <2>2, <2>6, <3>1
      <3> QED BY <1>4, <2>3, <2>4, <3>1, <3>2
    <2> QED BY <2>5, <2>6
  <1>5. n \in G
    <2> HIDE DEF P
    <2>1. 0 \in G
      BY <1>2, <1>3
    <2>2. \A i \in 1..n : i - 1 \in G => i \in G
      BY <1>2, <1>4
    <2> HIDE DEF G, n
    <2> QED BY <1>2, <2>1, <2>2, Rounds
  <1>6. First(n) = Range(s)
    BY Elements
  <1> QED BY <1>1, <1>5, <1>6

\* ... and leaves apart what was apart, by whatever property F tells.
LEMMA KeptApart ==
    ASSUME NEW X, NEW s \in Seq(X), NEW S, NEW F,
           \A a, b \in 1..Len(s) : s[a] \in S /\ s[b] \in S /\ F[s[a]] = F[s[b]] => a = b
    PROVE  \A j, k \in 1..Len(Kept(s, S)) : F[Kept(s, S)[j]] = F[Kept(s, S)[k]] => j = k
  <1>1. PICK w : /\ Kept(s, S) = w[Len(s)] /\ w[0] = <<>>
                 /\ \A i \in 1..Len(s) : /\ s[i] \in S => w[i] = Append(w[i - 1], s[i])
                                         /\ s[i] \notin S => w[i] = w[i - 1]
    BY SMTT(30), KeptLoop
  <1> DEFINE n == Len(s)
             Apart(r) == \A j, k \in 1..Len(r) : F[r[j]] = F[r[k]] => j = k
             P(i) == /\ w[i] \in Seq(X) /\ Apart(w[i])
                     /\ \A x \in Range(w[i]) : \E a \in 1..i : s[a] = x /\ x \in S
             G == {i \in 0..n : P(i)}
  <1>2. n \in Nat /\ n \in 0..n /\ 0 \in 0..n /\ \A i \in 1..n : s[i] \in X /\ i \in 0..n
    BY SMTT(30)
  <1>3. P(0)
    <2>1. <<>> \in Seq(X) /\ 1..Len(<<>>) = {}
      BY SMTT(30)
    <2>2. Range(<<>>) = {}
      BY <2>1, Elements
    <2> QED BY <1>1, <2>1, <2>2
  <1>4. ASSUME NEW i \in 1..n, P(i - 1) PROVE P(i)
    <2>1. /\ \A a \in 1..(i - 1) : a \in 1..n /\ a \in 1..i /\ a # i
          /\ i \in 1..i
      BY SMTT(30)
    <2>2. CASE s[i] \in S
      <3> DEFINE r == w[i - 1]
                 q == Append(r, s[i])
      <3>1. w[i] = q
        BY <1>1, <2>2
      <3>0. r \in Seq(X) /\ s[i] \in X
        BY <1>2, <1>4
      <3>2. q \in Seq(X) /\ Extends(q, r, s[i]) /\ Range(q) = Range(r) \cup {s[i]}
        <4> HIDE DEF r, P
        <4> QED BY <3>0, AppendElements
      <3>3. \A j \in 1..Len(r) : F[r[j]] # F[s[i]]
        <4> SUFFICES ASSUME NEW j \in 1..Len(r), F[r[j]] = F[s[i]] PROVE FALSE
          OBVIOUS
        <4>1. r[j] \in Range(r)
          <5> HIDE DEF r, P
          <5> QED BY <3>0, Elements
        <4>2. PICK a \in 1..(i - 1) : s[a] = r[j] /\ r[j] \in S
          BY <1>4, <4>1
        <4> QED BY <2>1, <2>2, <4>2
      <3>4. Apart(r)
        BY <1>4
      <3> HIDE DEF q, r
      <3>5. Apart(q)
        BY <3>2, <3>3, <3>4 DEF Extends
      <3>6. \A x \in Range(q) : \E a \in 1..i : s[a] = x /\ x \in S
        BY <1>4, <2>1, <2>2, <3>2 DEF r
      <3> QED BY <3>1, <3>2, <3>5, <3>6
    <2>3. CASE s[i] \notin S
      BY <1>1, <1>4, <2>1, <2>3
    <2> QED BY <2>2, <2>3
  <1>5. n \in G
    <2> HIDE DEF P
    <2>1. 0 \in G
      BY <1>2, <1>3
    <2>2. \A i \in 1..n : i - 1 \in G => i \in G
      BY <1>2, <1>4
    <2> HIDE DEF G, n
    <2> QED BY <1>2, <2>1, <2>2, Rounds
  <1> QED BY <1>1, <1>5

\* Rows that are apart by id and by key.
OneEach(r) ==
    \A i, j \in 1..Len(r) :
        r[i] = r[j] \/ (KeyOf[r[i]] = KeyOf[r[j]] /\ KeyOf[r[i]] # NoKey) => i = j

\* The rows have c, or another message with its key.
Has(r, c) == c \in Range(r) \/ StoredKey(r, KeyOf[c])

\* Rows are not lost.
LEMMA HasMore == ASSUME NEW r, NEW q, Range(r) \subseteq Range(q), NEW c, Has(r, c) PROVE Has(q, c)
  BY DEF Has, StoredKey

\* INSERT OR IGNORE of one message.
LEMMA InsertOne ==
    ASSUME NEW r \in Seq(Publishes), OneEach(r), NEW c \in Publishes, c \notin Range(r)
    PROVE  /\ InsertOrIgnore(r, c) \in Seq(Publishes) /\ OneEach(InsertOrIgnore(r, c))
           /\ Range(r) \subseteq Range(InsertOrIgnore(r, c))
           /\ Range(InsertOrIgnore(r, c)) \subseteq Range(r) \cup {c}
           /\ Has(InsertOrIgnore(r, c), c)
  <1>1. CASE StoredKey(r, KeyOf[c])
    BY <1>1 DEF InsertOrIgnore, Has
  <1>2. CASE ~StoredKey(r, KeyOf[c])
    <2> DEFINE q == Append(r, c)
    <2>1. InsertOrIgnore(r, c) = q
      BY <1>2 DEF InsertOrIgnore
    <2>2. q \in Seq(Publishes) /\ Extends(q, r, c) /\ Range(q) = Range(r) \cup {c}
      BY AppendElements
    <2>3. \A j \in 1..Len(r) : r[j] # c /\ (KeyOf[r[j]] = KeyOf[c] => KeyOf[c] = NoKey)
      <3>1. \A j \in 1..Len(r) : r[j] \in Range(r)
        BY Elements
      <3> QED BY <1>2, <3>1 DEF StoredKey
    <2> HIDE DEF q
    <2>4. OneEach(q)
      BY <2>2, <2>3 DEF OneEach, Extends
    <2> QED BY <2>1, <2>2, <2>4 DEF Has
  <1> QED BY <1>1, <1>2

\* enqueue_batch of messages that are apart and not stored yet.
LEMMA InsertMany ==
    ASSUME NEW rows \in Seq(Publishes), OneEach(rows), NEW s \in Seq(Publishes),
           \A i, j \in 1..Len(s) : s[i] = s[j] => i = j,
           \A i \in 1..Len(s) : s[i] \notin Range(rows)
    PROVE  /\ InsertAll(rows, s) \in Seq(Publishes) /\ OneEach(InsertAll(rows, s))
           /\ Range(rows) \subseteq Range(InsertAll(rows, s))
           /\ Range(InsertAll(rows, s)) \subseteq Range(rows) \cup Range(s)
           /\ \A i \in 1..Len(s) : Has(InsertAll(rows, s), s[i])
  <1>1. PICK w : /\ InsertAll(rows, s) = w[Len(s)] /\ w[0] = rows
                 /\ \A i \in 1..Len(s) : w[i] = InsertOrIgnore(w[i - 1], s[i])
    BY InsertLoop
  <1> DEFINE n == Len(s)
             First(i) == {s[a] : a \in 1..i}
             P(i) == /\ w[i] \in Seq(Publishes) /\ OneEach(w[i])
                     /\ Range(rows) \subseteq Range(w[i])
                     /\ Range(w[i]) \subseteq Range(rows) \cup First(i)
                     /\ \A a \in 1..i : Has(w[i], s[a])
             G == {i \in 0..n : P(i)}
  <1>2. n \in Nat /\ n \in 0..n /\ 0 \in 0..n /\ \A i \in 1..n : s[i] \in Publishes /\ i \in 0..n
    BY SMTT(30)
  <1>3. P(0)
    <2>1. 1..0 = {}
      BY SMTT(30)
    <2> QED BY <1>1, <2>1
  <1>4. ASSUME NEW i \in 1..n, P(i - 1) PROVE P(i)
    <2>1. /\ 1..i = (1..(i - 1)) \cup {i}
          /\ \A a \in 1..(i - 1) : a \in 1..n /\ a # i
      BY SMTT(30)
    <2>2. First(i) = First(i - 1) \cup {s[i]}
      BY <2>1
    <2>3. s[i] \notin Range(w[i - 1])
      <3>1. s[i] \notin First(i - 1)
        BY <2>1
      <3> HIDE DEF First
      <3> QED BY <1>4, <3>1
    <2>4. w[i] = InsertOrIgnore(w[i - 1], s[i])
      BY <1>1
    <2>5. /\ w[i] \in Seq(Publishes) /\ OneEach(w[i])
          /\ Range(w[i - 1]) \subseteq Range(w[i])
          /\ Range(w[i]) \subseteq Range(w[i - 1]) \cup {s[i]}
          /\ Has(w[i], s[i])
      <3>1. w[i - 1] \in Seq(Publishes) /\ OneEach(w[i - 1]) /\ s[i] \in Publishes
        BY <1>2, <1>4
      <3> HIDE DEF P
      <3> QED BY SMTT(30), <2>3, <2>4, <3>1, InsertOne
    <2>6. \A a \in 1..i : Has(w[i], s[a])
      BY <1>4, <2>1, <2>5, HasMore
    <2>7. Range(rows) \subseteq Range(w[i]) /\ Range(w[i]) \subseteq Range(rows) \cup First(i)
      <3> HIDE DEF First
      <3> QED BY <1>4, <2>2, <2>5
    <2> QED BY <2>5, <2>6, <2>7
  <1>5. n \in G
    <2> HIDE DEF P
    <2>1. 0 \in G
      BY <1>2, <1>3
    <2>2. \A i \in 1..n : i - 1 \in G => i \in G
      BY <1>2, <1>4
    <2> HIDE DEF G, n
    <2> QED BY <1>2, <2>1, <2>2, Rounds
  <1>6. First(n) = Range(s)
    <2>1. \A x : x \in Range(s) <=> \E j \in 1..Len(s) : s[j] = x
      BY Elements
    <2> QED BY SMTT(30), <2>1
  <1> QED BY <1>1, <1>5, <1>6

\* A sequence without repetitions is as long as the set of its elements is large.
LEMMA DistinctLength ==
    ASSUME NEW X, NEW s \in Seq(X), \A i, j \in 1..Len(s) : s[i] = s[j] => i = j
    PROVE  Cardinality(Range(s)) = Len(s)
  <1>1. Len(s) \in Nat /\ DOMAIN s = 1..Len(s) /\ s = [i \in 1..Len(s) |-> s[i]]
    BY SMTT(30)
  <1>2. \A x : x \in Range(s) <=> \E j \in 1..Len(s) : s[j] = x
    BY Elements
  <1>3. s \in [1..Len(s) -> Range(s)]
    BY <1>1, <1>2
  <1>4. s \in Bijection(1..Len(s), Range(s))
    BY <1>1, <1>2, <1>3 DEF Bijection, Injection, Surjection, IsInjective
  <1> QED BY <1>1, <1>4, FS_CountingElements DEF ExistsBijection

-----------------------------------------------------------------------------
(* Sequences without repetitions *)

\* No element of P is in s twice.
Once(s, P) == \A i, j \in 1..Len(s) : s[i] = s[j] /\ s[i] \in P => i = j

\* Removing the head.
LEMMA TailElements ==
    ASSUME NEW X, NEW s \in Seq(X), s # <<>>
    PROVE  /\ Head(s) \in X /\ Tail(s) \in Seq(X) /\ Len(Tail(s)) = Len(s) - 1
           /\ Range(s) = {Head(s)} \cup Range(Tail(s))
           /\ \A P : Once(s, P) => /\ Once(Tail(s), P)
                                   /\ Head(s) \in P => Head(s) \notin Range(Tail(s))
  <1>1. /\ Len(s) \in Nat /\ 1 \in 1..Len(s) /\ Head(s) = s[1] /\ Head(s) \in X
        /\ Tail(s) \in Seq(X) /\ Len(Tail(s)) = Len(s) - 1
        /\ \A j \in 1..Len(Tail(s)) : j + 1 \in 1..Len(s) /\ Tail(s)[j] = s[j + 1] /\ j + 1 # 1
        /\ \A i \in 1..Len(s) : i # 1 => i - 1 \in 1..Len(Tail(s)) /\ Tail(s)[i - 1] = s[i]
        /\ \A i, j \in 1..Len(Tail(s)) : i + 1 = j + 1 => i = j
    BY SMTT(30)
  <1>2. \A x : x \in Range(s) <=> \E j \in 1..Len(s) : s[j] = x
    BY Elements
  <1>3. \A x : x \in Range(Tail(s)) <=> \E j \in 1..Len(Tail(s)) : Tail(s)[j] = x
    BY <1>1, Elements
  <1>4. Range(s) = {Head(s)} \cup Range(Tail(s))
    <2>1. ASSUME NEW x \in Range(s) PROVE x = Head(s) \/ x \in Range(Tail(s))
      <3>1. PICK i \in 1..Len(s) : s[i] = x
        BY <1>2
      <3>2. CASE i = 1
        BY <1>1, <3>1, <3>2
      <3>3. CASE i # 1
        <4>1. i - 1 \in 1..Len(Tail(s)) /\ Tail(s)[i - 1] = x
          BY <1>1, <3>1, <3>3
        <4> QED BY <1>3, <4>1
      <3> QED BY <3>2, <3>3
    <2>2. Head(s) \in Range(s)
      BY <1>1, <1>2
    <2>3. ASSUME NEW x \in Range(Tail(s)) PROVE x \in Range(s)
      <3>1. PICK j \in 1..Len(Tail(s)) : Tail(s)[j] = x
        BY <1>3
      <3>2. j + 1 \in 1..Len(s) /\ s[j + 1] = x
        BY <1>1, <3>1
      <3> QED BY <1>2, <3>2
    <2> QED BY <2>1, <2>2, <2>3
  <1>5. ASSUME NEW P, Once(s, P)
        PROVE  Once(Tail(s), P) /\ (Head(s) \in P => Head(s) \notin Range(Tail(s)))
    <2>1. ASSUME NEW i \in 1..Len(Tail(s)), NEW j \in 1..Len(Tail(s)),
                 Tail(s)[i] = Tail(s)[j], Tail(s)[i] \in P
          PROVE  i = j
      <3>1. /\ i + 1 \in 1..Len(s) /\ j + 1 \in 1..Len(s)
            /\ s[i + 1] = s[j + 1] /\ s[i + 1] \in P
        BY <1>1, <2>1
      <3>2. i + 1 = j + 1
        BY <1>5, <3>1 DEF Once
      <3> QED BY <1>1, <3>2
    <2>2. ASSUME Head(s) \in P, Head(s) \in Range(Tail(s)) PROVE FALSE
      <3>1. PICK j \in 1..Len(Tail(s)) : Tail(s)[j] = Head(s)
        BY <1>3, <2>2
      <3> QED BY <1>1, <1>5, <2>2, <3>1 DEF Once
    <2> QED BY <2>1, <2>2 DEF Once
  <1> QED BY <1>1, <1>4, <1>5

\* Adding an element that is new.
LEMMA AppendOnce ==
    ASSUME NEW X, NEW s \in Seq(X), NEW x \in X, NEW P, Once(s, P), x \in P => x \notin Range(s)
    PROVE  Once(Append(s, x), P)
  <1> DEFINE q == Append(s, x)
  <1>1. Extends(q, s, x)
    BY AppendElements
  <1>2. \A j \in 1..Len(s) : s[j] \in Range(s)
    BY Elements
  <1> HIDE DEF q
  <1>3. Once(q, P)
    BY <1>1, <1>2 DEF Once, Extends
  <1> QED BY <1>3 DEF q

\* The sequence of nothing and of one element.
LEMMA ShortOnce ==
    /\ Len(<<>>) = 0 /\ Range(<<>>) = {} /\ \A P : Once(<<>>, P)
    /\ \A x : /\ <<x>> \in Seq({x}) /\ Len(<<x>>) = 1 /\ <<x>>[1] = x /\ Range(<<x>>) = {x}
              /\ \A P : Once(<<x>>, P)
  <1>1. Len(<<>>) = 0 /\ 1..0 = {} /\ 1..1 = {1} /\ <<>> \in Seq({})
    BY SMTT(30)
  <1>2. \A x : <<x>> \in Seq({x}) /\ Len(<<x>>) = 1 /\ <<x>>[1] = x
    BY SMTT(30)
  <1>3. Range(<<>>) = {}
    BY <1>1, Elements
  <1>4. \A x : Range(<<x>>) = {x}
    <2> SUFFICES ASSUME NEW x PROVE Range(<<x>>) = {x}
      OBVIOUS
    <2> DEFINE s == <<x>>
    <2>1. s \in Seq({x}) /\ 1..Len(s) = {1} /\ s[1] = x
      BY <1>1, <1>2
    <2> HIDE DEF s
    <2>2. \A y : y \in Range(s) <=> \E j \in 1..Len(s) : s[j] = y
      BY <2>1, Elements
    <2>3. Range(s) = {x}
      BY <2>1, <2>2
    <2> QED BY <2>3 DEF s
  <1>5. \A P : Once(<<>>, P)
    BY <1>1 DEF Once
  <1>6. \A x, P : Once(<<x>>, P)
    <2> SUFFICES ASSUME NEW x, NEW P, NEW i \in 1..Len(<<x>>), NEW j \in 1..Len(<<x>>) PROVE i = j
      BY DEF Once
    <2>1. 1..Len(<<x>>) = {1}
      BY <1>1, <1>2
    <2> QED BY <2>1
  <1> QED BY <1>1, <1>2, <1>3, <1>4, <1>5, <1>6

-----------------------------------------------------------------------------
(* RecentIds *)

RecentInv ==
    /\ DOMAIN values \subseteq Keys
    /\ \A k \in DOMAIN values : values[k] \in Publishes /\ KeyOf[values[k]] = k
    /\ order \in Seq(Keys) /\ Once(order, Keys) /\ Range(order) = DOMAIN values
    /\ Len(order) <= RecentCapacity

\* `values` is as large as `order` is long.
LEMMA RecentLength == RecentInv => Cardinality(DOMAIN values) = Len(order)
  <1> SUFFICES ASSUME RecentInv PROVE Cardinality(DOMAIN values) = Len(order)
    OBVIOUS
  <1>1. \A i \in 1..Len(order) : order[i] \in Keys
    <2>1. order \in Seq(Keys)
      BY DEF RecentInv
    <2> QED BY SMTT(30), <2>1
  <1>2. \A i, j \in 1..Len(order) : order[i] = order[j] => i = j
    BY <1>1 DEF RecentInv, Once
  <1> QED BY <1>2, DistinctLength DEF RecentInv

\* insert of a key that is not present.
LEMMA RememberRecent ==
    ASSUME RecentInv, NEW k \in Keys, k \notin DOMAIN values,
           NEW id \in Publishes, KeyOf[id] = k, Remember(k, id)
    PROVE  RecentInv'
  <1>0. /\ DOMAIN values \subseteq Keys
        /\ \A x \in DOMAIN values : values[x] \in Publishes /\ KeyOf[values[x]] = x
        /\ order \in Seq(Keys) /\ Once(order, Keys) /\ Range(order) = DOMAIN values
        /\ Len(order) <= RecentCapacity /\ Len(order) \in Nat
        /\ Cardinality(DOMAIN values) = Len(order)
    BY RecentLength, Elements DEF RecentInv
  <1>1. CASE Cardinality(DOMAIN values) >= RecentCapacity
    <2> DEFINE old == Head(order)
               kept == Forget(values, old)
               rest == Tail(order)
    <2>1. /\ values' = [x \in DOMAIN kept \cup {k} |-> IF x = k THEN id ELSE kept[x]]
          /\ order' = Append(rest, k)
      BY <1>1 DEF Remember
    <2>2. order # <<>> /\ Len(order) = RecentCapacity
      <3>1. Len(order) >= RecentCapacity
        BY <1>0, <1>1
      <3>2. Len(<<>>) = 0
        BY ShortOnce
      <3>3. \A m, c \in Nat : c # 0 /\ m <= c /\ m >= c => m # 0 /\ m = c
        BY SMTT(30)
      <3> QED BY <1>0, <3>1, <3>2, <3>3, SizeAssumption
    <2>3. /\ old \in Keys /\ rest \in Seq(Keys) /\ Len(rest) = Len(order) - 1
          /\ Range(order) = {old} \cup Range(rest) /\ Once(rest, Keys) /\ old \notin Range(rest)
      BY <1>0, <2>2, TailElements
    <2>4. DOMAIN kept = DOMAIN values \ {old} /\ \A x \in DOMAIN kept : kept[x] = values[x]
      BY DEF Forget
    <2> HIDE DEF kept, old, rest
    <2>5. DOMAIN kept = Range(rest)
      BY <1>0, <2>3, <2>4
    <2>6. DOMAIN values' = DOMAIN kept \cup {k}
          /\ \A x \in DOMAIN values' : values'[x] = IF x = k THEN id ELSE kept[x]
      BY <2>1
    <2>7. \A x \in DOMAIN values' : values'[x] \in Publishes /\ KeyOf[values'[x]] = x
      BY <1>0, <2>4, <2>6
    <2>8. k \notin Range(rest)
      BY <1>0, <2>4, <2>5
    <2>9. order' \in Seq(Keys) /\ Range(order') = Range(rest) \cup {k} /\ Len(order') = Len(rest) + 1
      BY SMTT(30), <2>1, <2>3, AppendElements
    <2>10. Once(order', Keys)
      BY <2>1, <2>3, <2>8, AppendOnce
    <2>11. Len(order') <= RecentCapacity
      <3>1. \A m, r, o, c \in Int : m = r + 1 /\ r = o - 1 /\ o = c => m <= c
        BY SMTT(30)
      <3>2. Len(order') \in Int /\ Len(rest) \in Int /\ Len(order) \in Int /\ RecentCapacity \in Int
        <4>1. Len(order') \in Nat /\ Len(rest) \in Nat /\ Len(order) \in Nat
          BY <1>0, <2>3, <2>9, Elements
        <4> QED BY SMTT(30), <4>1, SizeAssumption
      <3> QED BY <2>2, <2>3, <2>9, <3>1, <3>2
    <2> QED BY <1>0, <2>4, <2>5, <2>6, <2>7, <2>9, <2>10, <2>11 DEF RecentInv
  <1>2. CASE ~(Cardinality(DOMAIN values) >= RecentCapacity)
    <2>1. /\ values' = [x \in DOMAIN values \cup {k} |-> IF x = k THEN id ELSE values[x]]
          /\ order' = Append(order, k)
      BY <1>2 DEF Remember
    <2>2. DOMAIN values' = DOMAIN values \cup {k}
          /\ \A x \in DOMAIN values' : values'[x] = IF x = k THEN id ELSE values[x]
      BY <2>1
    <2>3. \A x \in DOMAIN values' : values'[x] \in Publishes /\ KeyOf[values'[x]] = x
      BY <1>0, <2>2
    <2>4. /\ order' \in Seq(Keys) /\ Range(order') = Range(order) \cup {k}
          /\ Len(order') = Len(order) + 1
      BY SMTT(30), <1>0, <2>1, AppendElements
    <2>5. Once(order', Keys)
      BY <1>0, <2>1, AppendOnce
    <2>6. Len(order') <= RecentCapacity
      <3>1. \A m, c \in Nat : ~(m >= c) => m + 1 <= c
        BY SMTT(30)
      <3> QED BY <1>0, <1>2, <2>4, <3>1, SizeAssumption
    <2> QED BY <1>0, <2>2, <2>3, <2>4, <2>5, <2>6 DEF RecentInv
  <1> QED BY <1>1, <1>2

\* remove
LEMMA ForgetRecent == ASSUME RecentInv, NEW k, ForgetKey(k) PROVE RecentInv'
  <1> DEFINE S == Range(order) \ {k}
             F == [x \in Keys |-> x]
  <1>0. /\ DOMAIN values \subseteq Keys
        /\ \A x \in DOMAIN values : values[x] \in Publishes /\ KeyOf[values[x]] = x
        /\ order \in Seq(Keys) /\ Once(order, Keys) /\ Range(order) = DOMAIN values
        /\ Len(order) <= RecentCapacity /\ Len(order) \in Nat
    BY Elements DEF RecentInv
  <1>1. values' = Forget(values, k) /\ order' = Kept(order, S)
    BY DEF ForgetKey
  <1>2. DOMAIN values' = DOMAIN values \ {k} /\ \A x \in DOMAIN values' : values'[x] = values[x]
    BY <1>1 DEF Forget
  <1>3. order' \in Seq(Keys) /\ Len(order') <= Len(order) /\ Range(order') = Range(order) \cap S
    BY <1>0, <1>1, KeptElements
  <1>4. Once(order', Keys)
    <2>1. \A a, b \in 1..Len(order) : order[a] \in S /\ order[b] \in S /\ F[order[a]] = F[order[b]] => a = b
      BY <1>0 DEF Once
    <2>2. \A j, l \in 1..Len(Kept(order, S)) :
             F[Kept(order, S)[j]] = F[Kept(order, S)[l]] => j = l
      <3> HIDE DEF S, F
      <3> QED BY <1>0, <2>1, KeptApart
    <2>3. \A j, l \in 1..Len(order') : F[order'[j]] = F[order'[l]] => j = l
      BY <1>1, <2>2
    <2>4. \A x \in Keys : F[x] = x
      OBVIOUS
    <2> HIDE DEF F, S
    <2> QED BY <2>3, <2>4 DEF Once
  <1>5. Len(order') <= RecentCapacity
    <2>1. \A l, m, c \in Nat : l <= m /\ m <= c => l <= c
      BY SMTT(30)
    <2>2. Len(order') \in Nat
      BY <1>3, Elements
    <2> QED BY <1>0, <1>3, <2>1, <2>2, SizeAssumption
  <1> QED BY <1>0, <1>2, <1>3, <1>4, <1>5 DEF RecentInv

\* q is a stretch of s.
Within(q, s) ==
    \E d \in Nat : \A i \in 1..Len(q) : i + d \in 1..Len(s) /\ q[i] = s[i + d]

\* The last c elements of a sequence.
LEMMA LastElements ==
    ASSUME NEW X, NEW s \in Seq(X), NEW c \in Nat \ {0},
           NEW first, Len(s) > c => first = Len(s) - c + 1, ~(Len(s) > c) => first = 1
    PROVE  /\ SubSeq(s, first, Len(s)) \in Seq(X) /\ Len(SubSeq(s, first, Len(s))) <= c
           /\ Within(SubSeq(s, first, Len(s)), s)
  <1> DEFINE n == Len(s)
             q == SubSeq(s, first, n)
  <1>1. n \in Nat /\ \A i \in 1..n : s[i] \in X
    BY SMTT(30)
  <1>2. (n > c /\ first = n - c + 1) \/ (~(n > c) /\ first = 1)
    OBVIOUS
  <1> HIDE DEF n
  <1>3. /\ first \in Int /\ n \in Int /\ first - 1 \in Nat /\ n - first + 1 <= c
        /\ (IF first <= n THEN n - first + 1 ELSE 0) = n - first + 1
        /\ \A i \in first..n : i \in 1..n
        /\ \A i \in 1..(n - first + 1) : /\ i + (first - 1) \in 1..n
                                         /\ first + i - 1 = i + (first - 1)
    <2>1. n \in Nat
      BY <1>1
    <2>2. CASE n > c /\ first = n - c + 1
      BY SMTT(30), <2>1, <2>2
    <2>3. CASE ~(n > c) /\ first = 1
      BY SMTT(30), <2>1, <2>3
    <2> QED BY <1>2, <2>2, <2>3
  <1>4. \A i \in first..n : s[i] \in X
    BY <1>1, <1>3
  <1>5. /\ q \in Seq(X) /\ Len(q) = IF first <= n THEN n - first + 1 ELSE 0
        /\ \A i \in 1..(n - first + 1) : q[i] = s[first + i - 1]
    <2> QED BY SMTT(30), <1>3, <1>4, SubSeqProperties
  <1>6. Len(q) = n - first + 1
    BY <1>3, <1>5
  <1>7. \A i \in 1..Len(q) : i + (first - 1) \in 1..n /\ q[i] = s[i + (first - 1)]
    BY <1>3, <1>5, <1>6
  <1>8. Within(q, s)
    <2> HIDE DEF q
    <2> QED BY <1>3, <1>7 DEF Within, n
  <1> QED BY <1>3, <1>5, <1>6, <1>8 DEF n

\* start reads the newest keys back.
LEMMA RestartRecent ==
    ASSUME stored \in Seq(Publishes), OneEach(stored), Restart
    PROVE  RecentInv'
  <1> DEFINE S == {r \in Range(stored) : KeyOf[r] # NoKey}
             keyed == Kept(stored, S)
             n == Len(keyed)
             first == IF n > RecentCapacity THEN n - RecentCapacity + 1 ELSE 1
             known == SubSeq(keyed, first, n)
             m == Len(known)
  <1>1. /\ values' = [k \in {KeyOf[r] : r \in Range(known)} |->
                          CHOOSE r \in Range(known) : KeyOf[r] = k]
        /\ order' = [i \in DOMAIN known |-> KeyOf[known[i]]]
    BY DEF Restart
  <1>2. keyed \in Seq(Publishes) /\ Range(keyed) = Range(stored) \cap S
    <2> HIDE DEF S
    <2> QED BY KeptElements
  <1>3. \A j, k \in 1..n : KeyOf[keyed[j]] = KeyOf[keyed[k]] => j = k
    <2>1. \A a, b \in 1..Len(stored) :
             stored[a] \in S /\ stored[b] \in S /\ KeyOf[stored[a]] = KeyOf[stored[b]] => a = b
      BY DEF OneEach
    <2> HIDE DEF S
    <2> QED BY <2>1, KeptApart
  <1>4. \A i \in 1..n : keyed[i] \in Publishes /\ KeyOf[keyed[i]] # NoKey
    <2>1. \A i \in 1..n : keyed[i] \in Range(keyed)
      <3> HIDE DEF keyed
      <3> QED BY <1>2, Elements
    <2>2. Range(stored) \subseteq Publishes
      BY Elements
    <2> QED BY <1>2, <2>1, <2>2
  <1> HIDE DEF keyed
  <1>5. /\ known \in Seq(Publishes) /\ m <= RecentCapacity
        /\ Within(known, keyed)
    <2>1. RecentCapacity \in Nat \ {0}
      BY SizeAssumption
    <2>2. /\ Len(keyed) > RecentCapacity => first = Len(keyed) - RecentCapacity + 1
          /\ ~(Len(keyed) > RecentCapacity) => first = 1
      OBVIOUS
    <2> HIDE DEF first
    <2> QED BY <1>2, <2>1, <2>2, LastElements
  <1> HIDE DEF known, first
  <1>6. /\ m \in Nat /\ DOMAIN known = 1..m
        /\ \A i \in 1..m : known[i] \in Publishes /\ KeyOf[known[i]] # NoKey
        /\ \A i, j \in 1..m : KeyOf[known[i]] = KeyOf[known[j]] => i = j
    <2>1. PICK d \in Nat : \A i \in 1..m : i + d \in 1..n /\ known[i] = keyed[i + d]
      BY <1>5 DEF Within
    <2>2. m \in Nat /\ DOMAIN known = 1..m
      BY SMTT(30), <1>5
    <2>3. \A i, j \in 1..m : i + d = j + d => i = j
      BY SMTT(30), <2>2
    <2>4. ASSUME NEW i \in 1..m, NEW j \in 1..m, KeyOf[known[i]] = KeyOf[known[j]] PROVE i = j
      <3>1. i + d = j + d
        BY SMTT(30), <1>3, <2>1, <2>4
      <3> QED BY <2>3, <3>1
    <2> QED BY <1>4, <2>1, <2>2, <2>4
  <1>7. \A i \in 1..m : KeyOf[known[i]] \in Keys
    BY <1>6 DEF Keys
  <1>8. /\ order' \in Seq(Keys) /\ Len(order') = m
        /\ \A i \in 1..m : order'[i] = KeyOf[known[i]]
    <2>1. order' = [i \in 1..m |-> KeyOf[known[i]]]
      BY <1>1, <1>6
    <2>2. order' \in [1..m -> Keys]
      BY <1>7, <2>1
    <2>3. m \in Nat
      BY <1>6
    <2> HIDE DEF m
    <2>4. order' \in Seq(Keys) /\ Len(order') = m
      BY SMTT(30), <2>2, <2>3
    <2> QED BY <2>1, <2>4
  <1>9. Once(order', Keys)
    BY <1>6, <1>8 DEF Once
  <1>10. \A x : x \in Range(known) <=> \E i \in 1..m : known[i] = x
    BY <1>5, Elements
  <1>11. \A x : x \in Range(order') <=> \E i \in 1..m : order'[i] = x
    <2>1. \A s \in Seq(Keys) : \A x : x \in Range(s) <=> \E i \in 1..Len(s) : s[i] = x
      BY Elements
    <2> QED BY <1>8, <2>1
  <1>12. DOMAIN values' = {KeyOf[r] : r \in Range(known)}
    BY <1>1
  <1>13. Range(order') = DOMAIN values'
    <2>1. ASSUME NEW x \in Range(order') PROVE x \in DOMAIN values'
      <3>1. PICK i \in 1..m : order'[i] = x
        BY <1>11
      <3>2. known[i] \in Range(known) /\ KeyOf[known[i]] = x
        BY <1>8, <1>10, <3>1
      <3> QED BY <1>12, <3>2
    <2>2. ASSUME NEW x \in DOMAIN values' PROVE x \in Range(order')
      <3>1. PICK r \in Range(known) : KeyOf[r] = x
        BY <1>12
      <3>2. PICK i \in 1..m : known[i] = r
        BY <1>10
      <3>3. order'[i] = x
        BY <1>8, <3>1, <3>2
      <3> QED BY <1>11, <3>3
    <2> QED BY <2>1, <2>2
  <1>14. DOMAIN values' \subseteq Keys
    BY <1>7, <1>10, <1>12
  <1>15. ASSUME NEW k \in DOMAIN values' PROVE values'[k] \in Publishes /\ KeyOf[values'[k]] = k
    <2>1. \E r \in Range(known) : KeyOf[r] = k
      BY <1>12
    <2>2. values'[k] = CHOOSE r \in Range(known) : KeyOf[r] = k
      BY <1>1, <1>12
    <2>3. values'[k] \in Range(known) /\ KeyOf[values'[k]] = k
      BY <2>1, <2>2
    <2> QED BY <1>6, <1>10, <2>3
  <1> QED BY <1>5, <1>8, <1>9, <1>13, <1>14, <1>15 DEF RecentInv

-----------------------------------------------------------------------------
(* The invariant *)

Works == Publishers \cup Ackers

CallType ==
    /\ pc \in [Calls -> {"idle", "sending", "waiting", "ok", "duplicate", "error", "cancelled"}]
    /\ answer \in [Publishes -> Publishes \cup {NoId}]
    /\ asked \in BOOLEAN /\ crashes \in 0..MaxCrashes
WriterType ==
    /\ queue \in Seq(Commands) /\ Len(queue) <= QueueSize
    /\ phase \in {"recv", "collect", "persist", "acks", "stopped"} /\ stopping \in BOOLEAN
    /\ batch \in Seq(Works) /\ Len(batch) <= BatchSize
    /\ sent \in Seq(Commands) /\ done \in Seq(Works)

\* Rows are apart, and of calls that were made.
RowsInv ==
    /\ stored \in Seq(Publishes) /\ OneEach(stored)
    /\ \A c \in Range(stored) : /\ c \in Publishers => pc[c] = "ok"
                                /\ c \in Directs => pc[c] # "idle"

\* A publish on its way to the rows was answered, is there once, and is no row
\* yet.
FreshInv ==
    /\ Once(queue, Publishers) /\ Once(InHand, Publishers)
    /\ \A c \in Publishers : ~(c \in Range(InHand) /\ c \in Range(queue))
    /\ \A c \in Publishers : c \in Range(InHand) \/ c \in Range(queue) =>
          pc[c] = "ok" /\ c \notin Range(stored)

\* What was committed is there.
DoneInv ==
    /\ \A c \in Publishers : c \in Range(done) => Has(stored, c)
    /\ \A d \in Directs : pc[d] # "idle" => Has(stored, d)

RecentTypes == CallType /\ WriterType /\ RecentInv
StoreInv == RowsInv /\ FreshInv /\ DoneInv

\* The calls that are made, as far as the rows depend on them.
CallsGoOn ==
    /\ \A c \in Publishers : pc[c] = "ok" => pc'[c] = "ok"
    /\ \A d \in Directs : pc'[d] = "idle" <=> pc[d] = "idle"

\* Initially there is nothing.
LEMMA InitStore == Init => RecentTypes /\ StoreInv
  <1> SUFFICES ASSUME Init PROVE RecentTypes /\ StoreInv
    OBVIOUS
  <1>1. 0 \in 0..MaxCrashes /\ 0 <= QueueSize /\ 0 <= BatchSize /\ 0 <= RecentCapacity
    BY SMTT(30), SizeAssumption
  <1>2. CallType
    BY <1>1 DEF Init, CallType
  <1>3. WriterType
    BY <1>1, EmptySeq, ShortOnce DEF Init, WriterType
  <1>4. RecentInv
    <2>1. DOMAIN values = {}
      BY DEF Init
    <2> QED BY <1>1, <2>1, EmptySeq, ShortOnce DEF Init, RecentInv
  <1>5. RowsInv
    <2>1. OneEach(<<>>)
      <3>1. 1..Len(<<>>) = {}
        BY SMTT(30)
      <3> QED BY <3>1 DEF OneEach
    <2> QED BY <2>1, EmptySeq, ShortOnce DEF Init, RowsInv
  <1>6. InHand = <<>>
    BY DEF Init, InHand
  <1>7. FreshInv
    BY <1>6, ShortOnce DEF Init, FreshInv
  <1>8. DoneInv
    <2>1. Directs \subseteq Calls
      BY DEF Calls, Publishes
    <2> QED BY <2>1, ShortOnce DEF Init, DoneInv
  <1> QED BY <1>2, <1>3, <1>4, <1>5, <1>7, <1>8 DEF RecentTypes, StoreInv

-----------------------------------------------------------------------------
(* Steps keep the types and RecentIds *)

\* Calls of enqueue.
LEMMA PublisherTypes ==
    ASSUME RecentTypes, NEW c \in Publishers, Enqueue(c) \/ Admit(c) \/ Refuse(c) \/ Cancel(c)
    PROVE  RecentTypes'
  <1> USE DEF RecentTypes
  <1>0. c \in Publishes /\ c \in Calls /\ c \in Commands /\ (KeyOf[c] # NoKey => KeyOf[c] \in Keys)
    BY DEF Calls, Publishes, Commands, Keys
  <1>1. CASE Enqueue(c)
    <2>1. WriterType'
      BY <1>1 DEF Enqueue, WriterType, writer
    <2>2. CASE KeyOf[c] \in DOMAIN values
      <3>1. /\ pc' = [pc EXCEPT ![c] = "duplicate"]
            /\ answer' = [answer EXCEPT ![c] = values[KeyOf[c]]]
            /\ UNCHANGED <<values, order, asked, crashes>>
        BY <1>1, <2>2 DEF Enqueue, Answer, recent
      <3>2. values[KeyOf[c]] \in Publishes
        BY <2>2 DEF RecentInv
      <3>3. CallType'
        BY <3>1, <3>2 DEF CallType
      <3>4. RecentInv'
        BY <3>1 DEF RecentInv
      <3> QED BY <2>1, <3>3, <3>4
    <2>3. CASE KeyOf[c] \notin DOMAIN values
      <3>1. /\ pc' = [pc EXCEPT ![c] = "sending"]
            /\ IF KeyOf[c] = NoKey THEN UNCHANGED recent ELSE Remember(KeyOf[c], c)
            /\ UNCHANGED <<answer, asked, crashes>>
        BY <1>1, <2>3 DEF Enqueue
      <3>2. CallType'
        BY <3>1 DEF CallType
      <3>3. CASE KeyOf[c] = NoKey
        BY <2>1, <3>1, <3>2, <3>3 DEF RecentInv, recent
      <3>4. CASE KeyOf[c] # NoKey
        BY <1>0, <2>1, <2>3, <3>1, <3>2, <3>4, RememberRecent
      <3> QED BY <3>3, <3>4
    <2> QED BY <2>2, <2>3
  <1>2. CASE Admit(c)
    <2>1. /\ Len(queue) < QueueSize /\ queue' = Append(queue, c) /\ sent' = Append(sent, c)
          /\ pc' = [pc EXCEPT ![c] = "ok"] /\ answer' = [answer EXCEPT ![c] = c]
          /\ UNCHANGED <<values, order, phase, batch, stopping, asked, done, crashes>>
      BY <1>2 DEF Admit, Answer, recent, writer
    <2>2. CallType' /\ RecentInv'
      BY <1>0, <2>1 DEF CallType, RecentInv
    <2>3. queue' \in Seq(Commands) /\ sent' \in Seq(Commands) /\ Len(queue') <= QueueSize
      <3>1. queue \in Seq(Commands) /\ sent \in Seq(Commands)
        BY DEF WriterType
      <3> QED BY SMTT(30), <1>0, <2>1, <3>1, SizeAssumption
    <2> QED BY <2>1, <2>2, <2>3 DEF WriterType
  <1>3. CASE Refuse(c)
    <2>1. /\ pc' = [pc EXCEPT ![c] = "error"]
          /\ IF KeyOf[c] = NoKey THEN UNCHANGED recent ELSE ForgetKey(KeyOf[c])
          /\ UNCHANGED <<answer, queue, phase, batch, stopping, asked, sent, done, crashes>>
      BY <1>3 DEF Refuse, writer
    <2>2. CallType' /\ WriterType'
      BY <2>1 DEF CallType, WriterType
    <2>3. RecentInv'
      <3>1. CASE KeyOf[c] = NoKey
        BY <2>1, <3>1 DEF RecentInv, recent
      <3>2. CASE KeyOf[c] # NoKey
        BY <2>1, <3>2, ForgetRecent
      <3> QED BY <3>1, <3>2
    <2> QED BY <2>2, <2>3
  <1>4. CASE Cancel(c)
    BY <1>4 DEF Cancel, CallType, WriterType, RecentInv, recent, writer
  <1> QED BY <1>1, <1>2, <1>3, <1>4

\* Calls over HTTP, acknowledgements and shutdown.
LEMMA OtherTypes ==
    ASSUME RecentTypes, RowsInv,
           \/ \E c \in Directs : Direct(c)
           \/ \E c \in Ackers : Ack(c) \/ AckSend(c)
           \/ AskShutdown
    PROVE  RecentTypes'
  <1> USE DEF RecentTypes
  <1>1. ASSUME NEW c \in Directs, Direct(c) PROVE RecentTypes'
    <2>1. c \in Publishes /\ c \in Calls
      BY DEF Calls, Publishes
    <2>2. /\ UNCHANGED <<values, order, queue, phase, batch, stopping, asked, sent, done, crashes>>
          /\ \E o \in {"ok", "duplicate"}, r \in Range(stored) \cup {c} : Answer(c, o, r)
      BY <1>1 DEF Direct, recent, writer
    <2>3. Range(stored) \subseteq Publishes
      BY Elements DEF RowsInv
    <2>4. CallType'
      BY <2>1, <2>2, <2>3 DEF CallType, Answer
    <2> QED BY <2>2, <2>4 DEF WriterType, RecentInv
  <1>2. ASSUME NEW c \in Ackers, Ack(c) PROVE RecentTypes'
    BY <1>2 DEF Ack, CallType, WriterType, RecentInv, recent, writer, Calls
  <1>3. ASSUME NEW x \in Commands, Len(queue) < QueueSize,
               queue' = Append(queue, x), sent' = Append(sent, x),
               UNCHANGED <<phase, batch, stopping, done>>
        PROVE  WriterType'
    <2>1. queue' \in Seq(Commands) /\ sent' \in Seq(Commands) /\ Len(queue') <= QueueSize
      <3>1. queue \in Seq(Commands) /\ sent \in Seq(Commands)
        BY DEF WriterType
      <3> QED BY SMTT(30), <1>3, <3>1, SizeAssumption
    <2> QED BY <1>3, <2>1 DEF WriterType
  <1>4. ASSUME NEW c \in Ackers, AckSend(c) PROVE RecentTypes'
    <2>1. c \in Calls /\ c \in Commands
      BY DEF Calls, Commands
    <2>2. /\ UNCHANGED <<answer, values, order, phase, batch, stopping, asked, done, crashes>>
          /\ pc' \in {[pc EXCEPT ![c] = "waiting"], [pc EXCEPT ![c] = "error"]}
      BY <1>4 DEF AckSend, recent, writer
    <2>3. CallType' /\ RecentInv'
      BY <2>1, <2>2 DEF CallType, RecentInv
    <2>4. WriterType'
      <3>1. CASE phase # "stopped"
        BY <1>3, <1>4, <2>1, <2>2, <3>1 DEF AckSend
      <3>2. CASE phase = "stopped"
        BY <1>4, <2>2, <3>2 DEF AckSend, WriterType
      <3> QED BY <3>1, <3>2
    <2> QED BY <2>3, <2>4
  <1>5. CASE AskShutdown
    <2>1. WriterType'
      BY <1>3, <1>5 DEF AskShutdown, Commands, writer
    <2> QED BY <1>5, <2>1 DEF AskShutdown, CallType, RecentInv, recent
  <1> QED BY <1>1, <1>2, <1>4, <1>5

\* What comes out of the channel.
LEMMA HeadWorks ==
    ASSUME WriterType, queue # <<>>
    PROVE  /\ Head(queue) \in Commands /\ Tail(queue) \in Seq(Commands)
           /\ Len(Tail(queue)) <= QueueSize
           /\ Head(queue) # Shutdown => Head(queue) \in Works
  <1>1. /\ Head(queue) \in Commands /\ Tail(queue) \in Seq(Commands)
        /\ Len(Tail(queue)) = Len(queue) - 1 /\ Len(queue) \in Nat
    BY TailElements, Elements DEF WriterType
  <1>2. \A m, q \in Nat : m <= q => m - 1 <= q
    BY SMTT(30)
  <1> QED BY <1>1, <1>2, SizeAssumption DEF WriterType, Commands, Works

\* The writer's own steps, and a restart.
LEMMA WriterTypes ==
    ASSUME RecentTypes, RowsInv, WriterStep \/ Restart
    PROVE  RecentTypes'
  <1> USE DEF RecentTypes
  <1>0. <<>> \in Seq(Commands) /\ <<>> \in Seq(Works) /\ Len(<<>>) <= QueueSize /\ Len(<<>>) <= BatchSize
    BY SMTT(30), SizeAssumption
  <1>1. ASSUME NEW told \in [Calls -> {"idle", "sending", "waiting", "ok", "duplicate", "error",
                                       "cancelled"}],
               pc' = [c \in Calls |-> IF told[c] = "waiting" THEN "error" ELSE told[c]],
               UNCHANGED <<answer, asked, crashes>>
        PROVE  CallType'
    BY <1>1 DEF CallType
  <1>2. CASE Recv
    <2>1. UNCHANGED <<answer, values, order, stopping, asked, sent, done, crashes>> /\ queue # <<>>
      BY <1>2 DEF Recv, recent
    <2>2. RecentInv'
      BY <2>1 DEF RecentInv
    <2>3. CASE Head(queue) = Shutdown
      <3>1. Stop(pc) /\ batch' = batch
        BY <1>2, <2>3 DEF Recv
      <3> QED BY <1>0, <1>1, <2>1, <2>2, <3>1 DEF Stop, CallType, WriterType
    <2>4. CASE Head(queue) # Shutdown
      <3>1. pc' = pc /\ queue' = Tail(queue) /\ batch' = <<Head(queue)>> /\ phase' = "collect"
        BY <1>2, <2>4 DEF Recv
      <3>2. Head(queue) \in Works /\ queue' \in Seq(Commands) /\ Len(queue') <= QueueSize
        BY <2>1, <2>4, <3>1, HeadWorks
      <3>3. batch' \in Seq(Works) /\ Len(batch') <= BatchSize
        BY SMTT(30), <3>1, <3>2, SizeAssumption
      <3> QED BY <2>1, <2>2, <3>1, <3>2, <3>3 DEF CallType, WriterType
    <2> QED BY <2>3, <2>4
  <1>3. CASE Collect
    <2>1. /\ UNCHANGED <<pc, answer, values, order, asked, sent, done, crashes>> /\ queue # <<>>
          /\ queue' = Tail(queue) /\ Len(batch) < BatchSize
      BY <1>3 DEF Collect, recent
    <2>2. RecentInv' /\ CallType'
      BY <2>1 DEF RecentInv, CallType
    <2>3. queue' \in Seq(Commands) /\ Len(queue') <= QueueSize
      BY <2>1, HeadWorks
    <2>4. CASE Head(queue) = Shutdown
      <3>1. stopping' = TRUE /\ phase' = "persist" /\ batch' = batch
        BY <1>3, <2>4 DEF Collect
      <3> QED BY <2>1, <2>2, <2>3, <3>1 DEF WriterType
    <2>5. CASE Head(queue) # Shutdown
      <3>1. stopping' = stopping /\ phase' = phase /\ batch' = Append(batch, Head(queue))
        BY <1>3, <2>5 DEF Collect
      <3>2. Head(queue) \in Works /\ batch \in Seq(Works)
        BY <2>1, <2>5, HeadWorks DEF WriterType
      <3>3. batch' \in Seq(Works) /\ Len(batch') <= BatchSize
        BY SMTT(30), <2>1, <3>1, <3>2, SizeAssumption
      <3> QED BY <2>1, <2>2, <2>3, <3>1, <3>3 DEF WriterType
    <2> QED BY <2>4, <2>5
  <1>4. CASE CloseBatch
    BY <1>4 DEF CloseBatch, CallType, WriterType, RecentInv, recent
  <1>5. CASE Persist
    <2>1. /\ UNCHANGED <<pc, answer, values, order, queue, batch, stopping, asked, sent, crashes>>
          /\ phase' = "acks" /\ done' = done \o batch
      BY <1>5 DEF Persist, recent
    <2>2. done' \in Seq(Works)
      BY <2>1, ConcatProperties DEF WriterType
    <2> QED BY <2>1, <2>2 DEF CallType, WriterType, RecentInv
  <1>6. CASE CommitAcks
    <2>1. /\ UNCHANGED <<answer, values, order, asked, sent, done, crashes>>
          /\ batch' = <<>> /\ stopping' = FALSE
      BY <1>6 DEF CommitAcks, recent
    <2>2. RecentInv'
      BY <2>1 DEF RecentInv
    <2>3. PICK outcome \in {"ok", "error"} :
             LET told == [c \in Calls |-> IF c \in Range(batch) /\ c \in Ackers THEN outcome ELSE pc[c]]
             IN  \/ /\ ~stopping
                    /\ phase' = "recv"
                    /\ pc' = told
                    /\ UNCHANGED queue
                 \/ stopping /\ Stop(told)
      BY <1>6 DEF CommitAcks
    <2> DEFINE told == [c \in Calls |-> IF c \in Range(batch) /\ c \in Ackers THEN outcome ELSE pc[c]]
    <2>4. told \in [Calls -> {"idle", "sending", "waiting", "ok", "duplicate", "error", "cancelled"}]
      BY DEF CallType
    <2>5. CASE phase' = "recv" /\ pc' = told /\ queue' = queue
      <3>1. CallType'
        BY <2>1, <2>4, <2>5 DEF CallType
      <3> QED BY <1>0, <2>1, <2>2, <2>5, <3>1 DEF WriterType
    <2>6. CASE Stop(told)
      <3>1. CallType'
        <4> HIDE DEF told
        <4> QED BY <1>1, <2>1, <2>4, <2>6 DEF Stop
      <3> QED BY <1>0, <2>1, <2>2, <2>6, <3>1 DEF Stop, WriterType
    <2> QED BY <2>3, <2>5, <2>6
  <1>7. CASE Restart
    <2>1. RecentInv'
      BY <1>7, RestartRecent DEF RowsInv
    <2>2. /\ crashes < MaxCrashes /\ crashes' = crashes + 1
          /\ pc' = [c \in Calls |-> IF pc[c] \in {"sending", "waiting"} THEN "error" ELSE pc[c]]
          /\ queue' = <<>> /\ batch' = <<>> /\ sent' = <<>> /\ done' = <<>>
          /\ phase' = "recv" /\ stopping' = FALSE /\ asked' = FALSE /\ answer' = answer
      BY <1>7 DEF Restart
    <2>3. crashes' \in 0..MaxCrashes
      <3>1. crashes \in 0..MaxCrashes
        BY DEF CallType
      <3> QED BY SMTT(30), <2>2, <3>1, SizeAssumption
    <2>4. CallType'
      BY <2>2, <2>3 DEF CallType
    <2>5. WriterType'
      BY <1>0, <2>2 DEF WriterType
    <2> QED BY <2>1, <2>4, <2>5
  <1> QED BY <1>2, <1>3, <1>4, <1>5, <1>6, <1>7 DEF WriterStep

\* Every step keeps the types and RecentIds.
LEMMA NextTypes == RecentTypes /\ RowsInv /\ [Next]_vars => RecentTypes'
  <1> SUFFICES ASSUME RecentTypes, RowsInv, [Next]_vars PROVE RecentTypes'
    OBVIOUS
  <1>1. CASE UNCHANGED vars
    BY <1>1 DEF vars, RecentTypes, CallType, WriterType, RecentInv, recent, writer
  <1> QED BY <1>1, PublisherTypes, OtherTypes, WriterTypes DEF Next

-----------------------------------------------------------------------------
(* Steps keep what is stored and what is on its way apart *)

\* Steps that store nothing, and bring at most new, answered publishes on
\* their way.
LEMMA FlowStore ==
    ASSUME StoreInv, CallsGoOn, stored' = stored,
           \A c \in Publishers : c \in Range(done') => c \in Range(done),
           Once(queue', Publishers), Once(InHand', Publishers),
           \A c \in Publishers : ~(c \in Range(InHand') /\ c \in Range(queue')),
           \A c \in Publishers : c \in Range(InHand') \/ c \in Range(queue') =>
              \/ c \in Range(InHand) \/ c \in Range(queue)
              \/ pc'[c] = "ok" /\ c \notin Range(stored)
    PROVE  StoreInv'
  <1>1. RowsInv'
    BY DEF StoreInv, RowsInv, CallsGoOn
  <1>2. FreshInv'
    BY DEF StoreInv, FreshInv, CallsGoOn
  <1>3. DoneInv'
    BY DEF StoreInv, DoneInv, CallsGoOn
  <1> QED BY <1>1, <1>2, <1>3 DEF StoreInv

\* A step that moves nothing.
LEMMA QuietStore ==
    ASSUME StoreInv, CallsGoOn, UNCHANGED <<stored, done, queue>>, InHand' = InHand
    PROVE  StoreInv'
  <1>1. Once(queue, Publishers) /\ Once(InHand, Publishers)
        /\ \A c \in Publishers : ~(c \in Range(InHand) /\ c \in Range(queue))
    BY DEF StoreInv, FreshInv
  <1> QED BY <1>1, FlowStore

\* A step of the calls that puts x into the channel.
LEMMA SendStore ==
    ASSUME StoreInv, WriterType, CallsGoOn, UNCHANGED <<stored, done, writer>>,
           NEW x \in Commands, queue' = Append(queue, x),
           x \in Publishers => pc[x] # "ok" /\ pc'[x] = "ok"
    PROVE  StoreInv'
  <1>1. InHand' = InHand
    BY DEF InHand, writer
  <1>2. /\ Once(queue, Publishers) /\ Once(InHand, Publishers)
        /\ \A c \in Publishers : ~(c \in Range(InHand) /\ c \in Range(queue))
        /\ x \in Publishers => x \notin Range(InHand) /\ x \notin Range(queue) /\ x \notin Range(stored)
    BY DEF StoreInv, FreshInv, RowsInv
  <1>3. queue \in Seq(Commands)
    BY DEF WriterType
  <1>4. Range(queue') = Range(queue) \cup {x}
    <2>1. Range(Append(queue, x)) = Range(queue) \cup {x}
      BY <1>3, AppendElements
    <2> QED BY <2>1
  <1>5. Once(queue', Publishers)
    BY <1>2, <1>3, AppendOnce
  <1>6. \A c \in Publishers : ~(c \in Range(InHand') /\ c \in Range(queue'))
    BY <1>1, <1>2, <1>4
  <1>7. \A c \in Publishers : c \in Range(InHand') \/ c \in Range(queue') =>
           \/ c \in Range(InHand) \/ c \in Range(queue)
           \/ pc'[c] = "ok" /\ c \notin Range(stored)
    BY <1>1, <1>2, <1>4
  <1> QED BY <1>1, <1>2, <1>5, <1>6, <1>7, FlowStore

\* A step of the writer that takes the head of the channel in hand.
LEMMA TakeStore ==
    ASSUME StoreInv, WriterType, CallsGoOn, UNCHANGED <<stored, done>>,
           queue # <<>>, queue' = Tail(queue),
           InHand \in Seq(Commands),
           InHand' \in {InHand, Append(InHand, Head(queue))}
    PROVE  StoreInv'
  <1> DEFINE h == Head(queue)
  <1>1. /\ Once(queue, Publishers) /\ Once(InHand, Publishers)
        /\ \A c \in Publishers : ~(c \in Range(InHand) /\ c \in Range(queue))
    BY DEF StoreInv, FreshInv
  <1>2. queue \in Seq(Commands)
    BY DEF WriterType
  <1>3. /\ h \in Commands /\ Range(queue) = {h} \cup Range(queue') /\ Once(queue', Publishers)
        /\ h \in Publishers => h \notin Range(queue')
    BY <1>1, <1>2, TailElements
  <1> HIDE DEF h
  <1>4. InHand' \in {InHand, Append(InHand, h)}
    BY DEF h
  <1>5. /\ Range(Append(InHand, h)) = Range(InHand) \cup {h}
        /\ Once(Append(InHand, h), Publishers)
    <2>1. h \in Publishers => h \notin Range(InHand)
      BY <1>1, <1>3
    <2>2. Range(Append(InHand, h)) = Range(InHand) \cup {h}
      BY SMTT(30), <1>3, AppendElements
    <2>3. Once(Append(InHand, h), Publishers)
      BY <1>1, <1>3, <2>1, AppendOnce
    <2> QED BY <2>2, <2>3
  <1>6. Once(InHand', Publishers) /\ Range(InHand') \subseteq Range(InHand) \cup {h}
    BY <1>1, <1>4, <1>5
  <1>7. \A c \in Publishers : ~(c \in Range(InHand') /\ c \in Range(queue'))
    BY <1>1, <1>3, <1>6
  <1>8. \A c \in Publishers : c \in Range(InHand') \/ c \in Range(queue') =>
           c \in Range(InHand) \/ c \in Range(queue)
    BY <1>3, <1>6
  <1> QED BY <1>3, <1>6, <1>7, <1>8, FlowStore

\* A step that leaves the writer empty-handed, and the channel as it is or
\* empty.
LEMMA DropStore ==
    ASSUME StoreInv, CallsGoOn, stored' = stored, done' \in {done, <<>>},
           queue' \in {queue, <<>>}, InHand' = <<>>
    PROVE  StoreInv'
  <1>1. Once(queue', Publishers) /\ Range(queue') \subseteq Range(queue)
    BY ShortOnce DEF StoreInv, FreshInv
  <1>2. Range(InHand') = {} /\ Once(InHand', Publishers) /\ Range(done') \subseteq Range(done)
    BY ShortOnce
  <1> QED BY <1>1, <1>2, FlowStore

\* The elements of two sequences, one after the other.
LEMMA ConcatElements ==
    ASSUME NEW X, NEW r \in Seq(X), NEW s \in Seq(X)
    PROVE  Range(r \o s) \subseteq Range(r) \cup Range(s)
  <1>1. /\ r \o s \in Seq(X) /\ Len(r) \in Nat /\ Len(s) \in Nat
        /\ \A j \in 1..Len(r \o s) : \/ j \in 1..Len(r) /\ (r \o s)[j] = r[j]
                                     \/ j - Len(r) \in 1..Len(s) /\ (r \o s)[j] = s[j - Len(r)]
    BY SMTT(30)
  <1>2. /\ \A x : x \in Range(r) <=> \E j \in 1..Len(r) : r[j] = x
        /\ \A x : x \in Range(s) <=> \E j \in 1..Len(s) : s[j] = x
        /\ \A x : x \in Range(r \o s) <=> \E j \in 1..Len(r \o s) : (r \o s)[j] = x
    BY <1>1, Elements
  <1> QED BY <1>1, <1>2

\* enqueue_batch
LEMMA PersistStore == ASSUME RecentTypes, StoreInv, Persist PROVE StoreInv'
  <1> DEFINE s == Kept(batch, Publishers)
             F == [x \in Works |-> x]
  <1>1. /\ stored' = InsertAll(stored, s) /\ done' = done \o batch
        /\ phase = "persist" /\ phase' = "acks" /\ UNCHANGED <<pc, queue>>
    BY DEF Persist, PublishesOf
  <1>2. InHand = batch /\ InHand' = <<>>
    BY <1>1 DEF InHand
  <1>3. batch \in Seq(Works) /\ done \in Seq(Works)
    BY DEF RecentTypes, WriterType
  <1>4. s \in Seq(Works) /\ Range(s) = Range(batch) \cap Publishers
    BY <1>3, KeptElements
  <1>5. /\ Once(queue, Publishers) /\ Once(batch, Publishers)
        /\ \A c \in Publishers : ~(c \in Range(batch) /\ c \in Range(queue))
        /\ \A c \in Publishers : c \in Range(batch) \/ c \in Range(queue) =>
              pc[c] = "ok" /\ c \notin Range(stored)
    BY <1>2 DEF StoreInv, FreshInv
  <1>6. \A i, j \in 1..Len(s) : s[i] = s[j] => i = j
    <2>1. \A x \in Works : F[x] = x
      OBVIOUS
    <2>2. \A i \in 1..Len(batch) : batch[i] \in Works
      BY SMTT(30), <1>3
    <2> HIDE DEF F
    <2>3. \A a, b \in 1..Len(batch) :
             batch[a] \in Publishers /\ batch[b] \in Publishers /\ F[batch[a]] = F[batch[b]] => a = b
      BY <1>5, <2>1, <2>2 DEF Once
    <2>4. \A i, j \in 1..Len(s) : F[s[i]] = F[s[j]] => i = j
      BY <1>3, <2>3, KeptApart
    <2> HIDE DEF s
    <2> QED BY <2>4
  <1> HIDE DEF s, F
  <1>7. \A i \in 1..Len(s) : s[i] \in Range(s)
    BY <1>4, Elements
  <1>8. s \in Seq(Publishes)
    <2>1. \A i \in 1..Len(s) : s[i] \in Publishes
      BY <1>4, <1>7 DEF Publishes
    <2> QED BY SMTT(30), <1>4, <2>1
  <1>9. \A i \in 1..Len(s) : s[i] \notin Range(stored)
    BY <1>4, <1>5, <1>7
  <1>10. stored \in Seq(Publishes) /\ OneEach(stored)
    BY DEF StoreInv, RowsInv
  <1>11. /\ stored' \in Seq(Publishes) /\ OneEach(stored')
         /\ Range(stored) \subseteq Range(stored')
         /\ Range(stored') \subseteq Range(stored) \cup Range(s)
         /\ \A i \in 1..Len(s) : Has(stored', s[i])
    BY <1>1, <1>6, <1>8, <1>9, <1>10, InsertMany
  <1>12. RowsInv'
    <2>1. \A c \in Range(stored') : /\ c \in Publishers => pc'[c] = "ok"
                                    /\ c \in Directs => pc'[c] # "idle"
      BY <1>1, <1>4, <1>5, <1>11, CallAssumption DEF StoreInv, RowsInv
    <2> QED BY <1>11, <2>1 DEF RowsInv
  <1>13. FreshInv'
    <2>1. \A c \in Publishers : c \in Range(queue) => pc'[c] = "ok" /\ c \notin Range(stored')
      BY <1>1, <1>4, <1>5, <1>11
    <2> QED BY <1>1, <1>2, <1>5, <2>1, ShortOnce DEF FreshInv
  <1>14. \A c \in Publishers : c \in Range(done') => Has(stored', c)
    <2> SUFFICES ASSUME NEW c \in Publishers, c \in Range(done') PROVE Has(stored', c)
      OBVIOUS
    <2>1. c \in Range(done) \/ c \in Range(s)
      BY <1>1, <1>3, <1>4, ConcatElements
    <2>2. CASE c \in Range(done)
      BY <1>11, <2>2, HasMore DEF StoreInv, DoneInv
    <2>3. CASE c \in Range(s)
      <3>1. PICK i \in 1..Len(s) : s[i] = c
        BY <1>4, <2>3, Elements
      <3> QED BY <1>11, <3>1
    <2> QED BY <2>1, <2>2, <2>3
  <1>15. \A d \in Directs : pc'[d] # "idle" => Has(stored', d)
    BY <1>1, <1>11, HasMore DEF StoreInv, DoneInv
  <1> QED BY <1>12, <1>13, <1>14, <1>15 DEF StoreInv, DoneInv

\* Database::enqueue
LEMMA DirectStore ==
    ASSUME RecentTypes, StoreInv, NEW c \in Directs, Direct(c) PROVE StoreInv'
  <1> DEFINE s == <<c>>
  <1>1. /\ stored' = InsertAll(stored, s) /\ pc[c] = "idle" /\ UNCHANGED <<queue, writer, done>>
        /\ \E o \in {"ok", "duplicate"} : pc' = [pc EXCEPT ![c] = o]
    BY DEF Direct, Answer
  <1>2. /\ s \in Seq({c}) /\ Len(s) = 1 /\ s[1] = c /\ Range(s) = {c} /\ 1..1 = {1}
    <2>1. 1..1 = {1}
      BY SMTT(30)
    <2> QED BY <2>1, ShortOnce
  <1>3. s \in Seq(Publishes)
    <2>1. c \in Publishes
      BY DEF Publishes
    <2> QED BY SMTT(30), <2>1
  <1>4. c \notin Publishers /\ c \in Calls
    BY CallAssumption DEF Calls, Publishes
  <1>5. stored \in Seq(Publishes) /\ OneEach(stored) /\ c \notin Range(stored)
    BY <1>1 DEF StoreInv, RowsInv
  <1> HIDE DEF s
  <1>6. /\ \A i, j \in 1..Len(s) : s[i] = s[j] => i = j
        /\ \A i \in 1..Len(s) : s[i] \notin Range(stored)
    <2>1. \A i \in 1..Len(s) : i = 1
      BY SMTT(30), <1>2
    <2> QED BY <1>2, <1>5, <2>1
  <1>7. /\ stored' \in Seq(Publishes) /\ OneEach(stored')
        /\ Range(stored) \subseteq Range(stored')
        /\ Range(stored') \subseteq Range(stored) \cup Range(s)
        /\ \A i \in 1..Len(s) : Has(stored', s[i])
    BY <1>1, <1>3, <1>5, <1>6, InsertMany
  <1>8. /\ \A p \in Publishers : pc'[p] = pc[p]
        /\ \A d \in Directs : d # c => pc'[d] = pc[d]
        /\ pc'[c] # "idle"
    <2>1. pc \in [Calls -> {"idle", "sending", "waiting", "ok", "duplicate", "error", "cancelled"}]
      BY DEF RecentTypes, CallType
    <2>2. Publishers \subseteq Calls /\ Directs \subseteq Calls
      BY DEF Calls, Publishes
    <2> QED BY <1>1, <1>4, <2>1, <2>2
  <1>9. RowsInv'
    <2>1. \A r \in Range(stored') : /\ r \in Publishers => pc'[r] = "ok"
                                    /\ r \in Directs => pc'[r] # "idle"
      BY <1>2, <1>4, <1>7, <1>8 DEF StoreInv, RowsInv
    <2> QED BY <1>7, <2>1 DEF RowsInv
  <1>10. FreshInv'
    <2>1. InHand' = InHand
      BY <1>1 DEF InHand, writer
    <2> QED BY <1>1, <1>2, <1>4, <1>7, <1>8, <2>1 DEF StoreInv, FreshInv
  <1>11. DoneInv'
    <2>1. \A p \in Publishers : p \in Range(done') => Has(stored', p)
      BY <1>1, <1>7, HasMore DEF StoreInv, DoneInv
    <2>2. \A d \in Directs : d # c /\ pc'[d] # "idle" => Has(stored', d)
      BY <1>7, <1>8, HasMore DEF StoreInv, DoneInv
    <2>3. Has(stored', c)
      BY <1>2, <1>7
    <2> QED BY <2>1, <2>2, <2>3 DEF DoneInv
  <1> QED BY <1>9, <1>10, <1>11 DEF StoreInv

\* A call that is not over yet goes on.
LEMMA OneGoesOn ==
    ASSUME CallType, NEW c \in Calls \ Directs, NEW o,
           c \in Publishers => pc[c] # "ok", pc' = [pc EXCEPT ![c] = o]
    PROVE  CallsGoOn
  <1>1. Publishers \subseteq Calls /\ Directs \subseteq Calls
    BY DEF Calls, Publishes
  <1> QED BY <1>1 DEF CallType, CallsGoOn

\* When the writer stops, only those that wait are told.
LEMMA StopGoesOn ==
    ASSUME NEW told, \A c \in Publishers : pc[c] = "ok" => told[c] = "ok",
           \A d \in Directs : told[d] = pc[d],
           pc' = [c \in Calls |-> IF told[c] = "waiting" THEN "error" ELSE told[c]]
    PROVE  CallsGoOn
  <1>1. Publishers \subseteq Calls /\ Directs \subseteq Calls
    BY DEF Calls, Publishes
  <1> QED BY <1>1 DEF CallsGoOn

\* Calls of enqueue.
LEMMA PublisherStore ==
    ASSUME RecentTypes, StoreInv, NEW c \in Publishers,
           Enqueue(c) \/ Admit(c) \/ Refuse(c) \/ Cancel(c)
    PROVE  StoreInv'
  <1>1. c \in Calls \ Directs /\ c \in Commands
    BY CallAssumption DEF Calls, Publishes, Commands
  <1>2. CASE Admit(c)
    <2>1. /\ pc[c] = "sending" /\ pc' = [pc EXCEPT ![c] = "ok"] /\ queue' = Append(queue, c)
          /\ UNCHANGED <<stored, done, writer>>
      BY <1>2 DEF Admit, Answer
    <2>2. pc'[c] = "ok" /\ pc[c] # "ok"
      BY <1>1, <2>1 DEF RecentTypes, CallType
    <2>3. CallsGoOn
      BY <1>1, <2>1, <2>2, OneGoesOn DEF RecentTypes
    <2> QED BY <1>1, <2>1, <2>2, <2>3, SendStore DEF RecentTypes
  <1>3. CASE Enqueue(c) \/ Refuse(c) \/ Cancel(c)
    <2>1. /\ pc[c] # "ok" /\ \E o : pc' = [pc EXCEPT ![c] = o]
          /\ UNCHANGED <<stored, done, queue, writer>>
      <3>1. CASE Enqueue(c)
        BY <3>1 DEF Enqueue, Answer
      <3>2. CASE Refuse(c)
        BY <3>2 DEF Refuse
      <3>3. CASE Cancel(c)
        BY <3>3 DEF Cancel
      <3> QED BY <1>3, <3>1, <3>2, <3>3
    <2>2. CallsGoOn
      BY <1>1, <2>1, OneGoesOn DEF RecentTypes
    <2>3. InHand' = InHand
      BY <2>1 DEF InHand, writer
    <2> QED BY <2>1, <2>2, <2>3, QuietStore
  <1> QED BY <1>2, <1>3

\* Acknowledgements and shutdown.
LEMMA OtherStore ==
    ASSUME RecentTypes, StoreInv, (\E c \in Ackers : Ack(c) \/ AckSend(c)) \/ AskShutdown
    PROVE  StoreInv'
  <1>1. ASSUME NEW c \in Ackers, NEW o, pc' = [pc EXCEPT ![c] = o] PROVE CallsGoOn
    <2>1. c \in Calls \ Directs /\ c \notin Publishers
      BY CallAssumption DEF Calls
    <2> QED BY <1>1, <2>1, OneGoesOn DEF RecentTypes
  <1>2. ASSUME NEW c \in Ackers, Ack(c) \/ AckSend(c) PROVE StoreInv'
    <2>1. c \notin Publishers /\ c \in Commands
      BY CallAssumption DEF Commands
    <2>2. CallsGoOn
      BY <1>1, <1>2 DEF Ack, AckSend
    <2>3. UNCHANGED <<stored, done, writer>> /\ queue' \in {queue, Append(queue, c)}
      BY <1>2 DEF Ack, AckSend
    <2>4. CASE queue' = queue
      <3>1. InHand' = InHand
        BY <2>3 DEF InHand, writer
      <3> QED BY <2>2, <2>3, <2>4, <3>1, QuietStore
    <2>5. CASE queue' = Append(queue, c)
      BY <2>1, <2>2, <2>3, <2>5, SendStore DEF RecentTypes
    <2> QED BY <2>3, <2>4, <2>5
  <1>3. CASE AskShutdown
    <2>1. Shutdown \notin Publishers /\ Shutdown \in Commands
      BY CallAssumption DEF Commands
    <2>2. CallsGoOn
      BY <1>3 DEF AskShutdown, CallsGoOn
    <2> QED BY <1>3, <2>1, <2>2, SendStore DEF RecentTypes, AskShutdown
  <1> QED BY <1>2, <1>3

\* The writer's own steps, and a restart.
LEMMA WriterStore == ASSUME RecentTypes, StoreInv, WriterStep \/ Restart PROVE StoreInv'
  <1>1. CASE Recv /\ Head(queue) = Shutdown
    <2>1. Stop(pc) /\ UNCHANGED <<stored, done>>
      BY <1>1 DEF Recv
    <2>2. CallsGoOn
      BY <2>1, StopGoesOn DEF Stop
    <2>3. InHand' = <<>>
      BY <2>1 DEF Stop, InHand
    <2> QED BY <2>1, <2>2, <2>3, DropStore DEF Stop
  <1>2. CASE Recv /\ Head(queue) # Shutdown
    <2>1. /\ UNCHANGED <<pc, stored, done>> /\ queue # <<>> /\ queue' = Tail(queue)
          /\ phase = "recv" /\ phase' = "collect" /\ batch' = <<Head(queue)>>
      BY <1>2 DEF Recv
    <2>2. InHand = <<>> /\ InHand' = <<Head(queue)>>
      BY <2>1 DEF InHand
    <2>3. CallsGoOn
      BY <2>1 DEF CallsGoOn
    <2>4. <<>> \in Seq(Commands) /\ Append(<<>>, Head(queue)) = <<Head(queue)>>
      BY SMTT(30)
    <2> QED BY <2>1, <2>2, <2>3, <2>4, TakeStore DEF RecentTypes
  <1>3. CASE Collect
    <2>1. /\ UNCHANGED <<pc, stored, done>> /\ queue # <<>> /\ queue' = Tail(queue)
          /\ phase = "collect" /\ phase' \in {"collect", "persist"}
          /\ batch' \in {batch, Append(batch, Head(queue))}
      BY <1>3 DEF Collect
    <2>2. InHand = batch /\ InHand' \in {InHand, Append(InHand, Head(queue))}
      BY <2>1 DEF InHand
    <2>3. CallsGoOn
      BY <2>1 DEF CallsGoOn
    <2>4. InHand \in Seq(Commands)
      <3>1. batch \in Seq(Works) /\ Works \subseteq Commands
        BY DEF RecentTypes, WriterType, Works, Commands
      <3> QED BY SMTT(30), <2>2, <3>1
    <2> QED BY <2>1, <2>2, <2>3, <2>4, TakeStore DEF RecentTypes
  <1>4. CASE CloseBatch
    <2>1. UNCHANGED <<pc, stored, done, queue>> /\ InHand' = InHand
      BY <1>4 DEF CloseBatch, InHand
    <2>2. CallsGoOn
      BY <2>1 DEF CallsGoOn
    <2> QED BY <2>1, <2>2, QuietStore
  <1>5. CASE Persist
    BY <1>5, PersistStore
  <1>6. CASE CommitAcks
    <2>1. PICK outcome \in {"ok", "error"} :
             LET told == [c \in Calls |-> IF c \in Range(batch) /\ c \in Ackers THEN outcome ELSE pc[c]]
             IN  \/ /\ ~stopping
                    /\ phase' = "recv"
                    /\ pc' = told
                    /\ UNCHANGED queue
                 \/ stopping /\ Stop(told)
      BY <1>6 DEF CommitAcks
    <2> DEFINE told == [c \in Calls |-> IF c \in Range(batch) /\ c \in Ackers THEN outcome ELSE pc[c]]
    <2>2. /\ \A c \in Publishers : told[c] = pc[c]
          /\ \A d \in Directs : told[d] = pc[d]
      BY CallAssumption DEF Calls, Publishes
    <2> HIDE DEF told
    <2>3. \/ phase' = "recv" /\ pc' = told /\ queue' = queue
          \/ Stop(told)
      BY <2>1 DEF told
    <2>4. CallsGoOn
      <3>1. CASE pc' = told
        BY <2>2, <3>1 DEF CallsGoOn
      <3>2. CASE Stop(told)
        BY <2>2, <3>2, StopGoesOn DEF Stop
      <3> QED BY <2>3, <3>1, <3>2
    <2>5. InHand' = <<>> /\ queue' \in {queue, <<>>}
      BY <2>3 DEF InHand, Stop
    <2>6. stored' = stored /\ done' = done
      BY <1>6 DEF CommitAcks
    <2> QED BY <2>4, <2>5, <2>6, DropStore
  <1>7. CASE Restart
    <2>1. /\ pc' = [c \in Calls |-> IF pc[c] \in {"sending", "waiting"} THEN "error" ELSE pc[c]]
          /\ queue' = <<>> /\ phase' = "recv" /\ done' = <<>> /\ stored' = stored
      BY <1>7 DEF Restart
    <2>2. CallsGoOn
      <3>1. Publishers \subseteq Calls /\ Directs \subseteq Calls
        BY DEF Calls, Publishes
      <3> QED BY <2>1, <3>1 DEF CallsGoOn
    <2>3. InHand' = <<>>
      BY <2>1 DEF InHand
    <2> QED BY <2>1, <2>2, <2>3, DropStore
  <1> QED BY <1>1, <1>2, <1>3, <1>4, <1>5, <1>6, <1>7 DEF WriterStep

\* Every step keeps the rows apart.
LEMMA NextStore == RecentTypes /\ StoreInv /\ [Next]_vars => StoreInv'
  <1> SUFFICES ASSUME RecentTypes, StoreInv, [Next]_vars PROVE StoreInv'
    OBVIOUS
  <1>1. CASE UNCHANGED vars
    <2>1. UNCHANGED <<pc, stored, done, queue>> /\ InHand' = InHand
      BY <1>1 DEF vars, writer, InHand
    <2>2. CallsGoOn
      BY <2>1 DEF CallsGoOn
    <2> QED BY <2>1, <2>2, QuietStore
  <1> QED BY <1>1, PublisherStore, DirectStore, OtherStore, WriterStore DEF Next

-----------------------------------------------------------------------------
(* The theorems *)

\* The types, RecentIds and the rows, at all times.
LEMMA StoreHolds == Spec => [](RecentTypes /\ StoreInv)
  <1>1. RecentTypes /\ StoreInv /\ [Next]_vars => (RecentTypes /\ StoreInv)'
    BY NextTypes, NextStore DEF StoreInv
  <1> QED BY <1>1, InitStore, PTL DEF Spec

\* Type correctness: in particular the channel and the batch keep their bounds,
\* and RecentIds answers a key with a message of that key.
THEOREM WriterTypeCorrect == Spec => []TypeOK
  <1>1. RecentTypes /\ StoreInv => TypeOK
    BY DEF RecentTypes, CallType, WriterType, RecentInv, StoreInv, RowsInv, TypeOK, Commands,
       Works
  <1> QED BY <1>1, StoreHolds, PTL

\* The two halves of RecentIds stay in step, whatever is inserted, evicted,
\* removed after a failed send, or read back by start.
THEOREM RecentIdsAgree == Spec => []RecentIdsInStep
  <1>1. RecentTypes => RecentIdsInStep
    BY RecentLength DEF RecentTypes, RecentInv, RecentIdsInStep
  <1> QED BY <1>1, StoreHolds, PTL

\* A publish that was committed is in the database exactly once, by id and by
\* idempotency key, on both publish paths and over every restart.
THEOREM StoredOnce == Spec => []StoredExactlyOnce
  <1>1. RecentTypes /\ StoreInv => StoredExactlyOnce
    <2> SUFFICES ASSUME RecentTypes, StoreInv,
                        NEW c \in (Publishers \cap Range(done)) \cup {d \in Directs : pc[d] # "idle"}
                 PROVE  Cardinality({i \in DOMAIN stored :
                            stored[i] = c \/ (KeyOf[c] # NoKey /\ KeyOf[stored[i]] = KeyOf[c])}) = 1
      BY DEF StoredExactlyOnce
    <2> DEFINE Its(i) == stored[i] = c \/ (KeyOf[c] # NoKey /\ KeyOf[stored[i]] = KeyOf[c])
               I == {i \in DOMAIN stored : Its(i)}
    <2>1. Has(stored, c)
      BY DEF StoreInv, DoneInv
    <2>2. stored \in Seq(Publishes) /\ OneEach(stored)
      BY DEF StoreInv, RowsInv
    <2>3. DOMAIN stored = 1..Len(stored)
      BY SMTT(30), <2>2
    <2>4. \A x : x \in Range(stored) <=> \E j \in 1..Len(stored) : stored[j] = x
      BY <2>2, Elements
    <2>5. PICK i \in 1..Len(stored) : Its(i)
      BY <2>1, <2>4 DEF Has, StoredKey
    <2>6. \A j \in 1..Len(stored) : Its(j) => j = i
      BY <2>2, <2>5 DEF OneEach
    <2> HIDE DEF Its
    <2>7. I = {i}
      BY <2>3, <2>5, <2>6
    <2>8. Cardinality(I) = 1
      BY <2>7, FS_Singleton
    <2> QED BY <2>8 DEF Its
  <1> QED BY <1>1, StoreHolds, PTL

=============================================================================
