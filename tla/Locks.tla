-------------------------------- MODULE Locks --------------------------------
(***************************************************************************)
(* Distributed locks (LockStore in src/src/cache.rs, with its gRPC and      *)
(* HTTP handlers): the row of sys_lock for one lock key, and the calls of   *)
(* the owners that want it.                                                 *)
(*                                                                          *)
(* A statement compares with, or writes, a clock reading made any time      *)
(* between the start of its step of the call and the moment it runs.  An    *)
(* owner makes one call at a time, and relies on the lock from a positive   *)
(* answer until its time to live, counted from the start of the call, ends. *)
(***************************************************************************)
EXTENDS Integers

CONSTANTS
    Owners,
    Nobody,   \* no row
    TtlOf,    \* ttl_seconds of an owner's calls, which both handlers require to be > 0
    MaxClock  \* bound: the clock stops here, and no lease is granted beyond

ASSUME OwnerAssumption == Nobody \notin Owners
ASSUME TtlAssumption == TtlOf \in [Owners -> Nat \ {0}]
ASSUME ClockAssumption == MaxClock \in Nat

VARIABLES
    clock,
    owner, expire,  \* the row of sys_lock; expire is 0 when there is none
    call,           \* per owner: the call it waits for
    until,          \* per owner: until when it relies on the lock; 0 when it does not
    crashed,        \* owners that make no more calls
    look            \* an is_locked call between its SELECT and its answer

row == <<owner, expire>>
vars == <<clock, row, call, until, crashed, look>>

Idle == [op |-> "idle"]
\* start: when the call began; since: from when on the next statement may read
\* the clock; ok: what will be answered.
Calls == [op : {"acquire", "renew", "release"}, stage : {"delete", "sql", "answer"},
          start : Nat, since : Nat, ok : BOOLEAN]
NotLooking == [row |-> "unread"]
\* deadline: that of the row that the SELECT found, or 0; relied: until when an
\* owner, any of them, relied on the lock then (for the properties only).
Looks == [row : {"found", "none"}, deadline : Nat, relied : Nat]

TypeOK ==
    /\ clock \in 0..MaxClock
    /\ owner \in Owners \cup {Nobody} /\ expire \in 0..MaxClock
    /\ call \in [Owners -> Calls \cup {Idle}]
    /\ until \in [Owners -> Nat]
    /\ crashed \in SUBSET Owners
    /\ look \in Looks \cup {NotLooking}

Init ==
    /\ clock = 0
    /\ owner = Nobody /\ expire = 0
    /\ call = [o \in Owners |-> Idle]
    /\ until = [o \in Owners |-> 0]
    /\ crashed = {}
    /\ look = NotLooking

Tick ==
    /\ clock < MaxClock
    /\ clock' = clock + 1
    /\ until' = [o \in Owners |-> IF until[o] > clock' THEN until[o] ELSE 0]
    /\ UNCHANGED <<row, call, crashed, look>>

-----------------------------------------------------------------------------
(* Calls *)

Start(o, op, stage) ==
    /\ o \notin crashed /\ call[o] = Idle
    /\ call' = [call EXCEPT ![o] = [op |-> op, stage |-> stage, start |-> clock,
                                    since |-> clock, ok |-> FALSE]]
    /\ UNCHANGED <<clock, row, crashed, look>>

StartAcquire(o) == Start(o, "acquire", "delete") /\ UNCHANGED until

StartRenew(o) == Start(o, "renew", "sql") /\ UNCHANGED until

\* An owner that releases the lock no longer relies on it.
StartRelease(o) == Start(o, "release", "sql") /\ until' = [until EXCEPT ![o] = 0]

DeleteRow == owner' = Nobody /\ expire' = 0

At(o, op, stage) == call[o] # Idle /\ call[o].op = op /\ call[o].stage = stage

Reply(o, ok) ==
    /\ call' = [call EXCEPT ![o].stage = "answer", ![o].ok = ok]
    /\ UNCHANGED <<clock, until, crashed, look>>

\* Faulty variant: acquire removes its owner's row, expired or not.
DeleteExpiredOrOwn(o) ==
    /\ At(o, "acquire", "delete")
    /\ \E now \in call[o].since..clock :
          IF owner = o \/ expire <= now THEN DeleteRow ELSE UNCHANGED row
    /\ call' = [call EXCEPT ![o].stage = "sql", ![o].since = clock]
    /\ UNCHANGED <<clock, until, crashed, look>>

\* acquire: DELETE ... WHERE lock_key = ? AND expire_at <= now
DeleteExpired(o) ==
    /\ At(o, "acquire", "delete")
    /\ \E now \in call[o].since..clock :
          IF expire <= now THEN DeleteRow ELSE UNCHANGED row
    /\ call' = [call EXCEPT ![o].stage = "sql", ![o].since = clock]
    /\ UNCHANGED <<clock, until, crashed, look>>

\* Faulty variant: the conflict replaces the row.
InsertReplacing(o) ==
    /\ At(o, "acquire", "sql")
    /\ \E now \in call[o].since..clock :
          /\ now + TtlOf[o] <= MaxClock
          /\ owner' = o /\ expire' = now + TtlOf[o]
    /\ Reply(o, TRUE)

\* INSERT ... ON CONFLICT(lock_key) DO NOTHING
Insert(o) ==
    /\ At(o, "acquire", "sql")
    /\ \/ /\ owner = Nobody
          /\ \E now \in call[o].since..clock :
                /\ now + TtlOf[o] <= MaxClock
                /\ owner' = o /\ expire' = now + TtlOf[o]
          /\ Reply(o, TRUE)
       \/ owner # Nobody /\ UNCHANGED row /\ Reply(o, FALSE)

\* Faulty variant: the lease is renewed beyond its time to live.
RenewTwice(o) ==
    /\ At(o, "renew", "sql")
    /\ IF owner = o
       THEN \E now \in call[o].since..clock :
               now + TtlOf[o] <= MaxClock /\ expire' = now + TtlOf[o] + TtlOf[o]
       ELSE UNCHANGED expire
    /\ UNCHANGED owner
    /\ Reply(o, owner = o)

\* UPDATE ... WHERE lock_key = ? AND owner = ?: no look at the old deadline.
Renew(o) ==
    /\ At(o, "renew", "sql")
    /\ IF owner = o
       THEN \E now \in call[o].since..clock :
               now + TtlOf[o] <= MaxClock /\ expire' = now + TtlOf[o]
       ELSE UNCHANGED expire
    /\ UNCHANGED owner
    /\ Reply(o, owner = o)

\* DELETE ... WHERE lock_key = ? AND owner = ?
Release(o) ==
    /\ At(o, "release", "sql")
    /\ IF owner = o THEN DeleteRow ELSE UNCHANGED row
    /\ Reply(o, owner = o)

\* A time to come, or 0.
Ahead(t) == IF t > clock THEN t ELSE 0

\* The answer: a lease, or the news that there is none any more.
Answer(o) ==
    /\ call[o] # Idle /\ call[o].stage = "answer"
    /\ until' = CASE call[o].ok /\ call[o].op # "release" ->
                        [until EXCEPT ![o] = Ahead(call[o].start + TtlOf[o])]
                  [] ~call[o].ok /\ call[o].op = "renew" -> [until EXCEPT ![o] = 0]
                  [] OTHER -> until
    /\ call' = [call EXCEPT ![o] = Idle]
    /\ UNCHANGED <<clock, row, crashed, look>>

LoseAnswer(o) ==
    /\ call[o] # Idle /\ call[o].stage = "answer"
    /\ call' = [call EXCEPT ![o] = Idle]
    /\ UNCHANGED <<clock, row, until, crashed, look>>

-----------------------------------------------------------------------------
(* Others *)

\* is_locked reads the deadline, while o relies on the lock or not, ...
IsLockedSelects(o) ==
    /\ look = NotLooking
    /\ look' = [row |-> IF owner = Nobody THEN "none" ELSE "found",
                deadline |-> expire, relied |-> until[o]]
    /\ UNCHANGED <<clock, row, call, until, crashed>>

\* ... and compares it with the clock when the row has arrived.
is_locked == look.row = "found" /\ look.deadline > clock

IsLockedAnswers ==
    /\ look # NotLooking
    /\ look' = NotLooking
    /\ UNCHANGED <<clock, row, call, until, crashed>>

\* Faulty variant: a lock at its deadline is left to the next sweep.
PurgeExpiredLate ==
    /\ owner # Nobody /\ expire < clock
    /\ DeleteRow
    /\ UNCHANGED <<clock, call, until, crashed, look>>

\* purge_expired in the retention loop, or list: with a clock reading of its
\* past, of which the latest deletes most.
PurgeExpired ==
    /\ owner # Nobody /\ expire <= clock
    /\ DeleteRow
    /\ UNCHANGED <<clock, call, until, crashed, look>>

\* An owner stops for good; what it has asked for may still happen.
Crash(o) ==
    /\ crashed' = crashed \cup {o}
    /\ UNCHANGED <<clock, row, call, until, look>>

\* The broker stops and starts again: its calls are lost, the row is not.
Restart ==
    /\ call' = [o \in Owners |-> Idle] /\ look' = NotLooking
    /\ UNCHANGED <<clock, row, until, crashed>>

-----------------------------------------------------------------------------
Next ==
    \/ Tick
    \/ \E o \in Owners :
          \/ StartAcquire(o) \/ StartRenew(o) \/ StartRelease(o)
          \/ DeleteExpired(o) \/ Insert(o) \/ Renew(o) \/ Release(o)
          \/ Answer(o) \/ LoseAnswer(o)
          \/ Crash(o)
          \/ IsLockedSelects(o)
    \/ PurgeExpired
    \/ IsLockedAnswers
    \/ Restart

Spec == Init /\ [][Next]_vars

\* Time goes on, and the retention loop sweeps every minute.
LiveSpec == Spec /\ WF_vars(Tick) /\ WF_vars(PurgeExpired)

-----------------------------------------------------------------------------
(* Properties *)

Relies(o) == until[o] > clock

\* Two owners never rely on the lock at the same time: between the DELETE and
\* the INSERT of an acquire, with renewals of leases that have expired but were
\* not deleted yet, late statements, lost answers, sweeps and a restart.
ExclusiveOwners ==
    \A o, p \in Owners : Relies(o) /\ Relies(p) => o = p

\* is_locked overlooks no holder that held on: whenever the clock is compared
\* with the deadline that the SELECT found, the answer is TRUE if a lease that an
\* owner relied on at the SELECT still runs, whatever acquires, sweeps, releases
\* and renewals have happened in between.  (A lease renewed in between may go
\* beyond the deadline that was found, and is not promised to be seen.)
HolderIsLocked ==
    look # NotLooking /\ look.relied > clock => is_locked

\* "a lease never outlives its ttl_seconds (so a crashed holder cannot deadlock
\* others)": the row of an owner that has crashed goes away, its late renewals
\* included.
DeadHolderFreed ==
    \A o \in Owners : (owner = o /\ o \in crashed) ~> (owner # o)

=============================================================================
