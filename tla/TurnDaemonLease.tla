-------------------------- MODULE TurnDaemonLease --------------------------
(***************************************************************************)
(* The turn-daemon lease of one profile: the turn_daemon_lease row, the     *)
(* DatabaseTurnDaemonLease objects that compete for it, and the fenced      *)
(* transactions through which a daemon writes the durable world.            *)
(*                                                                          *)
(* A daemon is one lease object of one process: its owner id is a fresh     *)
(* UUID and it acquires at most once.  Its statements are asynchronous: a   *)
(* request is sent, the database executes it later (with the timestamp of   *)
(* the statement, which may be older than the moment the row is locked) and *)
(* the reply is handled later still.  Transactions hold the row lock taken  *)
(* by assertActive (SELECT ... FOR UPDATE) until they end.                  *)
(***************************************************************************)
EXTENDS Integers

CONSTANTS
    Daemons,        \* lease objects that may ever be created for the profile
    NoDaemon,       \* the null owner
    LeaseDuration,  \* leaseDurationMs in clock units
    MaxTime,        \* bound on the database clock
    MaxWorld        \* bound on the number of committed world versions

ASSUME NoDaemonAssumption == NoDaemon \notin Daemons
ASSUME DurationAssumption == LeaseDuration \in Nat \ {0}
ASSUME BoundsAssumption == MaxTime \in Nat /\ MaxWorld \in Nat

VARIABLES
    now,       \* the database clock (clock_timestamp())
    row,       \* the turn_daemon_lease row of the profile
    stage,     \* where each daemon process is
    epoch,     \* fencingEpoch of each daemon's token
    lost,      \* this.lost of each daemon
    deadline,  \* when each expiry watchdog fires (Off: not armed)
    call,      \* each daemon's acquire or renew statement in flight
    unlock,    \* start time of each daemon's release statement in flight
    txn,       \* the daemon whose transaction holds the row lock
    world,     \* version of the durable world
    memory     \* version of the world each daemon has in memory

rowVars == <<txn, world, memory>>
vars == <<now, row, stage, epoch, lost, deadline, call, unlock, txn, world, memory>>

Off == -1
NoCall == [op |-> "none", startedAt |-> 0, status |-> "sent"]

Rows == [owner : Daemons \cup {NoDaemon}, until : Nat, epoch : Nat, ready : BOOLEAN]
Calls == [op : {"none", "acquire", "renew"}, startedAt : Nat,
          status : {"sent", "granted", "refused"}]

Later(a, b) == IF a >= b THEN a ELSE b

\* Stages in which this.token is set: between acquire() and release().
Holding == {"load", "recover", "run"}

\* The row, the statements in flight and what each process believes have their types.
TypeOK ==
    /\ now \in Nat
    /\ row \in Rows
    /\ stage \in [Daemons -> {"start", "acquire", "load", "recover", "run", "closed", "dead"}]
    /\ epoch \in [Daemons -> Nat]
    /\ lost \in [Daemons -> BOOLEAN]
    /\ deadline \in [Daemons -> Nat \cup {Off}]
    /\ call \in [Daemons -> Calls]
    /\ unlock \in [Daemons -> Nat \cup {Off}]
    /\ txn \in Daemons \cup {NoDaemon}
    /\ world \in Nat
    /\ memory \in [Daemons -> Nat]

\* The row is absent until the first acquire inserts it with epoch 1.
Init ==
    /\ now = 0
    /\ row = [owner |-> NoDaemon, until |-> 0, epoch |-> 0, ready |-> FALSE]
    /\ stage = [d \in Daemons |-> "start"]
    /\ epoch = [d \in Daemons |-> 0]
    /\ lost = [d \in Daemons |-> FALSE]
    /\ deadline = [d \in Daemons |-> Off]
    /\ call = [d \in Daemons |-> NoCall]
    /\ unlock = [d \in Daemons |-> Off]
    /\ txn = NoDaemon
    /\ world = 0
    /\ memory = [d \in Daemons |-> 0]

-----------------------------------------------------------------------------
(* Predicates of the statements. *)

Owns(d) == row.owner = d /\ row.epoch = epoch[d]

\* The WHERE clause of acquire: the same owner, or an expired (or absent) row.
Acquirable(d, stamp) == row.owner = d \/ row.until <= stamp

\* The WHERE clause of renew, evaluated with CURRENT_TIMESTAMP.
Renewable(d, stamp) == Owns(d) /\ row.until > stamp

\* Mutant: assertActive forgets whose lease it is.
ActiveWhoever(d) == row.until > now

\* The WHERE clause of assertActive, evaluated with clock_timestamp().
Active(d) == Owns(d) /\ row.until > now

\* Mutant: a takeover that keeps the previous owner's clock_ready.
AcquiredStillReady(d, stamp) ==
    [owner |-> d, until |-> stamp + LeaseDuration, ready |-> row.ready,
     epoch |-> IF row.owner = d THEN row.epoch ELSE row.epoch + 1]

\* The row acquire writes.
AcquiredRow(d, stamp) ==
    [owner |-> d, until |-> stamp + LeaseDuration, ready |-> FALSE,
     epoch |-> IF row.owner = d THEN row.epoch ELSE row.epoch + 1]

\* Mutant: the timer counts from the reply.
ExpiryFromReply(startedAt) == now + LeaseDuration

\* scheduleExpiryWatchdog: the timer counts from the start of the request.
ExpiryAt(startedAt) == Later(now, startedAt + LeaseDuration)

\* The arguments of a markLost: it stops the heartbeat and the watchdog.
MarkLost(d) ==
    /\ lost' = [lost EXCEPT ![d] = TRUE]
    /\ deadline' = [deadline EXCEPT ![d] = Off]

\* The database has executed d's statement; nobody waits for a dead process's.
Answer(d, status) ==
    call' = [call EXCEPT ![d] =
                IF stage[d] = "dead" THEN NoCall ELSE [@ EXCEPT !.status = status]]

-----------------------------------------------------------------------------
(* Acquisition. *)

AcquireSend(d) ==
    /\ stage[d] = "start"
    /\ stage' = [stage EXCEPT ![d] = "acquire"]
    /\ call' = [call EXCEPT ![d] = [op |-> "acquire", startedAt |-> now,
                                    status |-> "sent"]]
    /\ UNCHANGED <<now, row, epoch, lost, deadline, unlock, rowVars>>

\* Mutant: assertActive reads the row without FOR UPDATE, so that nothing waits.
AcquireUnderTxn(d) ==
    /\ call[d].op = "acquire" /\ call[d].status = "sent"
    /\ \E stamp \in call[d].startedAt .. now :
          IF Acquirable(d, stamp)
          THEN /\ row' = AcquiredRow(d, stamp)
               /\ epoch' = [epoch EXCEPT ![d] = row'.epoch]
               /\ Answer(d, "granted")
          ELSE /\ Answer(d, "refused")
               /\ UNCHANGED <<row, epoch>>
    /\ UNCHANGED <<now, stage, lost, deadline, unlock, rowVars>>

\* INSERT ... ON CONFLICT DO UPDATE ... WHERE; waits for the row lock.  The
\* daemon may be gone by now: the database executes the statement all the same.
AcquireExec(d) ==
    /\ call[d].op = "acquire" /\ call[d].status = "sent"
    /\ txn = NoDaemon
    /\ \E stamp \in call[d].startedAt .. now :
          IF Acquirable(d, stamp)
          THEN /\ row' = AcquiredRow(d, stamp)
               /\ epoch' = [epoch EXCEPT ![d] = row'.epoch]
               /\ Answer(d, "granted")
          ELSE /\ Answer(d, "refused")
               /\ UNCHANGED <<row, epoch>>
    /\ UNCHANGED <<now, stage, lost, deadline, unlock, rowVars>>

\* A refused acquire closes the object; retryTurnDaemonLeaseStartup builds
\* another with a new owner id, which no row names: the same as starting over.
AcquireReply(d) ==
    /\ stage[d] = "acquire" /\ call[d].status # "sent"
    /\ call' = [call EXCEPT ![d] = NoCall]
    /\ IF call[d].status = "granted"
       THEN /\ stage' = [stage EXCEPT ![d] = "load"]
            /\ lost' = [lost EXCEPT ![d] = FALSE]
            /\ deadline' = [deadline EXCEPT ![d] = ExpiryAt(call[d].startedAt)]
       ELSE /\ stage' = [stage EXCEPT ![d] = "start"]
            /\ UNCHANGED <<lost, deadline>>
    /\ UNCHANGED <<now, row, epoch, unlock, rowVars>>

-----------------------------------------------------------------------------
(* Heartbeat and watchdog. *)

RenewSend(d) ==
    /\ stage[d] \in Holding /\ ~lost[d]
    /\ call[d].op = "none"
    /\ call' = [call EXCEPT ![d] = [op |-> "renew", startedAt |-> now,
                                    status |-> "sent"]]
    /\ UNCHANGED <<now, row, stage, epoch, lost, deadline, unlock, rowVars>>

RenewExec(d) ==
    /\ call[d].op = "renew" /\ call[d].status = "sent"
    /\ txn = NoDaemon
    /\ \E stamp \in call[d].startedAt .. now :
          IF Renewable(d, stamp)
          THEN /\ row' = [row EXCEPT !.until = stamp + LeaseDuration]
               /\ Answer(d, "granted")
          ELSE /\ Answer(d, "refused")
               /\ UNCHANGED row
    /\ UNCHANGED <<now, stage, epoch, lost, deadline, unlock, rowVars>>

\* The continuation of renew().  It may run after release() dropped the token.
RenewReply(d) ==
    /\ stage[d] \in Holding \cup {"closed"}
    /\ call[d].op = "renew" /\ call[d].status # "sent"
    /\ call' = [call EXCEPT ![d] = NoCall]
    /\ \/ /\ call[d].status = "refused"
          /\ MarkLost(d)
       \/ /\ call[d].status = "granted" /\ lost[d]
          /\ UNCHANGED <<lost, deadline>>
       \/ /\ call[d].status = "granted" /\ ~lost[d]
          /\ deadline' = [deadline EXCEPT ![d] = ExpiryAt(call[d].startedAt)]
          /\ UNCHANGED lost
    /\ UNCHANGED <<now, row, stage, epoch, unlock, rowVars>>

\* The heartbeat's catch: the request failed at the client.  The statement may
\* have been executed, or still be.
RenewError(d) ==
    /\ stage[d] \in Holding /\ ~lost[d]
    /\ call[d].op = "renew"
    /\ MarkLost(d)
    /\ UNCHANGED <<now, row, stage, epoch, call, unlock, rowVars>>

\* Mutant: the watchdog trusts a renewal in flight.
WatchdogWaitsForRenewal(d) ==
    /\ deadline[d] # Off /\ deadline[d] <= now
    /\ call[d].op = "none"
    /\ MarkLost(d)
    /\ UNCHANGED <<now, row, stage, epoch, call, unlock, rowVars>>

\* The expiry timer's callback.
Watchdog(d) ==
    /\ deadline[d] # Off /\ deadline[d] <= now
    /\ MarkLost(d)
    /\ UNCHANGED <<now, row, stage, epoch, call, unlock, rowVars>>

-----------------------------------------------------------------------------
(* What the daemon does with the lease. *)

\* loadTurnWorldFromDatabase, after the lease has been acquired.
Load(d) ==
    /\ stage[d] = "load"
    /\ stage' = [stage EXCEPT ![d] = "recover"]
    /\ memory' = [memory EXCEPT ![d] = world]
    /\ UNCHANGED <<now, row, epoch, lost, deadline, call, unlock, txn, world>>

\* A transaction that starts with assertActive(tx): refused (and the lease marked
\* lost) or holding the row lock.
BeginFenced(d) ==
    /\ stage[d] \in {"recover", "run"} /\ ~lost[d]
    /\ txn = NoDaemon
    /\ IF Active(d)
       THEN txn' = d /\ UNCHANGED <<lost, deadline>>
       ELSE MarkLost(d) /\ UNCHANGED txn
    /\ UNCHANGED <<now, row, stage, epoch, call, unlock, world, memory>>

\* persistChanges commits and acknowledges; the lease may have expired, or have
\* been declared lost by the watchdog, since assertActive.
CommitFenced(d) ==
    /\ txn = d
    /\ world < MaxWorld
    /\ world' = world + 1
    /\ memory' = [memory EXCEPT ![d] = memory[d] + 1]
    /\ txn' = NoDaemon
    /\ UNCHANGED <<now, row, stage, epoch, lost, deadline, call, unlock>>

RollbackFenced(d) ==
    /\ txn = d
    /\ txn' = NoDaemon
    /\ UNCHANGED <<now, row, stage, epoch, lost, deadline, call, unlock, world, memory>>

\* markClockReady, one short transaction once recovery is durable.
MarkClockReady(d) ==
    /\ stage[d] = "recover"
    /\ txn = NoDaemon
    /\ IF ~lost[d] /\ Active(d)
       THEN /\ row' = [row EXCEPT !.ready = TRUE]
            /\ stage' = [stage EXCEPT ![d] = "run"]
            /\ UNCHANGED <<lost, deadline>>
       ELSE MarkLost(d) /\ UNCHANGED <<row, stage>>
    /\ UNCHANGED <<now, epoch, call, unlock, rowVars>>

-----------------------------------------------------------------------------
(* Release, crash and time. *)

\* release(): a lost lease is only forgotten, another is given back by a
\* statement of its own that a heartbeat in flight may overtake.
Release(d) ==
    /\ stage[d] \in Holding
    /\ txn # d
    /\ stage' = [stage EXCEPT ![d] = "closed"]
    /\ deadline' = [deadline EXCEPT ![d] = Off]
    /\ unlock' = [unlock EXCEPT ![d] = IF lost[d] THEN Off ELSE now]
    /\ UNCHANGED <<now, row, epoch, lost, call, rowVars>>

ReleaseExec(d) ==
    /\ unlock[d] # Off
    /\ txn = NoDaemon
    /\ unlock' = [unlock EXCEPT ![d] = Off]
    /\ \E stamp \in unlock[d] .. now :
          row' = IF Owns(d) THEN [row EXCEPT !.until = stamp] ELSE row
    /\ UNCHANGED <<now, stage, epoch, lost, deadline, call, rowVars>>

\* The process dies: its open transaction is rolled back by the database, its
\* statements in flight may still be executed.
Crash(d) ==
    /\ stage[d] # "dead"
    /\ stage' = [stage EXCEPT ![d] = "dead"]
    /\ deadline' = [deadline EXCEPT ![d] = Off]
    /\ call' = [call EXCEPT ![d] = IF @.status # "sent" THEN NoCall ELSE @]
    /\ txn' = IF txn = d THEN NoDaemon ELSE txn
    /\ UNCHANGED <<now, row, epoch, lost, unlock, world, memory>>

Tick ==
    /\ now < MaxTime
    /\ now' = now + 1
    /\ UNCHANGED <<row, stage, epoch, lost, deadline, call, unlock, rowVars>>

-----------------------------------------------------------------------------
DaemonStep(d) ==
    \/ AcquireSend(d) \/ AcquireExec(d) \/ AcquireReply(d)
    \/ RenewSend(d) \/ RenewExec(d) \/ RenewReply(d) \/ RenewError(d)
    \/ Watchdog(d)
    \/ Load(d) \/ BeginFenced(d) \/ CommitFenced(d) \/ RollbackFenced(d)
    \/ MarkClockReady(d)
    \/ Release(d) \/ ReleaseExec(d) \/ Crash(d)

Next == Tick \/ \E d \in Daemons : DaemonStep(d)

\* setTimeout fires once its time has come: the only fairness a live process gives.
Fairness == \A d \in Daemons : WF_vars(Watchdog(d))

Spec == Init /\ [][Next]_vars /\ Fairness

-----------------------------------------------------------------------------
(* Properties. *)

\* databaseHooks.ts: "A stale daemon can finish calculating, but it can never
\* commit after another owner has advanced the epoch."  While a transaction that
\* passed assertActive is open, the row still carries its owner and epoch, and
\* the world it is about to write over is the one its memory was computed from,
\* whatever expired meanwhile.
NoStaleCommit ==
    txn # NoDaemon =>
        /\ Owns(txn)
        /\ memory[txn] = world

\* scheduleExpiryWatchdog: the watchdog is never armed for later than the
\* database's own expiry of the lease, so a daemon whose heartbeat stops pauses
\* before another daemon may take over.
WatchdogNotLate ==
    \A d \in Daemons :
        stage[d] \in Holding /\ deadline[d] > now =>
            Owns(d) /\ deadline[d] <= row.until

\* clock_ready, which profile readiness and the API's workers trust, is only ever
\* raised for the recovery the row's present owner finished itself.
ReadyIsOwnersRecovery ==
    row.ready => /\ row.owner \in Daemons
                 /\ stage[row.owner] \in {"run", "closed", "dead"}

\* The row changes hands only when its lease has run out, never under an open
\* fenced transaction, and always with a larger fencing epoch.
Takeover ==
    [][row'.owner # row.owner =>
          /\ row.until <= now
          /\ txn = NoDaemon
          /\ row'.epoch > row.epoch]_vars

\* A daemon that another has superseded stops believing in its lease, even if it
\* never talks to the database again.
SupersededStepsDown ==
    \A d \in Daemons :
        stage[d] \in Holding /\ ~Owns(d) ~> (lost[d] \/ stage[d] \in {"closed", "dead"})

-----------------------------------------------------------------------------
(* The lease provides a single writer. *)

pastBar == {d \in Daemons : epoch[d] # 0}

copyBar ==
    IF row.owner \in Daemons /\ stage[row.owner] \in {"recover", "run"}
    THEN {memory[row.owner]} ELSE {}

Writer == INSTANCE SingleWriter
            WITH Writers <- Daemons, Nobody <- NoDaemon,
                 writer <- row.owner, past <- pastBar, copy <- copyBar

\* The row of databaseTurnDaemonLease.ts and the fenced transactions of databaseHooks.ts
\* make one daemon at a time the writer of the world, which it has loaded since.
ImplementsSingleWriter == Writer!Spec
=============================================================================
