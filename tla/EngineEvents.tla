---------------------------- MODULE EngineEvents ----------------------------
(***************************************************************************)
(* The engine's durable command queue (input_event rows with target ENGINE) *)
(* and the turn daemons that consume it: claiming with a row lease,         *)
(* executing inside the state manager's savepoint, committing world and     *)
(* event in one fenced transaction, reporting errors, retrying, and crashing *)
(* at any point.                                                            *)
(*                                                                          *)
(* The daemon lease appears only through what TurnDaemonLease establishes   *)
(* (it implements SingleWriter): at any time one daemon is the owner, only  *)
(* its fenced transactions commit, and a new owner has loaded the durable   *)
(* world.  A daemon that was superseded keeps running until it notices.     *)
(*                                                                          *)
(* A daemon is one process: it has a fresh worker id and never restarts.    *)
(* A transaction is one step, since the lease row and the event row are     *)
(* locked until it ends.                                                    *)
(***************************************************************************)
EXTENDS Naturals

CONSTANTS
    Daemons,        \* daemon processes that may ever run
    NoDaemon,       \* the null worker / owner
    Events,         \* requests, named by their sequence numbers
    Withheld,       \* requests that the clock may keep from being claimed
    Malformed,      \* requests whose payload normalizeTurnDaemonCommand rejects
    maxAttempts,    \* maxAttempts of the queue
    MaxFaults,      \* bound on errors, lost replies, takeovers and crashes
    MaxTurns,       \* bound on committed turn runs
    LostReplies     \* may a committed transaction look failed to its daemon?

ASSUME EventsAssumption == Events \subseteq Nat /\ Malformed \subseteq Events /\ Withheld \subseteq Events
ASSUME NoDaemonAssumption == NoDaemon \notin Daemons
ASSUME BoundsAssumption == maxAttempts \in Nat /\ MaxFaults \in Nat /\ MaxTurns \in Nat
ASSUME LostRepliesAssumption == LostReplies \in BOOLEAN

VARIABLES
    status,     \* input_event.status of each request ("ABSENT": no row)
    lockedBy,   \* input_event.locked_by
    attempts,   \* input_event.attempts
    expired,    \* requests whose lease_until has passed
    held,       \* requests that a claim leaves out at present
    owner,      \* owner of the turn-daemon lease
    proc,       \* each daemon: "new", "run", "report", "dead"
    lost,       \* daemons that know they lost the lease
    batch,      \* commands a daemon has claimed and not yet handled
    durable,    \* the committed world: effects per request, turns run
    memory,     \* the in-memory world of each daemon
    faults      \* faults so far

rowVars == <<status, lockedBy, attempts, expired>>
vars == <<status, lockedBy, attempts, expired, held, owner, proc, lost, batch, durable, memory, faults>>

Statuses == {"ABSENT", "PENDING", "PROCESSING", "SUCCEEDED", "FAILED"}
Worlds == [applied : [Events -> Nat], turns : Nat]
EmptyWorld == [applied |-> [e \in Events |-> 0], turns |-> 0]

\* Rows, claims, daemons and worlds have their types.
TypeOK ==
    /\ status \in [Events -> Statuses]
    /\ lockedBy \in [Events -> Daemons \cup {NoDaemon}]
    /\ attempts \in [Events -> Nat]
    /\ expired \subseteq Events
    /\ held \subseteq Withheld
    /\ owner \in Daemons \cup {NoDaemon}
    /\ proc \in [Daemons -> {"new", "run", "report", "dead"}]
    /\ lost \subseteq Daemons
    /\ batch \in [Daemons -> SUBSET Events]
    /\ durable \in Worlds
    /\ memory \in [Daemons -> Worlds]
    /\ faults \in Nat

Init ==
    /\ status = [e \in Events |-> "ABSENT"]
    /\ lockedBy = [e \in Events |-> NoDaemon]
    /\ attempts = [e \in Events |-> 0]
    /\ expired = {}
    /\ held = {}
    /\ owner = NoDaemon
    /\ proc = [d \in Daemons |-> "new"]
    /\ lost = {}
    /\ batch = [d \in Daemons |-> {}]
    /\ durable = EmptyWorld
    /\ memory = [d \in Daemons |-> EmptyWorld]
    /\ faults = 0

Fault == faults < MaxFaults /\ faults' = faults + 1

Applied(w, e) == [w EXCEPT !.applied[e] = @ + 1]
TurnRun(w) == [w EXCEPT !.turns = @ + 1]

\* e is the command d handles next: claims are ordered by sequence.
Foremost(d, e) == e \in batch[d] /\ \A f \in batch[d] : e <= f

-----------------------------------------------------------------------------
(* The API and the clock. *)

\* sendCommand; sending a request id again finds its row and changes nothing.
SendCommand(e) ==
    /\ status[e] = "ABSENT"
    /\ status' = [status EXCEPT ![e] = "PENDING"]
    /\ UNCHANGED <<lockedBy, attempts, expired, held, owner, proc, lost, batch, durable, memory, faults>>

\* The sixty seconds of a claim pass.  That they pass while the worker still means to
\* handle the command (a slow batch) counts as a fault.
LeaseExpires(e) ==
    /\ status[e] = "PROCESSING" /\ e \notin expired
    /\ IF e \in batch[lockedBy[e]] THEN Fault ELSE UNCHANGED faults
    /\ expired' = expired \cup {e}
    /\ UNCHANGED <<status, lockedBy, attempts, held, owner, proc, lost, batch, durable, memory>>

\* The clock is suspended, reconciled, resumed or completed: which rows the phase filter of
\* claimPending leaves out, convertTick finds no tick for, or the limit does not reach, changes.
Withhold(H) ==
    /\ held' = H
    /\ UNCHANGED <<rowVars, owner, proc, lost, batch, durable, memory, faults>>

-----------------------------------------------------------------------------
(* Daemon processes. *)

\* A process acquires the lease (free or expired) and loads the world.  Taking it
\* from a live owner counts as a fault.
Start(d) ==
    /\ proc[d] = "new"
    /\ \/ owner = NoDaemon /\ UNCHANGED faults
       \/ owner # NoDaemon /\ proc[owner] # "dead" /\ Fault
       \/ owner # NoDaemon /\ proc[owner] = "dead" /\ UNCHANGED faults
    /\ proc' = [proc EXCEPT ![d] = "run"]
    /\ owner' = d
    /\ memory' = [memory EXCEPT ![d] = durable]
    /\ UNCHANGED <<rowVars, held, lost, batch, durable>>

\* Heartbeat or watchdog declare the lease lost: the daemon was superseded, or a
\* renewal failed.
NoticeLoss(d) ==
    /\ proc[d] \in {"run", "report"} /\ d \notin lost
    /\ IF owner = d THEN Fault ELSE UNCHANGED faults
    /\ lost' = lost \cup {d}
    /\ UNCHANGED <<rowVars, held, owner, proc, batch, durable, memory>>

\* pauseGate throws once the loss is known: the loop ends between two drains.
Exit(d) ==
    /\ proc[d] = "run" /\ d \in lost /\ batch[d] = {}
    /\ proc' = [proc EXCEPT ![d] = "dead"]
    /\ UNCHANGED <<rowVars, held, owner, lost, batch, durable, memory, faults>>

Crash(d) ==
    /\ proc[d] \in {"run", "report"}
    /\ Fault
    /\ proc' = [proc EXCEPT ![d] = "dead"]
    /\ batch' = [batch EXCEPT ![d] = {}]
    /\ UNCHANGED <<rowVars, held, owner, lost, durable, memory>>

-----------------------------------------------------------------------------
(* Claiming.  Neither step asks the database whether the daemon owns its lease. *)

\* Mutant: a worker recovers only claims of its own.
RecoverOwnLeases(d) ==
    /\ proc[d] = "run" /\ batch[d] = {}
    /\ expired # {}
    /\ LET R == {e \in expired : status[e] = "PROCESSING" /\ lockedBy[e] = d} IN
          /\ status' = [e \in Events |-> IF e \in R THEN "PENDING" ELSE status[e]]
          /\ lockedBy' = [e \in Events |-> IF e \in R THEN NoDaemon ELSE lockedBy[e]]
    /\ expired' = {}
    /\ UNCHANGED <<attempts, held, owner, proc, lost, batch, durable, memory, faults>>

\* recoverExpiredLeases: whoever claimed an expired row, it is pending again.
RecoverExpiredLeases(d) ==
    /\ proc[d] = "run" /\ batch[d] = {}
    /\ expired # {}
    /\ LET R == {e \in expired : status[e] = "PROCESSING"} IN
          /\ status' = [e \in Events |-> IF e \in R THEN "PENDING" ELSE status[e]]
          /\ lockedBy' = [e \in Events |-> IF e \in R THEN NoDaemon ELSE lockedBy[e]]
    /\ expired' = {}
    /\ UNCHANGED <<attempts, held, owner, proc, lost, batch, durable, memory, faults>>

\* claimPending takes some of the pending rows that are not held back: SKIP LOCKED and
\* the limit decide which.  A malformed payload fails on the spot.  A daemon whose
\* loss is noticed after pauseGate let it through, or while waitForResume polls,
\* still claims; the loop then meets pauseGate, so this counts as a fault.
ClaimPending(d) ==
    /\ proc[d] = "run" /\ batch[d] = {}
    /\ IF d \in lost THEN Fault ELSE UNCHANGED faults
    /\ \E S \in SUBSET {e \in Events \ held : status[e] = "PENDING"} :
          /\ S # {}
          /\ status' = [e \in Events |-> IF e \notin S THEN status[e]
                                         ELSE IF e \in Malformed THEN "FAILED" ELSE "PROCESSING"]
          /\ lockedBy' = [e \in Events |-> IF e \notin S THEN lockedBy[e]
                                           ELSE IF e \in Malformed THEN NoDaemon ELSE d]
          /\ attempts' = [e \in Events |-> IF e \in S THEN attempts[e] + 1 ELSE attempts[e]]
          /\ expired' = expired \ S
          /\ batch' = [batch EXCEPT ![d] = S \ Malformed]
    /\ UNCHANGED <<held, owner, proc, lost, durable, memory>>

-----------------------------------------------------------------------------
(* Executing. *)

\* Mutant: persistChanges checks the claim and what the daemon itself knows of its lease.
CommandFenceUnleased(d, e) == d \notin lost /\ status[e] = "PROCESSING"

\* assertActive and the command fence of persistChanges.
CommandFence(d, e) == owner = d /\ d \notin lost /\ status[e] = "PROCESSING"

\* Mutant: the status is left for a later statement.
CommitWithoutStatus(e) == UNCHANGED <<status, lockedBy, expired, attempts>>

\* The rows persistChanges writes in the transaction of the world it flushes.
CommitRows(e) ==
    /\ status' = [status EXCEPT ![e] = "SUCCEEDED"]
    /\ lockedBy' = [lockedBy EXCEPT ![e] = NoDaemon]
    /\ expired' = expired \ {e}
    /\ UNCHANGED attempts

\* What a flush is based on: it writes the rows the daemon dirtied, from memory,
\* over the durable ones.  Where memory is stale the rows may be the stale ones.
Bases(d) == {durable, memory[d]}

\* The command commits: world, result and status together.  complete() then finds
\* a row that is no longer PROCESSING and changes nothing.
ExecuteCommand(d, e) ==
    /\ proc[d] = "run" /\ Foremost(d, e)
    /\ CommandFence(d, e)
    /\ CommitRows(e)
    /\ \E w \in Bases(d) : durable' = Applied(w, e)
    /\ memory' = [memory EXCEPT ![d] = Applied(@, e)]
    /\ batch' = [batch EXCEPT ![d] = @ \ {e}]
    /\ UNCHANGED <<held, owner, proc, lost, faults>>

\* Mutant: the savepoint is not restored.
FailKeepsMemory(d, e) ==
    /\ proc[d] = "run" /\ Foremost(d, e)
    /\ IF CommandFence(d, e) THEN Fault ELSE UNCHANGED faults
    /\ proc' = [proc EXCEPT ![d] = "report"]
    /\ lost' = IF owner # d THEN lost \cup {d} ELSE lost
    /\ memory' = [memory EXCEPT ![d] = Applied(@, e)]
    /\ UNCHANGED <<rowVars, held, owner, batch, durable>>

\* The transaction failed, or was refused by a fence: the savepoint is restored
\* and the error goes to publishCommandError.
FailCommand(d, e) ==
    /\ proc[d] = "run" /\ Foremost(d, e)
    /\ IF CommandFence(d, e) THEN Fault ELSE UNCHANGED faults
    /\ proc' = [proc EXCEPT ![d] = "report"]
    /\ lost' = IF owner # d THEN lost \cup {d} ELSE lost
    /\ UNCHANGED <<rowVars, held, owner, batch, durable, memory>>

\* The commit was durable but its acknowledgement never arrived: for the daemon a
\* failed transaction like any other.
CommitReplyLost(d, e) ==
    /\ LostReplies
    /\ proc[d] = "run" /\ Foremost(d, e)
    /\ CommandFence(d, e)
    /\ Fault
    /\ CommitRows(e)
    /\ \E w \in Bases(d) : durable' = Applied(w, e)
    /\ proc' = [proc EXCEPT ![d] = "report"]
    /\ UNCHANGED <<held, owner, lost, batch, memory>>

\* Mutant: the error overwrites whatever became of the row.
ErrorOverwrites(d, e) == TRUE

\* The row is still this worker's claim.
ErrorApplies(d, e) == status[e] = "PROCESSING" /\ lockedBy[e] = d

\* publishCommandError: a row that is still this worker's claim is retried or,
\* at the last attempt, failed for good.
PublishCommandError(d, e) ==
    /\ proc[d] = "report" /\ Foremost(d, e)
    /\ IF ErrorApplies(d, e)
       THEN /\ status' = [status EXCEPT ![e] = IF attempts[e] >= maxAttempts
                                               THEN "FAILED" ELSE "PENDING"]
            /\ lockedBy' = [lockedBy EXCEPT ![e] = NoDaemon]
            /\ expired' = expired \ {e}
       ELSE UNCHANGED <<status, lockedBy, expired>>
    /\ proc' = [proc EXCEPT ![d] = "run"]
    /\ batch' = [batch EXCEPT ![d] = @ \ {e}]
    /\ UNCHANGED <<attempts, held, owner, lost, durable, memory, faults>>

\* The report itself fails and is only noted: the row keeps its claim.
ReportFails(d, e) ==
    /\ proc[d] = "report" /\ Foremost(d, e)
    /\ Fault
    /\ proc' = [proc EXCEPT ![d] = "run"]
    /\ batch' = [batch EXCEPT ![d] = @ \ {e}]
    /\ UNCHANGED <<rowVars, held, owner, lost, durable, memory>>

\* runOnce between two drains; a failed run restores the savepoint: no change.
RunOnce(d) ==
    /\ proc[d] = "run" /\ d \notin lost /\ batch[d] = {}
    /\ owner = d
    /\ memory[d].turns < MaxTurns
    /\ \E w \in Bases(d) : durable' = TurnRun(w)
    /\ memory' = [memory EXCEPT ![d] = TurnRun(@)]
    /\ UNCHANGED <<rowVars, held, owner, proc, lost, batch, faults>>

\* Its flush was durable, its acknowledgement lost.
RunReplyLost(d) ==
    /\ LostReplies
    /\ proc[d] = "run" /\ d \notin lost /\ batch[d] = {}
    /\ owner = d
    /\ memory[d].turns < MaxTurns
    /\ Fault
    /\ \E w \in Bases(d) : durable' = TurnRun(w)
    /\ UNCHANGED <<rowVars, held, owner, proc, lost, batch, memory>>

-----------------------------------------------------------------------------
DaemonStep(d) ==
    \/ Start(d) \/ NoticeLoss(d) \/ Exit(d) \/ Crash(d)
    \/ RecoverExpiredLeases(d) \/ ClaimPending(d)
    \/ RunOnce(d) \/ RunReplyLost(d)
    \/ \E e \in Events :
          \/ ExecuteCommand(d, e) \/ FailCommand(d, e) \/ CommitReplyLost(d, e)
          \/ PublishCommandError(d, e) \/ ReportFails(d, e)

Next ==
    \/ \E e \in Events : SendCommand(e) \/ LeaseExpires(e)
    \/ \E H \in SUBSET Withheld : Withhold(H)
    \/ \E d \in Daemons : DaemonStep(d)

\* A live loop keeps going, the supervisor starts another process when the owner is
\* gone, claims run out.  Nothing is assumed of clients, errors, crashes and the clock; a
\* row that is not held back is left out of a claim only finitely often.
Progress(d) ==
    \/ Exit(d) \/ NoticeLoss(d) \/ RecoverExpiredLeases(d)
    \/ \E e \in Events : ExecuteCommand(d, e) \/ FailCommand(d, e) \/ PublishCommandError(d, e)

Fairness ==
    /\ \A d \in Daemons :
          /\ WF_vars(Progress(d))
          /\ WF_vars(Start(d) /\ faults' = faults)
          /\ \A e \in Events : SF_vars(ClaimPending(d) /\ status[e] = "PENDING" /\ status'[e] # "PENDING")
    /\ \A e \in Events : WF_vars(LeaseExpires(e))

Spec == Init /\ [][Next]_vars /\ Fairness

-----------------------------------------------------------------------------
(* Properties. *)

\* A request has succeeded exactly when its effect is in the durable world, and it
\* is there once: whatever was retried, reclaimed after expiry, run by a superseded
\* daemon or interrupted, nothing is applied twice, or applied and reported failed.
SucceededIffApplied ==
    \A e \in Events : durable.applied[e] = IF status[e] = "SUCCEEDED" THEN 1 ELSE 0

\* Lost replies included: a durable effect belongs to a request that is reported as
\* succeeded, and no effect is there twice.  A flush from a memory that missed its own
\* commit may drop an effect; it never repeats one, nor brings back that of a failed
\* command.
NeverTwice ==
    \A e \in Events :
        durable.applied[e] \in {0, 1} /\ (durable.applied[e] = 1 => status[e] = "SUCCEEDED")

\* What a client may have read of a request is final.
ResultsAreFinal ==
    [][\A e \in Events : status[e] \in {"SUCCEEDED", "FAILED"} => status'[e] = status[e]]_vars

\* Between two commands the owner's memory is the durable world: failed flushes,
\* retries and takeovers leave neither a lost nor a phantom update behind.
MemoryIsDurable ==
    \A d \in Daemons : owner = d /\ proc[d] \in {"run", "report"} => memory[d] = durable

\* Every request that was sent is eventually answered, whatever errors, crashes, takeovers and
\* lost replies it meets, unless the clock keeps holding it back: a COMPLETED or suspended game,
\* or a revision that its tick cannot be converted to.  Others are answered meanwhile.
EventuallyAnswered ==
    \A e \in Events :
        <>[](e \notin held) => (status[e] # "ABSENT" ~> status[e] \in {"SUCCEEDED", "FAILED"})

-----------------------------------------------------------------------------
(* The queue implements the abstract promise. *)

outcomeBar ==
    [e \in Events |->
        CASE status[e] = "ABSENT" -> "unknown"
          [] status[e] \in {"PENDING", "PROCESSING"} -> "accepted"
          [] status[e] = "SUCCEEDED" -> "succeeded"
          [] status[e] = "FAILED" -> "failed"]

Promise == INSTANCE ExactlyOnce
             WITH Requests <- Events, outcome <- outcomeBar, effects <- durable.applied

\* The queue of databaseCommandQueue.ts with its executors is exactly once for its clients.
ImplementsPromise == Promise!Spec

-----------------------------------------------------------------------------
(* The queue keeps what the lease provides. *)

pastBar == {d \in Daemons : proc[d] # "new"}

copyBar ==
    IF owner \in Daemons /\ proc[owner] \in {"run", "report"} THEN {memory[owner]} ELSE {}

Writer == INSTANCE SingleWriter
            WITH Writers <- Daemons, Nobody <- NoDaemon,
                 writer <- owner, past <- pastBar, copy <- copyBar, world <- durable

\* Commands and turn runs of turnDaemonLifecycle.ts change the durable world through the
\* lease's owner only, from a memory that is that world.
ImplementsSingleWriter == Writer!Spec
=============================================================================
