------------------------- MODULE ClockReconciliation -------------------------
(***************************************************************************)
(* The game clock of one profile: the durable clock row of PostgreSQL with *)
(* its suspension ledgers and projection outbox, the Redis projection that *)
(* the auction and tournament workers obey, and the memory of the turn     *)
(* daemon.  A suspension cuts the clock; its reconciliation moves every    *)
(* deadline of the game by one shift and starts the next clock revision.   *)
(* The shift has to reach PostgreSQL, Redis and the daemon's memory once   *)
(* each, although they change in different transactions.                   *)
(*                                                                         *)
(* All deadlines of one store move together, so each store keeps one       *)
(* number, the sum of the shifts its deadlines have absorbed.  Wall time   *)
(* is abstracted: a claim of the outbox may go stale at any moment.  The   *)
(* auction timers, which Redis keeps as hints that the auction worker      *)
(* checks against PostgreSQL, are left out.                                *)
(***************************************************************************)
EXTENDS Naturals, FiniteSets

CONSTANTS
    Projectors,      \* workers that run applyNextClockProjection
    Lasting,         \* those of them that keep polling; the others may stop for good
    Writers,         \* API requests and workers that write the tournament
    Shifts,          \* the shifts a reconciliation may compute, in ticks
    MaxRevision,     \* bound on the clock revisions a behaviour reaches
    OpeningPhases,   \* clock phases the profile may start in
    FirstTournament, \* TRUE: the profile has not seen a tournament yet
    ScheduleShifts   \* bound on the schedule shifts administrators order

ASSUME LastingAssumption == Lasting \subseteq Projectors
ASSUME MaxRevisionAssumption == MaxRevision \in Nat \ {0}
ASSUME ShiftsAssumption == Shifts \subseteq Nat
ASSUME OpeningAssumption == OpeningPhases \subseteq {"PREOPEN", "RUNNING"}
ASSUME TournamentAssumption == FirstTournament \in BOOLEAN /\ ScheduleShifts \in Nat

VARIABLES
    world,      \* world_state: phase, revision, generation and deadlines
    ledger,     \* clock_suspension, by source revision
    outbox,     \* clock_projection_outbox, by target revision
    redis,      \* the clock keys in Redis
    tournament, \* the tournament state in Redis
    proj,       \* the projection workers
    writer,     \* the tournament writers and the clock they have read
    gateway,    \* the gateway's clock transition in progress
    shifter,    \* the administrator's schedule shift in progress
    mem,        \* the clock and deadlines in the daemon's memory
    daemon,     \* the daemon process, and its pending phase probe
    total       \* history: the sum of the shifts up to each revision

vars == <<world, ledger, outbox, redis, tournament, proj, writer, gateway,
          shifter, mem, daemon, total>>

database == <<world, ledger, outbox, total>>

Revisions == 1 .. MaxRevision
Phases == {"PREOPEN", "RUNNING", "SUSPENDED", "RECONCILING", "COMPLETED"}
Stages == {"absent", "closed", "open"}

Clock == [phase : Phases, revision : Revisions, generation : Nat, deadline : Nat]
Tournament == [stage : Stages, revision : Nat, generation : Nat, tick : Nat, edits : Nat]

Ledger == [status : {"NONE", "SUSPENDED", "RECONCILING", "APPLIED"},
           source : {"NONE", "MAINTENANCE", "RECOVERY", "UNIFICATION_WAIT"},
           name : Nat, shift : Nat]
OutboxRow == [status : {"NONE", "PENDING", "APPLYING", "FAILED", "APPLIED"},
              generation : Nat, shift : Nat]
RedisClock == [revision : Nat, generation : Nat, phase : {"unset", "RUNNING", "SUSPENDED"},
               checksum : Nat]
Worker == [pc : {"idle", "claimed", "checked", "ready", "applied", "failed"},
           row : Nat, seen : Tournament]
WriterState == [pc : {"idle", "loaded", "fenced"}, revision : Nat, generation : Nat,
                deadline : Nat]
GatewayState == [pc : {"idle", "suspend", "mark", "open"}, revision : Nat, generation : Nat]
ShifterState == [pc : {"idle", "read"}, seen : Tournament, done : Nat]
DaemonState == [state : {"down", "up", "sync", "month"}, probe : {"none", "RUNNING"}]

NoTournament == [stage |-> "absent", revision |-> 0, generation |-> 0, tick |-> 0, edits |-> 0]
NoMemory == [phase |-> "RUNNING", revision |-> 1, generation |-> 1, deadline |-> 0]
NoLedger == [status |-> "NONE", source |-> "NONE", name |-> 0, shift |-> 0]
NoRow == [status |-> "NONE", generation |-> 0, shift |-> 0]
IdleProjector == [pc |-> "idle", row |-> 0, seen |-> NoTournament]
IdleWriter == [pc |-> "idle", revision |-> 0, generation |-> 0, deadline |-> 0]
IdleGateway == [pc |-> "idle", revision |-> 0, generation |-> 0]

(***************************************************************************)
(* The one type invariant.                                                 *)
(***************************************************************************)
TypeOK ==
    /\ world \in Clock /\ mem \in Clock
    /\ ledger \in [Revisions -> Ledger]
    /\ outbox \in [Revisions -> OutboxRow]
    /\ redis \in RedisClock
    /\ tournament \in Tournament
    /\ proj \in [Projectors -> Worker]
    /\ writer \in [Writers -> WriterState]
    /\ gateway \in GatewayState
    /\ shifter \in ShifterState
    /\ daemon \in DaemonState
    /\ total \in [Revisions -> Nat]

Init ==
    /\ \E phase \in OpeningPhases :
          world = [phase |-> phase, revision |-> 1, generation |-> 1, deadline |-> 0]
    /\ ledger = [r \in Revisions |-> NoLedger]
    /\ outbox = [r \in Revisions |-> NoRow]
    /\ redis = [revision |-> 0, generation |-> 0, phase |-> "unset", checksum |-> 0]
    /\ tournament = IF FirstTournament THEN NoTournament
                    ELSE [stage |-> "open", revision |-> 1, generation |-> 1, tick |-> 0, edits |-> 0]
    /\ proj = [p \in Projectors |-> IdleProjector]
    /\ writer = [w \in Writers |-> IdleWriter]
    /\ gateway = IdleGateway
    /\ shifter = [pc |-> "idle", seen |-> NoTournament, done |-> 0]
    /\ mem = world
    /\ daemon = [state |-> "up", probe |-> "none"]
    /\ total = [r \in Revisions |-> 0]

-----------------------------------------------------------------------------
(***************************************************************************)
(* Suspension and reconciliation: serializable transactions on PostgreSQL. *)
(***************************************************************************)

\* startClockSuspension, once its guards passed: the clock row is cut and a
\* ledger for the next revision is opened under the caller's suspension id.
startClockSuspension(source, name) ==
    /\ world.phase = "RUNNING"
    /\ world' = [world EXCEPT !.phase = "SUSPENDED"]
    /\ ledger' = [ledger EXCEPT ![world.revision] =
                     [status |-> "SUSPENDED", source |-> source, name |-> name, shift |-> 0]]
    /\ UNCHANGED <<outbox, total>>

\* Mutant of Reconcilable: the ledger's status is not asked, so a retry
\* reconciles the revision it has already produced.
ReconcilableAgain(r) ==
    /\ ledger[r].status \in {"SUSPENDED", "RECONCILING"}
    /\ world.phase \in {"SUSPENDED", "RECONCILING"}
    /\ r < MaxRevision

\* The status and revision fence of a reconciliation.
Reconcilable(r) ==
    /\ ledger[r].status = "SUSPENDED"
    /\ world.phase = "SUSPENDED"
    /\ world.revision = r
    /\ r < MaxRevision

\* applyParticipantShift, the outbox row and the ledger, in one transaction.
reconcileClockSuspensionInTransaction(r, shift) ==
    /\ Reconcilable(r)
    /\ world' = [phase |-> "RECONCILING", revision |-> r + 1,
                 generation |-> world.generation + 1, deadline |-> world.deadline + shift]
    /\ ledger' = [ledger EXCEPT ![r].status = "RECONCILING", ![r].shift = shift]
    /\ outbox' = [outbox EXCEPT ![r + 1] =
                     [status |-> "PENDING", generation |-> world.generation + 1, shift |-> shift]]
    /\ total' = [total EXCEPT ![r + 1] = total[r] + shift]

-----------------------------------------------------------------------------
(***************************************************************************)
(* The gateway's maintenance: transitionProfileClock and                   *)
(* promoteProfileOpening.  Each reads the clock, commits a transaction on  *)
(* PostgreSQL, and then marks Redis with the clock it had read.            *)
(***************************************************************************)
GatewaySuspend ==
    /\ gateway.pc = "idle"
    /\ \/ world.phase = "RUNNING"
       \/ world.phase = "SUSPENDED" /\ ledger[world.revision].status = "SUSPENDED"
    /\ gateway' = [pc |-> IF world.phase = "RUNNING" THEN "suspend" ELSE "mark",
                   revision |-> world.revision, generation |-> world.generation]
    /\ UNCHANGED <<database, redis, tournament, proj, writer, shifter, mem, daemon>>

\* The suspension id is derived from the revision that was read, so a second
\* start for the same revision finds the first one's ledger.
GatewayStart ==
    /\ gateway.pc = "suspend"
    /\ \/ /\ \E r \in Revisions :
                /\ ledger[r].name = gateway.revision
                /\ gateway' = IF ledger[r].status = "SUSPENDED"
                              THEN [gateway EXCEPT !.pc = "mark"] ELSE IdleGateway
          /\ UNCHANGED database
       \/ /\ \A r \in Revisions : ledger[r].name # gateway.revision
          /\ startClockSuspension("MAINTENANCE", gateway.revision)
          /\ gateway' = [gateway EXCEPT !.pc = "mark"]
       \/ /\ \A r \in Revisions : ledger[r].name # gateway.revision
          /\ world.phase # "RUNNING"
          /\ gateway' = IdleGateway
          /\ UNCHANGED database
    /\ UNCHANGED <<redis, tournament, proj, writer, shifter, mem, daemon>>

\* Mutant of Marks: the revision that Redis holds is not looked at.
MarksAnyRevision(phase) ==
    [redis EXCEPT !.revision = gateway.revision, !.generation = gateway.generation, !.phase = phase]

\* The gateway's Lua scripts: refuse another active revision, else mark.
Marks(phase) ==
    IF redis.revision \in {0, gateway.revision}
    THEN [redis EXCEPT !.revision = gateway.revision, !.generation = gateway.generation,
                       !.phase = phase]
    ELSE redis

GatewayMark ==
    /\ gateway.pc = "mark"
    /\ redis' = Marks("SUSPENDED")
    /\ gateway' = IdleGateway
    /\ UNCHANGED <<database, tournament, proj, writer, shifter, mem, daemon>>

\* RESUME reconciles the open ledger, except the wait after unification.
\* The projection that follows is one of the projectors.
GatewayResume ==
    /\ \E r \in Revisions, shift \in Shifts :
          /\ ledger[r].source # "UNIFICATION_WAIT"
          /\ reconcileClockSuspensionInTransaction(r, shift)
    /\ UNCHANGED <<redis, tournament, proj, writer, gateway, shifter, mem, daemon>>

GatewayOpen ==
    /\ gateway.pc = "idle"
    /\ world.phase \in {"PREOPEN", "RUNNING"}
    /\ world' = [world EXCEPT !.phase = "RUNNING"]
    /\ gateway' = [pc |-> "open", revision |-> world.revision, generation |-> world.generation]
    /\ UNCHANGED <<ledger, outbox, total, redis, tournament, proj, writer, shifter, mem, daemon>>

GatewayOpenMark ==
    /\ gateway.pc = "open"
    /\ redis' = IF redis.generation \in {0, gateway.generation} THEN Marks("RUNNING") ELSE redis
    /\ gateway' = IdleGateway
    /\ UNCHANGED <<database, tournament, proj, writer, shifter, mem, daemon>>

\* The gateway dies between two of its steps.
GatewayCrash ==
    /\ gateway.pc # "idle"
    /\ gateway' = IdleGateway
    /\ UNCHANGED <<database, redis, tournament, proj, writer, shifter, mem, daemon>>

-----------------------------------------------------------------------------
(***************************************************************************)
(* The projection outbox: applyNextClockProjection.                        *)
(***************************************************************************)
\* Mutant of Claimable: a claim never goes stale.
ClaimableOnce(r) == outbox[r].status \in {"PENDING", "FAILED"}

Claimable(r) == outbox[r].status \in {"PENDING", "FAILED", "APPLYING"}

\* claimNext.  An APPLYING row is claimable again once its lock is 30 s old;
\* nothing stops the worker that claimed it before.
claimNext(p) ==
    /\ proj[p].pc = "idle"
    /\ \E r \in Revisions :
          /\ Claimable(r)
          /\ outbox' = [outbox EXCEPT ![r].status = "APPLYING"]
          /\ proj' = [proj EXCEPT ![p] = [IdleProjector EXCEPT !.pc = "claimed", !.row = r]]
    /\ UNCHANGED <<world, ledger, total, redis, tournament, writer, gateway, shifter, mem, daemon>>

\* The clock row still is RECONCILING at the row's revision and generation.
AtTarget(r) ==
    /\ world.phase = "RECONCILING"
    /\ world.revision = r
    /\ world.generation = outbox[r].generation

\* The worker at its next stage; what it read of the tournament is used by
\* the script alone.
MovesOn(p, stage) == [proj EXCEPT ![p].pc = stage, ![p].seen = NoTournament]

CheckWorld(p) ==
    /\ proj[p].pc = "claimed"
    /\ proj' = MovesOn(p, IF AtTarget(proj[p].row) THEN "checked" ELSE "failed")
    /\ UNCHANGED <<database, redis, tournament, writer, gateway, shifter, mem, daemon>>

ReadTournament(p) ==
    /\ proj[p].pc = "checked"
    /\ proj' = [proj EXCEPT ![p].pc = "ready", ![p].seen = tournament]
    /\ UNCHANGED <<database, redis, writer, tournament, gateway, shifter, mem, daemon>>

\* projectTournamentState: the snapshot moved to the target's coordinates.
projectTournamentState(p) ==
    [proj[p].seen EXCEPT !.revision = proj[p].row,
                         !.generation = outbox[proj[p].row].generation,
                         !.tick = proj[p].seen.tick + outbox[proj[p].row].shift]

\* Mutant of Rebuilds: no comparison with the tournament that was read.
RebuildsBlindly(p) == redis.revision \in {0, proj[p].row - 1}

\* The Lua script rebuilds only on top of the source revision, and over the
\* tournament that was read.  An absent tournament is not compared.
Rebuilds(p) ==
    /\ redis.revision \in {0, proj[p].row - 1}
    /\ proj[p].seen.stage # "absent" => tournament = proj[p].seen

\* The script's answer 2: the target revision is already active.
AlreadyActive(p) ==
    /\ redis.revision = proj[p].row
    /\ redis.checksum = proj[p].row
    /\ redis.generation = outbox[proj[p].row].generation

Rebuild(p) ==
    /\ redis' = [revision |-> proj[p].row, generation |-> outbox[proj[p].row].generation,
                 phase |-> "RUNNING", checksum |-> proj[p].row]
    /\ tournament' = IF proj[p].seen.stage = "absent" THEN tournament
                     ELSE projectTournamentState(p)

ApplyProjection(p) ==
    /\ proj[p].pc = "ready"
    /\ \/ AlreadyActive(p) /\ UNCHANGED <<redis, tournament>>
       \/ redis.revision # proj[p].row /\ Rebuilds(p) /\ Rebuild(p)
    /\ proj' = MovesOn(p, "applied")
    /\ UNCHANGED <<database, writer, gateway, shifter, mem, daemon>>

\* Answers -1, -2 and -3.
ApplyRefused(p) ==
    /\ proj[p].pc = "ready"
    /\ ~ AlreadyActive(p)
    /\ redis.revision = proj[p].row \/ ~ Rebuilds(p)
    /\ proj' = MovesOn(p, "failed")
    /\ UNCHANGED <<database, redis, tournament, writer, gateway, shifter, mem, daemon>>

\* The script ran and its answer was lost.
ApplyReplyLost(p) ==
    /\ proj[p].pc = "ready"
    /\ redis.revision # proj[p].row
    /\ Rebuilds(p)
    /\ Rebuild(p)
    /\ proj' = MovesOn(p, "failed")
    /\ UNCHANGED <<database, writer, gateway, shifter, mem, daemon>>

\* The final transaction: RUNNING, the row and the ledger, or nothing.
Finalized(p) ==
    /\ AtTarget(proj[p].row)
    /\ world' = [world EXCEPT !.phase = "RUNNING"]
    /\ outbox' = [outbox EXCEPT ![proj[p].row].status = "APPLIED"]
    /\ ledger' = [ledger EXCEPT ![proj[p].row - 1].status = "APPLIED"]
    /\ UNCHANGED total

Finalize(p) ==
    /\ proj[p].pc = "applied"
    /\ Finalized(p)
    /\ proj' = [proj EXCEPT ![p] = IdleProjector]
    /\ UNCHANGED <<redis, tournament, writer, gateway, shifter, mem, daemon>>

FinalizeReplyLost(p) ==
    /\ proj[p].pc = "applied"
    /\ Finalized(p)
    /\ proj' = MovesOn(p, "failed")
    /\ UNCHANGED <<redis, tournament, writer, gateway, shifter, mem, daemon>>

FinalizeRefused(p) ==
    /\ proj[p].pc = "applied"
    /\ ~ AtTarget(proj[p].row)
    /\ proj' = MovesOn(p, "failed")
    /\ UNCHANGED <<database, redis, tournament, writer, gateway, shifter, mem, daemon>>

\* Mutant of recordFailure: the status is not compared.
recordAnyFailure(p) ==
    /\ proj[p].pc = "failed"
    /\ outbox' = [outbox EXCEPT ![proj[p].row].status = "FAILED"]
    /\ proj' = [proj EXCEPT ![p] = IdleProjector]
    /\ UNCHANGED <<world, ledger, total, redis, tournament, writer, gateway, shifter, mem, daemon>>

\* recordFailure does not ask who holds the claim.
recordFailure(p) ==
    /\ proj[p].pc = "failed"
    /\ outbox' = IF outbox[proj[p].row].status = "APPLYING"
                 THEN [outbox EXCEPT ![proj[p].row].status = "FAILED"] ELSE outbox
    /\ proj' = [proj EXCEPT ![p] = IdleProjector]
    /\ UNCHANGED <<world, ledger, total, redis, tournament, writer, gateway, shifter, mem, daemon>>

\* A query or connection error before the script ran.
ProjectorError(p) ==
    /\ proj[p].pc \in {"claimed", "checked", "ready", "applied"}
    /\ proj' = MovesOn(p, "failed")
    /\ UNCHANGED <<database, redis, tournament, writer, gateway, shifter, mem, daemon>>

ProjectorCrash(p) ==
    /\ proj[p].pc # "idle"
    /\ proj' = [proj EXCEPT ![p] = IdleProjector]
    /\ UNCHANGED <<database, redis, tournament, writer, gateway, shifter, mem, daemon>>

-----------------------------------------------------------------------------
(***************************************************************************)
(* Tournament writers: withTournamentClockMutation and the tournament      *)
(* worker.  They read the clock from PostgreSQL, secure a Redis fence for  *)
(* what they read, and write under that fence.                             *)
(***************************************************************************)
loadCurrentGameTime(w) ==
    /\ writer[w].pc = "idle"
    /\ world.phase = "RUNNING"
    /\ writer' = [writer EXCEPT ![w] = [pc |-> "loaded", revision |-> world.revision,
                                        generation |-> world.generation,
                                        deadline |-> world.deadline]]
    /\ UNCHANGED <<database, redis, tournament, proj, gateway, shifter, mem, daemon>>

\* Mutant of Fenced: any clock in Redis will do.
FencedByAnyClock(revision, generation) ==
    redis.revision \in Nat \ {0} /\ redis.phase = "RUNNING"

\* The clock keys of Redis are the RUNNING clock <revision, generation>.
Fenced(revision, generation) ==
    /\ redis.revision = revision
    /\ redis.generation = generation
    /\ redis.phase = "RUNNING"

\* The bootstrap script sets the keys when there are none.
ensureRedisClockFence(w) ==
    /\ writer[w].pc = "loaded"
    /\ redis' = IF redis.revision = 0
                THEN [redis EXCEPT !.revision = writer[w].revision,
                                   !.generation = writer[w].generation, !.phase = "RUNNING"]
                ELSE redis
    /\ writer' = [writer EXCEPT ![w] =
                     IF redis.revision = 0 \/ Fenced(writer[w].revision, writer[w].generation)
                     THEN [writer[w] EXCEPT !.pc = "fenced"] ELSE IdleWriter]
    /\ UNCHANGED <<database, tournament, proj, gateway, shifter, mem, daemon>>

\* writeTournamentProjection with a fence: the stamped state or nothing.
setState(w, stage) ==
    /\ writer[w].pc = "fenced"
    /\ tournament' = IF Fenced(writer[w].revision, writer[w].generation)
                     THEN [stage |-> stage, revision |-> writer[w].revision,
                           generation |-> writer[w].generation, tick |-> writer[w].deadline,
                           edits |-> tournament.edits]
                     ELSE tournament
    /\ writer' = [writer EXCEPT ![w] = IdleWriter]
    /\ UNCHANGED <<database, redis, proj, gateway, shifter, mem, daemon>>

\* At a month boundary the daemon reads the tournament, and opens one in a
\* later call, under the clock in its memory, if it saw none open.
MonthChanges ==
    /\ daemon.state = "up"
    /\ mem.phase = "RUNNING"
    /\ tournament.stage # "open"
    /\ daemon' = [daemon EXCEPT !.state = "month"]
    /\ UNCHANGED <<database, redis, tournament, proj, writer, gateway, shifter, mem>>

\* A refused fence fails the run, whose changes are rolled back.
TournamentAutoStart ==
    /\ daemon.state = "month"
    /\ tournament' = IF Fenced(mem.revision, mem.generation)
                     THEN [stage |-> "open", revision |-> mem.revision,
                           generation |-> mem.generation, tick |-> mem.deadline, edits |-> 0]
                     ELSE tournament
    /\ daemon' = [daemon EXCEPT !.state = "up"]
    /\ UNCHANGED <<database, redis, proj, writer, gateway, shifter, mem>>

\* shiftTournamentClock reads the tournament and writes it back with other
\* projected dates and one more action id.  The ticks stay, and the write
\* carries no clock fence.
ShiftRead ==
    /\ shifter.pc = "idle"
    /\ shifter.done < ScheduleShifts
    /\ tournament.stage # "absent"
    /\ shifter' = [shifter EXCEPT !.pc = "read", !.seen = tournament]
    /\ UNCHANGED <<database, redis, tournament, proj, writer, gateway, mem, daemon>>

shiftTournamentClock ==
    /\ shifter.pc = "read"
    /\ tournament' = [shifter.seen EXCEPT !.edits = shifter.done + 1]
    /\ shifter' = [pc |-> "idle", seen |-> NoTournament, done |-> shifter.done + 1]
    /\ UNCHANGED <<database, redis, proj, writer, gateway, mem, daemon>>

-----------------------------------------------------------------------------
(***************************************************************************)
(* The turn daemon's memory.                                               *)
(***************************************************************************)

\* Mutant of FlushFence: the phase alone is compared.
FlushFenceByPhase ==
    \/ world.phase = mem.phase
    \/ world.phase = "PREOPEN" /\ mem.phase = "RUNNING"

\* The fence of a flush: the durable clock is the clock in memory, except
\* that memory may open the game first.
FlushFence ==
    /\ \/ world.phase = mem.phase
       \/ world.phase = "PREOPEN" /\ mem.phase = "RUNNING"
    /\ world.revision = mem.revision
    /\ world.generation = mem.generation

\* A flush writes the deadlines of memory over the durable ones.
Flush ==
    /\ daemon.state = "up"
    /\ FlushFence
    /\ world' = [world EXCEPT !.phase = mem.phase, !.deadline = mem.deadline]
    /\ UNCHANGED <<ledger, outbox, total, redis, tournament, proj, writer, gateway, shifter,
                   mem, daemon>>

promotePreopenAtOpening ==
    /\ daemon.state = "up"
    /\ mem.phase = "PREOPEN"
    /\ mem' = [mem EXCEPT !.phase = "RUNNING"]
    /\ UNCHANGED <<database, redis, tournament, proj, writer, gateway, shifter, daemon>>

\* Unification suspends the clock in the flush that records it, once a game.
\* When the acknowledgement is lost, memory is rolled back.
beginUnificationWait ==
    /\ daemon.state = "up"
    /\ mem.phase = "RUNNING"
    /\ FlushFence
    /\ \A r \in Revisions : ledger[r].source # "UNIFICATION_WAIT"
    /\ startClockSuspension("UNIFICATION_WAIT", 0)
    /\ mem' \in {[mem EXCEPT !.phase = "SUSPENDED"], mem}
    /\ UNCHANGED <<redis, tournament, proj, writer, gateway, shifter, daemon>>

\* The answer to the invader question reconciles that wait in memory and in
\* PostgreSQL in one command.
applyClockReconciliation ==
    /\ daemon.state = "up"
    /\ mem.phase = "SUSPENDED"
    /\ FlushFence
    /\ \E shift \in Shifts :
          /\ ledger[mem.revision].source = "UNIFICATION_WAIT"
          /\ reconcileClockSuspensionInTransaction(mem.revision, shift)
          /\ mem' \in {[phase |-> "RECONCILING", revision |-> mem.revision + 1,
                        generation |-> mem.generation + 1, deadline |-> mem.deadline + shift],
                       mem}
    /\ UNCHANGED <<redis, tournament, proj, writer, gateway, shifter, daemon>>

completeGameClock ==
    /\ daemon.state = "up"
    /\ mem.phase = "RUNNING"
    /\ world.phase = "RUNNING"
    /\ FlushFence
    /\ world' = [world EXCEPT !.phase = "COMPLETED", !.deadline = mem.deadline]
    /\ mem' \in {[mem EXCEPT !.phase = "COMPLETED"], mem}
    /\ UNCHANGED <<ledger, outbox, total, redis, tournament, proj, writer, gateway, shifter, daemon>>

\* prepareRealtimeRecovery on a pause, after a failed run or after an outage.
\* The daemon synchronizes its memory before it does anything else.
SuspendForRecovery ==
    /\ daemon.state = "up"
    /\ mem.phase = "RUNNING"
    /\ startClockSuspension("RECOVERY", 0)
    /\ daemon' = [daemon EXCEPT !.state = "sync"]
    /\ UNCHANGED <<redis, tournament, proj, writer, gateway, shifter, mem>>

ResumeRecovery ==
    /\ daemon.state = "up"
    /\ mem.phase = "SUSPENDED"
    /\ \E r \in Revisions, shift \in Shifts :
          /\ ledger[r].source = "RECOVERY"
          /\ reconcileClockSuspensionInTransaction(r, shift)
    /\ daemon' = [daemon EXCEPT !.state = "sync"]
    /\ UNCHANGED <<redis, tournament, proj, writer, gateway, shifter, mem>>

\* synchronizeDurableClockSnapshot: the phase changes memory may follow.
ValidTransition(from, to) ==
    \/ from = to
    \/ from = "PREOPEN" /\ to = "RUNNING"
    \/ from = "RUNNING" /\ to = "SUSPENDED"
    \/ from = "RECONCILING" /\ to = "RUNNING"

\* The clock of memory after the replay of the ledgers it has missed: none,
\* or one.  A second ledger finds memory RECONCILING and is refused.
Replays ==
    /\ world.revision = mem.revision + 1
    /\ mem.phase \in {"RUNNING", "SUSPENDED"}
    /\ ledger[mem.revision].status \in {"RECONCILING", "APPLIED"}

Replayed ==
    IF Replays THEN [phase |-> "RECONCILING", revision |-> mem.revision + 1,
                     generation |-> mem.generation + 1,
                     deadline |-> mem.deadline + ledger[mem.revision].shift]
               ELSE mem

\* The checks of the snapshot that memory then adopts.
SyncAccepts ==
    /\ Replayed.revision = world.revision
    /\ Replayed.generation = world.generation
    /\ Replayed.deadline = world.deadline
    /\ ValidTransition(Replayed.phase, world.phase)

\* synchronizeRuntimeClockAuthorityUnderHeldLock.
Synchronize ==
    /\ daemon.state \in {"up", "sync"}
    /\ SyncAccepts
    /\ mem' = [Replayed EXCEPT !.phase = world.phase]
    /\ daemon' = [daemon EXCEPT !.state = "up"]
    /\ UNCHANGED <<database, redis, tournament, proj, writer, gateway, shifter>>

\* The process and its memory are gone; a first clock stands for the latter.
ProcessEnds ==
    /\ daemon' = [state |-> "down", probe |-> "none"]
    /\ mem' = NoMemory

\* A refusal leaves the run loop and ends the process.
SyncRefused ==
    /\ daemon.state \in {"up", "sync"}
    /\ ~ SyncAccepts
    /\ ProcessEnds
    /\ UNCHANGED <<database, redis, tournament, proj, writer, gateway, shifter>>

\* The projection timer reads the durable phase, and acts on it later.
ProbePhase ==
    /\ daemon.state # "down"
    /\ daemon.probe = "none"
    /\ world.phase = "RUNNING"
    /\ daemon' = [daemon EXCEPT !.probe = "RUNNING"]
    /\ UNCHANGED <<database, redis, tournament, proj, writer, gateway, shifter, mem>>

completeClockReconciliation ==
    /\ daemon.probe = "RUNNING"
    /\ mem' = IF mem.phase = "RECONCILING" THEN [mem EXCEPT !.phase = "RUNNING"] ELSE mem
    /\ daemon' = [daemon EXCEPT !.probe = "none"]
    /\ UNCHANGED <<database, redis, tournament, proj, writer, gateway, shifter>>

DaemonCrash ==
    /\ daemon.state # "down"
    /\ ProcessEnds
    /\ UNCHANGED <<database, redis, tournament, proj, writer, gateway, shifter>>

\* Mutant of DaemonStart: the durable world is not loaded.
DaemonStartStale ==
    /\ daemon.state = "down"
    /\ daemon' = [daemon EXCEPT !.state = "up"]
    /\ UNCHANGED <<database, redis, tournament, proj, writer, gateway, shifter, mem>>

\* A restarted daemon loads the durable world.
DaemonStart ==
    /\ daemon.state = "down"
    /\ daemon' = [daemon EXCEPT !.state = "up"]
    /\ mem' = world
    /\ UNCHANGED <<database, redis, tournament, proj, writer, gateway, shifter>>

-----------------------------------------------------------------------------
GatewayNext ==
    \/ GatewaySuspend \/ GatewayStart \/ GatewayMark \/ GatewayResume
    \/ GatewayOpen \/ GatewayOpenMark \/ GatewayCrash

ProjectorNext(p) ==
    \/ claimNext(p) \/ CheckWorld(p) \/ ReadTournament(p)
    \/ ApplyProjection(p) \/ ApplyRefused(p) \/ ApplyReplyLost(p)
    \/ Finalize(p) \/ FinalizeReplyLost(p) \/ FinalizeRefused(p)
    \/ recordFailure(p) \/ ProjectorError(p) \/ ProjectorCrash(p)

WriterNext(w) ==
    \/ loadCurrentGameTime(w) \/ ensureRedisClockFence(w)
    \/ \E stage \in {"open", "closed"} : setState(w, stage)

DaemonNext ==
    \/ MonthChanges \/ TournamentAutoStart \/ Flush
    \/ promotePreopenAtOpening \/ beginUnificationWait \/ applyClockReconciliation \/ completeGameClock \/ SuspendForRecovery \/ ResumeRecovery
    \/ Synchronize \/ SyncRefused \/ ProbePhase \/ completeClockReconciliation
    \/ DaemonCrash \/ DaemonStart

Next ==
    \/ GatewayNext
    \/ \E p \in Projectors : ProjectorNext(p)
    \/ \E w \in Writers : WriterNext(w)
    \/ ShiftRead \/ shiftTournamentClock
    \/ DaemonNext

Spec == Init /\ [][Next]_vars

\* A lasting worker polls every second and retries after every failure, so
\* each of its steps succeeds eventually if it is tried for ever.  Nothing is
\* asked of the other workers, nor of the writers.  The daemon is
\* restarted by its supervisor, and synchronizes in every pass of its loop
\* in which its clock is not RUNNING, before every command, and after every
\* failed flush.
Steady(p) ==
    /\ SF_vars(claimNext(p)) /\ SF_vars(CheckWorld(p)) /\ SF_vars(ReadTournament(p))
    /\ SF_vars(ApplyProjection(p) \/ ApplyRefused(p))
    /\ SF_vars(Finalize(p) \/ FinalizeRefused(p)) /\ WF_vars(recordFailure(p))

Fairness ==
    /\ \A p \in Lasting : Steady(p)
    /\ WF_vars(DaemonStart) /\ WF_vars(TournamentAutoStart)
    /\ SF_vars(Synchronize \/ SyncRefused)

FairSpec == Spec /\ Fairness

-----------------------------------------------------------------------------
(***************************************************************************)
(* Properties.                                                             *)
(***************************************************************************)

\* A reconciliation's shift reaches the deadlines of PostgreSQL and of the
\* daemon's memory exactly once each, whatever is retried, replayed, rolled
\* back or reloaded (applyParticipantShift, runtimeClockAuthoritySync).
ShiftedOnce ==
    /\ world.deadline = total[world.revision]
    /\ mem.revision <= world.revision
    /\ mem.deadline = total[mem.revision]

RedisCoordinate == IF redis.revision = 0 THEN 1 ELSE redis.revision

\* The tournament of Redis stands in the coordinates of the active revision:
\* its deadline has absorbed every shift up to it once, although it is read
\* and replaced in different steps, by workers that may have lost their
\* claim, among writers that hold an older clock.  An administrator's shift of
\* the schedule, which no clock fences, ends that.
TournamentProjected ==
    tournament.stage # "absent" /\ shifter.done = 0 =>
        /\ tournament.tick = total[RedisCoordinate]
        /\ tournament.revision = RedisCoordinate

\* A projection only moves the tournament's coordinates: what a writer or an
\* administrator has written to it, between the projection's reading and its
\* script, survives (the exact-snapshot comparison of the Lua script).
ProjectionKeepsWrites ==
    [][redis'.checksum # redis.checksum =>
          tournament'.stage = tournament.stage /\ tournament'.edits = tournament.edits]_vars

\* Redis keeps step with the durable clock: it is at the same revision and
\* generation, except one behind while a projection is due, and it never
\* stays marked SUSPENDED once the game runs again.
RedisKeepsStep ==
    redis.revision # 0 =>
        /\ \/ redis.revision = world.revision /\ redis.generation = world.generation
           \/ /\ world.phase = "RECONCILING"
              /\ redis.revision + 1 = world.revision
              /\ redis.generation + 1 = world.generation
        /\ world.phase = "RUNNING" => redis.phase = "RUNNING"

\* loadClockReconciliationReadiness may trust either of its two answers: the
\* clock is RECONCILING exactly when an outbox row is not applied, and that
\* row is the one of the clock's revision.
ReadinessAgrees ==
    \A r \in Revisions :
        outbox[r].status \in {"PENDING", "APPLYING", "FAILED"}
            <=> world.phase = "RECONCILING" /\ world.revision = r

\* No step but a reconciliation moves the durable deadlines: a flush from a
\* memory that missed or repeated a shift would.
OnlyReconciliationMovesDeadlines ==
    [][world'.deadline # world.deadline => world'.revision = world.revision + 1]_vars

\* Every reconciliation ends: the clock runs again although workers fail and
\* die, a worker that may stop anywhere steals the claim of the lasting one,
\* and the tournament is written between a projection's reading and its script.
ReconciliationEnds == world.phase = "RECONCILING" ~> world.phase = "RUNNING"

\* The daemon's memory comes to the durable clock again and again.
MemoryCatchesUp ==
    []<>(daemon.state = "up" /\ mem.revision = world.revision /\ mem.deadline = world.deadline)
=============================================================================
