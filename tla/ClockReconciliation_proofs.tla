--------------------- MODULE ClockReconciliation_proofs ---------------------
(***************************************************************************)
(* Proofs about the reconciliation of the game clock, for any number of    *)
(* workers, writers, revisions and shifts.                                 *)
(***************************************************************************)
EXTENDS ClockReconciliation, TLAPS

(* The inductive invariant, in parts. *)

\* Every copy of the clock has the generation of its revision, and the first
\* revision has absorbed no shift.
Coordinates ==
    /\ total[1] = 0
    /\ world.generation = world.revision
    /\ mem.generation = mem.revision
    /\ redis.generation = redis.revision
    /\ gateway.generation = gateway.revision
    /\ \A w \in Writers : writer[w].generation = writer[w].revision

\* An outbox row belongs to a revision the clock has reached, and carries the
\* shift between it and the revision before.
OutboxRows ==
    \A r \in Revisions : outbox[r].status # "NONE" =>
        /\ r \in 2 .. world.revision
        /\ outbox[r].generation = r
        /\ total[r] = total[r - 1] + outbox[r].shift

\* A busy worker holds an outbox row.
ProjectorRows ==
    \A p \in Projectors : proj[p].pc # "idle" =>
        proj[p].row \in 2 .. world.revision /\ outbox[proj[p].row].status # "NONE"

\* An open ledger is the one of the suspended clock.
LedgerOpen ==
    \A r \in Revisions : ledger[r].status = "SUSPENDED" =>
        world.revision = r /\ world.phase = "SUSPENDED"

\* What the gateway has read: a revision that was not being reconciled then,
\* and that is still suspended if Redis is to be marked so.
GatewaySnapshot ==
    gateway.pc # "idle" =>
        /\ gateway.revision \in 1 .. world.revision
        /\ gateway.revision = world.revision =>
              /\ world.phase # "RECONCILING"
              /\ gateway.pc = "mark" => world.phase = "SUSPENDED"

\* What a writer has read: the deadlines of a revision that ran.
WriterSnapshot ==
    \A w \in Writers : writer[w].pc # "idle" =>
        /\ writer[w].revision \in 1 .. world.revision
        /\ writer[w].revision = world.revision => world.phase # "RECONCILING"
        /\ writer[w].deadline = total[writer[w].revision]

\* Where Redis may stand, unset Redis included.
RedisStands ==
    /\ redis.revision = 0 =>
          world.revision = 1 \/ (world.revision = 2 /\ world.phase = "RECONCILING")
    /\ redis.revision # 0 =>
          \/ redis.revision = world.revision
          \/ world.phase = "RECONCILING" /\ redis.revision + 1 = world.revision
    /\ redis.revision = world.revision /\ redis.phase # "RUNNING" => world.phase = "SUSPENDED"

\* A worker that may finalize has seen its revision in Redis.
AppliedProjected ==
    \A p \in Projectors : proj[p].pc = "applied" => redis.revision >= proj[p].row

-----------------------------------------------------------------------------
(* Type correctness. *)

\* The idle states are states.
LEMMA IdleTyped ==
    /\ NoTournament \in Tournament /\ IdleProjector \in Worker /\ IdleWriter \in WriterState
    /\ IdleGateway \in GatewayState /\ NoLedger \in Ledger /\ NoRow \in OutboxRow
<1>1. NoTournament \in Tournament
  BY DEF NoTournament, Tournament, Stages
<1> QED
  BY <1>1 DEF IdleProjector, Worker, IdleWriter, WriterState, IdleGateway, GatewayState,
              NoLedger, Ledger, NoRow, OutboxRow

\* The initial clock, stores and processes are well typed.
LEMMA TypeInit == Init => TypeOK
<1> SUFFICES ASSUME Init PROVE TypeOK
  OBVIOUS
<1>1. 1 \in Revisions
  BY MaxRevisionAssumption DEF Revisions
<1>2. PICK phase \in OpeningPhases :
          world = [phase |-> phase, revision |-> 1, generation |-> 1, deadline |-> 0]
  BY DEF Init
<1>3. world \in Clock
  BY <1>1, <1>2, OpeningAssumption DEF Clock, Phases
<1>4. tournament \in Tournament
  BY IdleTyped DEF Init, Tournament, Stages
<1>5. redis \in RedisClock /\ shifter \in ShifterState /\ daemon \in DaemonState
  BY IdleTyped DEF Init, RedisClock, ShifterState, DaemonState
<1> QED
  BY <1>3, <1>4, <1>5, IdleTyped DEF Init, TypeOK

\* What a reconciliation writes is well typed.
LEMMA ReconcileTyped ==
    ASSUME TypeOK, NEW r \in Revisions, NEW shift \in Shifts,
           reconcileClockSuspensionInTransaction(r, shift)
    PROVE  /\ world' \in Clock /\ ledger' \in [Revisions -> Ledger]
           /\ outbox' \in [Revisions -> OutboxRow] /\ total' \in [Revisions -> Nat]
           /\ r + 1 \in Revisions /\ r = world.revision /\ shift \in Nat
<1> USE DEF reconcileClockSuspensionInTransaction, Reconcilable, TypeOK
<1>1. r + 1 \in Revisions /\ shift \in Nat /\ r = world.revision
  BY MaxRevisionAssumption, ShiftsAssumption DEF Revisions
<1>2. world' \in Clock
  BY <1>1 DEF Clock, Phases
<1>3. total' \in [Revisions -> Nat]
  BY <1>1
<1>4. [status |-> "PENDING", generation |-> world.generation + 1, shift |-> shift] \in OutboxRow
  BY <1>1 DEF Clock, OutboxRow
<1>5. [ledger[r] EXCEPT !.status = "RECONCILING", !.shift = shift] \in Ledger
  BY <1>1 DEF Ledger
<1>6. ledger' \in [Revisions -> Ledger]
  BY <1>5
<1>7. outbox' \in [Revisions -> OutboxRow]
  BY <1>4
<1> QED
  BY <1>1, <1>2, <1>3, <1>6, <1>7

\* A suspension keeps the types.
LEMMA SuspendTyped ==
    ASSUME TypeOK, NEW source \in {"MAINTENANCE", "RECOVERY", "UNIFICATION_WAIT"},
           NEW name \in Nat, startClockSuspension(source, name)
    PROVE  /\ world' \in Clock /\ ledger' \in [Revisions -> Ledger]
           /\ outbox' = outbox /\ total' = total
<1> USE DEF startClockSuspension, TypeOK
<1>1. world' \in Clock
  BY DEF Clock, Phases
<1>2. [status |-> "SUSPENDED", source |-> source, name |-> name, shift |-> 0] \in Ledger
  BY DEF Ledger
<1> QED
  BY <1>1, <1>2

\* The Lua scripts keep the types.
LEMMA ScriptsTyped ==
    ASSUME TypeOK
    PROVE  /\ \A phase \in {"RUNNING", "SUSPENDED"} : Marks(phase) \in RedisClock
           /\ \A p \in Projectors : ProjectorRows /\ proj[p].pc = "ready" /\ Rebuild(p) =>
                 redis' \in RedisClock /\ tournament' \in Tournament
<1>1. \A phase \in {"RUNNING", "SUSPENDED"} : Marks(phase) \in RedisClock
  BY DEF Marks, TypeOK, RedisClock, GatewayState
<1>2. ASSUME NEW p \in Projectors, ProjectorRows, proj[p].pc = "ready", Rebuild(p)
      PROVE  redis' \in RedisClock /\ tournament' \in Tournament
  <2>1. proj[p] \in Worker /\ proj[p].row \in Revisions /\ proj[p].row \in Nat
    BY <1>2, MaxRevisionAssumption DEF TypeOK, ProjectorRows, Worker, Revisions, Clock
  <2>2. outbox[proj[p].row] \in OutboxRow
    BY <2>1 DEF TypeOK
  <2>3. projectTournamentState(p) \in Tournament
    <3>1. PICK t \in Tournament : t = proj[p].seen
      BY <2>1 DEF Worker
    <3>2. outbox[proj[p].row].generation \in Nat /\ outbox[proj[p].row].shift \in Nat
      BY <2>2 DEF OutboxRow
    <3>3. t.tick + outbox[proj[p].row].shift \in Nat
      BY <3>1, <3>2 DEF Tournament
    <3>4. \A a, b, c \in Nat :
             [t EXCEPT !.revision = a, !.generation = b, !.tick = c] \in Tournament
      BY <3>1 DEF Tournament
    <3> QED
      BY <2>1, <3>1, <3>2, <3>3, <3>4 DEF projectTournamentState
  <2> QED
    BY <1>2, <2>1, <2>2, <2>3 DEF Rebuild, RedisClock, OutboxRow, TypeOK
<1> QED
  BY <1>1, <1>2

\* A lost memory has its type.
LEMMA NoMemoryTyped == NoMemory \in Clock
  BY MaxRevisionAssumption DEF NoMemory, Clock, Phases, Revisions

\* A worker that goes on keeps its type.
LEMMA MovesOnTyped ==
    ASSUME TypeOK, NEW p \in Projectors, NEW stage \in {"checked", "applied", "failed"}
    PROVE  MovesOn(p, stage) \in [Projectors -> Worker]
<1>1. NoTournament \in Tournament
  BY DEF NoTournament, Tournament, Stages
<1> QED
  BY <1>1 DEF MovesOn, TypeOK, Worker

\* A finalization keeps the types.
LEMMA FinalizedTyped ==
    ASSUME TypeOK, NEW p \in Projectors, Finalized(p)
    PROVE  /\ world' \in Clock /\ ledger' \in [Revisions -> Ledger]
           /\ outbox' \in [Revisions -> OutboxRow] /\ total' = total
<1> USE DEF Finalized, TypeOK
<1>1. world' \in Clock
  BY DEF Clock, Phases
<1>2. \A r \in Revisions : [ledger[r] EXCEPT !.status = "APPLIED"] \in Ledger
  BY DEF Ledger
<1>3. \A r \in Revisions : [outbox[r] EXCEPT !.status = "APPLIED"] \in OutboxRow
  BY DEF OutboxRow
<1>4. ledger' \in [Revisions -> Ledger]
  BY <1>2
<1>5. outbox' \in [Revisions -> OutboxRow]
  BY <1>3
<1> QED
  BY <1>1, <1>4, <1>5

\* Every step keeps the types, as workers hold rows that exist.
LEMMA TypeStep == TypeOK /\ ProjectorRows /\ [Next]_vars => TypeOK'
<1> SUFFICES ASSUME TypeOK, ProjectorRows, [Next]_vars PROVE TypeOK'
  OBVIOUS
<1> USE DEF database
<1>1. CASE GatewaySuspend
  <2>1. gateway' \in GatewayState
    BY <1>1 DEF GatewaySuspend, TypeOK, Clock, Revisions, GatewayState
  <2> QED
    BY <1>1, <2>1 DEF GatewaySuspend, TypeOK
<1>2. CASE GatewayStart
  <2>1. gateway' \in GatewayState
    BY <1>2, IdleTyped DEF GatewayStart, TypeOK, GatewayState
  <2>2. gateway.revision \in Nat
    BY DEF TypeOK, GatewayState
  <2>3. CASE UNCHANGED database
    BY <1>2, <2>1, <2>3 DEF GatewayStart, TypeOK
  <2>4. CASE startClockSuspension("MAINTENANCE", gateway.revision)
    BY <1>2, <2>1, <2>2, <2>4, SuspendTyped DEF GatewayStart, TypeOK
  <2> QED
    BY <1>2, <2>3, <2>4 DEF GatewayStart
<1>3. CASE GatewayMark
  BY <1>3, ScriptsTyped, IdleTyped DEF GatewayMark, TypeOK
<1>4. CASE GatewayResume
  BY <1>4, ReconcileTyped DEF GatewayResume, TypeOK
<1>5. CASE GatewayOpen
  <2>1. gateway' \in GatewayState /\ world' \in Clock
    BY <1>5 DEF GatewayOpen, TypeOK, Clock, Phases, Revisions, GatewayState
  <2> QED
    BY <1>5, <2>1 DEF GatewayOpen, TypeOK
<1>6. CASE GatewayOpenMark
  BY <1>6, ScriptsTyped, IdleTyped DEF GatewayOpenMark, TypeOK
<1>7. CASE GatewayCrash
  BY <1>7, IdleTyped DEF GatewayCrash, TypeOK
<1>8. ASSUME NEW p \in Projectors, claimNext(p) PROVE TypeOK'
  <2>1. PICK r \in Revisions :
           /\ outbox' = [outbox EXCEPT ![r].status = "APPLYING"]
           /\ proj' = [proj EXCEPT ![p] = [IdleProjector EXCEPT !.pc = "claimed", !.row = r]]
    BY <1>8 DEF claimNext
  <2>2. [outbox[r] EXCEPT !.status = "APPLYING"] \in OutboxRow
    BY DEF TypeOK, OutboxRow
  <2>3. [IdleProjector EXCEPT !.pc = "claimed", !.row = r] \in Worker
    <3>1. r \in Nat
      BY MaxRevisionAssumption DEF Revisions
    <3> QED
      BY <3>1, IdleTyped DEF Worker
  <2>4. outbox' \in [Revisions -> OutboxRow] /\ proj' \in [Projectors -> Worker]
    BY <2>1, <2>2, <2>3 DEF TypeOK
  <2> QED
    BY <1>8, <2>4 DEF claimNext, TypeOK
<1>9. ASSUME NEW p \in Projectors, CheckWorld(p) PROVE TypeOK'
  BY <1>9, MovesOnTyped DEF CheckWorld, TypeOK
<1>10. ASSUME NEW p \in Projectors, ReadTournament(p) PROVE TypeOK'
  BY <1>10 DEF ReadTournament, TypeOK, Worker
<1>11. ASSUME NEW p \in Projectors, ApplyProjection(p) PROVE TypeOK'
  <2>1. proj' \in [Projectors -> Worker]
    BY <1>11, MovesOnTyped DEF ApplyProjection
  <2>2. redis' \in RedisClock /\ tournament' \in Tournament
    BY <1>11, ScriptsTyped DEF ApplyProjection, TypeOK
  <2> QED
    BY <1>11, <2>1, <2>2 DEF ApplyProjection, TypeOK
<1>12. ASSUME NEW p \in Projectors, ApplyRefused(p) PROVE TypeOK'
  BY <1>12, MovesOnTyped DEF ApplyRefused, TypeOK
<1>13. ASSUME NEW p \in Projectors, ApplyReplyLost(p) PROVE TypeOK'
  <2>1. proj' \in [Projectors -> Worker]
    BY <1>13, MovesOnTyped DEF ApplyReplyLost
  <2>2. redis' \in RedisClock /\ tournament' \in Tournament
    BY <1>13, ScriptsTyped DEF ApplyReplyLost, TypeOK
  <2> QED
    BY <1>13, <2>1, <2>2 DEF ApplyReplyLost, TypeOK
<1>14. ASSUME NEW p \in Projectors, Finalize(p) PROVE TypeOK'
  <2>1. proj' \in [Projectors -> Worker]
    BY <1>14, IdleTyped DEF Finalize, TypeOK, Worker
  <2> QED
    BY <1>14, <2>1, FinalizedTyped DEF Finalize, TypeOK
<1>15. ASSUME NEW p \in Projectors, FinalizeReplyLost(p) PROVE TypeOK'
  <2>1. proj' \in [Projectors -> Worker]
    BY <1>15, MovesOnTyped DEF FinalizeReplyLost
  <2> QED
    BY <1>15, <2>1, FinalizedTyped DEF FinalizeReplyLost, TypeOK
<1>16. ASSUME NEW p \in Projectors, FinalizeRefused(p) PROVE TypeOK'
  BY <1>16, MovesOnTyped DEF FinalizeRefused, TypeOK
<1>17. ASSUME NEW p \in Projectors, recordFailure(p) PROVE TypeOK'
  <2>1. outbox' \in [Revisions -> OutboxRow]
    <3>1. \A r \in Revisions : [outbox[r] EXCEPT !.status = "FAILED"] \in OutboxRow
      BY DEF TypeOK, OutboxRow
    <3> QED
      BY <1>17, <3>1 DEF recordFailure, TypeOK
  <2> QED
    BY <1>17, <2>1, IdleTyped DEF recordFailure, TypeOK
<1>18. ASSUME NEW p \in Projectors, ProjectorError(p) PROVE TypeOK'
  BY <1>18, MovesOnTyped DEF ProjectorError, TypeOK
<1>19. ASSUME NEW p \in Projectors, ProjectorCrash(p) PROVE TypeOK'
  BY <1>19, IdleTyped DEF ProjectorCrash, TypeOK
<1>20. ASSUME NEW w \in Writers, loadCurrentGameTime(w) PROVE TypeOK'
  <2>1. [pc |-> "loaded", revision |-> world.revision, generation |-> world.generation,
          deadline |-> world.deadline] \in WriterState
    BY DEF TypeOK, Clock, Revisions, WriterState
  <2> QED
    BY <1>20, <2>1 DEF loadCurrentGameTime, TypeOK
<1>21. ASSUME NEW w \in Writers, ensureRedisClockFence(w) PROVE TypeOK'
  <2>1. redis' \in RedisClock
    BY <1>21 DEF ensureRedisClockFence, TypeOK, RedisClock, WriterState
  <2>2. [writer[w] EXCEPT !.pc = "fenced"] \in WriterState
    BY DEF TypeOK, WriterState
  <2>3. writer' \in [Writers -> WriterState]
    BY <1>21, <2>2, IdleTyped DEF ensureRedisClockFence, TypeOK
  <2> QED
    BY <1>21, <2>1, <2>3 DEF ensureRedisClockFence, TypeOK
<1>22. ASSUME NEW w \in Writers, NEW stage \in {"open", "closed"}, setState(w, stage) PROVE TypeOK'
  <2>1. tournament' \in Tournament
    BY <1>22 DEF setState, TypeOK, Tournament, Stages, WriterState
  <2> QED
    BY <1>22, <2>1, IdleTyped DEF setState, TypeOK
<1>23. CASE ShiftRead
  BY <1>23 DEF ShiftRead, TypeOK, ShifterState
<1>24. CASE shiftTournamentClock
  <2>1. tournament' \in Tournament /\ shifter' \in ShifterState
    BY <1>24, IdleTyped DEF shiftTournamentClock, TypeOK, Tournament, ShifterState
  <2> QED
    BY <1>24, <2>1 DEF shiftTournamentClock, TypeOK
<1>25. CASE MonthChanges
  BY <1>25 DEF MonthChanges, TypeOK, DaemonState
<1>26. CASE TournamentAutoStart
  <2>1. tournament' \in Tournament /\ daemon' \in DaemonState
    BY <1>26 DEF TournamentAutoStart, TypeOK, Tournament, Stages, Clock, Revisions, DaemonState
  <2> QED
    BY <1>26, <2>1 DEF TournamentAutoStart, TypeOK
<1>27. CASE Flush
  BY <1>27 DEF Flush, TypeOK, Clock
<1>28. CASE promotePreopenAtOpening
  BY <1>28 DEF promotePreopenAtOpening, TypeOK, Clock, Phases
<1>29. CASE beginUnificationWait
  <2>1. mem' \in Clock
    BY <1>29 DEF beginUnificationWait, TypeOK, Clock, Phases
  <2> QED
    BY <1>29, <2>1, SuspendTyped DEF beginUnificationWait, TypeOK
<1>30. CASE applyClockReconciliation
  <2>1. PICK shift \in Shifts :
           /\ reconcileClockSuspensionInTransaction(mem.revision, shift)
           /\ mem' \in {[phase |-> "RECONCILING", revision |-> mem.revision + 1,
                         generation |-> mem.generation + 1, deadline |-> mem.deadline + shift],
                        mem}
    BY <1>30 DEF applyClockReconciliation
  <2>2. mem.revision \in Revisions
    BY DEF TypeOK, Clock
  <2>3. /\ world' \in Clock /\ ledger' \in [Revisions -> Ledger]
        /\ outbox' \in [Revisions -> OutboxRow] /\ total' \in [Revisions -> Nat]
        /\ mem.revision + 1 \in Revisions /\ shift \in Nat
    BY <2>1, <2>2, ReconcileTyped
  <2>4. mem' \in Clock
    BY <2>1, <2>3 DEF TypeOK, Clock, Phases
  <2> QED
    BY <1>30, <2>3, <2>4 DEF applyClockReconciliation, TypeOK
<1>31. CASE completeGameClock
  <2>1. mem' \in Clock /\ world' \in Clock
    BY <1>31 DEF completeGameClock, TypeOK, Clock, Phases
  <2> QED
    BY <1>31, <2>1 DEF completeGameClock, TypeOK
<1>32. CASE SuspendForRecovery
  BY <1>32, SuspendTyped DEF SuspendForRecovery, TypeOK, DaemonState
<1>33. CASE ResumeRecovery
  <2>1. daemon' \in DaemonState
    BY <1>33 DEF ResumeRecovery, TypeOK, DaemonState
  <2> QED
    BY <1>33, <2>1, ReconcileTyped DEF ResumeRecovery, TypeOK
<1>34. CASE Synchronize
  <2>1. mem' \in Clock
    BY <1>34 DEF Synchronize, SyncAccepts, Replayed, TypeOK, Clock
  <2> QED
    BY <1>34, <2>1 DEF Synchronize, TypeOK, DaemonState
<1>35. CASE SyncRefused
  BY <1>35, NoMemoryTyped DEF SyncRefused, ProcessEnds, TypeOK, DaemonState
<1>36. CASE ProbePhase
  BY <1>36 DEF ProbePhase, TypeOK, DaemonState
<1>37. CASE completeClockReconciliation
  <2>1. mem' \in Clock
    BY <1>37 DEF completeClockReconciliation, TypeOK, Clock, Phases
  <2> QED
    BY <1>37, <2>1 DEF completeClockReconciliation, TypeOK, DaemonState
<1>38. CASE DaemonCrash
  BY <1>38, NoMemoryTyped DEF DaemonCrash, ProcessEnds, TypeOK, DaemonState
<1>39. CASE DaemonStart
  BY <1>39 DEF DaemonStart, TypeOK, DaemonState
<1>40. CASE UNCHANGED vars
  BY <1>40 DEF vars, TypeOK
<1> QED
  BY <1>1, <1>2, <1>3, <1>4, <1>5, <1>6, <1>7, <1>8, <1>9, <1>10, <1>11, <1>12, <1>13,
     <1>14, <1>15, <1>16, <1>17, <1>18, <1>19, <1>20, <1>21, <1>22, <1>23, <1>24,
     <1>25, <1>26, <1>27, <1>28, <1>29, <1>30, <1>31, <1>32, <1>33, <1>34, <1>35,
     <1>36, <1>37, <1>38, <1>39, <1>40
  DEF Next, GatewayNext, ProjectorNext, WriterNext, DaemonNext

-----------------------------------------------------------------------------
(* What a step can do to each part of the state. *)

ClockInv ==
    /\ TypeOK /\ Coordinates /\ ShiftedOnce
    /\ OutboxRows /\ ReadinessAgrees /\ ProjectorRows /\ LedgerOpen
    /\ GatewaySnapshot /\ WriterSnapshot /\ RedisStands /\ AppliedProjected

Unfinished == {"PENDING", "APPLYING", "FAILED"}

\* PostgreSQL: a suspension, a reconciliation, a claim or a failure of a
\* projection, its end, an opening or completion of the game, or nothing.
DatabaseShape ==
    \/ UNCHANGED database
    \/ \E source \in {"MAINTENANCE", "RECOVERY", "UNIFICATION_WAIT"}, name \in Nat :
          startClockSuspension(source, name)
    \/ \E r \in Revisions, shift \in Shifts : reconcileClockSuspensionInTransaction(r, shift)
    \/ /\ \E r \in Revisions, status \in {"APPLYING", "FAILED"} :
             /\ outbox[r].status \in Unfinished
             /\ outbox' = [outbox EXCEPT ![r].status = status]
       /\ UNCHANGED <<world, ledger, total>>
    \/ \E p \in Projectors : proj[p].pc = "applied" /\ Finalized(p)
    \/ /\ \E phase \in Phases :
             /\ world' = [world EXCEPT !.phase = phase]
             /\ \/ phase = world.phase
                \/ {phase, world.phase} \cap {"SUSPENDED", "RECONCILING"} = {}
       /\ UNCHANGED <<ledger, outbox, total>>

\* The daemon's memory keeps its coordinates, takes the durable ones, or is lost.
MemoryShape ==
    \/ mem'.revision = mem.revision /\ mem'.generation = mem.generation /\ mem'.deadline = mem.deadline
    \/ mem'.revision = world'.revision /\ mem'.generation = world'.generation /\ mem'.deadline = world'.deadline
    \/ mem' = NoMemory

\* Redis: a mark of the gateway, a bootstrap, a rebuild, or nothing.
RedisShape ==
    \/ redis' = redis
    \/ /\ gateway.pc = "mark" /\ redis' = Marks("SUSPENDED") /\ UNCHANGED database
    \/ /\ gateway.pc = "open" /\ redis' = Marks("RUNNING") /\ UNCHANGED database
    \/ /\ \E w \in Writers :
             /\ writer[w].pc = "loaded" /\ redis.revision = 0
             /\ redis' = [redis EXCEPT !.revision = writer[w].revision,
                                       !.generation = writer[w].generation, !.phase = "RUNNING"]
       /\ UNCHANGED database
    \/ /\ \E p \in Projectors :
             proj[p].pc = "ready" /\ redis.revision # proj[p].row /\ Rebuilds(p) /\ Rebuild(p)
       /\ UNCHANGED database

\* A worker becomes idle, claims a row, or goes on with its row.
ProjectorShape ==
    \A p \in Projectors :
        \/ proj'[p].pc = "idle"
        \/ /\ proj'[p].pc = "claimed" /\ proj'[p].row \in Revisions
           /\ outbox[proj'[p].row].status \in Unfinished
        \/ /\ proj[p].pc # "idle" /\ proj'[p].row = proj[p].row
           /\ proj'[p].pc = "applied" => proj[p].pc = "applied" \/ redis'.revision = proj[p].row

\* The gateway becomes idle, reads the clock, or goes on with what it read.
GatewayShape ==
    \/ gateway' = IdleGateway
    \/ /\ gateway'.revision = world.revision /\ gateway'.generation = world.generation
       /\ world'.revision = world.revision /\ world'.phase # "RECONCILING"
       /\ gateway'.pc = "mark" => world'.phase = "SUSPENDED"
    \/ /\ gateway'.revision = gateway.revision /\ gateway'.generation = gateway.generation
       /\ gateway.pc = "idle" => gateway'.pc = "idle"
       /\ gateway'.pc = "mark" => gateway.pc = "mark" \/ world'.phase = "SUSPENDED"

\* So does a writer, which reads only a running clock.
WriterShape ==
    \A w \in Writers :
        \/ writer'[w] = IdleWriter
        \/ /\ writer'[w].revision = world.revision /\ writer'[w].generation = world.generation
           /\ writer'[w].deadline = world.deadline
           /\ world.phase = "RUNNING" /\ UNCHANGED database
        \/ /\ writer'[w].revision = writer[w].revision /\ writer'[w].generation = writer[w].generation
           /\ writer'[w].deadline = writer[w].deadline
           /\ writer[w].pc = "idle" => writer'[w].pc = "idle"

Shape ==
    DatabaseShape /\ MemoryShape /\ RedisShape /\ ProjectorShape /\ GatewayShape /\ WriterShape

\* What a step leaves alone keeps its shape.
LEMMA ShapeOfRest ==
    ASSUME TypeOK
    PROVE  /\ UNCHANGED database => DatabaseShape
           /\ mem' = mem => MemoryShape
           /\ redis' = redis => RedisShape
           /\ proj' = proj => ProjectorShape
           /\ gateway' = gateway => GatewayShape
           /\ writer' = writer => WriterShape
<1>1. proj' = proj => ProjectorShape
  BY DEF ProjectorShape
<1>2. gateway' = gateway => GatewayShape
  BY DEF GatewayShape
<1>3. writer' = writer => WriterShape
  BY DEF WriterShape
<1> QED
  BY <1>1, <1>2, <1>3 DEF DatabaseShape, MemoryShape, RedisShape

\* A claim and the end of a projection have the database's shape; so has a
\* change of one worker's state.
LEMMA ShapeOfWorker ==
    ASSUME ClockInv, NEW p \in Projectors, NEW v, proj' = [proj EXCEPT ![p] = v],
           \/ v.pc = "idle"
           \/ /\ v.pc = "claimed" /\ v.row \in Revisions
              /\ outbox[v.row].status \in Unfinished
           \/ /\ proj[p].pc # "idle" /\ v.row = proj[p].row
              /\ v.pc = "applied" => proj[p].pc = "applied" \/ redis'.revision = proj[p].row
    PROVE  ProjectorShape
<1>1. proj'[p] = v /\ \A q \in Projectors : q # p => proj'[q] = proj[q]
  BY DEF ClockInv, TypeOK
<1> SUFFICES ASSUME NEW q \in Projectors, proj'[q].pc # "idle"
    PROVE  \/ /\ proj'[q].pc = "claimed" /\ proj'[q].row \in Revisions
              /\ outbox[proj'[q].row].status \in Unfinished
           \/ /\ proj[q].pc # "idle" /\ proj'[q].row = proj[q].row
              /\ proj'[q].pc = "applied" => proj[q].pc = "applied" \/ redis'.revision = proj[q].row
  BY DEF ProjectorShape
<1>2. CASE q = p
  BY <1>1, <1>2
<1>3. CASE q # p
  BY <1>1, <1>3
<1> QED
  BY <1>2, <1>3

\* A worker that becomes idle has the shape.
LEMMA ShapeAtRest ==
    ASSUME ClockInv, NEW p \in Projectors, proj' = [proj EXCEPT ![p] = IdleProjector]
    PROVE  ProjectorShape
  BY ShapeOfWorker DEF IdleProjector

\* So has a busy one that only goes on to another stage.
LEMMA ShapeMovingOn ==
    ASSUME ClockInv, NEW p \in Projectors, NEW stage, proj[p].pc # "idle",
           stage # "applied" \/ redis'.revision = proj[p].row,
           proj' = MovesOn(p, stage)
    PROVE  ProjectorShape
<1>1. PICK v : v = [proj[p] EXCEPT !.pc = stage, !.seen = NoTournament]
  OBVIOUS
<1>2. v.pc = stage /\ v.row = proj[p].row /\ proj' = [proj EXCEPT ![p] = v]
  BY <1>1 DEF MovesOn, ClockInv, TypeOK, Worker
<1> QED
  BY <1>2, ShapeOfWorker

\* Every step has that shape.
LEMMA StepShape == ClockInv /\ [Next]_vars => Shape
<1> SUFFICES ASSUME ClockInv, [Next]_vars PROVE Shape
  OBVIOUS
<1> USE ShapeOfRest DEF database, ClockInv, Shape
<1>1. CASE GatewaySuspend
  BY <1>1 DEF GatewaySuspend, GatewayShape
<1>2. CASE GatewayStart
  <2>1. MemoryShape /\ RedisShape /\ ProjectorShape /\ WriterShape
    BY <1>2 DEF GatewayStart
  <2>2. gateway.revision \in Nat
    BY DEF TypeOK, GatewayState
  <2>3. DatabaseShape
    BY <1>2, <2>2 DEF GatewayStart, DatabaseShape
  <2>4. world'.phase = "SUSPENDED" \/ gateway' = IdleGateway
    BY <1>2 DEF GatewayStart, startClockSuspension, LedgerOpen, TypeOK, Clock
  <2>5. gateway' = IdleGateway \/ gateway' = [gateway EXCEPT !.pc = "mark"]
    BY <1>2 DEF GatewayStart
  <2>6. GatewayShape
    BY <1>2, <2>4, <2>5 DEF GatewayStart, GatewayShape, TypeOK, GatewayState
  <2> QED
    BY <2>1, <2>3, <2>6
<1>3. CASE GatewayMark
  BY <1>3 DEF GatewayMark, GatewayShape, RedisShape
<1>4. CASE GatewayResume
  BY <1>4 DEF GatewayResume, DatabaseShape
<1>5. CASE GatewayOpen
  <2>1. DatabaseShape
    BY <1>5 DEF GatewayOpen, DatabaseShape, Phases
  <2>2. GatewayShape
    BY <1>5 DEF GatewayOpen, GatewayShape, TypeOK, Clock
  <2> QED
    BY <1>5, <2>1, <2>2 DEF GatewayOpen
<1>6. CASE GatewayOpenMark
  BY <1>6 DEF GatewayOpenMark, GatewayShape, RedisShape
<1>7. CASE GatewayCrash
  BY <1>7 DEF GatewayCrash, GatewayShape
<1>8. ASSUME NEW p \in Projectors, claimNext(p) PROVE Shape
  <2>1. PICK r \in Revisions :
           /\ outbox[r].status \in Unfinished
           /\ outbox' = [outbox EXCEPT ![r].status = "APPLYING"]
           /\ proj' = [proj EXCEPT ![p] = [IdleProjector EXCEPT !.pc = "claimed", !.row = r]]
    BY <1>8 DEF claimNext, Claimable, Unfinished
  <2>2. DatabaseShape
    BY <1>8, <2>1 DEF claimNext, DatabaseShape
  <2>3. ProjectorShape
    <3>1. PICK v : v = [IdleProjector EXCEPT !.pc = "claimed", !.row = r]
      OBVIOUS
    <3>2. v.pc = "claimed" /\ v.row = r
      BY <3>1 DEF IdleProjector
    <3> QED
      BY <2>1, <3>1, <3>2, ShapeOfWorker
  <2> QED
    BY <1>8, <2>2, <2>3 DEF claimNext
<1>9. ASSUME NEW p \in Projectors, CheckWorld(p) PROVE Shape
  BY <1>9, ShapeMovingOn DEF CheckWorld
<1>10. ASSUME NEW p \in Projectors, ReadTournament(p) PROVE Shape
  <2>1. PICK v : v = [proj[p] EXCEPT !.pc = "ready", !.seen = tournament]
    OBVIOUS
  <2>2. /\ v.pc = "ready" /\ v.row = proj[p].row /\ proj[p].pc # "idle"
        /\ proj' = [proj EXCEPT ![p] = v]
    BY <1>10, <2>1 DEF ReadTournament, TypeOK, Worker
  <2>3. ProjectorShape
    BY <2>2, ShapeOfWorker
  <2> QED
    BY <1>10, <2>3 DEF ReadTournament
<1>11. ASSUME NEW p \in Projectors, ApplyProjection(p) PROVE Shape
  <2>1. redis'.revision = proj[p].row
    BY <1>11 DEF ApplyProjection, AlreadyActive, Rebuild
  <2>2. ProjectorShape
    BY <1>11, <2>1, ShapeMovingOn DEF ApplyProjection
  <2>3. RedisShape
    BY <1>11 DEF ApplyProjection, RedisShape
  <2> QED
    BY <1>11, <2>2, <2>3 DEF ApplyProjection
<1>12. ASSUME NEW p \in Projectors, ApplyRefused(p) PROVE Shape
  BY <1>12, ShapeMovingOn DEF ApplyRefused
<1>13. ASSUME NEW p \in Projectors, ApplyReplyLost(p) PROVE Shape
  <2>1. ProjectorShape
    BY <1>13, ShapeMovingOn DEF ApplyReplyLost
  <2>2. RedisShape
    BY <1>13 DEF ApplyReplyLost, RedisShape
  <2> QED
    BY <1>13, <2>1, <2>2 DEF ApplyReplyLost
<1>14. ASSUME NEW p \in Projectors, Finalize(p) PROVE Shape
  <2>1. ProjectorShape
    BY <1>14, ShapeAtRest DEF Finalize
  <2>2. DatabaseShape
    BY <1>14 DEF Finalize, DatabaseShape
  <2> QED
    BY <1>14, <2>1, <2>2 DEF Finalize
<1>15. ASSUME NEW p \in Projectors, FinalizeReplyLost(p) PROVE Shape
  <2>1. ProjectorShape
    BY <1>15, ShapeMovingOn DEF FinalizeReplyLost
  <2>2. DatabaseShape
    BY <1>15 DEF FinalizeReplyLost, DatabaseShape
  <2> QED
    BY <1>15, <2>1, <2>2 DEF FinalizeReplyLost
<1>16. ASSUME NEW p \in Projectors, FinalizeRefused(p) PROVE Shape
  BY <1>16, ShapeMovingOn DEF FinalizeRefused
<1>17. ASSUME NEW p \in Projectors, recordFailure(p) PROVE Shape
  <2>1. ProjectorShape
    BY <1>17, ShapeAtRest DEF recordFailure
  <2>2. DatabaseShape
    <3>1. proj[p].row \in Revisions
      BY <1>17, MaxRevisionAssumption DEF recordFailure, ProjectorRows, TypeOK, Clock, Revisions
    <3> QED
      BY <1>17, <3>1 DEF recordFailure, DatabaseShape, Unfinished
  <2> QED
    BY <1>17, <2>1, <2>2 DEF recordFailure
<1>18. ASSUME NEW p \in Projectors, ProjectorError(p) PROVE Shape
  BY <1>18, ShapeMovingOn DEF ProjectorError
<1>19. ASSUME NEW p \in Projectors, ProjectorCrash(p) PROVE Shape
  BY <1>19, ShapeAtRest DEF ProjectorCrash
<1>20. ASSUME NEW w \in Writers, loadCurrentGameTime(w) PROVE Shape
  BY <1>20 DEF loadCurrentGameTime, WriterShape, TypeOK
<1>21. ASSUME NEW w \in Writers, ensureRedisClockFence(w) PROVE Shape
  <2>1. WriterShape
    BY <1>21 DEF ensureRedisClockFence, WriterShape, TypeOK, WriterState
  <2>2. RedisShape
    BY <1>21 DEF ensureRedisClockFence, RedisShape
  <2> QED
    BY <1>21, <2>1, <2>2 DEF ensureRedisClockFence
<1>22. ASSUME NEW w \in Writers, NEW stage \in {"open", "closed"}, setState(w, stage) PROVE Shape
  BY <1>22 DEF setState, WriterShape, TypeOK
<1>23. CASE ShiftRead
  BY <1>23 DEF ShiftRead
<1>24. CASE shiftTournamentClock
  BY <1>24 DEF shiftTournamentClock
<1>25. CASE MonthChanges
  BY <1>25 DEF MonthChanges
<1>26. CASE TournamentAutoStart
  BY <1>26 DEF TournamentAutoStart
<1>27. CASE Flush
  <2>1. mem.deadline = world.deadline /\ mem.phase \in Phases
    BY <1>27 DEF Flush, FlushFence, ShiftedOnce, TypeOK, Clock
  <2>2. world' = [world EXCEPT !.phase = mem.phase]
    BY <1>27, <2>1 DEF Flush, TypeOK, Clock
  <2>3. DatabaseShape
    BY <1>27, <2>1, <2>2 DEF Flush, FlushFence, DatabaseShape
  <2> QED
    BY <1>27, <2>3 DEF Flush
<1>28. CASE promotePreopenAtOpening
  BY <1>28 DEF promotePreopenAtOpening, MemoryShape, TypeOK, Clock
<1>29. CASE beginUnificationWait
  <2>1. MemoryShape
    BY <1>29 DEF beginUnificationWait, MemoryShape, TypeOK, Clock
  <2> QED
    BY <1>29, <2>1 DEF beginUnificationWait, DatabaseShape
<1>30. CASE applyClockReconciliation
  <2>1. PICK shift \in Shifts :
           /\ reconcileClockSuspensionInTransaction(mem.revision, shift)
           /\ mem' \in {[phase |-> "RECONCILING", revision |-> mem.revision + 1,
                         generation |-> mem.generation + 1, deadline |-> mem.deadline + shift],
                        mem}
    BY <1>30 DEF applyClockReconciliation
  <2>2. mem.revision \in Revisions /\ mem.deadline = world.deadline /\ mem.generation = world.generation
    BY <1>30 DEF applyClockReconciliation, FlushFence, ShiftedOnce, TypeOK, Clock
  <2>3. MemoryShape
    BY <2>1, <2>2 DEF MemoryShape, reconcileClockSuspensionInTransaction
  <2>4. DatabaseShape
    BY <2>1, <2>2 DEF DatabaseShape
  <2> QED
    BY <1>30, <2>3, <2>4 DEF applyClockReconciliation
<1>31. CASE completeGameClock
  <2>1. mem.deadline = world.deadline
    BY <1>31 DEF completeGameClock, FlushFence, ShiftedOnce, TypeOK, Clock
  <2>2. world' = [world EXCEPT !.phase = "COMPLETED"]
    BY <1>31, <2>1 DEF completeGameClock, TypeOK, Clock
  <2>3. DatabaseShape
    BY <1>31, <2>2 DEF completeGameClock, DatabaseShape, Phases
  <2>4. MemoryShape
    BY <1>31 DEF completeGameClock, MemoryShape, TypeOK, Clock
  <2> QED
    BY <1>31, <2>3, <2>4 DEF completeGameClock
<1>32. CASE SuspendForRecovery
  BY <1>32 DEF SuspendForRecovery, DatabaseShape
<1>33. CASE ResumeRecovery
  BY <1>33 DEF ResumeRecovery, DatabaseShape
<1>34. CASE Synchronize
  <2>1. Replayed \in Clock
    BY <1>34 DEF Synchronize, SyncAccepts, Replayed, TypeOK, Clock, Phases, Ledger
  <2>2. MemoryShape
    BY <1>34, <2>1 DEF Synchronize, SyncAccepts, MemoryShape, Clock
  <2> QED
    BY <1>34, <2>2 DEF Synchronize
<1>35. CASE SyncRefused
  BY <1>35 DEF SyncRefused, ProcessEnds, MemoryShape
<1>36. CASE ProbePhase
  BY <1>36 DEF ProbePhase
<1>37. CASE completeClockReconciliation
  BY <1>37 DEF completeClockReconciliation, MemoryShape, TypeOK, Clock
<1>38. CASE DaemonCrash
  BY <1>38 DEF DaemonCrash, ProcessEnds, MemoryShape
<1>39. CASE DaemonStart
  BY <1>39 DEF DaemonStart, MemoryShape
<1>40. CASE UNCHANGED vars
  BY <1>40 DEF vars
<1> QED
  BY <1>1, <1>2, <1>3, <1>4, <1>5, <1>6, <1>7, <1>8, <1>9, <1>10, <1>11, <1>12, <1>13,
     <1>14, <1>15, <1>16, <1>17, <1>18, <1>19, <1>20, <1>21, <1>22, <1>23, <1>24,
     <1>25, <1>26, <1>27, <1>28, <1>29, <1>30, <1>31, <1>32, <1>33, <1>34, <1>35,
     <1>36, <1>37, <1>38, <1>39, <1>40
  DEF Next, GatewayNext, ProjectorNext, WriterNext, DaemonNext

-----------------------------------------------------------------------------
(* The invariant is preserved. *)

\* The durable clock only goes on to the next revision, by a reconciliation
\* from SUSPENDED to RECONCILING; within a revision its coordinates stay, it
\* leaves SUSPENDED never and RECONCILING only for RUNNING, by a worker that
\* has seen the revision in Redis.
WorldGoesOn ==
    /\ \/ /\ world'.revision = world.revision /\ world'.generation = world.generation
          /\ world'.deadline = world.deadline /\ total' = total
          /\ world'.phase = "RECONCILING" => world.phase = "RECONCILING"
          /\ world.phase = "SUSPENDED" => world'.phase = "SUSPENDED"
          /\ world.phase = "RECONCILING" /\ world'.phase # "RECONCILING" =>
                /\ world'.phase = "RUNNING"
                /\ \E p \in Projectors : proj[p].pc = "applied" /\ proj[p].row = world.revision
       \/ /\ world.phase = "SUSPENDED" /\ world'.phase = "RECONCILING"
          /\ world'.revision = world.revision + 1 /\ world'.generation = world.generation + 1
          /\ world'.deadline = total'[world'.revision]
    /\ \A r \in 1 .. world.revision : total'[r] = total[r]

\* Every step lets the durable clock go on like that.
LEMMA WorldStep == ClockInv /\ Shape => WorldGoesOn
<1> SUFFICES ASSUME ClockInv, Shape PROVE WorldGoesOn
  OBVIOUS
<1> USE DEF ClockInv
<1>1. CASE UNCHANGED <<world, total>>
  BY <1>1 DEF WorldGoesOn
<1>2. ASSUME NEW source, NEW name, startClockSuspension(source, name) PROVE WorldGoesOn
  BY <1>2 DEF startClockSuspension, WorldGoesOn, TypeOK, Clock
<1>3. ASSUME NEW r \in Revisions, NEW shift \in Shifts,
             reconcileClockSuspensionInTransaction(r, shift)
      PROVE  WorldGoesOn
  <2>1. r + 1 \in Revisions /\ r = world.revision /\ shift \in Nat
    BY <1>3, ReconcileTyped
  <2>2. \A q \in 1 .. world.revision : q \in Revisions /\ q # r + 1
    BY <2>1, MaxRevisionAssumption DEF Revisions
  <2>3. total'[r + 1] = total[r] + shift /\ \A q \in 1 .. world.revision : total'[q] = total[q]
    BY <1>3, <2>1, <2>2 DEF reconcileClockSuspensionInTransaction, TypeOK
  <2> QED
    BY <1>3, <2>1, <2>3 DEF reconcileClockSuspensionInTransaction, Reconcilable, WorldGoesOn, ShiftedOnce
<1>4. ASSUME NEW p \in Projectors, proj[p].pc = "applied", Finalized(p) PROVE WorldGoesOn
  BY <1>4 DEF Finalized, AtTarget, WorldGoesOn, TypeOK, Clock
<1>5. ASSUME NEW phase \in Phases, world' = [world EXCEPT !.phase = phase], total' = total,
             phase = world.phase \/ {phase, world.phase} \cap {"SUSPENDED", "RECONCILING"} = {}
      PROVE  WorldGoesOn
  BY <1>5 DEF WorldGoesOn, TypeOK, Clock
<1> QED
  BY <1>1, <1>2, <1>3, <1>4, <1>5 DEF Shape, DatabaseShape, database

\* Revisions count from one.
LEMMA RevisionsArePositive ==
    ASSUME TypeOK
    PROVE  /\ world.revision \in Nat /\ world.revision >= 1 /\ world.revision \in Revisions
           /\ mem.revision \in Nat /\ mem.revision >= 1 /\ mem.revision \in Revisions
           /\ redis.revision \in Nat
           /\ \A n \in Nat : n >= 1 /\ n <= world.revision => n \in Revisions
<1>1. world.revision \in Revisions /\ mem.revision \in Revisions /\ redis.revision \in Nat
  BY DEF TypeOK, Clock, RedisClock
<1> QED
  BY <1>1, MaxRevisionAssumption DEF Revisions

\* The row of a busy worker.
LEMMA BusyRow ==
    ASSUME ClockInv, NEW p \in Projectors, proj[p].pc # "idle"
    PROVE  /\ proj[p].row \in Nat /\ proj[p].row >= 2 /\ proj[p].row <= world.revision
           /\ proj[p].row \in Revisions
           /\ outbox[proj[p].row].status # "NONE"
           /\ outbox[proj[p].row].generation = proj[p].row
           /\ total[proj[p].row] = total[proj[p].row - 1] + outbox[proj[p].row].shift
<1>1. proj[p].row \in 2 .. world.revision /\ outbox[proj[p].row].status # "NONE"
  BY DEF ClockInv, ProjectorRows
<1>2. proj[p].row \in Revisions
  BY <1>1, RevisionsArePositive DEF ClockInv
<1> QED
  BY <1>1, <1>2, RevisionsArePositive DEF ClockInv, OutboxRows

\* Memory and the durable clock agree on what each revision has absorbed.
LEMMA ShiftedStep == ClockInv /\ TypeOK' /\ Shape /\ WorldGoesOn => ShiftedOnce'
<1> SUFFICES ASSUME ClockInv, TypeOK', Shape, WorldGoesOn PROVE ShiftedOnce'
  OBVIOUS
<1> USE DEF ClockInv
<1>1. mem.revision \in 1 .. world.revision /\ world.revision \in Nat
  BY RevisionsArePositive DEF ShiftedOnce
<1>2. world'.deadline = total'[world'.revision] /\ world.revision <= world'.revision
      /\ world'.revision \in Nat
  BY <1>1 DEF WorldGoesOn, ShiftedOnce
<1>3. CASE mem'.revision = mem.revision /\ mem'.deadline = mem.deadline
  BY <1>1, <1>2, <1>3 DEF WorldGoesOn, ShiftedOnce
<1>4. CASE mem'.revision = world'.revision /\ mem'.deadline = world'.deadline
  BY <1>2, <1>4 DEF ShiftedOnce
<1>5. CASE mem' = NoMemory
  BY <1>1, <1>2, <1>5 DEF NoMemory, Coordinates, WorldGoesOn, ShiftedOnce
<1> QED
  BY <1>3, <1>4, <1>5 DEF Shape, MemoryShape

\* Generations keep step with revisions in every copy.
LEMMA CoordinatesStep == ClockInv /\ Shape /\ WorldGoesOn => Coordinates'
<1> SUFFICES ASSUME ClockInv, Shape, WorldGoesOn PROVE Coordinates'
  OBVIOUS
<1> USE DEF ClockInv
<1>1. world'.generation = world'.revision
  BY DEF Coordinates, WorldGoesOn
<1>2. mem'.generation = mem'.revision
  BY <1>1 DEF Coordinates, Shape, MemoryShape, NoMemory
<1>3. gateway'.generation = gateway'.revision
  BY DEF Coordinates, Shape, GatewayShape, IdleGateway
<1>4. ASSUME NEW w \in Writers PROVE writer'[w].generation = writer'[w].revision
  BY DEF Coordinates, Shape, WriterShape, IdleWriter
<1>5. redis'.generation = redis'.revision
  <2>1. CASE redis' = redis
    BY <2>1 DEF Coordinates
  <2>2. ASSUME NEW phase, redis' = Marks(phase) PROVE redis'.generation = redis'.revision
    BY <2>2 DEF Marks, Coordinates, TypeOK, RedisClock
  <2>3. ASSUME NEW w \in Writers,
               redis' = [redis EXCEPT !.revision = writer[w].revision,
                                      !.generation = writer[w].generation, !.phase = "RUNNING"]
        PROVE  redis'.generation = redis'.revision
    BY <2>3 DEF Coordinates, TypeOK, RedisClock
  <2>4. ASSUME NEW p \in Projectors, proj[p].pc = "ready", Rebuilds(p), Rebuild(p)
        PROVE  redis'.generation = redis'.revision
    <3>1. redis'.revision = proj[p].row /\ redis'.generation = outbox[proj[p].row].generation
      BY <2>4 DEF Rebuild
    <3> QED
      BY <2>4, <3>1, BusyRow
  <2> QED
    BY <2>1, <2>2, <2>3, <2>4 DEF Shape, RedisShape
<1>6. total'[1] = 0
  BY RevisionsArePositive DEF Coordinates, WorldGoesOn
<1> QED
  BY <1>1, <1>2, <1>3, <1>4, <1>5, <1>6 DEF Coordinates

\* An outbox row keeps its coordinates, and its status follows the clock.
LEMMA OutboxStep ==
    ClockInv /\ TypeOK' /\ Shape /\ WorldGoesOn =>
        /\ OutboxRows' /\ ReadinessAgrees'
        /\ \A r \in Revisions : outbox[r].status # "NONE" => outbox'[r].status # "NONE"
<1> DEFINE Goal == /\ OutboxRows' /\ ReadinessAgrees'
                   /\ \A r \in Revisions : outbox[r].status # "NONE" => outbox'[r].status # "NONE"
<1> SUFFICES ASSUME ClockInv, TypeOK', Shape, WorldGoesOn PROVE Goal
  OBVIOUS
<1> USE DEF ClockInv
\* The rows stay and the clock neither enters nor leaves RECONCILING.
<1>1. ASSUME outbox' = outbox, total' = total, world'.revision = world.revision,
             world'.phase = "RECONCILING" <=> world.phase = "RECONCILING"
      PROVE  Goal
  BY <1>1 DEF OutboxRows, ReadinessAgrees
<1>2. ASSUME UNCHANGED <<world, total>>, NEW r \in Revisions, NEW status \in {"APPLYING", "FAILED"},
             outbox[r].status \in Unfinished, outbox' = [outbox EXCEPT ![r].status = status]
      PROVE  Goal
  <2>1. /\ outbox'[r].status = status /\ outbox'[r].generation = outbox[r].generation
        /\ outbox'[r].shift = outbox[r].shift
        /\ \A q \in Revisions : q # r => outbox'[q] = outbox[q]
    BY <1>2 DEF TypeOK, OutboxRow
  <2>2. \A q \in Revisions :
           /\ outbox'[q].generation = outbox[q].generation /\ outbox'[q].shift = outbox[q].shift
           /\ outbox'[q].status = "NONE" <=> outbox[q].status = "NONE"
           /\ outbox'[q].status \in Unfinished <=> outbox[q].status \in Unfinished
    BY <1>2, <2>1 DEF Unfinished
  <2>3. OutboxRows'
    BY <1>2, <2>2 DEF OutboxRows
  <2>4. ReadinessAgrees'
    BY <1>2, <2>2 DEF ReadinessAgrees, Unfinished
  <2> QED
    BY <2>2, <2>3, <2>4
<1>3. ASSUME NEW r \in Revisions, NEW shift \in Shifts,
             reconcileClockSuspensionInTransaction(r, shift)
      PROVE  Goal
  <2>1. /\ r + 1 \in Revisions /\ r = world.revision /\ shift \in Nat /\ r \in Nat /\ r >= 1
        /\ world.generation = r
    BY <1>3, ReconcileTyped, RevisionsArePositive DEF Coordinates
  <2>2. /\ outbox'[r + 1] = [status |-> "PENDING", generation |-> r + 1, shift |-> shift]
        /\ \A q \in Revisions : q # r + 1 => outbox'[q] = outbox[q]
        /\ total'[r + 1] = total[r] + shift
        /\ world'.revision = r + 1 /\ world'.phase = "RECONCILING" /\ world.phase = "SUSPENDED"
    BY <1>3, <2>1 DEF reconcileClockSuspensionInTransaction, Reconcilable, TypeOK
  <2>3. \A q \in Revisions : outbox[q].status # "NONE" =>
           /\ q \in 2 .. r + 1 /\ q # r + 1
           /\ total'[q] = total[q] /\ total'[q - 1] = total[q - 1]
    BY <2>1 DEF OutboxRows, WorldGoesOn
  <2>4. OutboxRows'
    <3> SUFFICES ASSUME NEW q \in Revisions, outbox'[q].status # "NONE"
                 PROVE  /\ q \in 2 .. r + 1 /\ outbox'[q].generation = q
                        /\ total'[q] = total'[q - 1] + outbox'[q].shift
      BY <2>2 DEF OutboxRows
    <3>1. CASE q = r + 1
      <4>1. total'[r] = total[r]
        BY <2>1 DEF WorldGoesOn
      <4> QED
        BY <2>1, <2>2, <3>1, <4>1
    <3>2. CASE q # r + 1
      BY <2>2, <2>3, <3>2 DEF OutboxRows
    <3> QED
      BY <3>1, <3>2
  <2>5. ReadinessAgrees'
    BY <2>1, <2>2 DEF ReadinessAgrees
  <2> QED
    BY <2>2, <2>4, <2>5
<1>4. ASSUME NEW p \in Projectors, proj[p].pc = "applied", Finalized(p) PROVE Goal
  <2>1. PICK r \in Revisions : r = proj[p].row /\ outbox[r].status # "NONE"
    BY <1>4, BusyRow
  <2>2. /\ outbox'[r].status = "APPLIED" /\ outbox'[r].generation = outbox[r].generation
        /\ outbox'[r].shift = outbox[r].shift
        /\ \A q \in Revisions : q # r => outbox'[q] = outbox[q]
    BY <1>4, <2>1 DEF Finalized, TypeOK, OutboxRow
  <2>3. /\ world.revision = r /\ world'.revision = r /\ world'.phase = "RUNNING" /\ total' = total
        /\ world.phase = "RECONCILING"
    BY <1>4, <2>1 DEF Finalized, AtTarget, TypeOK, Clock
  <2>4. OutboxRows'
    BY <2>1, <2>2, <2>3 DEF OutboxRows
  <2>5. ReadinessAgrees'
    BY <2>2, <2>3 DEF ReadinessAgrees
  <2> QED
    BY <2>1, <2>2, <2>4, <2>5
<1>5. CASE UNCHANGED database
  BY <1>1, <1>5 DEF database
<1>6. ASSUME NEW source, NEW name, startClockSuspension(source, name) PROVE Goal
  BY <1>1, <1>6 DEF startClockSuspension, TypeOK, Clock
<1>7. ASSUME NEW phase \in Phases, world' = [world EXCEPT !.phase = phase], UNCHANGED <<outbox, total>>,
             phase = world.phase \/ {phase, world.phase} \cap {"SUSPENDED", "RECONCILING"} = {}
      PROVE  Goal
  <2>1. world'.revision = world.revision /\ world'.phase = phase
    BY <1>7 DEF TypeOK, Clock
  <2>2. world'.phase = "RECONCILING" <=> world.phase = "RECONCILING"
    BY <1>7, <2>1
  <2> QED
    BY <1>1, <1>7, <2>1, <2>2
<1> HIDE DEF Goal
<1> QED
  BY <1>2, <1>3, <1>4, <1>5, <1>6, <1>7 DEF Shape, DatabaseShape

\* Busy workers keep rows that exist.
LEMMA ProjectorStep ==
    ASSUME ClockInv, TypeOK', Shape, WorldGoesOn,
           \A r \in Revisions : outbox[r].status # "NONE" => outbox'[r].status # "NONE"
    PROVE  ProjectorRows'
<1> SUFFICES ASSUME NEW p \in Projectors, proj'[p].pc # "idle"
             PROVE  proj'[p].row \in 2 .. world'.revision /\ outbox'[proj'[p].row].status # "NONE"
  BY DEF ProjectorRows
<1>1. world.revision <= world'.revision /\ world'.revision \in Nat
  BY RevisionsArePositive DEF WorldGoesOn, ClockInv
<1>2. CASE proj'[p].row \in Revisions /\ outbox[proj'[p].row].status \in Unfinished
  BY <1>1, <1>2, RevisionsArePositive DEF ClockInv, OutboxRows, Unfinished
<1>3. CASE proj[p].pc # "idle" /\ proj'[p].row = proj[p].row
  BY <1>1, <1>3, BusyRow, RevisionsArePositive DEF ClockInv
<1> QED
  BY <1>2, <1>3 DEF Shape, ProjectorShape

\* A ledger is open only while its revision is suspended.
LEMMA LedgerStep == ClockInv /\ TypeOK' /\ Shape /\ WorldGoesOn => LedgerOpen'
<1> SUFFICES ASSUME ClockInv, TypeOK', Shape, WorldGoesOn PROVE LedgerOpen'
  OBVIOUS
<1> USE DEF ClockInv
<1>1. ASSUME ledger' = ledger, world'.revision = world.revision,
             world.phase = "SUSPENDED" => world'.phase = "SUSPENDED"
      PROVE  LedgerOpen'
  BY <1>1 DEF LedgerOpen
<1>2. ASSUME NEW source, NEW name, startClockSuspension(source, name) PROVE LedgerOpen'
  <2>1. world.revision \in Revisions /\ world'.revision = world.revision /\ world'.phase = "SUSPENDED"
    BY <1>2, RevisionsArePositive DEF startClockSuspension, TypeOK, Clock
  <2>2. \A r \in Revisions : r # world.revision => ledger'[r] = ledger[r]
    BY <1>2 DEF startClockSuspension, TypeOK
  <2> QED
    BY <2>1, <2>2 DEF LedgerOpen
<1>3. ASSUME NEW r \in Revisions, NEW shift \in Shifts,
             reconcileClockSuspensionInTransaction(r, shift)
      PROVE  LedgerOpen'
  <2>1. r = world.revision
    BY <1>3, ReconcileTyped
  <2>2. ledger'[r].status = "RECONCILING" /\ \A q \in Revisions : q # r => ledger'[q] = ledger[q]
    BY <1>3 DEF reconcileClockSuspensionInTransaction, TypeOK, Ledger
  <2> QED
    BY <2>1, <2>2 DEF LedgerOpen
<1>4. ASSUME NEW p \in Projectors, Finalized(p) PROVE LedgerOpen'
  <2>1. \A q \in Revisions : ledger'[q] = ledger[q] \/ ledger'[q].status = "APPLIED"
    BY <1>4 DEF Finalized, TypeOK, Ledger
  <2>2. world.phase = "RECONCILING"
    BY <1>4 DEF Finalized, AtTarget
  <2> QED
    BY <2>1, <2>2 DEF LedgerOpen
<1>5. CASE UNCHANGED <<world, ledger>>
  BY <1>1, <1>5
<1>6. ASSUME NEW phase \in Phases, world' = [world EXCEPT !.phase = phase], ledger' = ledger,
             phase = world.phase \/ {phase, world.phase} \cap {"SUSPENDED", "RECONCILING"} = {}
      PROVE  LedgerOpen'
  <2>1. world'.revision = world.revision /\ world'.phase = phase
    BY <1>6 DEF TypeOK, Clock
  <2>2. world.phase = "SUSPENDED" => world'.phase = "SUSPENDED"
    BY <1>6, <2>1
  <2> QED
    BY <1>1, <1>6, <2>1, <2>2
<1> QED
  BY <1>2, <1>3, <1>4, <1>5, <1>6 DEF Shape, DatabaseShape, database

\* What the gateway has read stays a clock of the past or of the present.
LEMMA GatewayStep == ClockInv /\ Shape /\ WorldGoesOn => GatewaySnapshot'
<1> SUFFICES ASSUME ClockInv, Shape, WorldGoesOn, gateway'.pc # "idle"
             PROVE  /\ gateway'.revision \in 1 .. world'.revision
                    /\ gateway'.revision = world'.revision =>
                          /\ world'.phase # "RECONCILING"
                          /\ gateway'.pc = "mark" => world'.phase = "SUSPENDED"
  BY DEF GatewaySnapshot
<1>1. world.revision \in Nat /\ world.revision >= 1
  BY RevisionsArePositive DEF ClockInv
<1>2. CASE gateway' = IdleGateway
  BY <1>2 DEF IdleGateway
<1>3. CASE /\ gateway'.revision = world.revision /\ world'.revision = world.revision
           /\ world'.phase # "RECONCILING"
           /\ gateway'.pc = "mark" => world'.phase = "SUSPENDED"
  BY <1>1, <1>3
<1>4. CASE /\ gateway'.revision = gateway.revision /\ gateway.pc # "idle"
           /\ gateway'.pc = "mark" => gateway.pc = "mark" \/ world'.phase = "SUSPENDED"
  BY <1>1, <1>4 DEF ClockInv, GatewaySnapshot, WorldGoesOn
<1> QED
  BY <1>2, <1>3, <1>4 DEF Shape, GatewayShape

\* What a writer has read stays the deadlines of its revision.
LEMMA WriterStep == ClockInv /\ Shape /\ WorldGoesOn => WriterSnapshot'
<1> SUFFICES ASSUME ClockInv, Shape, WorldGoesOn, NEW w \in Writers, writer'[w].pc # "idle"
             PROVE  /\ writer'[w].revision \in 1 .. world'.revision
                    /\ writer'[w].revision = world'.revision => world'.phase # "RECONCILING"
                    /\ writer'[w].deadline = total'[writer'[w].revision]
  BY DEF WriterSnapshot
<1>1. world.revision \in Nat /\ world.revision >= 1
  BY RevisionsArePositive DEF ClockInv
<1>2. CASE writer'[w] = IdleWriter
  BY <1>2 DEF IdleWriter
<1>3. CASE /\ writer'[w].revision = world.revision /\ writer'[w].deadline = world.deadline
           /\ world.phase = "RUNNING" /\ UNCHANGED database
  BY <1>1, <1>3 DEF ClockInv, ShiftedOnce, database
<1>4. CASE /\ writer'[w].revision = writer[w].revision /\ writer'[w].deadline = writer[w].deadline
           /\ writer[w].pc # "idle"
  BY <1>1, <1>4 DEF ClockInv, WriterSnapshot, WorldGoesOn
<1> QED
  BY <1>2, <1>3, <1>4 DEF Shape, WriterShape

\* Redis never goes back, stays within one revision of the clock, and is at the
\* revision that a worker has applied.
LEMMA RedisStep ==
    ClockInv /\ TypeOK' /\ Shape /\ WorldGoesOn =>
        RedisStands' /\ AppliedProjected' /\ redis'.revision >= redis.revision
<1> DEFINE Goal == RedisStands' /\ redis'.revision >= redis.revision
<1> SUFFICES ASSUME ClockInv, TypeOK', Shape, WorldGoesOn
             PROVE  Goal /\ AppliedProjected'
  OBVIOUS
<1> USE DEF ClockInv
<1>1. /\ world.revision \in Nat /\ world.revision >= 1 /\ redis.revision \in Nat
  BY RevisionsArePositive
<1>2. redis.revision <= world.revision
  BY <1>1 DEF RedisStands
<1>3. ASSUME redis' = redis PROVE Goal
  <2>1. CASE world'.revision = world.revision + 1 /\ world'.phase = "RECONCILING"
             /\ world.phase = "SUSPENDED"
    BY <1>1, <1>2, <1>3, <2>1 DEF RedisStands
  <2>2. CASE /\ world'.revision = world.revision
             /\ world'.phase = "RECONCILING" => world.phase = "RECONCILING"
             /\ world.phase = "SUSPENDED" => world'.phase = "SUSPENDED"
             /\ world.phase = "RECONCILING" => world'.phase = "RECONCILING"
    BY <1>1, <1>3, <2>2 DEF RedisStands
  <2>3. CASE /\ world'.revision = world.revision /\ world.phase = "RECONCILING"
             /\ \E p \in Projectors : proj[p].pc = "applied" /\ proj[p].row = world.revision
    <3>1. redis.revision = world.revision
      BY <1>1, <1>2, <2>3 DEF AppliedProjected
    <3> QED
      BY <1>1, <1>3, <2>3, <3>1 DEF RedisStands
  <2> QED
    BY <2>1, <2>2, <2>3 DEF WorldGoesOn
\* A mark or bootstrap writes a revision that was read, over itself or nothing.
<1>4. ASSUME UNCHANGED database, NEW n \in 1 .. world.revision, redis.revision \in {0, n},
             redis'.revision = n,
             n = world.revision => world.phase # "RECONCILING",
             redis'.phase = "RUNNING" \/ (n = world.revision => world.phase = "SUSPENDED")
      PROVE  Goal
  BY <1>1, <1>4 DEF RedisStands, database
<1>5. ASSUME gateway.pc = "mark", redis' = Marks("SUSPENDED"), UNCHANGED database PROVE Goal
  <2>1. CASE redis.revision \in {0, gateway.revision}
    <3>1. redis'.revision = gateway.revision /\ redis'.phase = "SUSPENDED"
      BY <1>5, <2>1 DEF Marks, TypeOK, RedisClock
    <3> QED
      BY <1>4, <1>5, <2>1, <3>1 DEF GatewaySnapshot
  <2>2. CASE redis.revision \notin {0, gateway.revision}
    BY <1>3, <1>5, <2>2 DEF Marks
  <2> QED
    BY <2>1, <2>2
<1>6. ASSUME gateway.pc = "open", redis' = Marks("RUNNING"), UNCHANGED database PROVE Goal
  <2>1. CASE redis.revision \in {0, gateway.revision}
    <3>1. redis'.revision = gateway.revision /\ redis'.phase = "RUNNING"
      BY <1>6, <2>1 DEF Marks, TypeOK, RedisClock
    <3> QED
      BY <1>4, <1>6, <2>1, <3>1 DEF GatewaySnapshot
  <2>2. CASE redis.revision \notin {0, gateway.revision}
    BY <1>3, <1>6, <2>2 DEF Marks
  <2> QED
    BY <2>1, <2>2
<1>7. ASSUME UNCHANGED database, NEW w \in Writers, writer[w].pc = "loaded", redis.revision = 0,
             redis' = [redis EXCEPT !.revision = writer[w].revision,
                                    !.generation = writer[w].generation, !.phase = "RUNNING"]
      PROVE  Goal
  <2>1. redis'.revision = writer[w].revision /\ redis'.phase = "RUNNING"
    BY <1>7 DEF TypeOK, RedisClock
  <2> QED
    BY <1>4, <1>7, <2>1 DEF WriterSnapshot
<1>8. ASSUME UNCHANGED database, NEW p \in Projectors, proj[p].pc = "ready", Rebuilds(p), Rebuild(p)
      PROVE  Goal
  <2>1. /\ redis'.revision = proj[p].row /\ redis'.phase = "RUNNING"
        /\ redis.revision \in {0, proj[p].row - 1}
    BY <1>8 DEF Rebuild, Rebuilds
  <2>2. /\ proj[p].row \in Nat /\ proj[p].row >= 2 /\ proj[p].row <= world.revision
    BY <1>8, BusyRow
  <2>3. proj[p].row = world.revision
    BY <1>1, <2>1, <2>2 DEF RedisStands
  <2> QED
    BY <1>1, <1>8, <2>1, <2>2, <2>3 DEF RedisStands, database
<1>9. Goal
  <2> HIDE DEF Goal
  <2> QED
    BY <1>3, <1>5, <1>6, <1>7, <1>8 DEF Shape, RedisShape
<1>10. AppliedProjected'
  <2> SUFFICES ASSUME NEW p \in Projectors, proj'[p].pc = "applied"
               PROVE  redis'.revision >= proj'[p].row
    BY DEF AppliedProjected
  <2>1. /\ proj[p].pc # "idle" /\ proj'[p].row = proj[p].row
        /\ proj[p].pc = "applied" \/ redis'.revision = proj[p].row
    BY DEF Shape, ProjectorShape
  <2>2. proj[p].row \in Nat
    BY <2>1, BusyRow
  <2>3. CASE redis'.revision = proj[p].row
    BY <2>1, <2>2, <2>3
  <2>4. CASE proj[p].pc = "applied"
    <3>1. redis.revision >= proj[p].row
      BY <2>4 DEF AppliedProjected
    <3>2. redis'.revision \in Nat
      BY DEF TypeOK, RedisClock
    <3> QED
      BY <1>1, <1>9, <2>1, <2>2, <3>1, <3>2
  <2> QED
    BY <2>1, <2>3, <2>4
<1> QED
  BY <1>9, <1>10

\* The invariant holds at first.
LEMMA InvInit == Init => ClockInv
<1> SUFFICES ASSUME Init PROVE ClockInv
  OBVIOUS
<1>1. TypeOK
  BY TypeInit
<1>2. PICK phase \in OpeningPhases :
          world = [phase |-> phase, revision |-> 1, generation |-> 1, deadline |-> 0]
  BY DEF Init
<1>3. world.revision = 1 /\ world.generation = 1 /\ world.deadline = 0 /\ mem = world
      /\ world.phase \in {"PREOPEN", "RUNNING"} /\ 1 \in Revisions
  BY <1>2, OpeningAssumption, MaxRevisionAssumption DEF Init, Revisions
<1>4. Coordinates /\ ShiftedOnce
  BY <1>3 DEF Init, Coordinates, ShiftedOnce, IdleGateway, IdleWriter
<1>5. OutboxRows /\ ReadinessAgrees /\ LedgerOpen
  BY <1>3 DEF Init, OutboxRows, ReadinessAgrees, LedgerOpen, NoRow, NoLedger
<1>6. ProjectorRows /\ AppliedProjected
  BY DEF Init, ProjectorRows, AppliedProjected, IdleProjector
<1>7. GatewaySnapshot /\ WriterSnapshot /\ RedisStands
  BY <1>3 DEF Init, GatewaySnapshot, WriterSnapshot, RedisStands, IdleGateway, IdleWriter
<1> QED
  BY <1>1, <1>4, <1>5, <1>6, <1>7 DEF ClockInv

\* And every step preserves it.
LEMMA InvStep == ClockInv /\ [Next]_vars => ClockInv'
<1> SUFFICES ASSUME ClockInv, [Next]_vars PROVE ClockInv'
  OBVIOUS
<1>1. TypeOK'
  BY TypeStep DEF ClockInv
<1>2. Shape
  BY StepShape
<1>3. WorldGoesOn
  BY <1>2, WorldStep
<1>4. Coordinates' /\ ShiftedOnce' /\ LedgerOpen'
  BY <1>1, <1>2, <1>3, CoordinatesStep, ShiftedStep, LedgerStep
<1>5. OutboxRows' /\ ReadinessAgrees' /\ ProjectorRows'
  BY <1>1, <1>2, <1>3, OutboxStep, ProjectorStep
<1>6. GatewaySnapshot' /\ WriterSnapshot' /\ RedisStands' /\ AppliedProjected'
  BY <1>1, <1>2, <1>3, GatewayStep, WriterStep, RedisStep
<1> QED
  BY <1>1, <1>4, <1>5, <1>6 DEF ClockInv

\* The invariant holds in every behaviour.
LEMMA InvHolds == Spec => []ClockInv
  BY InvInit, InvStep, PTL DEF Spec

-----------------------------------------------------------------------------
(* The theorems. *)

\* All clocks, ledgers, rows and processes are well typed in every behaviour.
THEOREM TypeCorrect == Spec => []TypeOK
<1>1. ClockInv => TypeOK
  BY DEF ClockInv
<1> QED
  BY <1>1, InvHolds, PTL

\* PostgreSQL and the daemon's memory absorb every shift exactly once.
THEOREM ShiftsOnce == Spec => []ShiftedOnce
<1>1. ClockInv => ShiftedOnce
  BY DEF ClockInv
<1> QED
  BY <1>1, InvHolds, PTL

\* The clock is RECONCILING exactly while its projection is not applied.
THEOREM ReadinessHolds == Spec => []ReadinessAgrees
<1>1. ClockInv => ReadinessAgrees
  BY DEF ClockInv
<1> QED
  BY <1>1, InvHolds, PTL

\* Redis keeps step with the durable clock and is not left suspended.
THEOREM RedisInStep == Spec => []RedisKeepsStep
<1>1. ClockInv => RedisKeepsStep
  <2> SUFFICES ASSUME ClockInv, redis.revision # 0 PROVE
        /\ \/ redis.revision = world.revision /\ redis.generation = world.generation
           \/ /\ world.phase = "RECONCILING"
              /\ redis.revision + 1 = world.revision
              /\ redis.generation + 1 = world.generation
        /\ world.phase = "RUNNING" => redis.phase = "RUNNING"
    BY DEF RedisKeepsStep
  <2> QED
    BY DEF ClockInv, RedisStands, Coordinates
<1> QED
  BY <1>1, InvHolds, PTL

\* No step but a reconciliation moves the durable deadlines.
THEOREM DeadlinesFenced == Spec => OnlyReconciliationMovesDeadlines
<1>1. ClockInv /\ [Next]_vars =>
        [world'.deadline # world.deadline => world'.revision = world.revision + 1]_vars
  BY StepShape, WorldStep DEF WorldGoesOn
<1>2. Spec => [][Next]_vars
  BY PTL DEF Spec
<1> QED
  BY <1>1, <1>2, InvHolds, PTL DEF OnlyReconciliationMovesDeadlines

-----------------------------------------------------------------------------
(* The tournament of Redis. *)

\* There is a tournament, in the coordinates of Redis, and a worker that is
\* ready has read one, as has an administrator.
TournamentInv ==
    /\ tournament.stage # "absent"
    /\ TournamentProjected
    /\ \A p \in Projectors : proj[p].pc = "ready" => proj[p].seen.stage # "absent"
    /\ shifter.pc = "read" => shifter.seen.stage # "absent"

\* A worker that is ready has read the tournament.
SeenShape ==
    \A p \in Projectors : proj'[p].pc = "ready" =>
        \/ proj[p].pc = "ready" /\ proj'[p].seen = proj[p].seen
        \/ proj'[p].seen = tournament

\* So has an administrator, whose shifts are counted.
ShiftShape ==
    /\ shifter'.pc = "read" => shifter' = shifter \/ shifter'.seen = tournament
    /\ shifter'.done = 0 => shifter.done = 0

\* The tournament stays, is written under a fence of Redis, is moved to the
\* next revision together with Redis, or is written by an administrator.
WriteShape ==
    \/ tournament' = tournament /\ RedisCoordinate' = RedisCoordinate
    \/ /\ redis' = redis /\ redis.revision # 0
       /\ tournament'.stage # "absent" /\ tournament'.revision = redis.revision
       /\ tournament'.tick = total[redis.revision]
    \/ \E p \in Projectors : proj[p].pc = "ready" /\ Rebuilds(p) /\ Rebuild(p)
    \/ tournament'.stage # "absent" /\ shifter'.done # 0

TournamentShape == SeenShape /\ WriteShape /\ ShiftShape

\* A mark or a bootstrap keeps the coordinates that Redis stands for.
LEMMA CoordinateKept ==
    ASSUME ClockInv, NEW n \in 1 .. world.revision, redis.revision \in {0, n},
           redis'.revision = n, n = world.revision => world.phase # "RECONCILING"
    PROVE  RedisCoordinate' = RedisCoordinate
<1>1. world.revision \in Nat /\ world.revision >= 1 /\ redis.revision \in Nat
  BY RevisionsArePositive DEF ClockInv
<1>2. redis.revision = 0 => n = 1
  BY <1>1 DEF ClockInv, RedisStands
<1> QED
  BY <1>1, <1>2 DEF RedisCoordinate

\* The gateway's marks keep them.
LEMMA MarksKeepCoordinate ==
    ASSUME ClockInv, NEW phase, gateway.pc # "idle", redis' = Marks(phase)
    PROVE  RedisCoordinate' = RedisCoordinate
<1>1. CASE redis.revision \in {0, gateway.revision}
  <2>1. redis'.revision = gateway.revision
    BY <1>1 DEF Marks, ClockInv, TypeOK, RedisClock
  <2> QED
    BY <1>1, <2>1, CoordinateKept DEF ClockInv, GatewaySnapshot
<1>2. CASE redis.revision \notin {0, gateway.revision}
  BY <1>2 DEF Marks, RedisCoordinate
<1> QED
  BY <1>1, <1>2

\* A worker that does not become ready reads nothing.
LEMMA SeenByWorker ==
    ASSUME TypeOK, NEW p \in Projectors, NEW v, proj' = [proj EXCEPT ![p] = v],
           v.pc # "ready" \/ v.seen = tournament
    PROVE  SeenShape
<1>1. proj'[p] = v /\ \A q \in Projectors : q # p => proj'[q] = proj[q]
  BY DEF TypeOK
<1> QED
  BY <1>1 DEF SeenShape

\* Neither does one that becomes idle.
LEMMA SeenAtRest ==
    ASSUME TypeOK, NEW p \in Projectors, proj' = [proj EXCEPT ![p] = IdleProjector]
    PROVE  SeenShape
  BY SeenByWorker DEF IdleProjector

\* Nor one that only goes on to another stage.
LEMMA SeenMovingOn ==
    ASSUME TypeOK, NEW p \in Projectors, NEW stage, stage # "ready",
           proj' = MovesOn(p, stage)
    PROVE  SeenShape
<1>1. PICK v : v = [proj[p] EXCEPT !.pc = stage, !.seen = NoTournament]
  OBVIOUS
<1>2. v.pc = stage /\ proj' = [proj EXCEPT ![p] = v]
  BY <1>1 DEF MovesOn, TypeOK, Worker
<1> QED
  BY <1>2, SeenByWorker

\* Every step of a profile with a tournament has that shape.
LEMMA TournamentSteps == ClockInv /\ TournamentInv /\ [Next]_vars => TournamentShape
<1> SUFFICES ASSUME ClockInv, TournamentInv, [Next]_vars PROVE TournamentShape
  OBVIOUS
<1> USE DEF ClockInv, TournamentShape
<1>a. proj' = proj => SeenShape
  BY DEF SeenShape
<1>b. tournament' = tournament /\ redis' = redis => WriteShape
  BY DEF WriteShape, RedisCoordinate
<1>c. shifter' = shifter => ShiftShape
  BY DEF ShiftShape
<1> USE <1>a, <1>b, <1>c
<1>1. CASE GatewaySuspend
  BY <1>1 DEF GatewaySuspend
<1>2. CASE GatewayStart
  BY <1>2 DEF GatewayStart
<1>3. CASE GatewayMark
  <2>1. WriteShape
    BY <1>3, MarksKeepCoordinate DEF GatewayMark, WriteShape
  <2> QED
    BY <1>3, <2>1 DEF GatewayMark
<1>4. CASE GatewayResume
  BY <1>4 DEF GatewayResume
<1>5. CASE GatewayOpen
  BY <1>5 DEF GatewayOpen
<1>6. CASE GatewayOpenMark
  <2>1. RedisCoordinate' = RedisCoordinate
    <3>1. CASE redis' = Marks("RUNNING")
      BY <1>6, <3>1, MarksKeepCoordinate DEF GatewayOpenMark
    <3>2. CASE redis' = redis
      BY <3>2 DEF RedisCoordinate
    <3> QED
      BY <1>6, <3>1, <3>2 DEF GatewayOpenMark
  <2>2. WriteShape
    BY <1>6, <2>1 DEF GatewayOpenMark, WriteShape
  <2> QED
    BY <1>6, <2>2 DEF GatewayOpenMark
<1>7. CASE GatewayCrash
  BY <1>7 DEF GatewayCrash
<1>8. ASSUME NEW p \in Projectors, claimNext(p) PROVE TournamentShape
  <2>1. PICK r \in Revisions :
           proj' = [proj EXCEPT ![p] = [IdleProjector EXCEPT !.pc = "claimed", !.row = r]]
    BY <1>8 DEF claimNext
  <2>2. PICK v : v = [IdleProjector EXCEPT !.pc = "claimed", !.row = r]
    OBVIOUS
  <2>3. v.pc = "claimed"
    BY <2>2 DEF IdleProjector
  <2>4. SeenShape
    BY <2>1, <2>2, <2>3, SeenByWorker
  <2> QED
    BY <1>8, <2>4 DEF claimNext
<1>9. ASSUME NEW p \in Projectors, CheckWorld(p) PROVE TournamentShape
  BY <1>9, SeenMovingOn DEF CheckWorld
<1>10. ASSUME NEW p \in Projectors, ReadTournament(p) PROVE TournamentShape
  <2>1. PICK v : v = [proj[p] EXCEPT !.pc = "ready", !.seen = tournament]
    OBVIOUS
  <2>2. v.seen = tournament /\ proj' = [proj EXCEPT ![p] = v]
    BY <1>10, <2>1 DEF ReadTournament, TypeOK, Worker
  <2>3. SeenShape
    BY <2>2, SeenByWorker
  <2> QED
    BY <1>10, <2>3 DEF ReadTournament
<1>11. ASSUME NEW p \in Projectors, ApplyProjection(p) PROVE TournamentShape
  <2>1. SeenShape
    BY <1>11, SeenMovingOn DEF ApplyProjection
  <2>2. WriteShape
    BY <1>11 DEF ApplyProjection, WriteShape, RedisCoordinate
  <2> QED
    BY <1>11, <2>1, <2>2 DEF ApplyProjection
<1>12. ASSUME NEW p \in Projectors, ApplyRefused(p) PROVE TournamentShape
  BY <1>12, SeenMovingOn DEF ApplyRefused
<1>13. ASSUME NEW p \in Projectors, ApplyReplyLost(p) PROVE TournamentShape
  <2>1. SeenShape
    BY <1>13, SeenMovingOn DEF ApplyReplyLost
  <2>2. WriteShape
    BY <1>13 DEF ApplyReplyLost, WriteShape, RedisCoordinate
  <2> QED
    BY <1>13, <2>1, <2>2 DEF ApplyReplyLost
<1>14. ASSUME NEW p \in Projectors, Finalize(p) PROVE TournamentShape
  BY <1>14, SeenAtRest DEF Finalize
<1>15. ASSUME NEW p \in Projectors, FinalizeReplyLost(p) PROVE TournamentShape
  BY <1>15, SeenMovingOn DEF FinalizeReplyLost
<1>16. ASSUME NEW p \in Projectors, FinalizeRefused(p) PROVE TournamentShape
  BY <1>16, SeenMovingOn DEF FinalizeRefused
<1>17. ASSUME NEW p \in Projectors, recordFailure(p) PROVE TournamentShape
  BY <1>17, SeenAtRest DEF recordFailure
<1>18. ASSUME NEW p \in Projectors, ProjectorError(p) PROVE TournamentShape
  BY <1>18, SeenMovingOn DEF ProjectorError
<1>19. ASSUME NEW p \in Projectors, ProjectorCrash(p) PROVE TournamentShape
  BY <1>19, SeenAtRest DEF ProjectorCrash
<1>20. ASSUME NEW w \in Writers, loadCurrentGameTime(w) PROVE TournamentShape
  BY <1>20 DEF loadCurrentGameTime
<1>21. ASSUME NEW w \in Writers, ensureRedisClockFence(w) PROVE TournamentShape
  <2>1. RedisCoordinate' = RedisCoordinate
    <3>1. CASE redis.revision = 0
      <4>1. redis'.revision = writer[w].revision
        BY <1>21, <3>1 DEF ensureRedisClockFence, TypeOK, RedisClock
      <4> QED
        BY <1>21, <3>1, <4>1, CoordinateKept DEF ensureRedisClockFence, WriterSnapshot
    <3>2. CASE redis.revision # 0
      BY <1>21, <3>2 DEF ensureRedisClockFence, RedisCoordinate
    <3> QED
      BY <3>1, <3>2
  <2>2. WriteShape
    BY <1>21, <2>1 DEF ensureRedisClockFence, WriteShape
  <2> QED
    BY <1>21, <2>2 DEF ensureRedisClockFence
<1>22. ASSUME NEW w \in Writers, NEW stage \in {"open", "closed"}, setState(w, stage) PROVE TournamentShape
  <2>1. CASE Fenced(writer[w].revision, writer[w].generation)
    <3>1. /\ writer[w].revision \in 1 .. world.revision
          /\ writer[w].deadline = total[writer[w].revision]
      BY <1>22 DEF setState, WriterSnapshot
    <3>2. redis.revision = writer[w].revision /\ redis.revision # 0
      BY <2>1, <3>1, RevisionsArePositive DEF Fenced
    <3>3. WriteShape
      BY <1>22, <2>1, <3>1, <3>2 DEF setState, WriteShape
    <3> QED
      BY <1>22, <3>3 DEF setState
  <2>2. CASE ~ Fenced(writer[w].revision, writer[w].generation)
    BY <1>22, <2>2 DEF setState
  <2> QED
    BY <2>1, <2>2
<1>23. CASE ShiftRead
  <2>1. ShiftShape
    BY <1>23 DEF ShiftRead, ShiftShape, TypeOK, ShifterState
  <2> QED
    BY <1>23, <2>1 DEF ShiftRead
<1>24. CASE shiftTournamentClock
  <2>1. shifter'.pc = "idle" /\ shifter'.done # 0
    BY <1>24 DEF shiftTournamentClock, TypeOK, ShifterState
  <2>2. tournament'.stage # "absent"
    BY <1>24 DEF shiftTournamentClock, TournamentInv, TypeOK, ShifterState, Tournament
  <2>3. ShiftShape /\ WriteShape
    BY <2>1, <2>2 DEF ShiftShape, WriteShape
  <2> QED
    BY <1>24, <2>3 DEF shiftTournamentClock
<1>25. CASE MonthChanges
  BY <1>25 DEF MonthChanges
<1>26. CASE TournamentAutoStart
  <2>1. CASE Fenced(mem.revision, mem.generation)
    <3>1. redis.revision = mem.revision /\ redis.revision # 0 /\ mem.deadline = total[mem.revision]
      BY <2>1, RevisionsArePositive DEF Fenced, ShiftedOnce
    <3>2. WriteShape
      BY <1>26, <2>1, <3>1 DEF TournamentAutoStart, WriteShape
    <3> QED
      BY <1>26, <3>2 DEF TournamentAutoStart
  <2>2. CASE ~ Fenced(mem.revision, mem.generation)
    BY <1>26, <2>2 DEF TournamentAutoStart
  <2> QED
    BY <2>1, <2>2
<1>27. CASE Flush
  BY <1>27 DEF Flush
<1>28. CASE promotePreopenAtOpening
  BY <1>28 DEF promotePreopenAtOpening
<1>29. CASE beginUnificationWait
  BY <1>29 DEF beginUnificationWait
<1>30. CASE applyClockReconciliation
  BY <1>30 DEF applyClockReconciliation
<1>31. CASE completeGameClock
  BY <1>31 DEF completeGameClock
<1>32. CASE SuspendForRecovery
  BY <1>32 DEF SuspendForRecovery
<1>33. CASE ResumeRecovery
  BY <1>33 DEF ResumeRecovery
<1>34. CASE Synchronize
  BY <1>34 DEF Synchronize
<1>35. CASE SyncRefused
  BY <1>35 DEF SyncRefused
<1>36. CASE ProbePhase
  BY <1>36 DEF ProbePhase
<1>37. CASE completeClockReconciliation
  BY <1>37 DEF completeClockReconciliation
<1>38. CASE DaemonCrash
  BY <1>38 DEF DaemonCrash
<1>39. CASE DaemonStart
  BY <1>39 DEF DaemonStart
<1>40. CASE UNCHANGED vars
  BY <1>40 DEF vars
<1> QED
  BY <1>1, <1>2, <1>3, <1>4, <1>5, <1>6, <1>7, <1>8, <1>9, <1>10, <1>11, <1>12, <1>13,
     <1>14, <1>15, <1>16, <1>17, <1>18, <1>19, <1>20, <1>21, <1>22, <1>23, <1>24,
     <1>25, <1>26, <1>27, <1>28, <1>29, <1>30, <1>31, <1>32, <1>33, <1>34, <1>35,
     <1>36, <1>37, <1>38, <1>39, <1>40
  DEF Next, GatewayNext, ProjectorNext, WriterNext, DaemonNext

\* The tournament stays in the coordinates of Redis.
LEMMA TournamentKept ==
    ASSUME ClockInv, TournamentInv, TournamentShape, WorldGoesOn
    PROVE  TournamentInv'
<1> USE DEF ClockInv
<1>1. /\ world.revision \in Nat /\ world.revision >= 1 /\ redis.revision \in Nat
      /\ redis.revision <= world.revision
  BY RevisionsArePositive DEF RedisStands
<1>2. /\ shifter'.done = 0 => /\ tournament.tick = total[RedisCoordinate]
                               /\ tournament.revision = RedisCoordinate
      /\ RedisCoordinate \in 1 .. world.revision
  BY <1>1 DEF TournamentInv, TournamentProjected, RedisCoordinate, TournamentShape, ShiftShape
<1>3. \A r \in 1 .. world.revision : total'[r] = total[r]
  BY DEF WorldGoesOn
<1>4. tournament'.stage # "absent" /\ TournamentProjected'
  <2>1. CASE tournament' = tournament /\ RedisCoordinate' = RedisCoordinate
    BY <1>2, <1>3, <2>1 DEF TournamentInv, TournamentProjected
  <2>2. CASE /\ redis' = redis /\ redis.revision # 0
             /\ tournament'.stage # "absent" /\ tournament'.revision = redis.revision
             /\ tournament'.tick = total[redis.revision]
    <3>1. RedisCoordinate' = redis.revision /\ redis.revision \in 1 .. world.revision
      BY <1>1, <2>2 DEF RedisCoordinate
    <3> QED
      BY <1>3, <2>2, <3>1 DEF TournamentProjected
  <2>3. ASSUME NEW p \in Projectors, proj[p].pc = "ready", Rebuilds(p), Rebuild(p)
        PROVE  tournament'.stage # "absent" /\ TournamentProjected'
    <3>1. /\ proj[p].row \in Nat /\ proj[p].row >= 2 /\ proj[p].row <= world.revision
          /\ outbox[proj[p].row].generation = proj[p].row
          /\ total[proj[p].row] = total[proj[p].row - 1] + outbox[proj[p].row].shift
      BY <2>3, BusyRow
    <3>2. tournament = proj[p].seen /\ tournament' = projectTournamentState(p)
          /\ redis'.revision = proj[p].row
      BY <2>3 DEF TournamentInv, Rebuilds, Rebuild
    <3>3. RedisCoordinate = proj[p].row - 1 /\ RedisCoordinate' = proj[p].row
      <4>1. redis.revision \in {0, proj[p].row - 1}
        BY <2>3 DEF Rebuilds
      <4>2. redis.revision = 0 => proj[p].row = 2
        BY <1>1, <3>1 DEF RedisStands
      <4> QED
        BY <3>1, <3>2, <4>1, <4>2 DEF RedisCoordinate
    <3>4. /\ tournament'.stage = tournament.stage /\ tournament'.revision = proj[p].row
          /\ tournament'.tick = tournament.tick + outbox[proj[p].row].shift
      BY <3>2 DEF projectTournamentState, TypeOK, Tournament
    <3>5. shifter'.done = 0 => tournament'.tick = total'[proj[p].row]
      BY <1>2, <1>3, <3>1, <3>3, <3>4
    <3> QED
      BY <3>3, <3>4, <3>5 DEF TournamentInv, TournamentProjected
  <2>4. CASE tournament'.stage # "absent" /\ shifter'.done # 0
    BY <2>4 DEF TournamentProjected
  <2> QED
    BY <2>1, <2>2, <2>3, <2>4 DEF TournamentShape, WriteShape
<1>5. ASSUME NEW p \in Projectors, proj'[p].pc = "ready" PROVE proj'[p].seen.stage # "absent"
  BY <1>5 DEF TournamentShape, SeenShape, TournamentInv
<1>6. shifter'.pc = "read" => shifter'.seen.stage # "absent"
  BY DEF TournamentShape, ShiftShape, TournamentInv
<1> QED
  BY <1>4, <1>5, <1>6 DEF TournamentInv

\* In a profile that has a tournament, and until an administrator shifts the
\* schedule, its deadlines have absorbed every shift up to the revision of
\* Redis exactly once.
THEOREM TournamentInStep == ~ FirstTournament /\ Spec => []TournamentProjected
<1>1. ~ FirstTournament /\ Init => TournamentInv
  <2> SUFFICES ASSUME ~ FirstTournament, Init PROVE TournamentInv
    OBVIOUS
  <2>1. tournament = [stage |-> "open", revision |-> 1, generation |-> 1, tick |-> 0, edits |-> 0]
    BY DEF Init
  <2>2. redis.revision = 0 /\ total[1] = 0
    BY MaxRevisionAssumption DEF Init, Revisions
  <2>3. TournamentProjected
    BY <2>1, <2>2 DEF TournamentProjected, RedisCoordinate
  <2> QED
    BY <2>1, <2>3 DEF Init, TournamentInv, IdleProjector
<1>2. ClockInv /\ TournamentInv /\ [Next]_vars => TournamentInv'
  BY StepShape, WorldStep, TournamentSteps, TournamentKept
<1>3. TournamentInv => TournamentProjected
  BY DEF TournamentInv
<1>4. Spec => Init /\ [][Next]_vars
  BY PTL DEF Spec
<1> QED
  BY <1>1, <1>2, <1>3, <1>4, InvHolds, PTL

\* A projection never undoes a tournament write that Redis has accepted.
THEOREM WritesKept == Spec => ProjectionKeepsWrites
<1>1. ClockInv /\ [Next]_vars =>
        [redis'.checksum # redis.checksum =>
            tournament'.stage = tournament.stage /\ tournament'.edits = tournament.edits]_vars
  <2> SUFFICES ASSUME ClockInv, [Next]_vars, redis'.checksum # redis.checksum
      PROVE  tournament'.stage = tournament.stage /\ tournament'.edits = tournament.edits
    OBVIOUS
  <2>1. PICK p \in Projectors : Rebuilds(p) /\ Rebuild(p)
    <3>1. ASSUME NEW phase, redis' = Marks(phase) PROVE FALSE
      BY <3>1 DEF Marks, ClockInv, TypeOK, RedisClock
    <3>2. ASSUME NEW w \in Writers,
                 redis' = [redis EXCEPT !.revision = writer[w].revision,
                                        !.generation = writer[w].generation, !.phase = "RUNNING"]
          PROVE  FALSE
      BY <3>2 DEF ClockInv, TypeOK, RedisClock
    <3>3. RedisShape
      BY StepShape DEF Shape
    <3> QED
      BY <3>1, <3>2, <3>3 DEF RedisShape
  <2>2. CASE proj[p].seen.stage = "absent"
    BY <2>1, <2>2 DEF Rebuild
  <2>3. CASE proj[p].seen.stage # "absent"
    <3>1. tournament = proj[p].seen /\ tournament' = projectTournamentState(p)
      BY <2>1, <2>3 DEF Rebuilds, Rebuild
    <3> QED
      BY <3>1 DEF projectTournamentState, ClockInv, TypeOK, Tournament
  <2> QED
    BY <2>2, <2>3
<1>2. Spec => [][Next]_vars
  BY PTL DEF Spec
<1> QED
  BY <1>1, <1>2, InvHolds, PTL DEF ProjectionKeepsWrites
=============================================================================
