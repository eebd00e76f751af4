# A TLA+ verification of the hidche core

This directory models the protocols by which one game profile of the hidche
server keeps its world correct: who may write it, how often a request takes
effect, how the game clock moves in three stores at once, how players and the
turn daemon share the queues of reserved turns, and how auctions end; and the
gateway's control plane, which builds, updates, resets and releases profiles
and the gateway itself.  The modules are written from the TypeScript sources;
`PROJECT.json` maps every definition to the lines it models.

- [Inventory](#1-inventory): the system's parts and where they are hard
- [Modules](#2-modules): which module models which part, and how
- [Runs](#3-model-checking): what TLC checks, with which bounds and fairness
- [Proofs](#4-proofs): what TLAPS proves, and along which argument
- [Findings](#5-findings): where code and documents disagree
- [Limits](#6-what-is-not-modelled) and [plan](#7-plan)

## 1. Inventory

A **gateway** (accounts, lobby, orchestrator, release controller) manages any
number of **profiles**.  A profile is a PostgreSQL schema, a Redis prefix, an
**API** (tRPC over HTTP, plus polling workers) and one **turn daemon**, which
holds the whole game world in memory, executes commands and turns on it and
flushes its changes.  PostgreSQL is the authority; Redis carries projections
and the tournament; the daemon's memory is a cache that must never be behind
when it is written back.

```
 players ──HTTP──▶ game API ──input_event rows──▶ turn daemon ──flush──▶ PostgreSQL
                      │  └── own transactions (input-event boundary) ──────▲
                      ├── reserved turns, by revision ────────────────────┤
                      └── tournament and auction workers ──▶ Redis ◀──────┤
 gateway orchestrator ── suspend / resume / open the clock ───────────────┘
                                        projection outbox ──▶ Redis
```

| part | state it keeps | operations | interacts through | what is hard, and what makes it correct |
|---|---|---|---|---|
| turn daemon lease | `turn_daemon_lease` row: owner, expiry, epoch, `clock_ready`; the token and timers of each process | acquire, renew, assertActive, markClockReady, release, watchdog | one row, locked by every flush | statements and replies are delayed, processes stall: a stale daemon must never commit, and must notice that it is stale |
| engine command queue | `input_event` rows for the engine: status, claim, attempts, lease | send, claim, recover, execute, commit, report, retry | API inserts and polls, daemon consumes | claims expire under a live worker, daemons die between any two steps: each request takes effect once and is answered |
| API input-event boundary | `input_event` rows of API mutations, with identity and result | claim, replay, refuse, commit, record a failure | the row lock, the business code's transaction | repeated and concurrent calls, lost acknowledgements, rows of an older boundary: one execution, one result |
| game clock reconciliation | `world_state` clock, `clock_suspension` ledgers, `clock_projection_outbox`, Redis clock keys, the tournament, the daemon's clock | suspend, reconcile, project, finalize, fence, synchronize | gateway, projection workers, tournament writers, daemon | three stores, no common transaction: every shift is absorbed once by each, old writers are fenced off |
| reserved turns | turn lists with `general_turn_revision`, `nation_turn_revision`; the daemon's copies | edit, lease, refresh, execute, flush | players' compare-and-swap against the daemon's leases | leases expire during a run, runs are rolled back: no edit is overwritten unread |
| turn daemon lifecycle loop | pause flags, next run, last error | loop, pause gate, commands, run, backlog rebase | all of the above | ordering of pause, failure and recovery |
| gateway operation queue, orchestrator | `gateway_operation` rows with leases and logs, `gateway_profile`, PM2 processes, game schemas and seasons | request, bulk request, claim, renew, pin, build, stop, migrate, seed, start, complete, requeue, cancel, retry | advisory lock, process manager, the release queue | leases expire during long builds, effects are in no transaction: one operation at a time, a worker without its lease does little and reports nothing, a cancelled build changed nothing, an installation never wipes the season it made |
| gateway release queue, release controller | `gateway_release_operation`, active and previous release, gateway processes | request, claim, renew, build, migrate, switch, wait for readiness, roll back, publish | the same advisory lock | what is recorded as released is what runs |
| auctions | `auction` and `auction_bid` rows, Redis timers, the worker's memory of commands under way | open, bid, extend, pop due timers, finalize, retry, resynchronize | engine commands, clock fence, clock shifts | a timer is removed before the command that replaces it is durable, closes move under commands: decided once, in time and eventually, and the money adds up |
| tournament | state and participant lists in Redis, a mutation lock | join, bet, stage machine, auto-start | engine commands for fees, clock fence | sagas over Redis and engine commands; a lock that expires |
| read-model journal, outbox, realtime | change journal, outbox rows, SSE clients | append, claim, publish, mark delivered | Redis pub/sub | at-least-once delivery, expired claims |
| web push outbox | outbox rows, subscriptions | enqueue, lease, send, retry, drop | external push services | as above, with a retry limit |
| messages and diplomacy | letters and their answers | send, answer, expire | engine commands or API events | an answer races the letter's expiry |
| access scoring, audit, archives | counters, decision logs, yearbooks | append | inside other transactions | best effort |
| monthly handlers, commands, AI | the game world | one turn or month | runs inside one daemon run | sequential numeric rules |
| seeding and reset | a profile's initial world | seed, reset | an operation of the gateway | an installation that is attempted again must recognise its own season |
| game-time arithmetic | none | tick/wall projections, alignment | used by the clock | rounding at boundaries |
| gateway accounts, sessions, lobby | users, sessions in Redis | log in, register, list | single rows | short requests |
| shutdown, polling workers | process state | start, stop | signals | the models let every process stop anywhere |
| frontends, tools, resources | none | | | presentation and data |

The hazards, each at the line where it bites, are listed in `PROJECT.json`
with the properties that would catch them.

## 2. Modules

| module | models |
|---|---|
| `TurnDaemonLease` | `databaseTurnDaemonLease.ts` and its use by `turnDaemon.ts`, `databaseHooks.ts` |
| `EngineEvents` | `databaseCommandQueue.ts`, `databaseTransport.ts`, the command path of `turnDaemonLifecycle.ts`, `engineStateManager.ts`, the command fence of `databaseHooks.ts` |
| `ApiInputEvent` | `inputEventBoundary.ts` |
| `SingleWriter` | the abstract promise of the lease: one process at a time writes the world, from a fresh copy |
| `ExactlyOnce` | the abstract promise that both queues of requests implement |
| `SerialJobs` | the abstract promise of the gateway's two operation queues |
| `AuctionHouse` | the abstract promise of an auction to its bidders and its seller |
| `ClockReconciliation` | `clockReconciliation.ts`, `clockProjectionOutbox.ts`, the orchestrator's clock transitions, `redisClockFence.ts`, the tournament's fenced writes, the daemon's clock synchronization |
| `ReservedTurns` | `reservedTurns.ts` (players), `reservedTurnStore.ts` and its callers (daemon) |
| `GatewayOperations` | `profileRepository.ts` and `gatewayReleaseRepository.ts` (both queues), the operation handlers of `gatewayOrchestrator.ts`, `releaseController.ts`, the idempotence of `scenarioSeeder.ts` |
| `Auction` | `opener.ts`, `bidder.ts`, `finalizer.ts`, `neutralRegistrar.ts` (engine), `worker.ts`, `scheduler.ts`, `open.ts` and the auction router (API) |
| `MC...` | symmetry sets for TLC |
| `..._proofs` | the theorems of each module |

Definitions with a comment "Mutant" are wrong variants of the definition that
follows them; `PROJECT.json` pairs each property with one that must break it.

**TurnDaemonLease.**  A daemon is one lease object of one process: its owner id
is fresh.  Each statement is sent, executed later with a timestamp anywhere
between sending and execution, and answered later still; a dead process's
statement may still be executed.  `BeginFenced` is `assertActive` inside a
transaction: it takes the row lock that `CommitFenced` or `RollbackFenced` gives
back, so every other statement on the row waits.  `Watchdog` is the local
expiry timer.  `world` and `memory` are version numbers: a flush from the right
memory makes both one larger.

**SingleWriter** knows who the writer is, who has ever been, the world and the
writer's copy of it.  A commit needs a copy that is the world, and leaves it so; a
process that was succeeded never becomes the writer again.  `TurnDaemonLease`
implements it with the row's owner, the processes that have been given an epoch,
and the memory of an owner that has loaded.  `EngineEvents` abstracts from the lease
to `owner`, and implements the same specification with it: the one module shows
that the daemons have a single writer, the other that commands and turns keep it.

**EngineEvents** takes from `TurnDaemonLease` exactly what is proved there
(`SingleWriter`): at any time one daemon is the owner (`owner`), only its fenced transactions
commit, and a new owner has loaded the durable world; a superseded daemon goes
on until it notices.  Requests are rows with status, claim, attempts and an
`expired` flag.  A world is the number of effects of every request and the
number of turn runs.  A flush writes what memory dirtied over what is durable,
so the new durable world may be based on either (`Bases`); they differ only
when memory is stale.  `FailCommand` covers errors of the handler, of the
transaction and refusals by a fence, since the state manager restores its
savepoint for each.  `CommitReplyLost` and `RunReplyLost` are commits that are
durable and look failed; the constant `LostReplies` switches them on.  `held` are
the rows that the claim's filter leaves out at present, because the clock's phase or
revision does not admit their command or because their tick cannot be converted
(`databaseCommandQueue.ts:133-281`).  `Withhold` changes them at any moment, within the
constant `Withheld`.  Errors,
takeovers from a live owner, claims by a daemon that knows its loss and crashes
each count against `MaxFaults`.

**ApiInputEvent.**  A caller is one HTTP call; repetitions are further callers.
The table starts with any row the former boundary may have left.  Between
`Claim` and `Commit` the caller holds the row lock and nobody sees its writes;
`Abort`, `Crash` and `CommitReplyLost` end the transaction in the other ways,
and `markUnexpectedFailure` is the recorder that runs afterwards, in a
transaction of its own.

**ExactlyOnce** has two variables, what a client is told and how often the
durable world contains the effect.  Both queues refine it:
`Promise == INSTANCE ExactlyOnce WITH ...` maps PENDING and PROCESSING rows to
"accepted".  For the API, a FAILED row also maps to "accepted", because a
repeated call may still execute; for the engine FAILED is final.

**ClockReconciliation.**  All deadlines of one store move together, so each
store keeps one number: the sum of the shifts it has absorbed.  `total` is the
history variable they are compared with.  Serializable PostgreSQL transactions
are single steps; between them lie the gateway's mark in Redis, the projector's
five phases (claim, check, read the tournament, script, finalize), the writers'
three (read the clock, fence, write) and the daemon's replay of the ledgers.  A
claim of the outbox may go stale at any moment: `claimNext` may take an
APPLYING row, and nothing stops its first owner.  What a worker has read of the
tournament, and the memory of a daemon that has ended, are forgotten where the code
no longer uses them.  `FirstTournament` and `ScheduleShifts` switch on two
environments in which the tournament falls out of step (section 5, observations).

**ReservedTurns.**  Every write of a queue raises its revision in the same
transaction, so the revision stands for the stored turns; `base` is the version
a copy was read from and `used` the versions whose head the run has executed.
A daemon's run takes a savepoint, lists the due generals with the offices they
hold then (`due`), and for each leases and reads the general's queue and the
office's, executes, and finally flushes.  Leases may be seen expired at any
moment, because the API compares them with its own host's clock.  The
savepoint is restored after every failure, also of a flush that was durable.
`Promotions` says whether a turn may give an office to a general who is still
due in the same run.  Beside the leased refresh of an officer whom the AI commands
(`Autorun`) the daemon prefetches the queues of his nation without a lease
(`prefetch`): the query is sent, read and answered at any moment until the general
runs, which waits for it (`Answered`).

**GatewayOperations.**  Both tables are one set of rows; a row whose target is
`Gateway` is a release, and ids are in the order of `created_at`.  A worker
claims under the advisory lock (a single step that sees both tables), and then
walks the steps of its handler along `Path`: fenced writes (`Mark`, `SetStatus`,
`Publish`, `Complete`, `Requeue`), which name owner and status in their WHERE,
and effects (`ClockOrSchema`, `Seed`, `StopProcess`, `StartProcess`), which
nothing fences.  `ClockOrSchema` stands for everything between two assertions:
`transitionProfileClock` changes ledger, clock and Redis, and on a resume reconciles and
projects, without asserting in between, and counts as one effect.  Before an effect the orchestrator asserts its lease
(`AssertLease`); between the assertion and the effect anything may happen.  The
release controller asserts at the places `Asserts` lists, and not inside its
stop and start loops.  Leases expire at any time (`Expire`), a crash leaves rows
and processes as they are, and a failure takes the handler's own way back
(`Fail`, `Recovery`).  A log line that cannot be written is dropped and the handler
goes on: between `LogFails` and `LogWorks` the steps of a row leave no line, which the
constant `LogOutages` permits and the field `log` remembers.  `touched` and `strayed` are history: whether an attempt
has changed anything outside the control plane, and which targets a worker
without lease has changed.  A season is the key of the installation that made
it, its commit, and whether players have begun it.

**SerialJobs** shows an operator's view: jobs are submitted, started one at a time
after their prerequisites, withdrawn, finished and queued again.  Both tables
together implement it: a row's status is the job's state, and the earlier rows of
its bulk release are its prerequisites.  Workers, leases, takeovers of a running
row, log lines and effects are invisible.

**Auction.**  Time is the tick of the game clock; closes, openings and the
accepted ticks of commands are ticks, and a timer's score is the close it was
set for.  Opening, bidding and finalizing are one daemon transaction each, as
`EngineEvents` establishes for commands; what lies between them is modelled: the
API's `zAdd` after the answer (`hints`, lost or late), the worker's pass (load
the clock, seed, reconcile what is pending, pop, process each), the durable
finalize command with its two possible names, its claim (which fixes the tick
it runs at) and its execution or failure.  Bids carry the tick they were
accepted at, which may lie before the tick they run at.  Suspension,
reconciliation, projection and the rebase of a backlog move the closes; a
general may leave at any time.  `Unify` is the month in which one nation is left: in
the daemon's flush every unique auction that is OPEN or FINALIZING is cancelled
and its standing bid refunded, before its close.  From then on (`united`) players open
and bid no more; merchants' auctions go on.  `paid` is what a general has paid net of what he
got back, and `lot` who has the goods.  Whether a bidder can afford or accept
the goods is a free choice.

**AuctionHouse** has no time, commands, timers or workers: a lot opens, its standing
bid is raised, and it is sold, returned, declared void or stranded, once; the end of
the season voids several at a time.  `Lot`
maps a row with its highest bid, what was paid and who has the goods.  A row that
stays FINALIZING because a participant is gone is a stranded lot, and stays so.

## 3. Model checking

Every run is bounded by named constants.  Deadlock is not an error anywhere: a
bounded game that has finished, or whose last process died, really stops.

| run | question | bounds, and why they are enough |
|---|---|---|
| `lease` | May a stale daemon commit; does it notice; is there a single writer? | 2 daemons, lease of 2, clock up to 3, 1 commit: long enough for a lease to be granted, delayed, expire and be taken over while the first owner's renewal and release are in flight |
| `engine_safety` | Does each request take effect once, and does memory stay durable? | 3 daemon processes (symmetric), 2 requests, 2 attempts, 4 faults, 1 turn run: an expired claim, a takeover, a failure and a crash in one behaviour |
| `engine_lost_replies` | Is every request answered, also when commits look failed? | the same with 2 faults, a malformed request, `LostReplies` and a request that the claim's filter may withhold and admit at any time (`Withheld`); liveness is checked without symmetry |
| `api` | Is one execution the result of all calls? | 3 calls of one id with any identities and payloads, any legacy row: one that executes, one that repeats, one late recorder |
| `clock_safety` | Does every store absorb a reconciliation once? | 2 projectors (symmetric), 1 writer, an administrator's schedule shift, one reconciliation, opening PREOPEN or RUNNING |
| `clock_liveness` | Does a reconciliation end, and does memory catch up? | 2 projectors, only one of which lasts (`Lasting`): the other steals its claims and may stop at any step; a schedule shift that may come between a projection's reading and its script.  No fenced writers: they write at most once on a clock they have read, and with them the graph is too large for TLC's liveness check.  A profile without a tournament is left to the proofs |
| `reserved` | Can a flush overwrite an unread edit? | 1 daemon, a player, an NPC whom the AI commands, one office that either may hold, 2 writes per queue, no promotions: expired leases, rolled-back runs and late prefetches.  A takeover by a second daemon is left to the proof of `SafeQueuesKept` |
| `reserved_office` | And when a turn promotes a general who is still due? (violation) | 1 daemon, a player and an NPC, one office |
| `gateway` | Do two queues, four workers and their faults keep targets, seasons and records consistent? | 1 profile and the gateway, 2 orchestrators, 2 controllers (symmetric), 1 process per target, 2 commits, 2 rows, 1 fault, every type of request but bulk, log outages: a lease or a log line lost or a worker dead at every step of every handler, with a second worker and a second operation to collide with |
| `gateway_liveness` | Does every operation end, and is the queue one of serial jobs? | 1 orchestrator, 1 controller, DEPLOY, RESET, RELEASE and bulk requests, without symmetry: a bulk release of the gateway and a profile, one of whose rows fails or is cancelled and retried.  Bulk rows among several workers of a kind are left to the proof of `QueueIsSerial` |
| `auction` | Is an auction decided once, in time, eventually, with its money settled? | 1 auction of either kind, 2 generals, 2 amounts, one disturbance in each behaviour (the unification counts as one, so a unification after a departure is left to the proofs), one `zAdd` under way: an outbid, a raise, an instant sale, an extension and a shifted close against a command made for the old one |
| `auction_cap` | May a bid bring a close forward? (violation) | the same with a shift larger than the cap's margin |

Two reconciliations in a row, with steps that slept through the first, are left
to the proofs of `RedisInStep` and `ShiftsOnce`, which hold for any number.

**Safety.**  `NoStaleCommit`: an open fenced transaction is the row owner's and
rests on the latest world.  (`Takeover`, that the row changes hands only when
expired, outside fenced transactions, with a larger epoch, is proved and not
run.)  `WatchdogNotLate`:
the local timer, which only knows when the request was sent, never outlasts the
database's lease.  `ReadyIsOwnersRecovery`: `clock_ready` is the present
owner's.  `ImplementsSingleWriter`: of the lease and of the engine queue.
`SucceededIffApplied`, `ResultsAreFinal`, `MemoryIsDurable`, `ImplementsPromise`:
the engine queue.  `NeverTwice`: also with lost replies no effect is durable twice,
or durable beside a row that is not SUCCEEDED.  `AnswersAgree`, `WritesAreTheResults`,
`NoTakeBack`, `ImplementsPromise`: the API boundary.  `ShiftedOnce`,
`TournamentProjected`, `ProjectionKeepsWrites`, `RedisKeepsStep`,
`ReadinessAgrees`, `OnlyReconciliationMovesDeadlines`: the clock
(`TournamentProjected` up to the first schedule shift of an administrator).
`OldNeverOverwritesNew`: reserved turns.

`OneRunning`: at most one operation of both queues is RUNNING.
`ImplementsSerialJobs`: both tables together are one queue of serial jobs; it
contains that no target of a bulk release starts before every earlier one succeeded,
whatever is cancelled or retried (`BulkInOrder`, proved by itself as well).
`OneStrayEffect`: an orchestrator without its lease
completes at most the one effect it had asserted for.  `CancelledBuildUntouched`:
an update cancelled while it builds, in its first attempt and with none of its log lines
lost, has changed no process and no schema, and changes none afterwards.
`SucceededIsPublished`: what ends SUCCEEDED is what its target
publishes and, unless a stray worker interfered, what it runs.  `SeasonKept`: no
attempt of an installation wipes the season it made once it is played.

`Settled`: what each general has paid is what he owes at the auction's present
status, and the goods are with whom they belong to.  `NotExhausted`: an open
auction has a command under way or a name for the next.  `OnlyOrphansWait`: a row
stays FINALIZING only when its host or bidder is gone.  `NeverEarly`: no auction is
decided before its close, in the coordinates of that moment, except that the
unification cancels the unique ones.
`ImplementsAuctionHouse`: to bidders and sellers, all of it is an auction house.

Type invariants are proved for every module; a run checks that of the gateway,
where it carries the division of the rows among the kinds of workers.

**Liveness and its fairness.**

- `SupersededStepsDown` assumes only that a live process's timer fires
  (`setTimeout`), nothing of its database connection.
- `EventuallyAnswered` assumes that a live daemon's loop goes on, that a
  supervisor starts another process when the owner is gone, that row leases run
  out, and that a row which the claim's filter admits from some time on is claimed
  (claims are ordered by sequence and skip only locked rows).  The property is about
  the rows that the filter does not withhold for ever: a COMPLETED clock, a suspension
  that nobody ends and a tick that cannot be converted leave a row PENDING, as do a
  hundred older rows without convertible tick, which fill the claim's LIMIT.  The faults are
  finitely many, as is the number of processes.
- `EveryCallEnds` assumes that a transaction that began ends and that row locks
  are granted in turn.
- `ReconciliationEnds` and `MemoryCatchesUp` assume strong fairness of the steps of
  the lasting projectors, which are tried every second and can each be overtaken by
  another worker, and nothing of the other projectors; a supervisor that restarts the daemon; a month boundary
  that finishes the tournament call it began; and that the daemon's
  synchronization, done in every pass of the loop and after every failed flush,
  eventually runs.
- `OperationsEnd` assumes that a live worker goes on with its steps and polls
  again, that schedules come due and that the lease of a worker that is gone
  expires.  Live workers' leases may expire too, at most `MaxFaults` times.
- `DueIsDecided` (an auction whose close has come is decided or gets a later
  close) assumes that the worker's pass goes on and that passes which resynchronize, done
  every `auctionTimerResyncMs`, come again and again also while others lie between
  (strong fairness), and that the daemon claims and executes an auction's
  commands.  A suspended clock, a failed command, an orphaned row and a close that
  the cap cut back are exempt, as the property says.

## 4. Proofs

`tlapm` proves the following for every value of the constants that satisfies
the named assumptions (sets may be empty or infinite, bounds arbitrary).

| module | theorem | hypothesis beyond `Spec` |
|---|---|---|
| `TurnDaemonLease_proofs` | `TypeCorrect`, `FencedCommits`, `ReadyIsRecovered`, `TakeoverFenced`, `WatchdogSound`, `LeaseIsSingleWriter` | none |
| `EngineEvents_proofs` | `TypeCorrect`, `AnswersFinal`, `AppliedNeverTwice` | none |
| | `SucceededOnce`, `MemoryAgrees`, `QueueImplementsPromise`, `QueueHasSingleWriter` | `~LostReplies` |
| `ApiInputEvent_proofs` | `TypeCorrect`, `AnswersAgreed`, `WrittenOnce`, `NothingTakenBack`, `BoundaryImplementsPromise` | none |
| `ClockReconciliation_proofs` | `TypeCorrect`, `ShiftsOnce`, `ReadinessHolds`, `RedisInStep`, `DeadlinesFenced`, `WritesKept` | none |
| | `TournamentInStep` | `~FirstTournament` |
| `ReservedTurns_proofs` | `TypeCorrect`, `SafeQueuesKept` | none |
| | `OldRevisionsLose` | `~Promotions`, `Autorun \subseteq Npcs` |
| `GatewayOperations_proofs` | `TypeCorrect`, `OneAtATime`, `BulkOrder`, `StrayBound`, `CancelKeeps`, `SuccessIsPublished`, `SeasonSafe`, `QueueIsSerial` | none |
| `Auction_proofs` | `TypeCorrect`, `DecidedInTime`, `OrphansOnly`, `NamesSuffice`, `MoneySettled`, `AuctionsAreAHouse` | none |

**The lease.**  `NoStaleCommit` is not inductive: a takeover could follow a
renewal that is executed late.  `FencingInv` adds that an acquire statement in
flight belongs to a daemon that still waits for it or is dead (`AcquireWaits`),
that an owner which has loaded has the durable world in memory
(`OwnerIsFresh`), and that an open transaction is the owner's
(`TxnIsOwners`).  The watchdog needs time: `WatchdogInv` adds that no lease reaches
further than one duration ahead, that statements in flight are not from the
future, that a release in flight comes from a daemon that has let go, and
(`ExpiryInv`) that every deadline, armed or still to be computed from a reply, is
covered: it has passed, or the daemon owns the row at least that long.  A
renewal in flight is covered because the row can only have been granted from
an earlier request.  For `LeaseIsSingleWriter`, `EpochInv` adds that a daemon has an
epoch exactly from the moment the row first named it: an acquire statement that is
still to be executed, or was refused, is of a daemon without one.  A grant is then a
takeover by a newcomer; `OwnerIsFresh` and `TxnIsOwners` make every commit the
writer's.

**The engine queue.**  `EffectsInv` is the conjunction of the two properties
with types, under `~LostReplies`.  The two need each other: a commit keeps
`SucceededIffApplied` because the owner's memory is the durable world, so that
`Bases` is a singleton, and keeps `MemoryIsDurable` because only the owner
commits.  The refinement maps `ExecuteCommand` to `Apply`, a claim of malformed
rows and a last failed attempt to `Reject`, `SendCommand` to `Accept`.  The same
invariant gives `QueueHasSingleWriter`: flushes are `Commit`, a start is `TakeOver`
with the load.  With lost replies neither property is invariant, since memory may
fall behind its own commit; `SoundInv` says what is left: in the durable world and
in every memory, each effect is of a SUCCEEDED row and there once.  It is inductive
for any owner, because a command only commits while its row is PROCESSING, so that no
world, however stale, contains its effect yet.

**The API boundary.**  `BoundaryInv` adds to the properties that a caller inside
its transaction holds its row's lock and that the row is still claimable for it
(`HoldsItsRow`), and that a stored result belongs to a call with exactly the
row's identity and payload (`ResultIsOwn`).  `RowShape` reduces the steps to
what they do to one row.

**The clock.**  `ClockInv` says how the stores stand to each other: the
coordinates of ledger, outbox and clock (`Coordinates`, `OutboxRows`,
`LedgerOpen`), which rows workers hold (`ProjectorRows`), that what a worker
believes applied is in Redis (`AppliedProjected`), that the gateway's and the
writers' snapshots are of the past (`GatewaySnapshot`, `WriterSnapshot`) and
where Redis stands (`RedisStands`).  `StepShape` first reduces the actions to a
few shapes of change, per store; `WorldStep` derives that the durable clock only
goes on, and each conjunct is then proved from the shapes.  `TournamentInv` adds
the tournament.  It needs its hypothesis, and the exception for a schedule shift in
`TournamentProjected`: without them it is false (section 5, observations).

**Reserved turns.**  The invariant `LeaseInv` says for each daemon: between runs
nothing is dirty and nothing leased (`QuietInv`), which restoring a savepoint
re-establishes; the queues of the general being prepared are leased and, once
refreshed, are the stored version for as long as the lease lasts
(`PreparedInv`); and a dirty queue was leased and consumed in this run, was
executed only at the version its copy was read from, and that version is the
stored one while the lease lasts (`ConsumedInv`); and a prefetch under way is that of
the officer being prepared, and none of its safe queues is his or was consumed
(`PrefetchInv`).  The lemma `NotYetConsumed`
adds that a queue being prepared has not been consumed before, so its copy is
not dirty and the refresh reads it again.  It is the offices' having one holder each, together with
`~Promotions`, that makes "not yet consumed" hold: no office's queue is
prepared twice in one run.  The flush then compares the lease, every edit ends
it, and no edit can hide behind it.  `SafeQueuesKept` states this without
hypotheses, for the queues that are safe whatever is promoted and whomever the AI
commands; under the hypotheses of `OldRevisionsLose` these are all queues that
players edit.

**The gateway.**  `TypeInv` adds to the types that a worker is on a step of its
operation's way (`OnPath`) and how rows relate to the requests that made them
(`Ledger`).  `OneRunning` is then inductive: a claim sees both tables, and no other
step makes a row RUNNING.  `BulkInOrder` needs that the rows of a bulk release are an
interval that later requests never enter.  `StrayInv`: an orchestrator that has had
its stray effect is not armed, has no lease and is past the early steps, so that
its next assertion drops it.  `BuildInv` ties the class of the latest log line to the step
of the lease holder and to `touched`, for rows that have lost no line: cancelling reads
the log, and in the first attempt no worker but the row's owner can write to it.
`EndingInv` adds what follows a cancellation: in a first attempt with a complete log, a
worker that is still on a row which is no longer RUNNING stands before its first
effect, or before one that it only begins after asserting a lease it no longer has.  `ProducedInv` says how
far the lease holder has come: from each step on, the target's row, processes and
season already are what the steps behind it made; other workers either touch
nothing or mark the target `strayed`.  `Quiet` and `OnWay` reduce the handlers'
steps to what they do to one row, so that each invariant is proved for a few
shapes of step.  `QueueIsSerial` goes through the same shapes: requests submit, a
claim starts a row while nothing runs (or takes over the running one, which nobody
sees) and withdraws what it overtakes, and only a RUNNING row is completed or put
back.

**Auctions.**  `TimeInv`: neither the worker's clock nor an accepted command is
ahead of the game clock, through every shift; `DecidedInTime` follows, since a
finalization compares its own tick with the row's close, and the unification is the
exception the property names.  `RowInv` and `OrphanInv`
give the shape of rows.  `CommandInv` is the argument why two names suffice: for an open
auction whose close was never cut back and none of whose commands failed, each
command was made for a close that is past its use (an earlier close, refused or
still to be refused), or for the present close.  A close only moves on, except for
the instant sale, which sets it to the present and after which no bid follows; so
a close is met again at most once, and one retry is enough.  `Balanced` is
`Settled` with what each general owes by status, and every outcome of the
finalization is proved against it.  `BookInv` joins these for `AuctionsAreAHouse`:
because the books are balanced, a decision leaves exactly the purse that the house's
`Sell`, `Return` or `Void` leaves, and the engine's conditions on a bid give that it
tops the last.  Extensions, refusals, clock shifts and everything of the worker keep
the lot (`LotKept`).

Only model-checked: all liveness properties (fairness is outside the prover's
reach) and the violation runs.  Every safety property of a passing run is a theorem.

## 5. Findings

Each is the counterexample of a violation run.

1. **An office given during the run** (`reserved_office`).  The queue that is
   leased is that of the office in the list made at the run's start; the turn
   consumes the queue of the office the general holds now.  A general promoted
   by an earlier turn of the run makes the daemon flush a copy it never leased
   or read again, over a player's newer edit.
2. **A bid that ends its auction** (`auction_cap`).  A late bid extends the close of
   a unique auction, at most to `availableLatestBidCloseDate`, a date fixed when the
   auction opened.  Reconciliations and rebases move the close and not this cap.
   Once a shift has moved the close past the cap, the next late bid sets the close
   back to it, possibly into the past.

Observed while modelling, without a run of their own:

- **A durable commit that looks failed.**  When COMMIT is durable but its
  acknowledgement is lost, `EngineStateManager` restores memory behind the database
  (`engineStateManager.ts:117`) and the owner goes on from there, whereas
  `docs/developer/request-turn-persistence.md:74` keeps database rollback and
  memory restore together.  The answer to the client stays right
  (`engine_lost_replies`); the hypothesis `~LostReplies` of three theorems marks it.
- **Unfenced tournament writes.**  An administrator's schedule shift writes the
  tournament back without the clock fence (`runtimeClockShift.ts:115`; compare
  `docs/architecture/game-clock-reconciliation.md:271`), and a projection that saw no
  tournament compares nothing (`clockProjectionOutbox.ts:68`, same document, line
  197).  Either leaves a tournament in the coordinates of the old revision.  They are
  the exception of `TournamentProjected` and the hypothesis of `TournamentInStep`.  A
  change of the turn interval writes the tournament without a fence as well
  (`runtimeGameSettings.ts:200`), in the same way as the schedule shift; it is not a
  separate action.
- **An officer who lets the AI command.**  A player who has switched the automatic
  command on still reserves turns.  His own queue is then both leased and prefetched
  without a lease, and an answer of the prefetch that was read before the refresh and
  comes after it puts the older turns back (`turnDaemon.ts:891`).  With such a player
  in `Autorun`, `OldNeverOverwritesNew` fails; hence the hypothesis
  `Autorun \subseteq Npcs`.
- **A unification that cannot refund.**  When the highest bidder of a unique auction is
  gone, or has lost his user, the unification's handler throws
  (`unificationHandler.ts:87`), and so does the next month's, until the row is decided
  otherwise.  In the model `Unify` is then not enabled.
- **Stranded auctions.**  A row left FINALIZING because a participant is gone is never
  decided: the retry meets the same absence, and nothing else ends the row
  (`finalizer.ts:533`).
- A daemon that missed two reconciliations refuses the second ledger, since the
  replay of the first leaves its memory RECONCILING (`inMemoryWorld.ts:873`).  The
  refusal ends the process, and the restart loads the durable clock.  `Replays` has
  the refusal, but the runs reach one reconciliation only: `MemoryCatchesUp` is checked
  for one missed ledger, a memory that opened the game first, and restarts.
- A running update may be cancelled while a *later* attempt builds, although an
  earlier attempt has already stopped processes or migrated
  (`profileRepository.ts:1005` tells the administrator that runtime and database are
  kept).  So may one in its first attempt whose 'switch' or 'migration' line was lost
  (`gatewayOrchestrator.ts:1077` drops a failed append): the latest line still says
  'build' while processes are stopped and the database is migrated.
  `CancelledBuildUntouched` is therefore about first attempts with a complete log.
- A bulk release registers its rows beside a RUNNING operation of the same
  profile (`docs/release-operations.md:35`); they wait.
- A crash between `publishRelease` and `completeOperation` makes the second attempt
  record the release as its own predecessor.
- A failed RESET leaves `buildCommitSha` at a commit that was not built.
- A release controller that lost its lease goes on inside its stop and start
  loops, which assert nothing; `OneStrayEffect` is about orchestrators.
- `NotExhausted` depends on the order of the worker's and the database's clocks:
  a worker ahead of the database, or a cap that cuts a close back twice, can use
  up both names.  When host or bidder is gone, the finalization is refused twice
  and every resynchronization reports the exhausted recovery again.

## 6. What is not modelled

- **Reserved turns**: the initial rows of new queues, the queues of deleted
  generals and nations, and what the slots contain (so also a screen whose list and revision were read apart).
- **Clock**: tick arithmetic and alignment policies, MANUAL clocks, the rate
  change of the invader workflow, reset, and the auction timer hints.  Tournament writers
  begin only while the clock is RUNNING; bets, which `ensureBettingRedisClockFence` also
  admits while it is SUSPENDED or MANUAL, are not modelled.  Every refused
  synchronization ends the process, whichever check refused it.
- **Engine queue**: control commands.  Why the claim's filter admits a row or not
  (phase, revision, tick) is abstracted to `Withhold`, a free choice.
- **Gateway**: process reconciliation, the schedule and build-queue loops and the
  legacy administrator actions (they act on snapshots outside the operation
  queue), the differences between PAUSED, PREOPEN and COMPLETED profiles (one status;
  START is therefore a little narrower than `profileStatus.ts:45`, and the status check of
  CANCEL_GAME comes at the start of the handler instead of after the pin), the clearing of
  the tournament's Redis keys between seed and publication
  (`gatewayOrchestrator.ts:2659`), build status, the compare-and-swap of git references, error records,
  static artifacts, the controller's own upgrade, a lost acknowledgement of
  `publishRelease`, timeouts of process-manager calls, deletions that fail for one
  process of a clean-up, workspace clean-up, reserved openings.
- **Auctions**: dates beside ticks and the rounding between them, funds and items
  (free choices), the one-auction-per-slot rule, the history set, the skew of the worker's
  and the database's clocks, an administrator's shift of `close_at`, a unique
  auction whose item cannot be loaded and whose bidder has no user any more,
  corrupt details, and the wall-clock opening of merchants' auctions.  The
  worker's reading of a row and its `zAdd` are one step: a late one is what a late
  `zAdd` of the API already is.
- The lifecycle loop's pause flags and choice of runs, tournament sagas, outboxes,
  messages: see the plan.
- Game rules, AI, archives, accounts, frontends, tools: sequential code, single
  rows or presentation; the repository's comparison tests reach them better than
  a state machine would.  They are by far the largest part of the repository's
  lines, so the models cover its protocols and a small share of its text.

## 7. Plan

In this order; each with an abstract statement, a run and, where marked, a
theorem.

1. **ReservedTurns**: a screen with list and revision read
   apart, new and deleted queues.  Extends `OldNeverOverwritesNew` to what the
   player saw.
2. **TurnLifecycle**: pause requests, pause gate, commands and runs in order, the
   backlog rebase and its failure.  No overdue turn runs on a shifted schedule
   that was rolled back; a resumed loop runs again.  Theorem: the loop's
   invariant.
3. **TournamentSaga**: the mutation lock, fees and participant lists.  Built on
   `ExactlyOnce` for the commands: a fee is kept exactly when its payer is in the
   list.
4. **Outbox**: read-model and web-push delivery, at least once, in the order of
   a single owner.
5. **GatewayOperations**: the process reconciliation beside running operations.
6. **An abstract clock** for `ClockReconciliation`: one history of shifts, of which
   each store has absorbed a prefix, with the refinement as a theorem.
7. **GameClock**: tick and wall projections and alignment as pure operators
   against a reference definition.

Modules compose through what the lower one establishes: the lease gives the
engine queue its single committing owner (`SingleWriter`, a theorem of both), the engine queue gives the sagas their
exactly-once commands, and the clock gives auctions and tournament their fence.
As modules are added, the runs of one component are merged so that each run
keeps asking one question.
