------------------------------- MODULE Auction -------------------------------
(***************************************************************************)
(* The auctions of one profile: the rows of PostgreSQL that the turn       *)
(* daemon opens, raises and settles in its command transactions, the       *)
(* finalize commands of the event table, the timer set of Redis, and the   *)
(* auction worker that turns a due timer into a finalize command.          *)
(*                                                                         *)
(* A timer is only a hint: it is put by API requests after their command   *)
(* was answered, in any order or not at all, taken before the command it   *)
(* causes is durable, and rebuilt when the clock moves.  What a close is,  *)
(* and whether it has come, is decided by the row; a finalize command is   *)
(* named by the auction, the close and a retry number.                     *)
(*                                                                         *)
(* Time is the game tick; dates are its projections and left out.  Amounts *)
(* are the bids; whether a general can afford one, and which unique items  *)
(* he carries, is up to the rest of the game.  Of the bids of an auction   *)
(* only the highest is ever read again, and a new one is always higher.    *)
(***************************************************************************)
EXTENDS Integers, FiniteSets

CONSTANTS
    Auctions, Generals,
    NoOne,         \* host of a merchant's auction, holder of nothing
    Amounts,       \* the bids
    FinishBid,     \* finishBidAmount of the resource auctions
    Duration,      \* ticks from opening to close
    Turn,          \* ticks of a turn: the close after a finishing bid
    BidExtension,  \* ticks a late bid keeps an auction open
    CapMargin,     \* ticks after the first close that bids may extend to
    Shifts,        \* ticks by which a reconciliation or a rebase may move
    MaxTick, MaxFaults, MaxHints   \* bounds of the runs

ASSUME TicksAssumption ==
    /\ Duration \in Nat /\ Turn \in Nat \ {0}
    /\ BidExtension \in Nat \ {0} /\ CapMargin \in Nat
    /\ Shifts \subseteq Nat \ {0}
ASSUME AmountsAssumption == Amounts \subseteq Nat \ {0} /\ FinishBid \in Nat
ASSUME BoundsAssumption == MaxTick \in Nat /\ MaxFaults \in Nat /\ MaxHints \in Nat
ASSUME NoOneAssumption == NoOne \notin Generals

VARIABLES
    tick,     \* the game clock
    clock,    \* its phase and revision in world_state
    redis,    \* the clock fence in Redis
    auction,  \* the auction rows
    top,      \* the highest bid of each auction
    paid,     \* what each general has paid into each auction, net
    lot,      \* who holds the goods of each auction
    alive,    \* the generals that exist
    united,   \* one nation holds every city: isunited of the world
    events,   \* the auctionFinalize commands of input_event
    timers,   \* the timer set in Redis
    hints,    \* zAdds of API requests under way
    worker,   \* the auction worker
    faults    \* failures, departures, suspensions, rebases and unifications so far

vars == <<tick, clock, redis, auction, top, paid, lot, alive, united, events,
          timers, hints, worker, faults>>

game == <<auction, top, paid, lot, alive, united>>
clocks == <<tick, clock, redis>>

NoTimer == -1
Nobody == [general |-> NoOne, amount |-> 0, extend |-> FALSE]
Escrow == "escrow"

\* AUCTION_FINALIZE_RECOVERY_LIMIT: a close has a first command and one retry.
Retries == {0, 1}

Rows == [status : {"ABSENT", "OPEN", "FINALIZING", "FINISHED", "CANCELED"},
         kind : {"RESOURCE", "UNIQUE"},
         host : Generals \cup {NoOne},
         opened : Nat, close : Nat, latest : Nat, extensions : Nat,
         cut : BOOLEAN]
Bids == [general : Generals \cup {NoOne}, amount : Amounts \cup {0}, extend : BOOLEAN]
Commands == [auction : Auctions, close : Nat, retry : Retries,
             status : {"PENDING", "ACCEPTED", "OK", "REFUSED", "FAILED"}, at : Nat]

IdleWorker == [pc |-> "load", now |-> 0, revision |-> 0, popped |-> {}, pending |-> {}]

Live(a) == auction[a].status \in {"OPEN", "FINALIZING"}

Init ==
    /\ tick = 0
    /\ clock = [phase |-> "RUNNING", revision |-> 1]
    /\ redis = clock
    /\ auction = [a \in Auctions |->
                     [status |-> "ABSENT", kind |-> "RESOURCE", host |-> NoOne, opened |-> 0,
                      close |-> 0, latest |-> 0, extensions |-> 0, cut |-> FALSE]]
    /\ top = [a \in Auctions |-> Nobody]
    /\ paid = [a \in Auctions |-> [g \in Generals |-> 0]]
    /\ lot = [a \in Auctions |-> NoOne]
    /\ alive = Generals
    /\ united = FALSE
    /\ events = {}
    /\ timers = [a \in Auctions |-> NoTimer]
    /\ hints = {}
    /\ worker = IdleWorker
    /\ faults = 0

-----------------------------------------------------------------------------
(***************************************************************************)
(* Commands of the players, executed and committed by the daemon while the *)
(* clock runs.  The API request that waited for one then adds a timer.     *)
(***************************************************************************)

\* The API request goes on to add a timer, unless its process dies or Redis
\* does not answer; at most MaxHints are under way.
Hint(a, score) ==
    hints' \in {hints} \cup {h \in {hints \cup {<<a, score>>}} : Cardinality(h) <= MaxHints}

\* A general has one live auction of a kind.
FreeHost(g, kind) ==
    \A a \in Auctions : Live(a) => auction[a].host # g \/ auction[a].kind # kind

\* openResourceAuction, and the merchants' auctions of a new month, which
\* go on after the unification and which no API request adds a timer for.  An open that is executed late is one
\* that nobody has seen yet.
OpenResource(a, host) ==
    /\ clock.phase = "RUNNING"
    /\ auction[a].status = "ABSENT"
    /\ host # NoOne => ~ united /\ host \in alive /\ FreeHost(host, "RESOURCE")
    /\ auction' = [auction EXCEPT ![a] = [@ EXCEPT !.status = "OPEN", !.kind = "RESOURCE",
                      !.host = host, !.opened = tick, !.close = tick + Duration]]
    /\ lot' = [lot EXCEPT ![a] = Escrow]
    /\ IF host = NoOne THEN UNCHANGED hints ELSE Hint(a, tick + Duration)
    /\ UNCHANGED <<clocks, top, paid, alive, united, events, timers, worker, faults>>

\* openUniqueAuction: the host is the first bidder and pays at once.
OpenUnique(a, host, amount) ==
    /\ clock.phase = "RUNNING" /\ ~ united
    /\ auction[a].status = "ABSENT"
    /\ host \in alive /\ FreeHost(host, "UNIQUE")
    /\ auction' = [auction EXCEPT ![a] = [@ EXCEPT !.status = "OPEN", !.kind = "UNIQUE",
                      !.host = host, !.opened = tick, !.close = tick + Duration,
                      !.latest = tick + Duration + CapMargin, !.extensions = 1]]
    /\ top' = [top EXCEPT ![a] = [general |-> host, amount |-> amount, extend |-> FALSE]]
    /\ paid' = [paid EXCEPT ![a][host] = amount]
    /\ Hint(a, tick + Duration)
    /\ UNCHANGED <<clocks, lot, alive, united, events, timers, worker, faults>>

\* extendCloseDate, for a bid made at tick at.  The cap is a date that no
\* reconciliation and no rebase moves.
ExtendedClose(a, at) ==
    LET extended == at + BidExtension IN
    IF extended <= auction[a].close THEN auction[a].close
    ELSE IF auction[a].kind = "UNIQUE" /\ extended > auction[a].latest
         THEN auction[a].latest
         ELSE extended

\* The close after a bid: the instant sale leaves one more turn.
NextClose(a, amount, at) ==
    IF auction[a].kind = "RESOURCE" /\ amount = FinishBid
    THEN at + Turn ELSE ExtendedClose(a, at)

\* Mutant of MayBid: the bid is not compared with the one that stands.
MayBidUnder(a, g, amount, at) ==
    /\ auction[a].status = "OPEN"
    /\ at <= auction[a].close
    /\ auction[a].kind = "RESOURCE" => amount <= FinishBid /\ g # auction[a].host
    /\ g \in alive
    /\ top[a].general \in alive \cup {NoOne}

\* hasAuctionClosePassed, the amount, the bidder, and the bidder to refund.
MayBid(a, g, amount, at) ==
    /\ auction[a].status = "OPEN"
    /\ at <= auction[a].close
    /\ amount > top[a].amount
    /\ auction[a].kind = "RESOURCE" => amount <= FinishBid /\ g # auction[a].host
    /\ g \in alive
    /\ top[a].general \in alive \cup {NoOne}

\* Mutant of Payments: the bidder's own earlier bid is not deducted.
PaymentsInFull(a, g, amount) ==
    [h \in Generals |-> IF h = g THEN paid[a][h] + amount
                        ELSE IF h = top[a].general THEN paid[a][h] - top[a].amount
                        ELSE paid[a][h]]

\* The bidder pays the difference to his own standing bid (shouldUsePrevBid),
\* or the whole while the outbid general gets his money back.
Payments(a, g, amount) ==
    [h \in Generals |->
        IF h = g THEN paid[a][h] + amount - (IF g = top[a].general THEN top[a].amount ELSE 0)
        ELSE IF h = top[a].general THEN paid[a][h] - top[a].amount
        ELSE paid[a][h]]

\* createAuctionBidder.bid.  A command that was claimed, failed and tried
\* again keeps the tick of its first claim, so at may lie in the past.
Bid(a, g, amount, extend, at) ==
    /\ clock.phase = "RUNNING" /\ ~ united
    /\ MayBid(a, g, amount, at)
    /\ auction[a].kind = "RESOURCE" => extend
    /\ auction' = [auction EXCEPT ![a].close = NextClose(a, amount, at),
                                  ![a].cut = @ \/ ExtendedClose(a, at) < auction[a].close]
    /\ top' = [top EXCEPT ![a] = [general |-> g, amount |-> amount, extend |-> extend]]
    /\ paid' = [paid EXCEPT ![a] = Payments(a, g, amount)]
    /\ Hint(a, NextClose(a, amount, at))
    /\ UNCHANGED <<clocks, lot, alive, united, events, timers, worker, faults>>

\* The zAdd of an API request, possibly after those of later requests.
AddTimer(a, score) ==
    /\ <<a, score>> \in hints
    /\ hints' = hints \ {<<a, score>>}
    /\ timers' = [timers EXCEPT ![a] = score]
    /\ UNCHANGED <<clocks, game, events, worker, faults>>

-----------------------------------------------------------------------------
(***************************************************************************)
(* The finalize command.                                                   *)
(***************************************************************************)
Replaced(e, f) == (events \ {e}) \cup {f}

\* The tick of an answered command is not read again.
Answered(e, answer) == events' = Replaced(e, [e EXCEPT !.status = answer, !.at = 0])

\* The first claim gives the command its tick, which a reconciliation moves
\* along (convertTick).
Accept(e) ==
    /\ clock.phase = "RUNNING"
    /\ e.status = "PENDING"
    /\ events' = Replaced(e, [e EXCEPT !.status = "ACCEPTED", !.at = tick])
    /\ UNCHANGED <<clocks, game, timers, hints, worker, faults>>

\* publishCommandError, after the last attempt.
EventFails(e) ==
    /\ e.status = "ACCEPTED"
    /\ faults < MaxFaults
    /\ faults' = faults + 1
    /\ Answered(e, "FAILED")
    /\ UNCHANGED <<clocks, game, timers, hints, worker>>

\* Mutant of Current: the deadline is the one the command was made for.
CurrentByCommand(e) == e.close <= e.at

\* isAuctionFinalizeGenerationCurrent and hasAuctionFinalizeDeadlineArrived.
Current(e) ==
    LET row == auction[e.auction] IN
    row.status = "OPEN" => row.close = e.close /\ row.close <= e.at

\* The refusals that leave the row as it is, and the repeated success.
FinalizeNothing(e) ==
    LET row == auction[e.auction] IN
    /\ \/ row.status \in {"FINISHED", "CANCELED"} /\ Answered(e, "OK")
       \/ Live(e.auction) /\ ~ Current(e) /\ Answered(e, "REFUSED")
    /\ UNCHANGED game

\* A participant is gone: the row stays FINALIZING.
FinalizeOrphan(e, a) ==
    /\ \/ top[a] = Nobody /\ (auction[a].kind = "UNIQUE"
                              \/ auction[a].host \notin alive \cup {NoOne})
       \/ top[a].general \notin alive \cup {NoOne}
    /\ auction' = [auction EXCEPT ![a].status = "FINALIZING"]
    /\ Answered(e, "REFUSED")
    /\ UNCHANGED <<top, paid, lot, alive, united>>

\* No bid: the goods go back to the host.
FinalizeUnsold(e, a) ==
    /\ top[a] = Nobody /\ auction[a].kind = "RESOURCE"
    /\ auction[a].host \in alive \cup {NoOne}
    /\ auction' = [auction EXCEPT ![a].status = "FINISHED"]
    /\ lot' = [lot EXCEPT ![a] = auction[a].host]
    /\ Answered(e, "OK")
    /\ UNCHANGED <<top, paid, alive, united>>

\* cancelWithEscrowRefund: the bidder gets his bid back.
Refund(a) == paid' = [paid EXCEPT ![a][top[a].general] = @ - top[a].amount]

\* The host is gone, or the item cannot be loaded: the bid goes back, the
\* goods are nobody's, and the command is refused although it has settled.
FinalizeCancel(e, a) ==
    /\ top[a].general \in alive
    /\ auction[a].kind = "RESOURCE" => auction[a].host \notin alive \cup {NoOne}
    /\ auction' = [auction EXCEPT ![a].status = "CANCELED"]
    /\ lot' = [lot EXCEPT ![a] = NoOne]
    /\ Refund(a)
    /\ Answered(e, "REFUSED")
    /\ UNCHANGED <<top, alive, united>>

\* Sold: the host of a resource auction gets the price.
FinalizeSold(e, a) ==
    /\ top[a].general \in alive
    /\ auction[a].kind = "RESOURCE" => auction[a].host \in alive \cup {NoOne}
    /\ auction' = [auction EXCEPT ![a].status = "FINISHED"]
    /\ lot' = [lot EXCEPT ![a] = top[a].general]
    /\ paid' = [paid EXCEPT ![a] =
                   [g \in Generals |-> IF g = auction[a].host /\ auction[a].kind = "RESOURCE"
                                       THEN paid[a][g] - top[a].amount ELSE paid[a][g]]]
    /\ Answered(e, "OK")
    /\ UNCHANGED <<top, alive, united>>

\* Mutant of Reopened: the status stays as the transition left it.
ReopenedFinalizing(a, close, latest, host, extensions) ==
    auction' = [auction EXCEPT ![a].status = "FINALIZING", ![a].close = close,
                    ![a].latest = latest, ![a].host = host, ![a].extensions = extensions]

Reopened(a, close, latest, host, extensions) ==
    auction' = [auction EXCEPT ![a].status = "OPEN", ![a].close = close, ![a].latest = latest,
                               ![a].host = host, ![a].extensions = extensions]

\* The highest bidder asked for an extension.
FinalizeExtend(e, a) ==
    LET close == auction[a].close + Turn IN
    /\ Reopened(a, close, close + BidExtension, auction[a].host, auction[a].extensions - 1)
    /\ Answered(e, "REFUSED")
    /\ UNCHANGED <<top, paid, lot, alive, united>>

\* Every copy of the item is held: again in a turn.  The bidder holds too
\* many unique items, or one of this slot: the close moves and the auction
\* becomes a merchant's unless the bidder is its host.
FinalizeBlocked(e, a) ==
    /\ auction[a].kind = "UNIQUE" /\ top[a].general \in alive
    /\ \/ Reopened(a, e.at + Turn, auction[a].latest, auction[a].host, auction[a].extensions)
       \/ \E delay \in {BidExtension, Turn} :
             LET close == auction[a].close + delay IN
             Reopened(a, close, close + BidExtension,
                      IF top[a].general = auction[a].host THEN auction[a].host ELSE NoOne,
                      auction[a].extensions)
    /\ Answered(e, "REFUSED")
    /\ UNCHANGED <<top, paid, lot, alive, united>>

WantsExtension(a) ==
    auction[a].kind = "UNIQUE" /\ top[a].extend /\ auction[a].extensions > 0

\* createAuctionFinalizer.finalize, in the command's transaction.
Finalize(e) ==
    LET a == e.auction IN
    /\ clock.phase = "RUNNING"
    /\ e.status = "ACCEPTED"
    /\ \/ FinalizeNothing(e)
       \/ /\ Live(a) /\ Current(e)
          /\ IF WantsExtension(a) THEN FinalizeExtend(e, a)
             ELSE \/ FinalizeOrphan(e, a) \/ FinalizeUnsold(e, a) \/ FinalizeCancel(e, a)
                  \/ FinalizeSold(e, a) \/ FinalizeBlocked(e, a)
    /\ UNCHANGED <<clocks, timers, hints, worker, faults>>

\* A general dies, is deleted or leaves.
Leave(g) ==
    /\ clock.phase = "RUNNING"
    /\ g \in alive
    /\ faults < MaxFaults
    /\ faults' = faults + 1
    /\ alive' = alive \ {g}
    /\ UNCHANGED <<clocks, auction, top, paid, lot, united, events, timers, hints, worker>>

\* The month in which one nation holds every city ends the auctions of unique
\* items: all that are not decided are cancelled, whatever their close, and
\* their bids go back.  If a bidder is gone the transaction is given up.
Unify ==
    LET ended == {a \in Auctions : Live(a) /\ auction[a].kind = "UNIQUE"} IN
    /\ clock.phase = "RUNNING" /\ ~ united
    /\ \A a \in ended : top[a].general \in alive \cup {NoOne}
    /\ faults < MaxFaults
    /\ faults' = faults + 1
    /\ united' = TRUE
    /\ auction' = [a \in Auctions |-> IF a \in ended THEN [auction[a] EXCEPT !.status = "CANCELED"]
                                      ELSE auction[a]]
    /\ lot' = [a \in Auctions |-> IF a \in ended THEN NoOne ELSE lot[a]]
    /\ paid' = [a \in Auctions |-> [g \in Generals |->
                  IF a \in ended /\ g = top[a].general THEN paid[a][g] - top[a].amount
                  ELSE paid[a][g]]]
    /\ UNCHANGED <<clocks, top, alive, events, timers, hints, worker>>

-----------------------------------------------------------------------------
(***************************************************************************)
(* The clock, as far as the auctions see it (module ClockReconciliation).  *)
(***************************************************************************)
Tick ==
    /\ clock.phase = "RUNNING"
    /\ tick < MaxTick
    /\ tick' = tick + 1
    /\ UNCHANGED <<clock, redis, game, events, timers, hints, worker, faults>>

Suspend ==
    /\ clock.phase = "RUNNING"
    /\ faults < MaxFaults
    /\ faults' = faults + 1
    /\ clock' = [clock EXCEPT !.phase = "SUSPENDED"]
    /\ redis' \in {redis, clock'}
    /\ UNCHANGED <<tick, game, events, timers, hints, worker>>

\* applyParticipantShift: the clock, the closes and the ticks of commands
\* that are not finished move by the shift.  The turns that the clock is to
\* catch up beyond the shift are Tick steps after it runs again.
Reconcile(shift) ==
    /\ clock.phase = "SUSPENDED"
    /\ clock' = [phase |-> "RECONCILING", revision |-> clock.revision + 1]
    /\ tick' = tick + shift
    /\ auction' = [a \in Auctions |->
                      IF Live(a) THEN [auction[a] EXCEPT !.close = @ + shift, !.opened = @ + shift]
                      ELSE auction[a]]
    /\ events' = {IF e.status = "ACCEPTED" THEN [e EXCEPT !.at = @ + shift] ELSE e : e \in events}
    /\ UNCHANGED <<redis, top, paid, lot, alive, united, timers, hints, worker, faults>>

\* The projection rebuilds the timers, and the clock runs again.
Project ==
    /\ clock.phase = "RECONCILING"
    /\ clock' = [clock EXCEPT !.phase = "RUNNING"]
    /\ redis' = clock'
    /\ timers' = [a \in Auctions |-> IF Live(a) THEN auction[a].close ELSE NoTimer]
    /\ UNCHANGED <<tick, game, events, hints, worker, faults>>

\* The realtime backlog rebase moves the closes of open auctions.
Rebase(shift) ==
    /\ clock.phase = "RUNNING"
    /\ faults < MaxFaults
    /\ faults' = faults + 1
    /\ auction' = [a \in Auctions |->
                      IF auction[a].status = "OPEN" THEN [auction[a] EXCEPT !.close = @ + shift]
                      ELSE auction[a]]
    /\ UNCHANGED <<clocks, top, paid, lot, alive, united, events, timers, hints, worker>>

-----------------------------------------------------------------------------
(***************************************************************************)
(* The auction worker.                                                     *)
(***************************************************************************)

\* The step after the resynchronization.
AfterSeed == IF worker.pending = {} THEN "pop" ELSE "pending"

\* Mutant of Load: the timers are not read from the rows again.
LoadOnly(resync) ==
    /\ worker.pc = "load" /\ clock.phase = "RUNNING" /\ redis = clock
    /\ worker' = [worker EXCEPT !.pc = AfterSeed, !.now = tick, !.revision = clock.revision]
    /\ UNCHANGED <<clocks, game, events, timers, hints, faults>>

\* A pass of the loop: the clock, and the fence of Redis that agrees with it.
\* The resynchronization is due or not.
Load(resync) ==
    /\ worker.pc = "load"
    /\ clock.phase = "RUNNING"
    /\ redis = clock
    /\ worker' = [worker EXCEPT !.pc = IF resync THEN "seed" ELSE AfterSeed,
                                !.now = tick, !.revision = clock.revision]
    /\ UNCHANGED <<clocks, game, events, timers, hints, faults>>

\* resolveAuctionSeedScore.
SeedScore(a, now) == IF auction[a].status = "FINALIZING" THEN now ELSE auction[a].close

\* seedAuctionTimers, which loads the time again.
Seed ==
    /\ worker.pc = "seed"
    /\ timers' = [a \in Auctions |-> IF Live(a) THEN SeedScore(a, tick) ELSE timers[a]]
    /\ worker' = [worker EXCEPT !.pc = AfterSeed]
    /\ UNCHANGED <<clocks, game, events, hints, faults>>

\* A command for the auction's close has not been answered.
Unanswered(a) ==
    \E e \in events : /\ e.auction = a /\ e.close = auction[a].close
                      /\ e.status \in {"PENDING", "ACCEPTED"}

\* reconcilePendingAuctionTimers: the timer of an auction that waits for its
\* command is removed, the others' are put again.
ReconcilePending ==
    /\ worker.pc = "pending"
    /\ timers' = [a \in Auctions |->
                     IF a \notin worker.pending \/ ~ Live(a) THEN timers[a]
                     ELSE IF Unanswered(a) THEN NoTimer ELSE SeedScore(a, worker.now)]
    /\ worker' = [worker EXCEPT !.pc = "pop", !.pending = {a \in @ : Live(a) /\ Unanswered(a)}]
    /\ UNCHANGED <<clocks, game, events, hints, faults>>

\* popDueAuctionIds: the script takes what is due, if the fence still holds.
Pop ==
    LET due == {a \in Auctions : timers[a] # NoTimer /\ timers[a] <= worker.now} IN
    /\ worker.pc = "pop"
    /\ IF redis.revision = worker.revision /\ redis.phase = "RUNNING" /\ due # {}
       THEN /\ worker' = [worker EXCEPT !.pc = "process", !.popped = due]
            /\ timers' = [a \in Auctions |-> IF a \in due THEN NoTimer ELSE timers[a]]
       ELSE /\ worker' = [IdleWorker EXCEPT !.pending = worker.pending]
            /\ UNCHANGED timers
    /\ UNCHANGED <<clocks, game, events, hints, faults>>

Command(a, retry) ==
    {e \in events : e.auction = a /\ e.close = auction[a].close /\ e.retry = retry}

\* Mutant of NextRetry: a single command for each close.
NextRetryOnce(a) == {r \in {0} : Command(a, 0) = {}}

\* The first command of the close that does not exist yet, unless one before
\* it is still unanswered.
NextRetry(a) ==
    {r \in Retries : /\ Command(a, r) = {}
                     /\ \A q \in 0 .. r - 1 :
                           \E e \in Command(a, q) : e.status \in {"REFUSED", "FAILED"}}

\* The worker's clock is no longer the database's.
FenceFails == clock.phase # "RUNNING" \/ clock.revision # worker.revision

NotDue(a) == auction[a].status = "OPEN" /\ worker.now < auction[a].close

\* The worker goes on to the next due auction, or to the next pass.
Processed(a, pending) ==
    worker' = IF worker.popped = {a} THEN [IdleWorker EXCEPT !.pending = pending]
              ELSE [worker EXCEPT !.popped = @ \ {a}, !.pending = pending]

\* RESCHEDULED: nothing was written, the timer is put again.
Reschedule(a, score) ==
    /\ timers' = [timers EXCEPT ![a] = score]
    /\ Processed(a, worker.pending)
    /\ UNCHANGED events

CreateCommand(a) ==
    /\ \E r \in NextRetry(a) :
          events' = events \cup {[auction |-> a, close |-> auction[a].close, retry |-> r,
                                  status |-> "PENDING", at |-> 0]}
    /\ Processed(a, worker.pending \cup {a})
    /\ UNCHANGED timers

\* IGNORED, still PENDING, or an error that is logged.
NothingToCreate(a) ==
    /\ Live(a) => NextRetry(a) = {}
    /\ Processed(a, IF Live(a) /\ Unanswered(a) THEN worker.pending \cup {a} ELSE worker.pending)
    /\ UNCHANGED <<events, timers>>

\* processDueAuctionId: the transaction, and what the worker does next.
Process(a) ==
    /\ worker.pc = "process"
    /\ a \in worker.popped
    /\ \/ FenceFails /\ Reschedule(a, worker.now)
       \/ ~ FenceFails /\ NotDue(a) /\ Reschedule(a, auction[a].close)
       \/ /\ ~ FenceFails /\ ~ NotDue(a)
          /\ (Live(a) /\ CreateCommand(a)) \/ NothingToCreate(a)
    /\ UNCHANGED <<clocks, game, hints, faults>>

WorkerCrash ==
    /\ faults < MaxFaults
    /\ faults' = faults + 1
    /\ worker # IdleWorker
    /\ worker' = IdleWorker
    /\ UNCHANGED <<clocks, game, events, timers, hints>>

-----------------------------------------------------------------------------
WorkerStep ==
    \/ Load(TRUE) \/ Load(FALSE) \/ Seed \/ ReconcilePending \/ Pop
    \/ \E a \in Auctions : Process(a)

Players ==
    \/ \E a \in Auctions, host \in Generals \cup {NoOne} : OpenResource(a, host)
    \/ \E a \in Auctions, host \in Generals, amount \in Amounts : OpenUnique(a, host, amount)
    \/ \E a \in Auctions, g \in Generals, amount \in Amounts, extend \in BOOLEAN :
          \E at \in auction[a].opened .. tick : Bid(a, g, amount, extend, at)
    \/ \E hint \in hints : AddTimer(hint[1], hint[2])
    \/ \E g \in Generals : Leave(g)

Engine == \E e \in events : Accept(e) \/ Finalize(e) \/ EventFails(e)

Clock ==
    \/ Tick \/ Suspend \/ Project
    \/ \E shift \in Shifts : Reconcile(shift) \/ Rebase(shift)

Next == Players \/ Engine \/ Unify \/ Clock \/ WorkerStep \/ WorkerCrash

Fairness ==
    /\ WF_vars(WorkerStep) /\ SF_vars(Load(TRUE))
    /\ \A a \in Auctions : WF_vars(\E e \in events : e.auction = a /\ (Accept(e) \/ Finalize(e)))

Spec == Init /\ [][Next]_vars /\ Fairness

-----------------------------------------------------------------------------
(***************************************************************************)
(* Properties.                                                             *)
(***************************************************************************)

\* Every variable has its type.  A command is a first one or the one retry of
\* its close: processDueAuctionId never makes up a third name.
TypeOK ==
    /\ tick \in Nat
    /\ clock \in [phase : {"RUNNING", "SUSPENDED", "RECONCILING"}, revision : Nat]
    /\ redis \in [phase : {"RUNNING", "SUSPENDED", "RECONCILING"}, revision : Nat]
    /\ auction \in [Auctions -> Rows]
    /\ top \in [Auctions -> Bids]
    /\ paid \in [Auctions -> [Generals -> Int]]
    /\ lot \in [Auctions -> Generals \cup {NoOne, Escrow}]
    /\ alive \subseteq Generals
    /\ united \in BOOLEAN
    /\ events \subseteq Commands
    /\ timers \in [Auctions -> Nat \cup {NoTimer}]
    /\ hints \subseteq Auctions \X Nat
    /\ worker \in [pc : {"load", "seed", "pending", "pop", "process"}, now : Nat, revision : Nat,
                   popped : SUBSET Auctions, pending : SUBSET Auctions]
    /\ faults \in 0 .. MaxFaults

\* What general g owes auction a: his standing bid while it is live, the
\* price if he has won, the price he was paid as the host of resources.
Owes(a, g) ==
    LET row == auction[a] IN
    (IF g = top[a].general /\ row.status # "CANCELED" THEN top[a].amount ELSE 0)
    - (IF g = row.host /\ row.kind = "RESOURCE" /\ row.status = "FINISHED"
       THEN top[a].amount ELSE 0)

\* Money is neither lost nor made: outbid generals have all of theirs back,
\* the standing bid is held once although its bidder raised it himself, the
\* price reaches the host once, and the goods are where the money is.
Settled ==
    \A a \in Auctions :
        /\ \A g \in Generals : paid[a][g] = Owes(a, g)
        /\ auction[a].status = "FINISHED" =>
              lot[a] = IF top[a] = Nobody THEN auction[a].host ELSE top[a].general
        /\ auction[a].status = "CANCELED" => lot[a] = NoOne

\* An open auction can always be finalized: the two names that a close has
\* for its command are never both used up, however often the close moves
\* away and back, unless commands failed or a bid was cut back by the cap.
NotExhausted ==
    \A a \in Auctions :
        auction[a].status = "OPEN" =>
            \/ Unanswered(a) \/ NextRetry(a) # {}
            \/ auction[a].cut
            \/ \E e \in events : e.auction = a /\ e.status = "FAILED"

\* An auction stays FINALIZING only when its host or its highest bidder is
\* gone.
OnlyOrphansWait ==
    \A a \in Auctions :
        auction[a].status = "FINALIZING" =>
            ~ {auction[a].host, top[a].general} \subseteq alive \cup {NoOne}

\* No auction is decided before its close, as it stands in the coordinates
\* of the moment, although the command was made for an earlier one.  Only the
\* unification ends auctions sooner, once: those of unique items, unsold.
NeverEarly ==
    [][\A a \in Auctions :
          auction[a].status = "OPEN" /\ auction'[a].status # "OPEN" =>
              \/ auction[a].close <= tick
              \/ ~ united /\ united' /\ auction[a].kind = "UNIQUE" /\ auction'[a].status = "CANCELED"]_vars

\* A bid does not bring the close forward, except the one that buys at once.
BidsOnlyExtend ==
    [][\A a \in Auctions :
          top[a] # Nobody /\ top'[a] # top[a] /\ top'[a].amount # FinishBid
              => auction'[a].close >= auction[a].close]_vars

Waiting(a) ==
    /\ auction[a].status = "OPEN" /\ auction[a].close <= tick
    /\ clock.phase = "RUNNING"
    /\ ~ auction[a].cut
    /\ \A e \in events : e.auction = a => e.status # "FAILED"

\* A close that has come is acted upon: the auction is decided or its close
\* moves on, although timers are lost, late or taken by a worker that dies.
DueIsDecided == \A a \in Auctions : Waiting(a) ~> ~ Waiting(a)

-----------------------------------------------------------------------------
(***************************************************************************)
(* The auctions implement AuctionHouse.  Resources have a seller; unique   *)
(* items come from nobody and their price goes to nobody.                  *)
(***************************************************************************)
Stage(a) ==
    CASE auction[a].status = "ABSENT" -> "none"
      [] auction[a].status = "OPEN" -> "open"
      [] auction[a].status = "FINALIZING" -> "stranded"
      [] auction[a].status = "CANCELED" -> "void"
      [] OTHER -> IF top[a].general = NoOne THEN "unsold" ELSE "sold"

Lot(a) ==
    [stage |-> Stage(a),
     seller |-> IF auction[a].kind = "RESOURCE" THEN auction[a].host ELSE NoOne,
     bidder |-> top[a].general, amount |-> top[a].amount, purse |-> paid[a],
     goods |-> IF auction[a].status = "FINISHED" THEN lot[a] ELSE NoOne]

houseBar == [a \in Auctions |-> Lot(a)]

House == INSTANCE AuctionHouse WITH house <- houseBar

\* The bids, finalizations, retries, late commands and departures of a season amount to an
\* auction house: every bid tops the last, an auction is decided once and for the bid that
\* stands, and what is decided - or stranded by a departure - is final.
ImplementsAuctionHouse == House!Spec
=============================================================================
