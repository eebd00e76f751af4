--------------------------- MODULE Auction_proofs ---------------------------
(***************************************************************************)
(* Proofs about the auctions, for any auctions, generals, amounts, lengths *)
(* of time, shifts and numbers of failures.                                *)
(***************************************************************************)
EXTENDS Auction, TLAPS

-----------------------------------------------------------------------------
(* The inductive invariants. *)

\* The worker's time and the ticks of claimed commands lie in the past.
TimeInv ==
    /\ worker.now <= tick
    /\ \A e \in events : e.status = "ACCEPTED" => e.at <= tick

\* A highest bid has a bidder, a unique auction has a bid, and an auction that was
\* not opened has neither a bid nor a command.
RowInv(a) ==
    /\ top[a].general = NoOne => top[a] = Nobody
    /\ auction[a].kind = "UNIQUE" => top[a].general # NoOne
    /\ auction[a].status = "ABSENT" =>
          /\ top[a] = Nobody
          /\ auction[a].kind = "RESOURCE"
          /\ \A e \in events : e.auction # a

\* A row that is FINALIZING lost a participant, and no rule reopens it.
OrphanInv(a) ==
    auction[a].status = "FINALIZING" =>
        /\ ~ WantsExtension(a)
        /\ \/ top[a].general = NoOne /\ auction[a].host \notin alive \cup {NoOne}
           \/ top[a].general \notin alive \cup {NoOne}

\* The instant sale: no bid follows it, so the close only moves on.
Bought(a) ==
    auction[a].kind = "RESOURCE" /\ top[a].general # NoOne /\ top[a].amount = FinishBid

Failed(a) == \E e \in events : e.auction = a /\ e.status = "FAILED"

\* Of the commands of an open auction, the first ones, and after the instant
\* sale the retries, are for closes up to the present one, and those for the
\* present one have not been refused.
CommandInv(a) ==
    auction[a].status = "OPEN" /\ ~ auction[a].cut /\ ~ Failed(a) =>
        \A e \in events : e.auction = a =>
            /\ e.status \in {"PENDING", "ACCEPTED", "REFUSED"}
            /\ e.status = "PENDING" => e.close <= tick
            /\ e.status = "ACCEPTED" => e.close <= e.at
            /\ ~ Bought(a) => e.retry = 0
            /\ ~ Bought(a) \/ e.retry = 1 =>
                  /\ e.close <= auction[a].close
                  /\ e.status = "REFUSED" => e.close < auction[a].close

Inv ==
    /\ TimeInv
    /\ \A a \in Auctions : RowInv(a) /\ OrphanInv(a) /\ CommandInv(a)

-----------------------------------------------------------------------------
(* Types. *)

\* An empty schema is well typed.
LEMMA InitTyped == Init => TypeOK
<1> SUFFICES ASSUME Init PROVE TypeOK
  OBVIOUS
<1>1. Nobody \in Bids
  BY DEF Nobody, Bids
<1>2. [status |-> "ABSENT", kind |-> "RESOURCE", host |-> NoOne, opened |-> 0, close |-> 0,
       latest |-> 0, extensions |-> 0, cut |-> FALSE] \in Rows
  BY DEF Rows
<1>3. 0 \in 0 .. MaxFaults
  BY BoundsAssumption
<1>4. united \in BOOLEAN
  BY Zenon DEF Init
<1> QED
  BY <1>1, <1>2, <1>3, <1>4 DEF Init, TypeOK, IdleWorker, NoTimer

\* One row of the table is replaced.
LEMMA RowsTyped ==
    ASSUME TypeOK, NEW a \in Auctions, NEW row \in Rows, auction' = [auction EXCEPT ![a] = row]
    PROVE  auction' \in [Auctions -> Rows]
  BY DEF TypeOK

\* An added timer keeps the hints typed.
LEMMA HintTyped ==
    ASSUME TypeOK, NEW a \in Auctions, NEW score \in Nat, Hint(a, score)
    PROVE  hints' \subseteq Auctions \X Nat
  BY DEF TypeOK, Hint

\* A bid is worth a natural number.
LEMMA AmountTyped ==
    ASSUME TypeOK, NEW a \in Auctions
    PROVE  /\ top[a].amount \in Nat
           /\ \A amount \in Amounts : amount \in Nat /\ amount > 0
<1>1. top[a] \in Bids
  BY DEF TypeOK
<1>2. top[a].amount \in Amounts \cup {0}
  BY <1>1 DEF Bids
<1>3. \A amount \in Amounts : amount \in Nat /\ amount > 0
  BY AmountsAssumption
<1> QED
  BY <1>2, <1>3

\* The close after a bid is a tick.
LEMMA CloseTyped ==
    ASSUME TypeOK, NEW a \in Auctions, NEW at \in Nat, NEW amount
    PROVE  ExtendedClose(a, at) \in Nat /\ NextClose(a, amount, at) \in Nat
<1>1. auction[a].close \in Nat /\ auction[a].latest \in Nat
  BY DEF TypeOK, Rows
<1>2. at + BidExtension \in Nat /\ at + Turn \in Nat
  BY TicksAssumption
<1> QED
  BY <1>1, <1>2 DEF ExtendedClose, NextClose

\* Bids of a row are made between its opening and the present.
LEMMA PlayersTyped == TypeOK /\ Players => TypeOK'
<1> SUFFICES ASSUME TypeOK, Players PROVE TypeOK'
  OBVIOUS
<1>1. ASSUME NEW a \in Auctions, NEW host \in Generals \cup {NoOne}, OpenResource(a, host)
      PROVE  TypeOK'
  <2>1. tick + Duration \in Nat
    BY TicksAssumption DEF TypeOK
  <2> DEFINE row == [auction[a] EXCEPT !.status = "OPEN", !.kind = "RESOURCE",
                             !.host = host, !.opened = tick, !.close = tick + Duration]
  <2>2. auction' \in [Auctions -> Rows]
    <3>1. auction' = [auction EXCEPT ![a] = row]
      BY <1>1 DEF OpenResource
    <3>2. auction[a] \in Rows /\ tick \in Nat
      BY DEF TypeOK
    <3>3. row \in Rows
      BY <2>1, <3>2 DEF Rows
    <3> QED
      BY <3>1, <3>3, RowsTyped
  <2>3. hints' \subseteq Auctions \X Nat
    BY <1>1, <2>1, HintTyped DEF OpenResource, TypeOK
  <2>4. lot' \in [Auctions -> Generals \cup {NoOne, Escrow}]
    BY <1>1 DEF OpenResource, TypeOK
  <2> QED
    BY <1>1, <2>2, <2>3, <2>4 DEF OpenResource, TypeOK, clocks
<1>2. ASSUME NEW a \in Auctions, NEW host \in Generals, NEW amount \in Amounts,
             OpenUnique(a, host, amount)
      PROVE  TypeOK'
  <2>1. tick + Duration \in Nat /\ tick + Duration + CapMargin \in Nat
    BY TicksAssumption DEF TypeOK
  <2> DEFINE row == [auction[a] EXCEPT !.status = "OPEN", !.kind = "UNIQUE",
                             !.host = host, !.opened = tick, !.close = tick + Duration,
                             !.latest = tick + Duration + CapMargin, !.extensions = 1]
  <2>2. auction' \in [Auctions -> Rows]
    <3>1. auction' = [auction EXCEPT ![a] = row]
      BY <1>2 DEF OpenUnique
    <3>2. auction[a] \in Rows /\ tick \in Nat
      BY DEF TypeOK
    <3>3. row \in Rows
      BY <2>1, <3>2 DEF Rows
    <3> QED
      BY <3>1, <3>3, RowsTyped
  <2>3. hints' \subseteq Auctions \X Nat
    BY <1>2, <2>1, HintTyped DEF OpenUnique
  <2>4. top' \in [Auctions -> Bids]
    BY <1>2 DEF OpenUnique, TypeOK, Bids
  <2>5. paid' \in [Auctions -> [Generals -> Int]]
    BY <1>2, AmountsAssumption DEF OpenUnique, TypeOK
  <2> QED
    BY <1>2, <2>2, <2>3, <2>4, <2>5 DEF OpenUnique, TypeOK, clocks
<1>3. ASSUME NEW a \in Auctions, NEW g \in Generals, NEW amount \in Amounts, NEW extend \in BOOLEAN,
             NEW at \in auction[a].opened .. tick, Bid(a, g, amount, extend, at)
      PROVE  TypeOK'
  <2>1. at \in Nat
    BY DEF TypeOK, Rows
  <2>2. NextClose(a, amount, at) \in Nat
    BY <2>1, CloseTyped
  <2> DEFINE row == [auction[a] EXCEPT !.close = NextClose(a, amount, at),
                             !.cut = @ \/ ExtendedClose(a, at) < auction[a].close]
  <2>3. auction' \in [Auctions -> Rows]
    <3>1. auction' = [auction EXCEPT ![a] = row]
      BY <1>3 DEF Bid, TypeOK
    <3>2. auction[a] \in Rows
      BY DEF TypeOK
    <3>3. row \in Rows
      BY <2>2, <3>2 DEF Rows
    <3> QED
      BY <3>1, <3>3, RowsTyped
  <2>4. hints' \subseteq Auctions \X Nat
    BY <1>3, <2>2, HintTyped DEF Bid
  <2>5. top' \in [Auctions -> Bids]
    BY <1>3 DEF Bid, TypeOK, Bids
  <2>6. paid' \in [Auctions -> [Generals -> Int]]
    <3>1. top[a].amount \in Int /\ amount \in Int
      BY AmountTyped
    <3>2. \A h \in Generals : paid[a][h] \in Int
      BY DEF TypeOK
    <3>3. Payments(a, g, amount) \in [Generals -> Int]
      BY <3>1, <3>2 DEF Payments
    <3> QED
      BY <1>3, <3>3 DEF Bid, TypeOK
  <2> QED
    BY <1>3, <2>3, <2>4, <2>5, <2>6 DEF Bid, TypeOK, clocks
<1>4. ASSUME NEW hint \in hints, AddTimer(hint[1], hint[2])
      PROVE  TypeOK'
  <2>1. hint[1] \in Auctions /\ hint[2] \in Nat
    BY DEF TypeOK
  <2> QED
    BY <1>4, <2>1 DEF AddTimer, TypeOK, clocks, game
<1>5. ASSUME NEW g \in Generals, Leave(g)
      PROVE  TypeOK'
  <2>1. faults' \in 0 .. MaxFaults
    BY <1>5, BoundsAssumption DEF Leave, TypeOK
  <2> QED
    BY <1>5, <2>1 DEF Leave, TypeOK, clocks
<1> QED
  BY <1>1, <1>2, <1>3, <1>4, <1>5 DEF Players

\* A command that is answered or claimed stays a command.
LEMMA ReplacedTyped ==
    ASSUME TypeOK, NEW e \in events, NEW f \in Commands, events' = Replaced(e, f)
    PROVE  events' \subseteq Commands
  BY DEF TypeOK, Replaced

\* An answered finalize command is still a command.
LEMMA AnsweredTyped ==
    ASSUME TypeOK, NEW e \in events, NEW answer \in {"OK", "REFUSED", "FAILED"}, Answered(e, answer)
    PROVE  events' \subseteq Commands
<1>1. e \in Commands
  BY DEF TypeOK
<1>2. [e EXCEPT !.status = answer, !.at = 0] \in Commands
  BY <1>1 DEF Commands
<1> QED
  BY <1>2, ReplacedTyped DEF Answered

\* What one execution of the finalizer may leave of its auction.
LEMMA ReopenedTyped ==
    ASSUME TypeOK, NEW a \in Auctions, NEW close \in Nat, NEW latest \in Nat,
           NEW host \in Generals \cup {NoOne}, NEW extensions \in Nat,
           Reopened(a, close, latest, host, extensions)
    PROVE  auction' \in [Auctions -> Rows]
<1> DEFINE row == [auction[a] EXCEPT !.status = "OPEN", !.close = close, !.latest = latest,
                                     !.host = host, !.extensions = extensions]
<1>1. auction[a] \in Rows
  BY DEF TypeOK
<1>2. auction' = [auction EXCEPT ![a] = row]
  BY DEF Reopened, TypeOK
<1>3. row \in Rows
  BY <1>1 DEF Rows
<1> QED
  BY <1>2, <1>3, RowsTyped

\* Deciding a row leaves it a row.
LEMMA StatusTyped ==
    ASSUME TypeOK, NEW a \in Auctions, NEW status \in {"FINALIZING", "FINISHED", "CANCELED"},
           auction' = [auction EXCEPT ![a].status = status]
    PROVE  auction' \in [Auctions -> Rows]
<1> DEFINE row == [auction[a] EXCEPT !.status = status]
<1>1. auction[a] \in Rows
  BY DEF TypeOK
<1>2. auction' = [auction EXCEPT ![a] = row]
  BY DEF TypeOK
<1>3. row \in Rows
  BY <1>1 DEF Rows
<1> QED
  BY <1>2, <1>3, RowsTyped

\* The part of the state that the finalizer writes.
GameTyped ==
    /\ auction \in [Auctions -> Rows]
    /\ top \in [Auctions -> Bids]
    /\ paid \in [Auctions -> [Generals -> Int]]
    /\ lot \in [Auctions -> Generals \cup {NoOne, Escrow}]
    /\ alive \subseteq Generals /\ united \in BOOLEAN
    /\ events \subseteq Commands

\* Every outcome of finalizer.ts leaves rows, bids, payments and lots typed.
LEMMA FinalizeTyped ==
    ASSUME TypeOK, NEW e \in events, Finalize(e)
    PROVE  GameTyped'
<1> DEFINE a == e.auction
<1>0. /\ a \in Auctions /\ e.at \in Nat
      /\ auction[a] \in Rows /\ top[a] \in Bids
      /\ auction[a].host \in Generals \cup {NoOne}
      /\ top[a].general \in Generals \cup {NoOne}
      /\ auction[a].close \in Nat /\ auction[a].latest \in Nat /\ auction[a].extensions \in Nat
  BY DEF TypeOK, Commands, Rows, Bids
<1>1. CASE FinalizeNothing(e)
  BY <1>1, AnsweredTyped DEF FinalizeNothing, game, TypeOK, GameTyped
<1>2. CASE WantsExtension(a) /\ FinalizeExtend(e, a)
  <2>1. /\ auction[a].close + Turn \in Nat
        /\ auction[a].close + Turn + BidExtension \in Nat
        /\ auction[a].extensions - 1 \in Nat
    BY <1>0, <1>2, TicksAssumption DEF WantsExtension
  <2>2. auction' \in [Auctions -> Rows]
    BY <1>0, <1>2, <2>1, ReopenedTyped DEF FinalizeExtend
  <2> QED
    BY <1>2, <2>2, AnsweredTyped DEF FinalizeExtend, TypeOK, GameTyped
<1>3. CASE FinalizeOrphan(e, a)
  BY <1>0, <1>3, AnsweredTyped, StatusTyped DEF FinalizeOrphan, TypeOK, GameTyped
<1>4. CASE FinalizeUnsold(e, a)
  <2>1. auction' \in [Auctions -> Rows]
    BY <1>0, <1>4, StatusTyped DEF FinalizeUnsold
  <2>2. lot' \in [Auctions -> Generals \cup {NoOne, Escrow}]
    BY <1>0, <1>4 DEF FinalizeUnsold, TypeOK
  <2> QED
    BY <1>4, <2>1, <2>2, AnsweredTyped DEF FinalizeUnsold, TypeOK, GameTyped
<1>5. CASE FinalizeCancel(e, a)
  <2>1. auction' \in [Auctions -> Rows]
    BY <1>0, <1>5, StatusTyped DEF FinalizeCancel
  <2>2. paid' \in [Auctions -> [Generals -> Int]]
    BY <1>0, <1>5, AmountTyped DEF FinalizeCancel, Refund, TypeOK
  <2>3. lot' \in [Auctions -> Generals \cup {NoOne, Escrow}]
    BY <1>0, <1>5 DEF FinalizeCancel, TypeOK
  <2> QED
    BY <1>5, <2>1, <2>2, <2>3, AnsweredTyped DEF FinalizeCancel, TypeOK, GameTyped
<1>6. CASE FinalizeSold(e, a)
  <2>1. auction' \in [Auctions -> Rows]
    BY <1>0, <1>6, StatusTyped DEF FinalizeSold
  <2>2. paid' \in [Auctions -> [Generals -> Int]]
    BY <1>0, <1>6, AmountTyped DEF FinalizeSold, TypeOK
  <2>3. lot' \in [Auctions -> Generals \cup {NoOne, Escrow}]
    BY <1>0, <1>6 DEF FinalizeSold, TypeOK
  <2> QED
    BY <1>6, <2>1, <2>2, <2>3, AnsweredTyped DEF FinalizeSold, TypeOK, GameTyped
<1>7. CASE FinalizeBlocked(e, a)
  <2>1. auction' \in [Auctions -> Rows]
    <3>1. CASE Reopened(a, e.at + Turn, auction[a].latest, auction[a].host, auction[a].extensions)
      <4>1. e.at + Turn \in Nat
        BY <1>0, TicksAssumption
      <4> QED
        BY <1>0, <3>1, <4>1, ReopenedTyped
    <3>2. ASSUME NEW delay \in {BidExtension, Turn},
                 Reopened(a, auction[a].close + delay, auction[a].close + delay + BidExtension,
                          IF top[a].general = auction[a].host THEN auction[a].host ELSE NoOne,
                          auction[a].extensions)
          PROVE  auction' \in [Auctions -> Rows]
      <4>1. auction[a].close + delay \in Nat /\ auction[a].close + delay + BidExtension \in Nat
        BY <1>0, TicksAssumption
      <4>2. (IF top[a].general = auction[a].host THEN auction[a].host ELSE NoOne)
               \in Generals \cup {NoOne}
        BY <1>0
      <4> QED
        BY <1>0, <3>2, <4>1, <4>2, ReopenedTyped
    <3> QED
      BY <1>7, <3>1, <3>2 DEF FinalizeBlocked
  <2> QED
    BY <1>7, <2>1, AnsweredTyped DEF FinalizeBlocked, TypeOK, GameTyped
<1> QED
  BY <1>1, <1>2, <1>3, <1>4, <1>5, <1>6, <1>7 DEF Finalize

\* The daemon's steps: claim, execution and failure of a finalize command.
LEMMA EngineTyped == TypeOK /\ Engine => TypeOK'
<1> SUFFICES ASSUME TypeOK, NEW e \in events, Accept(e) \/ Finalize(e) \/ EventFails(e)
             PROVE  TypeOK'
  BY DEF Engine
<1>1. CASE Accept(e)
  <2>1. e \in Commands /\ tick \in Nat
    BY DEF TypeOK
  <2>2. [e EXCEPT !.status = "ACCEPTED", !.at = tick] \in Commands
    BY <2>1 DEF Commands
  <2> QED
    BY <1>1, <2>2, ReplacedTyped DEF Accept, TypeOK, clocks, game
<1>2. CASE Finalize(e)
  BY <1>2, FinalizeTyped DEF Finalize, GameTyped, TypeOK, clocks
<1>3. CASE EventFails(e)
  <2>1. faults' \in 0 .. MaxFaults
    BY <1>3, BoundsAssumption DEF EventFails, TypeOK
  <2> QED
    BY <1>3, <2>1, AnsweredTyped DEF EventFails, TypeOK, clocks, game
<1> QED
  BY <1>1, <1>2, <1>3

\* Ticks, suspensions, reconciliations, projections and rebases.
LEMMA ClockTyped == TypeOK /\ Clock => TypeOK'
<1> SUFFICES ASSUME TypeOK, Clock PROVE TypeOK'
  OBVIOUS
<1>0. \A shift \in Shifts : shift \in Nat
  BY TicksAssumption
<1>1. CASE Tick
  BY <1>1 DEF Tick, TypeOK, game
<1>2. CASE Suspend
  <2>1. faults' \in 0 .. MaxFaults
    BY <1>2, BoundsAssumption DEF Suspend, TypeOK
  <2> QED
    BY <1>2, <2>1 DEF Suspend, TypeOK, game
<1>3. CASE Project
  <2>1. \A a \in Auctions : auction[a].close \in Nat
    BY DEF TypeOK, Rows
  <2>2. timers' \in [Auctions -> Nat \cup {NoTimer}]
    BY <1>3, <2>1 DEF Project
  <2> QED
    BY <1>3, <2>2 DEF Project, TypeOK, game
<1>4. ASSUME NEW shift \in Shifts, Reconcile(shift)
      PROVE  TypeOK'
  <2>1. auction' \in [Auctions -> Rows]
    <3>1. ASSUME NEW a \in Auctions
          PROVE  [auction[a] EXCEPT !.close = @ + shift, !.opened = @ + shift] \in Rows
      <4>1. auction[a] \in Rows /\ auction[a].close + shift \in Nat /\ auction[a].opened + shift \in Nat
        BY <1>0 DEF TypeOK, Rows
      <4> QED
        BY <4>1 DEF Rows
    <3> QED
      BY <1>4, <3>1 DEF Reconcile, TypeOK
  <2>2. events' \subseteq Commands
    <3>1. ASSUME NEW e \in events
          PROVE  [e EXCEPT !.at = @ + shift] \in Commands
      <4>1. e \in Commands /\ e.at + shift \in Nat
        BY <1>0 DEF TypeOK, Commands
      <4> QED
        BY <4>1 DEF Commands
    <3> QED
      BY <1>4, <3>1 DEF Reconcile, TypeOK
  <2>3. tick' \in Nat
    <3>1. tick' = tick + shift
      BY <1>4 DEF Reconcile
    <3> QED
      BY <1>0, <3>1 DEF TypeOK
  <2>4. clock' \in [phase : {"RUNNING", "SUSPENDED", "RECONCILING"}, revision : Nat]
    <3>1. clock.revision + 1 \in Nat
      BY DEF TypeOK
    <3> QED
      BY <1>4, <3>1 DEF Reconcile
  <2> QED
    BY <1>4, <2>1, <2>2, <2>3, <2>4 DEF Reconcile, TypeOK
<1>5. ASSUME NEW shift \in Shifts, Rebase(shift)
      PROVE  TypeOK'
  <2>1. auction' \in [Auctions -> Rows]
    <3>1. ASSUME NEW a \in Auctions
          PROVE  [auction[a] EXCEPT !.close = @ + shift] \in Rows
      <4>1. auction[a] \in Rows /\ auction[a].close + shift \in Nat
        BY <1>0 DEF TypeOK, Rows
      <4> QED
        BY <4>1 DEF Rows
    <3> QED
      BY <1>5, <3>1 DEF Rebase, TypeOK
  <2>2. faults' \in 0 .. MaxFaults
    BY <1>5, BoundsAssumption DEF Rebase, TypeOK
  <2> QED
    BY <1>5, <2>1, <2>2 DEF Rebase, TypeOK, clocks
<1> QED
  BY <1>1, <1>2, <1>3, <1>4, <1>5 DEF Clock

\* What the worker keeps.
Workers == [pc : {"load", "seed", "pending", "pop", "process"}, now : Nat, revision : Nat,
            popped : SUBSET Auctions, pending : SUBSET Auctions]

\* The steps of the timer worker, and its death.
LEMMA WorkerTyped == TypeOK /\ (WorkerStep \/ WorkerCrash) => TypeOK'
<1> SUFFICES ASSUME TypeOK, WorkerStep \/ WorkerCrash PROVE TypeOK'
  OBVIOUS
<1>0. /\ worker \in Workers /\ IdleWorker \in Workers /\ tick \in Nat
      /\ \A a \in Auctions : auction[a].close \in Nat
      /\ AfterSeed \in {"pop", "pending"}
      /\ worker.pending \subseteq Auctions
  BY DEF TypeOK, Workers, IdleWorker, Rows, AfterSeed
<1>1. ASSUME NEW resync \in BOOLEAN, Load(resync)
      PROVE  TypeOK'
  <2>1. worker' \in Workers
    BY <1>0, <1>1 DEF Load, TypeOK, Workers
  <2> QED
    BY <1>1, <2>1 DEF Load, TypeOK, Workers, clocks, game
<1>2. CASE Seed
  <2>1. worker' \in Workers
    BY <1>0, <1>2 DEF Seed, Workers
  <2>2. timers' \in [Auctions -> Nat \cup {NoTimer}]
    BY <1>0, <1>2 DEF Seed, SeedScore, TypeOK
  <2> QED
    BY <1>2, <2>1, <2>2 DEF Seed, TypeOK, Workers, clocks, game
<1>3. CASE ReconcilePending
  <2>1. worker' \in Workers
    BY <1>0, <1>3 DEF ReconcilePending, Workers
  <2>2. timers' \in [Auctions -> Nat \cup {NoTimer}]
    BY <1>0, <1>3 DEF ReconcilePending, SeedScore, TypeOK
  <2> QED
    BY <1>3, <2>1, <2>2 DEF ReconcilePending, TypeOK, Workers, clocks, game
<1>4. CASE Pop
  <2>1. worker' \in Workers
    <3> DEFINE due == {a \in Auctions : timers[a] # NoTimer /\ timers[a] <= worker.now}
    <3>1. due \subseteq Auctions
      OBVIOUS
    <3> HIDE DEF due
    <3>2. \/ worker' = [worker EXCEPT !.pc = "process", !.popped = due]
          \/ worker' = [IdleWorker EXCEPT !.pending = worker.pending]
      BY <1>4 DEF Pop, due
    <3> QED
      BY <1>0, <3>1, <3>2 DEF Workers
  <2>2. timers' \in [Auctions -> Nat \cup {NoTimer}]
    BY <1>0, <1>4 DEF Pop, TypeOK
  <2> QED
    BY <1>4, <2>1, <2>2 DEF Pop, TypeOK, Workers, clocks, game
<1>5. ASSUME NEW a \in Auctions, Process(a)
      PROVE  TypeOK'
  <2>0. ASSUME NEW pending \in SUBSET Auctions, Processed(a, pending)
        PROVE  worker' \in Workers
    BY <1>0, <2>0 DEF Processed, Workers
  <2>1. ASSUME NEW score \in Nat, Reschedule(a, score)
        PROVE  TypeOK'
    <3>1. worker' \in Workers
      BY <1>0, <2>0, <2>1 DEF Reschedule
    <3> QED
      BY <1>5, <2>1, <3>1 DEF Process, Reschedule, TypeOK, Workers, clocks, game
  <2>2. CASE CreateCommand(a)
    <3>1. worker' \in Workers
      <4>1. worker.pending \cup {a} \in SUBSET Auctions
        BY <1>0
      <4> QED
        BY <2>0, <2>2, <4>1 DEF CreateCommand
    <3>2. events' \subseteq Commands
      <4>1. PICK r \in NextRetry(a) :
              events' = events \cup {[auction |-> a, close |-> auction[a].close, retry |-> r,
                                      status |-> "PENDING", at |-> 0]}
        BY <2>2 DEF CreateCommand
      <4>2. r \in Retries
        BY DEF NextRetry
      <4>3. [auction |-> a, close |-> auction[a].close, retry |-> r, status |-> "PENDING", at |-> 0]
              \in Commands
        BY <1>0, <4>2 DEF Commands
      <4> QED
        BY <4>1, <4>3 DEF TypeOK
    <3> QED
      BY <1>5, <2>2, <3>1, <3>2 DEF Process, CreateCommand, TypeOK, Workers, clocks, game
  <2>3. CASE NothingToCreate(a)
    <3>1. worker' \in Workers
      <4>1. (IF Live(a) /\ Unanswered(a) THEN worker.pending \cup {a} ELSE worker.pending)
               \in SUBSET Auctions
        BY <1>0
      <4> QED
        BY <2>0, <2>3, <4>1 DEF NothingToCreate
    <3> QED
      BY <1>5, <2>3, <3>1 DEF Process, NothingToCreate, TypeOK, Workers, clocks, game
  <2>4. worker.now \in Nat
    BY <1>0 DEF Workers
  <2> QED
    BY <1>0, <1>5, <2>1, <2>2, <2>3, <2>4 DEF Process
<1>6. CASE WorkerCrash
  <2>1. faults' \in 0 .. MaxFaults
    BY <1>6, BoundsAssumption DEF WorkerCrash, TypeOK
  <2> QED
    BY <1>0, <1>6, <2>1 DEF WorkerCrash, TypeOK, Workers, clocks, game
<1> QED
  BY <1>1, <1>2, <1>3, <1>4, <1>5, <1>6 DEF WorkerStep

\* What the unification makes of a row: a cancelled one whose bid has gone back, or nothing.
RowEnded(a) ==
    /\ Live(a) /\ auction[a].kind = "UNIQUE" /\ top[a].general \in alive \cup {NoOne}
    /\ auction'[a].status = "CANCELED" /\ auction'[a].kind = auction[a].kind
    /\ lot'[a] = NoOne
    /\ paid'[a] = [g \in Generals |-> IF g = top[a].general THEN paid[a][g] - top[a].amount
                                       ELSE paid[a][g]]

\* The unification ends some auctions of unique items and touches nothing else.
LEMMA UnifyRows ==
    ASSUME TypeOK, Unify, NEW a \in Auctions
    PROVE  /\ UNCHANGED <<clocks, top, alive, events, timers, hints, worker>>
           /\ ~ united /\ united'
           /\ \/ RowEnded(a) /\ auction'[a] = [auction[a] EXCEPT !.status = "CANCELED"]
              \/ auction'[a] = auction[a] /\ lot'[a] = lot[a] /\ paid'[a] = paid[a]
<1>1. auction[a] \in Rows /\ paid[a] \in [Generals -> Int]
  BY DEF TypeOK
<1>2. UNCHANGED <<clocks, top, alive, events, timers, hints, worker>> /\ ~ united /\ united'
  BY DEF Unify
<1>3. CASE Live(a) /\ auction[a].kind = "UNIQUE"
  <2>1. /\ auction'[a] = [auction[a] EXCEPT !.status = "CANCELED"]
        /\ top[a].general \in alive \cup {NoOne} /\ lot'[a] = NoOne
    BY <1>3 DEF Unify
  <2>2. paid'[a] = [g \in Generals |-> IF g = top[a].general THEN paid[a][g] - top[a].amount
                                       ELSE paid[a][g]]
    BY <1>3 DEF Unify
  <2>3. auction'[a].status = "CANCELED" /\ auction'[a].kind = auction[a].kind
    BY <1>1, <2>1 DEF Rows
  <2> QED
    BY <1>2, <1>3, <2>1, <2>2, <2>3 DEF RowEnded
<1>4. CASE ~ (Live(a) /\ auction[a].kind = "UNIQUE")
  <2>1. auction'[a] = auction[a] /\ lot'[a] = lot[a]
    BY <1>4 DEF Unify
  <2>2. paid'[a] = [g \in Generals |-> paid[a][g]]
    BY <1>4 DEF Unify
  <2> QED
    BY <1>1, <1>2, <2>1, <2>2
<1> QED
  BY <1>3, <1>4

\* The unification keeps the types.
LEMMA UnifyTyped == TypeOK /\ Unify => TypeOK'
<1> SUFFICES ASSUME TypeOK, Unify PROVE TypeOK'
  OBVIOUS
<1>1. ASSUME NEW a \in Auctions
      PROVE  auction'[a] \in Rows /\ lot'[a] \in Generals \cup {NoOne, Escrow}
             /\ paid'[a] \in [Generals -> Int]
  <2>1. /\ auction[a] \in Rows /\ lot[a] \in Generals \cup {NoOne, Escrow}
        /\ paid[a] \in [Generals -> Int] /\ top[a].amount \in Nat
    BY AmountTyped DEF TypeOK
  <2>2. [auction[a] EXCEPT !.status = "CANCELED"] \in Rows
    BY <2>1 DEF Rows
  <2>3. [g \in Generals |-> IF g = top[a].general THEN paid[a][g] - top[a].amount ELSE paid[a][g]]
          \in [Generals -> Int]
    BY <2>1
  <2>4. CASE RowEnded(a) /\ auction'[a] = [auction[a] EXCEPT !.status = "CANCELED"]
    BY <2>2, <2>3, <2>4 DEF RowEnded
  <2>5. CASE auction'[a] = auction[a] /\ lot'[a] = lot[a] /\ paid'[a] = paid[a]
    BY <2>1, <2>5
  <2> QED
    BY <2>4, <2>5, UnifyRows
<1>2. /\ auction' = [a \in Auctions |-> auction'[a]]
      /\ lot' = [a \in Auctions |-> lot'[a]]
      /\ paid' = [a \in Auctions |-> paid'[a]]
  BY DEF Unify
<1>3. /\ auction' \in [Auctions -> Rows] /\ paid' \in [Auctions -> [Generals -> Int]]
      /\ lot' \in [Auctions -> Generals \cup {NoOne, Escrow}]
  BY <1>1, <1>2
<1>4. faults' \in 0 .. MaxFaults
  BY BoundsAssumption DEF Unify, TypeOK
<1> QED
  BY <1>3, <1>4 DEF Unify, TypeOK, clocks

\* Every step keeps the types.
LEMMA TypeStep == TypeOK /\ [Next]_vars => TypeOK'
<1> SUFFICES ASSUME TypeOK, [Next]_vars PROVE TypeOK'
  OBVIOUS
<1>1. CASE UNCHANGED vars
  BY <1>1 DEF vars, TypeOK
<1> QED
  BY <1>1, PlayersTyped, EngineTyped, UnifyTyped, ClockTyped, WorkerTyped DEF Next

\* Rows, bids, commands and timers are well typed whatever the clock, the players
\* and the worker do; no close has a command beyond its first retry.
THEOREM TypeCorrect == Spec => []TypeOK
  BY InitTyped, TypeStep, PTL DEF Spec

-----------------------------------------------------------------------------
(* Time. *)

\* The finalizer answers its command.
LEMMA FinalizeAnswers ==
    ASSUME NEW e \in events, Finalize(e)
    PROVE  Answered(e, "OK") \/ Answered(e, "REFUSED")
  BY DEF Finalize, FinalizeNothing, FinalizeExtend, FinalizeOrphan, FinalizeUnsold,
         FinalizeCancel, FinalizeSold, FinalizeBlocked

\* The daemon changes the status and the tick of one command.
LEMMA EngineReplaces ==
    ASSUME TypeOK, NEW e \in events, Accept(e) \/ Finalize(e) \/ EventFails(e)
    PROVE  \A f \in events' :
             \/ f \in events
             \/ /\ f.auction = e.auction /\ f.close = e.close /\ f.retry = e.retry
                /\ \/ e.status = "PENDING" /\ f.status = "ACCEPTED" /\ f.at = tick
                   \/ e.status = "ACCEPTED" /\ f.status \in {"OK", "REFUSED", "FAILED"}
<1>0. e \in Commands
  BY DEF TypeOK
<1>1. CASE Accept(e)
  BY <1>0, <1>1 DEF Accept, Replaced, Commands
<1>2. ASSUME NEW answer \in {"OK", "REFUSED", "FAILED"}, Answered(e, answer), e.status = "ACCEPTED"
      PROVE  \A f \in events' :
               f \in events \/ (/\ f.auction = e.auction /\ f.close = e.close /\ f.retry = e.retry
                               /\ f.status = answer)
  BY <1>0, <1>2 DEF Answered, Replaced, Commands
<1>3. CASE Finalize(e)
  <2>1. e.status = "ACCEPTED"
    BY <1>3 DEF Finalize
  <2> QED
    BY <1>2, <1>3, <2>1, FinalizeAnswers
<1>4. CASE EventFails(e)
  BY <1>2, <1>4 DEF EventFails
<1> QED
  BY <1>1, <1>3, <1>4

\* A new command is for the close of a live auction, which has come if the
\* auction is open.
LEMMA ProcessCreates ==
    ASSUME TypeOK, NEW b \in Auctions, Process(b)
    PROVE  /\ worker'.now \in {worker.now, 0}
           /\ events \subseteq events'
           /\ \A f \in events' : f \in events \/
                (/\ f.auction = b /\ f.close = auction[b].close /\ f.status = "PENDING"
                 /\ Live(b) /\ ~ NotDue(b) /\ f.retry \in NextRetry(b))
<1>1. ASSUME NEW pending, Processed(b, pending)
      PROVE  worker'.now \in {worker.now, 0}
  BY <1>1 DEF Processed, IdleWorker, TypeOK
<1>2. ASSUME NEW score, Reschedule(b, score)
      PROVE  worker'.now \in {worker.now, 0} /\ events' = events
  BY <1>1, <1>2 DEF Reschedule
<1>3. CASE ~ NotDue(b) /\ Live(b) /\ CreateCommand(b)
  <2>1. PICK r \in NextRetry(b) :
          events' = events \cup {[auction |-> b, close |-> auction[b].close, retry |-> r,
                                  status |-> "PENDING", at |-> 0]}
    BY <1>3 DEF CreateCommand
  <2>2. worker'.now \in {worker.now, 0}
    BY <1>1, <1>3 DEF CreateCommand
  <2> QED
    BY <1>3, <2>1, <2>2
<1>4. CASE NothingToCreate(b)
  BY <1>1, <1>4 DEF NothingToCreate
<1> QED
  BY <1>2, <1>3, <1>4 DEF Process

\* The worker's other steps leave the commands alone, and its time is at most the
\* clock's.
LEMMA WorkerKeeps ==
    ASSUME TypeOK, WorkerStep \/ WorkerCrash
    PROVE  /\ UNCHANGED <<clocks, game>>
           /\ worker'.now \in {worker.now, tick, 0}
           /\ events' = events \/ \E b \in Auctions : Process(b)
<1>1. ASSUME NEW resync, Load(resync)
      PROVE  UNCHANGED <<clocks, game, events>> /\ worker'.now = tick
  BY <1>1 DEF Load, TypeOK
<1>2. CASE Seed
  BY <1>2 DEF Seed, TypeOK
<1>3. CASE ReconcilePending
  BY <1>3 DEF ReconcilePending, TypeOK
<1>4. CASE Pop
  BY <1>4 DEF Pop, TypeOK, IdleWorker
<1>5. ASSUME NEW b \in Auctions, Process(b)
      PROVE  UNCHANGED <<clocks, game>> /\ worker'.now \in {worker.now, tick, 0}
  BY <1>5, ProcessCreates DEF Process
<1>6. CASE WorkerCrash
  BY <1>6 DEF WorkerCrash, IdleWorker
<1> QED
  BY <1>1, <1>2, <1>3, <1>4, <1>5, <1>6 DEF WorkerStep

\* The players leave the clock, the commands and the worker alone.
LEMMA PlayersKeep ==
    ASSUME Players
    PROVE  UNCHANGED <<clocks, events, worker>>
<1>1. ASSUME NEW a, NEW host, OpenResource(a, host)
      PROVE  UNCHANGED <<clocks, events, worker>>
  BY <1>1 DEF OpenResource
<1>2. ASSUME NEW a, NEW host, NEW amount, OpenUnique(a, host, amount)
      PROVE  UNCHANGED <<clocks, events, worker>>
  BY <1>2 DEF OpenUnique
<1>3. ASSUME NEW a, NEW g, NEW amount, NEW extend, NEW at, Bid(a, g, amount, extend, at)
      PROVE  UNCHANGED <<clocks, events, worker>>
  BY <1>3 DEF Bid
<1>4. ASSUME NEW a, NEW score, AddTimer(a, score)
      PROVE  UNCHANGED <<clocks, events, worker>>
  BY <1>4 DEF AddTimer
<1>5. ASSUME NEW g, Leave(g)
      PROVE  UNCHANGED <<clocks, events, worker>>
  BY <1>5 DEF Leave
<1> QED
  BY <1>1, <1>2, <1>3, <1>4, <1>5 DEF Players

\* Time only moves on.
LEMMA ClockKeeps ==
    ASSUME TypeOK, Clock
    PROVE  /\ tick' >= tick
           /\ UNCHANGED <<top, paid, lot, alive, worker>>
           /\ \/ UNCHANGED events
              \/ \E shift \in Shifts : Reconcile(shift)
<1>0. \A shift \in Shifts : shift \in Nat /\ shift > 0
  BY TicksAssumption
<1>1. CASE Tick
  BY <1>1 DEF Tick, TypeOK, game
<1>2. CASE Suspend
  BY <1>2 DEF Suspend, TypeOK, game
<1>3. CASE Project
  BY <1>3 DEF Project, TypeOK, game
<1>4. ASSUME NEW shift \in Shifts, Reconcile(shift)
      PROVE  tick' >= tick /\ UNCHANGED <<top, paid, lot, alive, worker>>
  <2>1. tick' = tick + shift /\ UNCHANGED <<top, paid, lot, alive, worker>>
    BY <1>4 DEF Reconcile
  <2>2. tick \in Nat
    BY DEF TypeOK
  <2> QED
    BY <1>0, <2>1, <2>2
<1>5. ASSUME NEW shift \in Shifts, Rebase(shift)
      PROVE  tick' >= tick /\ UNCHANGED <<top, paid, lot, alive, worker, events>>
  BY <1>5 DEF Rebase, TypeOK, clocks
<1> QED
  BY <1>1, <1>2, <1>3, <1>4, <1>5 DEF Clock

\* A reconciliation moves the clock and the ticks of claimed commands together.
LEMMA ReconcileMoves ==
    ASSUME TypeOK, NEW shift \in Shifts, Reconcile(shift)
    PROVE  /\ shift \in Nat /\ shift > 0 /\ tick' = tick + shift
           /\ \A f \in events' : \E e \in events :
                /\ f.auction = e.auction /\ f.close = e.close /\ f.retry = e.retry
                /\ f.status = e.status
                /\ e.status = "ACCEPTED" => f.at = e.at + shift
           /\ \A e \in events : \E f \in events' : f.auction = e.auction /\ f.status = e.status
<1>1. ASSUME NEW e \in events
      PROVE  LET f == [e EXCEPT !.at = @ + shift] IN
             /\ f.auction = e.auction /\ f.close = e.close /\ f.retry = e.retry
             /\ f.status = e.status /\ f.at = e.at + shift
  BY DEF TypeOK, Commands
<1>2. shift \in Nat /\ shift > 0
  BY TicksAssumption
<1>3. tick' = tick + shift
  BY DEF Reconcile
<1>4. events' = {IF e.status = "ACCEPTED" THEN [e EXCEPT !.at = @ + shift] ELSE e : e \in events}
  BY DEF Reconcile
<1> QED
  BY <1>1, <1>2, <1>3, <1>4

\* The clock leaves the rows as they are, except that closes may move on.
LEMMA ClockRows ==
    ASSUME TypeOK, Clock, NEW a \in Auctions
    PROVE  /\ auction'[a].status = auction[a].status /\ auction'[a].kind = auction[a].kind
           /\ auction'[a].host = auction[a].host /\ auction'[a].cut = auction[a].cut
           /\ auction'[a].extensions = auction[a].extensions
           /\ auction'[a].close >= auction[a].close
<1> DEFINE Kept(row) ==
             /\ row.status = auction[a].status /\ row.kind = auction[a].kind
             /\ row.host = auction[a].host /\ row.cut = auction[a].cut
             /\ row.extensions = auction[a].extensions
             /\ row.close >= auction[a].close
<1>0. /\ \A shift \in Shifts : shift \in Nat /\ shift > 0
      /\ auction[a] \in Rows /\ auction[a].close \in Nat
  BY TicksAssumption DEF TypeOK, Rows
<1>1. Kept(auction[a])
  BY <1>0
<1>2. \A shift \in Shifts : /\ Kept([auction[a] EXCEPT !.close = @ + shift, !.opened = @ + shift])
                            /\ Kept([auction[a] EXCEPT !.close = @ + shift])
  BY <1>0 DEF Rows
<1> HIDE DEF Kept
<1>3. ASSUME NEW shift \in Shifts, Reconcile(shift)
      PROVE  Kept(auction'[a])
  BY <1>1, <1>2, <1>3 DEF Reconcile
<1>4. ASSUME NEW shift \in Shifts, Rebase(shift)
      PROVE  Kept(auction'[a])
  BY <1>1, <1>2, <1>4 DEF Rebase
<1>5. CASE Tick \/ Suspend \/ Project
  <2>1. UNCHANGED auction
    BY <1>5 DEF Tick, Suspend, Project, game
  <2> QED
    BY <1>1, <2>1 DEF Kept
<1>6. Kept(auction'[a])
  BY <1>1, <1>3, <1>4, <1>5 DEF Clock, Kept
<1> QED
  BY <1>6 DEF Kept

\* What players make of a row: they open it, raise its bid, or leave it alone.  A bid
\* brings the close forward only as the instant sale, or if the cap cuts it back.
RowOpened(a) ==
    /\ auction[a].status = "ABSENT" /\ auction'[a].status = "OPEN"
    /\ \/ auction'[a].kind = "RESOURCE" /\ top'[a] = top[a]
       \/ auction'[a].kind = "UNIQUE" /\ top'[a].general \in Generals

RowRaised(a) ==
    /\ auction[a].status = "OPEN" /\ auction'[a].status = "OPEN"
    /\ auction'[a].kind = auction[a].kind
    /\ top'[a].general \in Generals /\ top'[a].amount > top[a].amount
    /\ auction[a].kind = "RESOURCE" => top'[a].amount <= FinishBid
    /\ auction[a].cut => auction'[a].cut
    /\ \/ auction'[a].cut
       \/ auction'[a].close >= auction[a].close
       \/ auction[a].kind = "RESOURCE" /\ top'[a].amount = FinishBid

\* A bid changes its own auction only, and as RowRaised says.
LEMMA BidRaises ==
    ASSUME TypeOK, NEW a \in Auctions, NEW g \in Generals, NEW amount \in Amounts,
           NEW extend \in BOOLEAN, NEW at \in auction[a].opened .. tick,
           Bid(a, g, amount, extend, at)
    PROVE  RowRaised(a) /\ \A b \in Auctions : b # a => auction'[b] = auction[b] /\ top'[b] = top[b]
<1> DEFINE row == [auction[a] EXCEPT !.close = NextClose(a, amount, at),
                             !.cut = @ \/ ExtendedClose(a, at) < auction[a].close]
<1>1. auction' = [auction EXCEPT ![a] = row]
  BY DEF Bid, TypeOK
<1>2. /\ auction'[a].status = auction[a].status /\ auction'[a].kind = auction[a].kind
      /\ auction'[a].close = NextClose(a, amount, at)
      /\ auction[a].cut => auction'[a].cut
      /\ ExtendedClose(a, at) < auction[a].close => auction'[a].cut
      /\ \A b \in Auctions : b # a => auction'[b] = auction[b]
  <2>1. auction'[a] = row /\ \A b \in Auctions : b # a => auction'[b] = auction[b]
    BY <1>1, Zenon DEF TypeOK
  <2>2. auction[a] \in Rows
    BY DEF TypeOK
  <2>3. row.status = auction[a].status /\ row.kind = auction[a].kind /\ row.close = NextClose(a, amount, at)
    BY <2>2 DEF Rows
  <2>4. row.cut = (auction[a].cut \/ ExtendedClose(a, at) < auction[a].close)
    BY <2>2, Zenon DEF Rows
  <2> HIDE DEF row
  <2> QED
    BY <2>1, <2>3, <2>4, Zenon
<1>3. /\ top'[a] = [general |-> g, amount |-> amount, extend |-> extend]
      /\ \A b \in Auctions : b # a => top'[b] = top[b]
  BY DEF Bid, TypeOK
<1>4. /\ auction[a].status = "OPEN" /\ amount > top[a].amount
      /\ auction[a].kind = "RESOURCE" => amount <= FinishBid
  BY DEF Bid, MayBid
<1>5. \/ auction'[a].cut
      \/ auction'[a].close >= auction[a].close
      \/ auction[a].kind = "RESOURCE" /\ amount = FinishBid
  <2>1. ExtendedClose(a, at) \in Nat /\ auction[a].close \in Nat
    <3>1. at \in Nat
      BY DEF TypeOK, Rows
    <3> QED
      BY <3>1, CloseTyped DEF TypeOK, Rows
  <2>2. CASE ExtendedClose(a, at) < auction[a].close
    BY <1>2, <2>2
  <2>3. CASE ExtendedClose(a, at) >= auction[a].close
    BY <1>2, <2>3 DEF NextClose
  <2> QED
    BY <2>1, <2>2, <2>3
<1>6. top'[a].general = g /\ top'[a].amount = amount
  BY <1>3
<1> QED
  BY <1>2, <1>3, <1>4, <1>5, <1>6 DEF RowRaised

\* What players do to a row: nothing, open it or raise its bid; and none of them returns.
LEMMA PlayersRows ==
    ASSUME TypeOK, Players, NEW a \in Auctions
    PROVE  /\ alive' \subseteq alive
           /\ (auction'[a] = auction[a] /\ top'[a] = top[a]) \/ RowOpened(a) \/ RowRaised(a)
<1> DEFINE Same == auction'[a] = auction[a] /\ top'[a] = top[a]
<1>1. ASSUME NEW b \in Auctions, NEW host \in Generals \cup {NoOne}, OpenResource(b, host)
      PROVE  alive' = alive /\ (Same \/ RowOpened(a))
  <2>1. UNCHANGED <<top, alive>> /\ auction[b].status = "ABSENT"
    BY <1>1 DEF OpenResource
  <2>2. CASE a # b
    BY <1>1, <2>1, <2>2 DEF OpenResource, TypeOK
  <2>3. CASE a = b
    <3>1. auction'[a] = [auction[a] EXCEPT !.status = "OPEN", !.kind = "RESOURCE",
                           !.host = host, !.opened = tick, !.close = tick + Duration]
      BY <1>1, <2>3 DEF OpenResource, TypeOK
    <3>2. auction'[a].status = "OPEN" /\ auction'[a].kind = "RESOURCE"
      BY <3>1 DEF TypeOK, Rows
    <3> QED
      BY <2>1, <2>3, <3>2 DEF RowOpened
  <2> QED
    BY <2>2, <2>3
<1>2. ASSUME NEW b \in Auctions, NEW host \in Generals, NEW amount \in Amounts,
             OpenUnique(b, host, amount)
      PROVE  alive' = alive /\ (Same \/ RowOpened(a))
  <2>1. UNCHANGED alive /\ auction[b].status = "ABSENT"
    BY <1>2 DEF OpenUnique
  <2>2. CASE a # b
    BY <1>2, <2>1, <2>2 DEF OpenUnique, TypeOK
  <2>3. CASE a = b
    <3>1. auction'[a] = [auction[a] EXCEPT !.status = "OPEN", !.kind = "UNIQUE",
                           !.host = host, !.opened = tick, !.close = tick + Duration,
                           !.latest = tick + Duration + CapMargin, !.extensions = 1]
      BY <1>2, <2>3 DEF OpenUnique, TypeOK
    <3>2. auction'[a].status = "OPEN" /\ auction'[a].kind = "UNIQUE"
      BY <3>1 DEF TypeOK, Rows
    <3>3. top'[a] = [general |-> host, amount |-> amount, extend |-> FALSE]
      BY <1>2, <2>3 DEF OpenUnique, TypeOK
    <3> QED
      BY <2>1, <2>3, <3>2, <3>3 DEF RowOpened
  <2> QED
    BY <2>2, <2>3
<1>3. ASSUME NEW b \in Auctions, NEW g \in Generals, NEW amount \in Amounts, NEW extend \in BOOLEAN,
             NEW at \in auction[b].opened .. tick, Bid(b, g, amount, extend, at)
      PROVE  alive' = alive /\ (Same \/ RowRaised(a))
  <2>1. alive' = alive
    BY <1>3 DEF Bid
  <2> QED
    BY <1>3, <2>1, BidRaises
<1>4. ASSUME NEW hint \in hints, AddTimer(hint[1], hint[2])
      PROVE  alive' = alive /\ Same
  BY <1>4 DEF AddTimer, game
<1>5. ASSUME NEW g, Leave(g)
      PROVE  alive' \subseteq alive /\ Same
  BY <1>5 DEF Leave
<1> QED
  BY <1>1, <1>2, <1>3, <1>4, <1>5 DEF Players

\* No step lets an accepted command or the worker's clock run ahead of the game clock.
LEMMA TimeStep == TypeOK /\ TimeInv /\ [Next]_vars => TimeInv'
<1> SUFFICES ASSUME TypeOK, TimeInv, [Next]_vars PROVE TimeInv'
  OBVIOUS
<1>0. tick \in Nat /\ worker.now \in Nat
  BY DEF TypeOK
<1>1. CASE Players
  BY <1>1, PlayersKeep DEF TimeInv, clocks
<1>2. ASSUME NEW e \in events, Accept(e) \/ Finalize(e) \/ EventFails(e)
      PROVE  TimeInv'
  <2>1. UNCHANGED <<tick, worker>>
    BY <1>2 DEF Accept, Finalize, EventFails, clocks
  <2> QED
    BY <1>0, <1>2, <2>1, EngineReplaces DEF TimeInv
<1>3. CASE Clock
  <2>1. tick' >= tick /\ UNCHANGED worker /\ tick' \in Nat
    BY <1>3, ClockKeeps, ClockTyped DEF TypeOK
  <2>2. CASE UNCHANGED events
    <3>1. \A e \in events : e.at \in Nat
      BY DEF TypeOK, Commands
    <3> QED
      BY <1>0, <2>1, <2>2, <3>1 DEF TimeInv
  <2>3. ASSUME NEW shift \in Shifts, Reconcile(shift)
        PROVE  TimeInv'
    <3>1. \A e \in events : e.at \in Nat
      BY DEF TypeOK, Commands
    <3>2. worker'.now <= tick'
      BY <1>0, <2>1 DEF TimeInv
    <3>3. ASSUME NEW f \in events', f.status = "ACCEPTED"
          PROVE  f.at <= tick'
      <4>1. PICK e \in events : e.status = "ACCEPTED" /\ f.at = e.at + shift
        BY <2>3, <3>3, ReconcileMoves
      <4>2. e.at <= tick
        BY <4>1 DEF TimeInv
      <4> QED
        BY <1>0, <2>3, <3>1, <4>1, <4>2, ReconcileMoves
    <3> QED
      BY <3>2, <3>3 DEF TimeInv
  <2> QED
    BY <1>3, <2>2, <2>3, ClockKeeps
<1>4. CASE WorkerStep \/ WorkerCrash
  <2>1. tick' = tick /\ worker'.now <= tick
    BY <1>0, <1>4, WorkerKeeps DEF TimeInv, clocks
  <2>2. \A f \in events' : f \in events \/ f.status = "PENDING"
    BY <1>4, WorkerKeeps, ProcessCreates
  <2> QED
    BY <2>1, <2>2 DEF TimeInv
<1>5. CASE UNCHANGED vars
  BY <1>5 DEF vars, TimeInv
<1>6. CASE Unify
  <2>1. UNCHANGED <<tick, worker, events>>
    BY <1>6 DEF Unify, clocks
  <2> QED
    BY <2>1 DEF TimeInv
<1> QED
  BY <1>1, <1>2, <1>3, <1>4, <1>5, <1>6 DEF Next, Engine

\* Nothing is ahead of the clock at the start.
LEMMA TimeInit == Init => TimeInv
  BY DEF Init, TimeInv, IdleWorker

\* Only the execution of a finalize command and the unification decide an auction.
LEMMA NeverEarlyStep ==
    TypeOK /\ TimeInv /\ [Next]_vars =>
        [\A a \in Auctions :
            auction[a].status = "OPEN" /\ auction'[a].status # "OPEN" =>
              \/ auction[a].close <= tick
              \/ ~ united /\ united' /\ auction[a].kind = "UNIQUE" /\ auction'[a].status = "CANCELED"]_vars
<1> SUFFICES ASSUME TypeOK, TimeInv, Next, NEW a \in Auctions,
                    auction[a].status = "OPEN", auction'[a].status # "OPEN"
             PROVE  \/ auction[a].close <= tick
                    \/ /\ ~ united /\ united' /\ auction[a].kind = "UNIQUE"
                       /\ auction'[a].status = "CANCELED"
  OBVIOUS
<1>1. CASE Players
  BY <1>1, PlayersRows DEF RowOpened, RowRaised
<1>2. ASSUME NEW e \in events, Finalize(e)
      PROVE  auction[a].close <= tick
  <2>1. auction[a].close \in Nat /\ e.at \in Nat /\ tick \in Nat /\ e.auction \in Auctions
    BY DEF TypeOK, Rows, Commands
  <2>2. e.auction = a /\ Current(e)
    BY <1>2, <2>1 DEF Finalize, FinalizeNothing, game, FinalizeExtend, FinalizeOrphan, FinalizeUnsold,
        FinalizeCancel, FinalizeSold, FinalizeBlocked, Reopened, TypeOK
  <2>3. e.at <= tick
    BY <1>2 DEF Finalize, TimeInv
  <2> QED
    BY <2>1, <2>2, <2>3 DEF Current
<1>3. ASSUME NEW e \in events, Accept(e) \/ EventFails(e)
      PROVE  FALSE
  BY <1>3 DEF Accept, EventFails, game
<1>4. CASE Clock
  BY <1>4, ClockRows
<1>5. CASE WorkerStep \/ WorkerCrash
  BY <1>5, WorkerKeeps DEF game
<1>6. CASE Unify
  BY <1>6, UnifyRows DEF RowEnded
<1> QED
  BY <1>1, <1>2, <1>3, <1>4, <1>5, <1>6 DEF Next, Engine

\* No auction is decided before its close in the coordinates of the moment, whatever
\* bids, reconciliations and rebases did to the close since the command was made; the
\* one exception is the unification, which cancels the auctions of unique items.
THEOREM DecidedInTime == Spec => NeverEarly
<1>1. Init => TypeOK /\ TimeInv
  BY InitTyped, TimeInit
<1>2. TypeOK /\ TimeInv /\ [Next]_vars => TypeOK' /\ TimeInv'
  BY TypeStep, TimeStep
<1> QED
  BY <1>1, <1>2, NeverEarlyStep, PTL DEF Spec, NeverEarly

-----------------------------------------------------------------------------
(* Rows. *)

\* What one execution of the finalizer makes of its row: nothing, a row that waits
\* for a lost participant, a decided one, or an open one with a later close.
LEMMA FinalizeRow ==
    ASSUME TypeOK, NEW e \in events, Finalize(e)
    PROVE  LET a == e.auction
               new == auction'[a] IN
           /\ a \in Auctions
           /\ UNCHANGED <<top, alive>>
           /\ \A b \in Auctions : b # a => auction'[b] = auction[b]
           /\ new.kind = auction[a].kind /\ new.cut = auction[a].cut
           /\ \/ /\ new = auction[a]
                 /\ \/ auction[a].status \in {"FINISHED", "CANCELED"} /\ Answered(e, "OK")
                    \/ Live(a) /\ ~ Current(e) /\ Answered(e, "REFUSED")
              \/ /\ Live(a) /\ new.status = "FINALIZING" /\ new.host = auction[a].host
                 /\ new.extensions = auction[a].extensions
                 /\ ~ WantsExtension(a)
                 /\ \/ top[a] = Nobody /\ (auction[a].kind = "UNIQUE"
                                           \/ auction[a].host \notin alive \cup {NoOne})
                    \/ top[a].general \notin alive \cup {NoOne}
              \/ Live(a) /\ new.status \in {"FINISHED", "CANCELED"}
              \/ /\ Live(a) /\ Current(e) /\ new.status = "OPEN" /\ Answered(e, "REFUSED")
                 /\ auction[a].kind = "UNIQUE"
                 /\ WantsExtension(a) \/ top[a].general \in alive
                 /\ auction[a].status = "OPEN" => new.close > auction[a].close
<1> DEFINE a == e.auction
           new == auction'[a]
<1>0. /\ a \in Auctions /\ e.at \in Nat /\ auction[a] \in Rows
      /\ auction[a].close \in Nat
      /\ Turn > 0 /\ BidExtension > 0 /\ Turn \in Nat /\ BidExtension \in Nat
  BY TicksAssumption DEF TypeOK, Commands, Rows
<1>1. CASE FinalizeNothing(e)
  <2>1. UNCHANGED <<auction, top, alive>>
    BY <1>1 DEF FinalizeNothing, game
  <2> QED
    BY <1>0, <1>1, <2>1 DEF FinalizeNothing
<1>2. ASSUME NEW status, auction' = [auction EXCEPT ![a].status = status]
      PROVE  /\ \A b \in Auctions : b # a => auction'[b] = auction[b]
             /\ new.kind = auction[a].kind /\ new.cut = auction[a].cut
             /\ new.host = auction[a].host /\ new.extensions = auction[a].extensions
             /\ new.status = status
  <2>1. new = [auction[a] EXCEPT !.status = status]
    BY <1>0, <1>2 DEF TypeOK
  <2>2. \A b \in Auctions : b # a => auction'[b] = auction[b]
    BY <1>2 DEF TypeOK
  <2> QED
    BY <1>0, <2>1, <2>2 DEF Rows
<1>3. ASSUME NEW close, NEW latest, NEW host, NEW extensions,
             Reopened(a, close, latest, host, extensions)
      PROVE  /\ \A b \in Auctions : b # a => auction'[b] = auction[b]
             /\ new.kind = auction[a].kind /\ new.cut = auction[a].cut
             /\ new.status = "OPEN" /\ new.close = close
  <2>1. new = [auction[a] EXCEPT !.status = "OPEN", !.close = close, !.latest = latest,
                                 !.host = host, !.extensions = extensions]
    BY <1>0, <1>3 DEF Reopened, TypeOK
  <2>2. \A b \in Auctions : b # a => auction'[b] = auction[b]
    BY <1>3 DEF Reopened, TypeOK
  <2> QED
    BY <1>0, <2>1, <2>2 DEF Rows
<1>4. ASSUME Live(a), Current(e), WantsExtension(a), FinalizeExtend(e, a)
      PROVE  /\ UNCHANGED <<top, alive>> /\ Answered(e, "REFUSED")
             /\ \A b \in Auctions : b # a => auction'[b] = auction[b]
             /\ new.kind = auction[a].kind /\ new.cut = auction[a].cut
             /\ new.status = "OPEN" /\ new.close > auction[a].close
             /\ auction[a].kind = "UNIQUE"
  <2>1. Reopened(a, auction[a].close + Turn, auction[a].close + Turn + BidExtension,
                 auction[a].host, auction[a].extensions - 1)
    BY <1>4 DEF FinalizeExtend
  <2>2. new.close > auction[a].close
    <3>1. new.close = auction[a].close + Turn
      BY <1>3, <2>1
    <3> QED
      BY <1>0, <3>1
  <2> QED
    BY <1>3, <1>4, <2>1, <2>2 DEF FinalizeExtend, WantsExtension
<1>5. ASSUME Live(a), Current(e), ~ WantsExtension(a), FinalizeBlocked(e, a)
      PROVE  /\ UNCHANGED <<top, alive>> /\ Answered(e, "REFUSED")
             /\ \A b \in Auctions : b # a => auction'[b] = auction[b]
             /\ new.kind = auction[a].kind /\ new.cut = auction[a].cut
             /\ new.status = "OPEN" /\ top[a].general \in alive
             /\ auction[a].kind = "UNIQUE"
             /\ auction[a].status = "OPEN" => new.close > auction[a].close
  <2>1. PICK close, latest, host, extensions :
          /\ Reopened(a, close, latest, host, extensions)
          /\ close \in {e.at + Turn, auction[a].close + BidExtension, auction[a].close + Turn}
    BY <1>5 DEF FinalizeBlocked
  <2>2. new.close = close
    BY <1>3, <2>1
  <2>3. auction[a].status = "OPEN" => auction[a].close <= e.at
    BY <1>5 DEF Current
  <2>4. auction[a].status = "OPEN" => new.close > auction[a].close
    BY <1>0, <2>1, <2>2, <2>3
  <2> QED
    BY <1>3, <1>5, <2>1, <2>4 DEF FinalizeBlocked
<1>6. CASE Live(a) /\ ~ WantsExtension(a) /\ FinalizeOrphan(e, a)
  <2>1. auction' = [auction EXCEPT ![a].status = "FINALIZING"]
    BY <1>6 DEF FinalizeOrphan
  <2>2. new.status = "FINALIZING" /\ new.host = auction[a].host /\ new.extensions = auction[a].extensions
    BY <1>2, <2>1
  <2> QED
    BY <1>0, <1>2, <1>6, <2>1, <2>2 DEF FinalizeOrphan
<1>7. CASE Live(a) /\ (FinalizeUnsold(e, a) \/ FinalizeCancel(e, a) \/ FinalizeSold(e, a))
  <2>1. PICK status \in {"FINISHED", "CANCELED"} : auction' = [auction EXCEPT ![a].status = status]
    BY <1>7 DEF FinalizeUnsold, FinalizeCancel, FinalizeSold
  <2>2. UNCHANGED <<top, alive>>
    BY <1>7 DEF FinalizeUnsold, FinalizeCancel, FinalizeSold
  <2>3. new.status = status
    BY <1>2, <2>1
  <2> QED
    BY <1>0, <1>2, <1>7, <2>1, <2>2, <2>3
<1> QED
  BY <1>0, <1>1, <1>4, <1>5, <1>6, <1>7 DEF Finalize

\* Generals are somebody.
LEMMA GeneralsNamed == \A g \in Generals : g # NoOne
  BY NoOneAssumption

\* There are no rows at the start.
LEMMA RowsInit == Init => \A a \in Auctions : RowInv(a) /\ OrphanInv(a)
  BY DEF Init, RowInv, OrphanInv, Nobody

\* Every step keeps the shape of the rows.
LEMMA RowStep ==
    TypeOK /\ (\A a \in Auctions : RowInv(a)) /\ [Next]_vars => \A a \in Auctions : RowInv(a)'
<1> SUFFICES ASSUME TypeOK, \A b \in Auctions : RowInv(b), [Next]_vars, NEW a \in Auctions
             PROVE  RowInv(a)'
  OBVIOUS
<1>1. CASE Players
  <2>1. events' = events
    BY <1>1, PlayersKeep
  <2>2. CASE auction'[a] = auction[a] /\ top'[a] = top[a]
    BY <2>1, <2>2 DEF RowInv, Nobody
  <2>3. CASE RowOpened(a)
    BY <2>1, <2>3, GeneralsNamed DEF RowInv, RowOpened, Nobody
  <2>4. CASE RowRaised(a)
    BY <2>1, <2>4, GeneralsNamed DEF RowInv, RowRaised, Nobody
  <2> QED
    BY <1>1, <2>2, <2>3, <2>4, PlayersRows
<1>2. ASSUME NEW e \in events, Accept(e) \/ Finalize(e) \/ EventFails(e)
      PROVE  RowInv(a)'
  <2>1. \A f \in events' : \E d \in events : d.auction = f.auction
    BY <1>2, EngineReplaces
  <2>2. CASE Accept(e) \/ EventFails(e)
    <3>1. UNCHANGED <<auction, top>>
      BY <2>2 DEF Accept, EventFails, game
    <3>2. RowInv(a)
      OBVIOUS
    <3> QED
      BY <2>1, <3>1, <3>2 DEF RowInv, Nobody
  <2>3. CASE Finalize(e)
    <3>1. /\ UNCHANGED top /\ auction'[a].kind = auction[a].kind
          /\ auction'[a].status = "ABSENT" => auction[a].status = "ABSENT"
      BY <2>3, FinalizeRow
    <3>2. RowInv(a)
      OBVIOUS
    <3> QED
      BY <2>1, <3>1, <3>2 DEF RowInv, Nobody
  <2> QED
    BY <1>2, <2>2, <2>3
<1>3. CASE Clock
  <2>1. \A f \in events' : \E d \in events : d.auction = f.auction
    BY <1>3, ClockKeeps, ReconcileMoves
  <2>2. top' = top /\ auction'[a].status = auction[a].status /\ auction'[a].kind = auction[a].kind
    BY <1>3, ClockKeeps, ClockRows
  <2> QED
    BY <2>1, <2>2 DEF RowInv, Nobody
<1>4. CASE WorkerStep \/ WorkerCrash
  <2>1. UNCHANGED <<auction, top>>
    BY <1>4, WorkerKeeps DEF game
  <2>2. \A f \in events' : f \in events \/ Live(f.auction)
    BY <1>4, WorkerKeeps, ProcessCreates
  <2> QED
    BY <2>1, <2>2 DEF RowInv, Live, Nobody
<1>5. CASE UNCHANGED vars
  BY <1>5 DEF vars, RowInv, Nobody
<1>6. CASE Unify
  <2>1. UNCHANGED <<top, events>> /\ RowInv(a)
    BY <1>6, UnifyRows
  <2>2. /\ auction'[a].kind = auction[a].kind
        /\ auction'[a].status = "ABSENT" => auction[a].status = "ABSENT"
    BY <1>6, UnifyRows DEF RowEnded
  <2> QED
    BY <2>1, <2>2 DEF RowInv, Nobody
<1> QED
  BY <1>1, <1>2, <1>3, <1>4, <1>5, <1>6 DEF Next, Engine

\* Only a missing host or bidder makes the finalization stop half-way, and nobody who is gone returns.
LEMMA OrphanStep ==
    TypeOK /\ (\A a \in Auctions : RowInv(a) /\ OrphanInv(a)) /\ [Next]_vars
        => \A a \in Auctions : OrphanInv(a)'
<1> SUFFICES ASSUME TypeOK, \A b \in Auctions : RowInv(b) /\ OrphanInv(b), [Next]_vars,
                    NEW a \in Auctions
             PROVE  OrphanInv(a)'
  OBVIOUS
<1>1. CASE Players
  <2>1. alive' \subseteq alive
    BY <1>1, PlayersRows
  <2>2. CASE auction'[a] = auction[a] /\ top'[a] = top[a]
    BY <2>1, <2>2 DEF OrphanInv, WantsExtension
  <2> QED
    BY <1>1, <2>2, PlayersRows DEF RowOpened, RowRaised, OrphanInv
<1>2. ASSUME NEW e \in events, Finalize(e)
      PROVE  OrphanInv(a)'
  <2>1. CASE auction'[a] = auction[a] \/ auction'[a].status # "FINALIZING"
    BY <1>2, <2>1, FinalizeRow DEF OrphanInv, WantsExtension
  <2>2. CASE e.auction = a /\ auction'[a] # auction[a] /\ auction'[a].status = "FINALIZING"
    BY <1>2, <2>2, FinalizeRow DEF OrphanInv, WantsExtension, RowInv, Nobody
  <2> QED
    BY <1>2, <2>1, <2>2, FinalizeRow
<1>3. ASSUME NEW e \in events, Accept(e) \/ EventFails(e)
      PROVE  OrphanInv(a)'
  BY <1>3 DEF Accept, EventFails, game, OrphanInv, WantsExtension
<1>4. CASE Clock
  BY <1>4, ClockKeeps, ClockRows DEF OrphanInv, WantsExtension
<1>5. CASE WorkerStep \/ WorkerCrash
  BY <1>5, WorkerKeeps DEF game, OrphanInv, WantsExtension
<1>6. CASE UNCHANGED vars
  BY <1>6 DEF vars, OrphanInv, WantsExtension
<1>7. CASE Unify
  <2>1. UNCHANGED <<top, alive>> /\ OrphanInv(a)
    BY <1>7, UnifyRows
  <2>2. auction'[a] = auction[a] \/ auction'[a].status = "CANCELED"
    BY <1>7, UnifyRows DEF RowEnded
  <2> QED
    BY <2>1, <2>2 DEF OrphanInv, WantsExtension
<1> QED
  BY <1>1, <1>2, <1>3, <1>4, <1>5, <1>6, <1>7 DEF Next, Engine

\* A row waits as FINALIZING only for a host or a bidder who is gone: no rule that
\* reopens, sells or refunds leaves it there.
THEOREM OrphansOnly == Spec => []OnlyOrphansWait
<1> DEFINE I == TypeOK /\ \A a \in Auctions : RowInv(a) /\ OrphanInv(a)
<1>1. Init => I
  BY InitTyped, RowsInit
<1>2. I /\ [Next]_vars => I'
  BY TypeStep, RowStep, OrphanStep
<1>3. I => OnlyOrphansWait
  BY DEF OnlyOrphansWait, OrphanInv
<1> HIDE DEF I
<1> QED
  BY <1>1, <1>2, <1>3, PTL DEF Spec

-----------------------------------------------------------------------------
(* Commands. *)

\* A command that failed stays failed.
LEMMA FailedStays ==
    ASSUME TypeOK, [Next]_vars, NEW a \in Auctions, Failed(a)
    PROVE  Failed(a)'
<1>1. PICK d \in events : d.auction = a /\ d.status = "FAILED"
  BY DEF Failed
<1>2. CASE Players \/ UNCHANGED vars
  BY <1>1, <1>2, PlayersKeep DEF Failed, vars
<1>3. ASSUME NEW e \in events, Accept(e) \/ Finalize(e) \/ EventFails(e)
      PROVE  Failed(a)'
  <2>1. e.status \in {"PENDING", "ACCEPTED"}
    BY <1>3 DEF Accept, Finalize, EventFails
  <2>2. \E f : events' = Replaced(e, f)
    BY <1>3, FinalizeAnswers DEF Accept, EventFails, Answered
  <2>3. d \in events'
    BY <1>1, <2>1, <2>2 DEF Replaced
  <2> QED
    BY <1>1, <2>3 DEF Failed
<1>4. CASE Clock
  BY <1>1, <1>4, ClockKeeps, ReconcileMoves DEF Failed
<1>5. CASE WorkerStep \/ WorkerCrash
  BY <1>1, <1>5, WorkerKeeps, ProcessCreates DEF Failed
<1>6. CASE Unify
  BY <1>1, <1>6 DEF Failed, Unify
<1> QED
  BY <1>2, <1>3, <1>4, <1>5, <1>6 DEF Next, Engine

\* What CommandInv says of one command.
Fits(e, a) ==
    /\ e.status \in {"PENDING", "ACCEPTED", "REFUSED"}
    /\ e.status = "PENDING" => e.close <= tick
    /\ e.status = "ACCEPTED" => e.close <= e.at
    /\ ~ Bought(a) => e.retry = 0
    /\ ~ Bought(a) \/ e.retry = 1 =>
          /\ e.close <= auction[a].close
          /\ e.status = "REFUSED" => e.close < auction[a].close

\* Every step keeps each command of an open auction in one of the places its close allows.
LEMMA CommandStep ==
    TypeOK /\ Inv /\ [Next]_vars => \A a \in Auctions : CommandInv(a)'
<1> SUFFICES ASSUME TypeOK, Inv, [Next]_vars, NEW a \in Auctions,
                    auction'[a].status = "OPEN", ~ auction'[a].cut, ~ Failed(a)',
                    NEW f \in events', f.auction = a
             PROVE  Fits(f, a)'
  BY DEF CommandInv, Fits
<1>0. /\ TypeOK' /\ ~ Failed(a)
      /\ tick \in Nat /\ tick' \in Nat /\ worker.now \in Nat /\ worker.now <= tick
      /\ auction[a].close \in Nat /\ auction'[a].close \in Nat
      /\ \A e \in events : e.close \in Nat /\ e.at \in Nat
      /\ RowInv(a) /\ OrphanInv(a)
  <2>1. TypeOK' /\ ~ Failed(a)
    BY TypeStep, FailedStays
  <2> QED
    BY <2>1 DEF TypeOK, Rows, Commands, Inv, TimeInv
<1>1. ASSUME auction[a].status = "OPEN", ~ auction[a].cut, NEW e \in events, e.auction = a
      PROVE  Fits(e, a)
  BY <1>0, <1>1 DEF Inv, CommandInv, Fits
<1>2. CASE Players
  <2>1. events' = events /\ tick' = tick
    BY <1>2, PlayersKeep DEF clocks
  <2>2. CASE auction'[a] = auction[a] /\ top'[a] = top[a]
    BY <1>1, <2>1, <2>2 DEF Fits, Bought
  <2>3. CASE RowOpened(a)
    BY <1>0, <2>1, <2>3 DEF RowOpened, RowInv
  <2>4. CASE RowRaised(a)
    <3>1. Fits(f, a)
      BY <1>1, <2>1, <2>4 DEF RowRaised
    <3>2. ~ Bought(a)
      <4>1. top[a].amount \in Nat /\ top'[a].amount \in Nat /\ FinishBid \in Nat
        <5>1. top[a].amount \in Nat
          BY AmountTyped
        <5>2. top'[a] \in Bids
          BY <1>0 DEF TypeOK
        <5>3. top'[a].amount \in Amounts \cup {0}
          BY <5>2 DEF Bids
        <5>4. FinishBid \in Nat
          BY AmountsAssumption
        <5> QED
          BY <5>1, <5>3, <5>4, AmountTyped
      <4> QED
        BY <2>4, <4>1 DEF RowRaised, Bought
    <3>3. CASE Bought(a)'
      BY <2>1, <3>1, <3>2, <3>3 DEF Fits
    <3>4. CASE ~ Bought(a)'
      <4>1. auction'[a].close >= auction[a].close
        BY <2>4, <3>4, GeneralsNamed DEF RowRaised, Bought
      <4>2. f.close \in Nat
        BY <1>0, <2>1
      <4> QED
        BY <1>0, <2>1, <3>1, <3>2, <4>1, <4>2 DEF Fits
    <3> QED
      BY <3>3, <3>4
  <2> QED
    BY <1>2, <2>2, <2>3, <2>4, PlayersRows
<1>3. ASSUME NEW e \in events, Accept(e) \/ EventFails(e)
      PROVE  Fits(f, a)'
  <2>1. UNCHANGED <<auction, top, tick>>
    BY <1>3 DEF Accept, EventFails, game, clocks
  <2>2. CASE f \in events
    BY <1>1, <2>1, <2>2 DEF Fits, Bought
  <2>3. CASE f \notin events
    <3>1. /\ e.auction = a /\ f.close = e.close /\ f.retry = e.retry
          /\ \/ e.status = "PENDING" /\ f.status = "ACCEPTED" /\ f.at = tick
             \/ e.status = "ACCEPTED" /\ f.status \in {"OK", "REFUSED", "FAILED"}
      BY <1>3, <2>3, EngineReplaces
    <3>2. Fits(e, a)
      BY <1>1, <2>1, <3>1
    <3>3. CASE Accept(e)
      <4>1. e.status = "PENDING"
        BY <3>3 DEF Accept
      <4> QED
        BY <2>1, <3>1, <3>2, <4>1 DEF Fits, Bought
    <3>4. CASE EventFails(e)
      <4>1. e \in Commands
        BY DEF TypeOK
      <4>2. [e EXCEPT !.status = "FAILED", !.at = 0].status = "FAILED"
        BY <4>1 DEF Commands
      <4>3. [e EXCEPT !.status = "FAILED", !.at = 0].auction = a
        BY <3>1, <4>1 DEF Commands
      <4>4. [e EXCEPT !.status = "FAILED", !.at = 0] \in events'
        BY <3>4 DEF EventFails, Answered, Replaced
      <4> QED
        BY <4>2, <4>3, <4>4 DEF Failed
    <3> QED
      BY <1>3, <3>3, <3>4
  <2> QED
    BY <2>2, <2>3
<1>4. ASSUME NEW e \in events, Finalize(e)
      PROVE  Fits(f, a)'
  <2>1. UNCHANGED <<top, tick>>
    BY <1>4, FinalizeRow DEF Finalize, clocks
  <2>2. /\ e \in Commands /\ e.status = "ACCEPTED"
    BY <1>4 DEF Finalize, TypeOK
  <2>3. CASE e.auction # a
    <3>1. auction'[a] = auction[a]
      BY <1>4, <2>3, FinalizeRow
    <3>2. f \in events
      BY <1>4, <2>3, EngineReplaces
    <3> QED
      BY <1>1, <2>1, <3>1, <3>2 DEF Fits, Bought
  <2>4. CASE e.auction = a /\ auction'[a] = auction[a]
    <3>1. Answered(e, "REFUSED") /\ ~ Current(e)
      BY <1>0, <1>4, <2>4, FinalizeRow
    <3>2. f \in events \/ (f.close = e.close /\ f.retry = e.retry /\ f.status = "REFUSED")
      BY <2>2, <3>1 DEF Answered, Replaced, Commands
    <3>3. Fits(e, a)
      BY <1>1, <2>4
    <3>4. CASE f \in events
      BY <1>1, <2>1, <2>4, <3>4 DEF Fits, Bought
    <3>5. CASE f.close = e.close /\ f.retry = e.retry /\ f.status = "REFUSED"
      <4>1. e.close = auction[a].close => auction[a].close > e.at
        BY <1>0, <2>4, <3>1 DEF Current
      <4>2. e.close <= e.at
        BY <2>2, <3>3 DEF Fits
      <4>3. e.close # auction[a].close
        BY <1>0, <4>1, <4>2
      <4> QED
        BY <1>0, <2>1, <2>4, <3>3, <3>5, <4>3 DEF Fits, Bought
    <3> QED
      BY <3>2, <3>4, <3>5
  <2>5. CASE e.auction = a /\ auction'[a] # auction[a]
    <3>1. /\ Live(a) /\ Answered(e, "REFUSED") /\ auction[a].kind = "UNIQUE"
          /\ auction'[a].kind = auction[a].kind /\ auction'[a].cut = auction[a].cut
          /\ WantsExtension(a) \/ top[a].general \in alive
          /\ auction[a].status = "OPEN" => auction'[a].close > auction[a].close
      BY <1>4, <2>5, FinalizeRow
    <3>2. auction[a].status = "OPEN"
      BY <1>0, <3>1 DEF Live, OrphanInv, RowInv
    <3>3. f \in events \/ (f.close = e.close /\ f.retry = e.retry /\ f.status = "REFUSED")
      BY <2>2, <3>1 DEF Answered, Replaced, Commands
    <3>4. ~ Bought(a) /\ ~ Bought(a)'
      BY <3>1 DEF Bought
    <3>5. ASSUME NEW d \in events, d.auction = a
          PROVE  d.close < auction'[a].close /\ d.retry = 0 /\ Fits(d, a)
      BY <1>0, <1>1, <3>1, <3>2, <3>4, <3>5 DEF Fits
    <3>6. CASE f \in events
      BY <1>0, <2>1, <3>4, <3>5, <3>6 DEF Fits
    <3>7. CASE f.close = e.close /\ f.retry = e.retry /\ f.status = "REFUSED"
      BY <1>0, <2>5, <3>4, <3>5, <3>7 DEF Fits
    <3> QED
      BY <3>3, <3>6, <3>7
  <2> QED
    BY <2>3, <2>4, <2>5
<1>5. CASE Clock
  <2>1. /\ auction[a].status = "OPEN" /\ ~ auction[a].cut
        /\ auction'[a].close >= auction[a].close /\ tick' >= tick
        /\ Bought(a)' <=> Bought(a)
    BY <1>5, ClockRows, ClockKeeps DEF Bought
  <2>2. ASSUME NEW e \in events, e.auction = a, f.close = e.close, f.retry = e.retry,
               f.status = e.status, e.status = "ACCEPTED" => f.at >= e.at, f.at \in Nat
        PROVE  Fits(f, a)'
    <3>1. Fits(e, a)
      BY <1>1, <2>1, <2>2
    <3> QED
      BY <1>0, <2>1, <2>2, <3>1 DEF Fits
  <2>3. f.at \in Nat
    BY <1>0 DEF TypeOK, Commands
  <2>4. CASE UNCHANGED events
    BY <1>0, <2>2, <2>3, <2>4
  <2>5. ASSUME NEW shift \in Shifts, Reconcile(shift)
        PROVE  Fits(f, a)'
    <3>1. PICK e \in events : /\ f.auction = e.auction /\ f.close = e.close /\ f.retry = e.retry
                              /\ f.status = e.status
                              /\ e.status = "ACCEPTED" => f.at = e.at + shift
      BY <2>5, ReconcileMoves
    <3>2. shift \in Nat
      BY TicksAssumption
    <3> QED
      BY <1>0, <2>2, <2>3, <3>1, <3>2
  <2> QED
    BY <1>5, <2>4, <2>5, ClockKeeps
<1>6. CASE WorkerStep \/ WorkerCrash
  <2>1. UNCHANGED <<auction, top, tick>>
    BY <1>6, WorkerKeeps DEF game, clocks
  <2>2. CASE f \in events
    BY <1>1, <2>1, <2>2 DEF Fits, Bought
  <2>3. CASE f \notin events
    <3>1. /\ f.close = auction[a].close /\ f.status = "PENDING" /\ ~ NotDue(a)
          /\ f.retry \in NextRetry(a)
      BY <1>6, <2>3, WorkerKeeps, ProcessCreates
    <3>2. f.close <= tick
      BY <1>0, <2>1, <3>1 DEF NotDue
    <3>3. ~ Bought(a) => f.retry = 0
      <4> SUFFICES ASSUME ~ Bought(a), f.retry # 0 PROVE FALSE
        OBVIOUS
      <4>1. f.retry = 1
        BY <3>1 DEF NextRetry, Retries
      <4>2. PICK e \in Command(a, 0) : e.status \in {"REFUSED", "FAILED"}
        BY <3>1, <4>1 DEF NextRetry
      <4>3. e \in events /\ e.auction = a /\ e.close = auction[a].close
        BY DEF Command
      <4>4. Fits(e, a)
        BY <1>1, <2>1, <4>3
      <4> QED
        BY <1>0, <4>2, <4>3, <4>4 DEF Fits
    <3> QED
      BY <1>0, <2>1, <3>1, <3>2, <3>3 DEF Fits, Bought
  <2> QED
    BY <2>2, <2>3
<1>7. CASE UNCHANGED vars
  BY <1>1, <1>7 DEF vars, Fits, Bought
<1>8. CASE Unify
  <2>1. UNCHANGED <<top, tick, events>>
    BY <1>8 DEF Unify, clocks
  <2>2. auction'[a] = auction[a]
    BY <1>8, UnifyRows DEF RowEnded
  <2> QED
    BY <1>1, <2>1, <2>2 DEF Fits, Bought
<1> QED
  BY <1>2, <1>3, <1>4, <1>5, <1>6, <1>7, <1>8 DEF Next, Engine

\* The invariants together are inductive.
LEMMA InvStep == TypeOK /\ Inv /\ [Next]_vars => TypeOK' /\ Inv'
<1> SUFFICES ASSUME TypeOK, Inv, [Next]_vars PROVE TypeOK' /\ Inv'
  OBVIOUS
<1>1. TypeOK' /\ TimeInv'
  BY TypeStep, TimeStep DEF Inv
<1>2. \A a \in Auctions : RowInv(a)'
  BY RowStep DEF Inv
<1>3. \A a \in Auctions : OrphanInv(a)'
  BY OrphanStep DEF Inv
<1>4. \A a \in Auctions : CommandInv(a)'
  BY CommandStep
<1> QED
  BY <1>1, <1>2, <1>3, <1>4 DEF Inv

\* They hold at the start.
LEMMA InvInit == Init => TypeOK /\ Inv
<1>1. Init => \A a \in Auctions : CommandInv(a)
  BY DEF Init, CommandInv
<1> QED
  BY <1>1, InitTyped, TimeInit, RowsInit DEF Inv

\* An open auction always has a command under way or a name left for the next one,
\* unless one of its commands failed or the cap cut a bid's close back: the close
\* returns to a tick it had before at most once, through the instant sale, and the
\* one retry is for that.
THEOREM NamesSuffice == Spec => []NotExhausted
<1>1. TypeOK /\ Inv => NotExhausted
  <2> SUFFICES ASSUME TypeOK, Inv, NEW a \in Auctions, auction[a].status = "OPEN",
                      ~ auction[a].cut, ~ Failed(a), NextRetry(a) = {}
               PROVE  Unanswered(a)
    BY DEF NotExhausted, Failed
  <2>0. auction[a].close \in Nat
    BY DEF TypeOK, Rows
  <2>1. \A e \in events : e.auction = a => Fits(e, a)
    BY DEF Inv, CommandInv, Fits
  <2>2. PICK e \in Command(a, 0) : TRUE
    <3>1. 0 \in Retries /\ 0 .. 0 - 1 = {}
      BY DEF Retries
    <3> QED
      BY <3>1 DEF NextRetry
  <2>3. e \in events /\ e.auction = a /\ e.close = auction[a].close /\ e.retry = 0
    BY DEF Command
  <2>4. CASE e.status # "REFUSED"
    BY <2>1, <2>3, <2>4 DEF Fits, Unanswered
  <2>5. CASE e.status = "REFUSED"
    <3>1. Bought(a)
      BY <2>0, <2>1, <2>3, <2>5 DEF Fits
    <3>2. PICK d \in Command(a, 1) : TRUE
      <4>1. \A q \in 0 .. 1 - 1 : q = 0
        OBVIOUS
      <4>2. 1 \in Retries
        BY DEF Retries
      <4> QED
        BY <2>2, <2>5, <4>1, <4>2 DEF NextRetry
    <3>3. d \in events /\ d.auction = a /\ d.close = auction[a].close /\ d.retry = 1
      BY DEF Command
    <3>4. d.status \in {"PENDING", "ACCEPTED"}
      BY <2>0, <2>1, <3>3 DEF Fits
    <3> QED
      BY <3>3, <3>4 DEF Unanswered
  <2> QED
    BY <2>4, <2>5
<1> QED
  BY <1>1, InvInit, InvStep, PTL DEF Spec

-----------------------------------------------------------------------------
(* Money. *)

\* What Settled says of one auction.
Balanced(a) ==
    /\ \A g \in Generals : paid[a][g] = Owes(a, g)
    /\ auction[a].status = "FINISHED" =>
          lot[a] = IF top[a] = Nobody THEN auction[a].host ELSE top[a].general
    /\ auction[a].status = "CANCELED" => lot[a] = NoOne

\* An auction that is neither decided before nor after a step, whose bid does not
\* change.
LEMMA BalanceKept ==
    ASSUME TypeOK, NEW a \in Auctions, Balanced(a),
           top'[a] = top[a], paid'[a] = paid[a],
           \/ auction'[a].status \notin {"FINISHED", "CANCELED"}
              /\ auction[a].status \notin {"FINISHED", "CANCELED"}
           \/ /\ auction'[a].status = auction[a].status /\ auction'[a].host = auction[a].host
              /\ auction'[a].kind = auction[a].kind /\ lot'[a] = lot[a]
    PROVE  Balanced(a)'
  BY DEF Balanced, Owes, Nobody

\* Opening and bidding take from each general exactly what his standing bid owes more.
LEMMA PlayersBalance ==
    ASSUME TypeOK, \A b \in Auctions : RowInv(b) /\ Balanced(b), Players, NEW a \in Auctions
    PROVE  Balanced(a)'
<1>0. /\ RowInv(a) /\ Balanced(a) /\ auction[a] \in Rows /\ top[a] \in Bids
      /\ top[a].amount \in Nat /\ \A amount \in Amounts : amount \in Nat
      /\ \A g \in Generals : paid[a][g] \in Int
  BY AmountTyped DEF TypeOK
<1>1. ASSUME NEW b \in Auctions, NEW host \in Generals \cup {NoOne}, OpenResource(b, host)
      PROVE  Balanced(a)'
  <2>1. UNCHANGED <<top, paid>>
    BY <1>1 DEF OpenResource
  <2>2. CASE a # b
    <3>1. auction'[a] = auction[a] /\ lot'[a] = lot[a]
      BY <1>1, <2>2 DEF OpenResource, TypeOK
    <3> QED
      BY <1>0, <2>1, <3>1, BalanceKept
  <2>3. CASE a = b
    <3>1. auction'[a].status = "OPEN" /\ auction[a].status = "ABSENT"
      BY <1>0, <1>1, <2>3 DEF OpenResource, TypeOK, Rows
    <3> QED
      BY <1>0, <2>1, <3>1, BalanceKept
  <2> QED
    BY <2>2, <2>3
<1>2. ASSUME NEW b \in Auctions, NEW host \in Generals, NEW amount \in Amounts,
             OpenUnique(b, host, amount)
      PROVE  Balanced(a)'
  <2>1. UNCHANGED lot
    BY <1>2 DEF OpenUnique
  <2>2. CASE a # b
    <3>1. auction'[a] = auction[a] /\ top'[a] = top[a] /\ paid'[a] = paid[a]
      BY <1>2, <2>2 DEF OpenUnique, TypeOK
    <3> QED
      BY <1>0, <2>1, <3>1, BalanceKept
  <2>3. CASE a = b
    <3>1. auction'[a].status = "OPEN" /\ auction[a].status = "ABSENT"
      BY <1>0, <1>2, <2>3 DEF OpenUnique, TypeOK, Rows
    <3>2. top'[a].general = host /\ top'[a].amount = amount
      BY <1>2, <2>3 DEF OpenUnique, TypeOK
    <3>3. \A g \in Generals : paid'[a][g] = IF g = host THEN amount ELSE paid[a][g]
      BY <1>2, <2>3 DEF OpenUnique, TypeOK
    <3>4. \A g \in Generals : paid[a][g] = 0
      BY <1>0, <3>1, GeneralsNamed DEF Balanced, Owes, RowInv, Nobody
    <3>5. \A g \in Generals : paid'[a][g] = Owes(a, g)'
      BY <1>0, <3>1, <3>2, <3>3, <3>4 DEF Owes
    <3> QED
      BY <3>1, <3>5 DEF Balanced
  <2> QED
    BY <2>2, <2>3
<1>3. ASSUME NEW b \in Auctions, NEW g \in Generals, NEW amount \in Amounts, NEW extend \in BOOLEAN,
             NEW at \in auction[b].opened .. tick, Bid(b, g, amount, extend, at)
      PROVE  Balanced(a)'
  <2>1. UNCHANGED lot
    BY <1>3 DEF Bid
  <2>2. CASE a # b
    <3>1. auction'[a] = auction[a] /\ top'[a] = top[a]
      BY <1>3, <2>2, BidRaises
    <3>2. paid'[a] = paid[a]
      BY <1>3, <2>2 DEF Bid, TypeOK
    <3> QED
      BY <1>0, <2>1, <3>1, <3>2, BalanceKept
  <2>3. CASE a = b
    <3>1. auction'[a].status = "OPEN" /\ auction[a].status = "OPEN"
      BY <1>3, <2>3, BidRaises DEF RowRaised
    <3>2. top'[a].general = g /\ top'[a].amount = amount
      BY <1>3, <2>3 DEF Bid, TypeOK
    <3>3. paid'[a] = Payments(a, g, amount)
      BY <1>3, <2>3 DEF Bid, TypeOK
    <3>4. \A h \in Generals : paid[a][h] = IF h = top[a].general THEN top[a].amount ELSE 0
      BY <1>0, <3>1 DEF Balanced, Owes
    <3>5. \A h \in Generals : paid'[a][h] = IF h = g THEN amount ELSE 0
      BY <1>0, <3>3, <3>4 DEF Payments
    <3>6. \A h \in Generals : paid'[a][h] = Owes(a, h)'
      BY <1>0, <3>1, <3>2, <3>5 DEF Owes
    <3> QED
      BY <3>1, <3>6 DEF Balanced
  <2> QED
    BY <2>2, <2>3
<1>4. ASSUME UNCHANGED <<auction, top, paid, lot>>
      PROVE  Balanced(a)'
  BY <1>0, <1>4, BalanceKept
<1>5. ASSUME NEW hint \in hints, AddTimer(hint[1], hint[2])
      PROVE  Balanced(a)'
  BY <1>4, <1>5 DEF AddTimer, game
<1>6. ASSUME NEW g, Leave(g)
      PROVE  Balanced(a)'
  BY <1>4, <1>6 DEF Leave
<1> QED
  BY <1>1, <1>2, <1>3, <1>5, <1>6 DEF Players

\* Every outcome of the finalization pays back or hands over what the row's new status owes.
LEMMA FinalizeBalance ==
    ASSUME TypeOK, \A b \in Auctions : RowInv(b) /\ Balanced(b),
           NEW e \in events, Finalize(e), NEW b \in Auctions
    PROVE  Balanced(b)'
<1> DEFINE a == e.auction
<1>0. /\ a \in Auctions /\ top' = top
      /\ \A c \in Auctions : c # a => auction'[c] = auction[c]
  BY FinalizeRow
<1>1. RowInv(a) /\ Balanced(a) /\ Balanced(b)
  BY <1>0
<1>2. /\ top[a].amount \in Nat
      /\ \A g \in Generals : paid[a][g] \in Int
      /\ top[a].general \in Generals \cup {NoOne}
  BY <1>0, AmountTyped DEF TypeOK, Bids
<1>3. b # a => paid'[b] = paid[b] /\ lot'[b] = lot[b]
  BY <1>0 DEF Finalize, FinalizeNothing, game, FinalizeExtend, FinalizeOrphan, FinalizeUnsold,
      FinalizeCancel, FinalizeSold, FinalizeBlocked, Refund, TypeOK
<1>4. CASE b # a
  BY <1>0, <1>1, <1>3, <1>4, BalanceKept
<1>5. CASE b = a /\ FinalizeNothing(e)
  BY <1>1, <1>5, BalanceKept DEF FinalizeNothing, game
<1>6. CASE b = a /\ Live(a) /\ (FinalizeExtend(e, a) \/ FinalizeOrphan(e, a) \/ FinalizeBlocked(e, a))
  <2>1. paid' = paid
    BY <1>6 DEF FinalizeExtend, FinalizeOrphan, FinalizeBlocked
  <2>2. ASSUME NEW close, NEW latest, NEW host, NEW extensions,
               Reopened(a, close, latest, host, extensions)
        PROVE  auction'[a].status = "OPEN"
    BY <1>0, <2>2 DEF Reopened, TypeOK, Rows
  <2>3. FinalizeOrphan(e, a) => auction'[a].status = "FINALIZING"
    BY <1>0 DEF FinalizeOrphan, TypeOK, Rows
  <2>4. auction'[a].status \in {"OPEN", "FINALIZING"}
    BY <1>6, <2>2, <2>3 DEF FinalizeExtend, FinalizeBlocked
  <2> QED
    BY <1>0, <1>1, <1>6, <2>1, <2>4, BalanceKept DEF Live
<1>7. ASSUME NEW status, auction' = [auction EXCEPT ![a].status = status]
      PROVE  /\ auction'[a].status = status /\ auction'[a].kind = auction[a].kind
             /\ auction'[a].host = auction[a].host
  BY <1>0, <1>7 DEF TypeOK, Rows
<1>8. Live(a) => \A g \in Generals :
        paid[a][g] = IF g = top[a].general THEN top[a].amount ELSE 0
  BY <1>1, <1>2 DEF Balanced, Owes, Live
<1>9. CASE b = a /\ Live(a) /\ FinalizeUnsold(e, a)
  <2>1. /\ auction'[a].status = "FINISHED" /\ auction'[a].kind = auction[a].kind
        /\ auction'[a].host = auction[a].host
    BY <1>7, <1>9 DEF FinalizeUnsold
  <2>2. top[a] = Nobody /\ paid' = paid /\ lot'[a] = auction[a].host
    BY <1>0, <1>9 DEF FinalizeUnsold, TypeOK
  <2>3. top[a].general = NoOne /\ top[a].amount = 0
    BY <2>2 DEF Nobody
  <2>4. \A g \in Generals : paid'[a][g] = 0 /\ Owes(a, g)' = 0
    BY <1>0, <1>8, <1>9, <2>1, <2>2, <2>3, GeneralsNamed DEF Owes
  <2> QED
    BY <1>0, <1>9, <2>1, <2>2, <2>4 DEF Balanced, Nobody
<1>10. CASE b = a /\ Live(a) /\ FinalizeCancel(e, a)
  <2>1. auction'[a].status = "CANCELED" /\ auction'[a].kind = auction[a].kind
    BY <1>7, <1>10 DEF FinalizeCancel
  <2>2. lot'[a] = NoOne /\ top[a].general \in Generals
    BY <1>0, <1>10 DEF FinalizeCancel, TypeOK
  <2>3. \A g \in Generals :
           paid'[a][g] = IF g = top[a].general THEN paid[a][g] - top[a].amount ELSE paid[a][g]
    BY <1>0, <1>10, <2>2 DEF FinalizeCancel, Refund, TypeOK
  <2>4. \A g \in Generals : paid'[a][g] = 0 /\ Owes(a, g)' = 0
    BY <1>0, <1>2, <1>8, <1>10, <2>1, <2>3 DEF Owes
  <2> QED
    BY <1>10, <2>1, <2>2, <2>4 DEF Balanced
<1>11. CASE b = a /\ Live(a) /\ FinalizeSold(e, a)
  <2>1. /\ auction'[a].status = "FINISHED" /\ auction'[a].kind = auction[a].kind
        /\ auction'[a].host = auction[a].host
    BY <1>7, <1>11 DEF FinalizeSold
  <2>2. lot'[a] = top[a].general /\ top[a].general \in Generals
    BY <1>0, <1>11 DEF FinalizeSold, TypeOK
  <2>3. \A g \in Generals :
           paid'[a][g] = IF g = auction[a].host /\ auction[a].kind = "RESOURCE"
                         THEN paid[a][g] - top[a].amount ELSE paid[a][g]
    BY <1>0, <1>11 DEF FinalizeSold, TypeOK
  <2>4. \A g \in Generals : paid'[a][g] = Owes(a, g)'
    BY <1>0, <1>2, <1>8, <1>11, <2>1, <2>3 DEF Owes
  <2>5. top[a] # Nobody
    BY <2>2, GeneralsNamed DEF Nobody
  <2> QED
    BY <1>0, <1>11, <2>1, <2>2, <2>4, <2>5 DEF Balanced, Nobody
<1> QED
  BY <1>4, <1>5, <1>6, <1>9, <1>10, <1>11 DEF Finalize

\* The unification pays back the bids of the auctions it ends.
LEMMA UnifyBalance ==
    ASSUME TypeOK, \A b \in Auctions : RowInv(b) /\ Balanced(b), Unify, NEW a \in Auctions
    PROVE  Balanced(a)'
<1>0. /\ Balanced(a) /\ top' = top /\ top[a].amount \in Nat
      /\ \A g \in Generals : paid[a][g] \in Int
  <2>1. top' = top
    BY DEF Unify
  <2> QED
    BY <2>1, AmountTyped DEF TypeOK
<1>1. CASE auction'[a] = auction[a] /\ lot'[a] = lot[a] /\ paid'[a] = paid[a]
  BY <1>0, <1>1, BalanceKept
<1>2. CASE RowEnded(a)
  <2>1. \A g \in Generals : paid[a][g] = IF g = top[a].general THEN top[a].amount ELSE 0
    BY <1>0, <1>2 DEF Balanced, Owes, RowEnded, Live
  <2>2. \A g \in Generals :
           paid'[a][g] = IF g = top[a].general THEN paid[a][g] - top[a].amount ELSE paid[a][g]
    BY <1>2 DEF RowEnded
  <2>3. \A g \in Generals : paid'[a][g] = 0 /\ Owes(a, g)' = 0
    BY <1>0, <1>2, <2>1, <2>2 DEF Owes, RowEnded
  <2> QED
    BY <1>2, <2>3 DEF Balanced, RowEnded
<1> QED
  BY <1>1, <1>2, UnifyRows

\* Every step keeps the books of every auction.
LEMMA BalanceStep ==
    TypeOK /\ (\A a \in Auctions : RowInv(a) /\ Balanced(a)) /\ [Next]_vars
        => \A a \in Auctions : Balanced(a)'
<1> SUFFICES ASSUME TypeOK, \A b \in Auctions : RowInv(b) /\ Balanced(b), [Next]_vars,
                    NEW a \in Auctions
             PROVE  Balanced(a)'
  OBVIOUS
<1>1. CASE Players
  BY <1>1, PlayersBalance
<1>2. ASSUME NEW e \in events, Finalize(e)
      PROVE  Balanced(a)'
  BY <1>2, FinalizeBalance
<1>3. ASSUME UNCHANGED game
      PROVE  Balanced(a)'
  BY <1>3, BalanceKept DEF game
<1>4. ASSUME NEW e \in events, Accept(e) \/ EventFails(e)
      PROVE  Balanced(a)'
  BY <1>3, <1>4 DEF Accept, EventFails
<1>5. CASE Clock
  BY <1>5, ClockKeeps, ClockRows, BalanceKept
<1>6. CASE WorkerStep \/ WorkerCrash
  BY <1>3, <1>6, WorkerKeeps
<1>7. CASE UNCHANGED vars
  BY <1>3, <1>7 DEF vars, game
<1>8. CASE Unify
  BY <1>8, UnifyBalance
<1> QED
  BY <1>1, <1>2, <1>4, <1>5, <1>6, <1>7, <1>8 DEF Next, Engine

\* Whatever is bid, raised, extended, cancelled or sold: outbid generals have their
\* money back, the standing bid is held once, the host is paid once, and the goods
\* are where the money is.
THEOREM MoneySettled == Spec => []Settled
<1> DEFINE I == TypeOK /\ \A a \in Auctions : RowInv(a) /\ Balanced(a)
<1>1. Init => I
  <2>1. Init => \A a \in Auctions : Balanced(a)
    BY GeneralsNamed DEF Init, Balanced, Owes, Nobody
  <2> QED
    BY <2>1, InitTyped, RowsInit
<1>2. I /\ [Next]_vars => I'
  BY TypeStep, RowStep, BalanceStep
<1>3. I => Settled
  BY DEF Settled, Balanced
<1> HIDE DEF I
<1> QED
  BY <1>1, <1>2, <1>3, PTL DEF Spec
-----------------------------------------------------------------------------
(* The auctions implement the auction house. *)

\* What the steps keep: types, rows, stranded auctions and books.
BookInv == TypeOK /\ \A a \in Auctions : RowInv(a) /\ OrphanInv(a) /\ Balanced(a)

\* The books are kept in every behaviour.
LEMMA BookInvariant == Spec => []BookInv
<1>1. Init => BookInv
  <2>1. Init => \A a \in Auctions : Balanced(a)
    BY GeneralsNamed DEF Init, Balanced, Owes, Nobody
  <2> QED
    BY <2>1, InitTyped, RowsInit DEF BookInv
<1>2. BookInv /\ [Next]_vars => BookInv'
  BY TypeStep, RowStep, OrphanStep, BalanceStep DEF BookInv
<1> QED
  BY <1>1, <1>2, PTL DEF Spec

\* What the house shows of a row.
LEMMA Stages ==
    ASSUME NEW a \in Auctions
    PROVE  /\ auction[a].status = "ABSENT" => Stage(a) = "none"
           /\ auction[a].status = "OPEN" => Stage(a) = "open"
           /\ auction[a].status = "FINALIZING" => Stage(a) = "stranded"
           /\ auction[a].status = "CANCELED" => Stage(a) = "void"
           /\ auction[a].status = "FINISHED" /\ top[a].general = NoOne => Stage(a) = "unsold"
           /\ auction[a].status = "FINISHED" /\ top[a].general # NoOne => Stage(a) = "sold"
  BY DEF Stage

\* The same after a step.
LEMMA StagesAfter ==
    ASSUME NEW a \in Auctions
    PROVE  /\ auction'[a].status = "OPEN" => Stage(a)' = "open"
           /\ auction'[a].status = "FINALIZING" => Stage(a)' = "stranded"
           /\ auction'[a].status = "CANCELED" => Stage(a)' = "void"
           /\ auction'[a].status = "FINISHED" /\ top'[a].general = NoOne => Stage(a)' = "unsold"
           /\ auction'[a].status = "FINISHED" /\ top'[a].general # NoOne => Stage(a)' = "sold"
  BY DEF Stage

\* A step that changes one lot.
LEMMA HouseChanges ==
    ASSUME NEW a \in Auctions, NEW new, Lot(a)' = new, \A b \in Auctions : b # a => Lot(b)' = Lot(b)
    PROVE  houseBar' = [houseBar EXCEPT ![a] = new]
  BY DEF houseBar

\* A lot of which nothing that shows has changed.
LEMMA LotKept ==
    ASSUME NEW a \in Auctions, top'[a] = top[a], paid'[a] = paid[a], lot'[a] = lot[a],
           auction'[a].status = auction[a].status, auction'[a].kind = auction[a].kind,
           auction[a].kind = "RESOURCE" => auction'[a].host = auction[a].host
    PROVE  Lot(a)' = Lot(a)
<1>1. Stage(a)' = Stage(a)
  BY DEF Stage
<1> QED
  BY <1>1 DEF Lot

\* While an auction is not decided, its bidder and nobody else has paid the standing bid.
LEMMA PurseLive ==
    ASSUME BookInv, NEW a \in Auctions, auction[a].status \in {"ABSENT", "OPEN", "FINALIZING"}
    PROVE  paid[a] = House!Paid(top[a].general, top[a].amount)
<1>1. paid[a] \in [Generals -> Int] /\ top[a].amount \in Nat
  BY AmountTyped DEF BookInv, TypeOK
<1>2. \A g \in Generals : paid[a][g] = IF g = top[a].general THEN top[a].amount ELSE 0
  BY <1>1 DEF BookInv, Balanced, Owes
<1> QED
  BY <1>1, <1>2 DEF House!Paid

\* Opening an auction of resources.
LEMMA HouseOpensResource ==
    ASSUME BookInv, NEW a \in Auctions, NEW host \in Generals \cup {NoOne}, OpenResource(a, host)
    PROVE  House!Open(a, host, NoOne, 0)
<1>1. /\ auction[a].status = "ABSENT" /\ UNCHANGED <<top, paid>> /\ auction[a] \in Rows
      /\ auction \in [Auctions -> Rows] /\ lot \in [Auctions -> Generals \cup {NoOne, Escrow}]
  BY DEF OpenResource, BookInv, TypeOK
<1>2. auction'[a] = [auction[a] EXCEPT !.status = "OPEN", !.kind = "RESOURCE",
                        !.host = host, !.opened = tick, !.close = tick + Duration]
  BY <1>1 DEF OpenResource
<1>3. auction'[a].status = "OPEN" /\ auction'[a].kind = "RESOURCE" /\ auction'[a].host = host
  BY <1>1, <1>2 DEF Rows
<1>4. \A b \in Auctions : b # a => auction'[b] = auction[b] /\ lot'[b] = lot[b]
  BY <1>1 DEF OpenResource
<1>5. top[a].general = NoOne /\ top[a].amount = 0
  BY <1>1 DEF BookInv, RowInv, Nobody
<1>6. paid[a] = House!Paid(NoOne, 0)
  BY <1>1, <1>5, PurseLive
<1>7. Lot(a)' = [stage |-> "open", seller |-> host, bidder |-> NoOne, amount |-> 0,
                 purse |-> House!Paid(NoOne, 0), goods |-> NoOne]
  BY <1>1, <1>3, <1>5, <1>6, StagesAfter DEF Lot
<1>8. \A b \in Auctions : b # a => Lot(b)' = Lot(b)
  BY <1>1, <1>4, LotKept
<1>9. houseBar[a].stage = "none"
  BY <1>1, Stages DEF houseBar, Lot
<1> QED
  BY <1>7, <1>8, <1>9, HouseChanges DEF House!Open

\* Opening an auction of a unique item, which its host bids on at once.
LEMMA HouseOpensUnique ==
    ASSUME BookInv, NEW a \in Auctions, NEW host \in Generals, NEW amount \in Amounts,
           OpenUnique(a, host, amount)
    PROVE  House!Open(a, NoOne, host, amount)
<1>1. /\ auction[a].status = "ABSENT" /\ UNCHANGED lot /\ auction[a] \in Rows
      /\ auction \in [Auctions -> Rows] /\ top \in [Auctions -> Bids]
      /\ paid \in [Auctions -> [Generals -> Int]]
  BY DEF OpenUnique, BookInv, TypeOK
<1>2. auction'[a] = [auction[a] EXCEPT !.status = "OPEN", !.kind = "UNIQUE",
                      !.host = host, !.opened = tick, !.close = tick + Duration,
                      !.latest = tick + Duration + CapMargin, !.extensions = 1]
  BY <1>1 DEF OpenUnique
<1>3. auction'[a].status = "OPEN" /\ auction'[a].kind = "UNIQUE"
  BY <1>1, <1>2 DEF Rows
<1>4. \A b \in Auctions : b # a => auction'[b] = auction[b] /\ top'[b] = top[b] /\ paid'[b] = paid[b]
  BY <1>1 DEF OpenUnique
<1>5. top'[a].general = host /\ top'[a].amount = amount
  BY <1>1 DEF OpenUnique
<1>6. paid'[a] = House!Paid(host, amount)
  <2>1. top[a].general = NoOne /\ top[a].amount = 0
    BY <1>1 DEF BookInv, RowInv, Nobody
  <2>2. paid[a] = House!Paid(NoOne, 0)
    BY <1>1, <2>1, PurseLive
  <2>3. paid'[a] = [paid[a] EXCEPT ![host] = amount]
    BY <1>1 DEF OpenUnique
  <2> QED
    BY <2>2, <2>3 DEF House!Paid
<1>7. Lot(a)' = [stage |-> "open", seller |-> NoOne, bidder |-> host, amount |-> amount,
                 purse |-> House!Paid(host, amount), goods |-> NoOne]
  BY <1>3, <1>5, <1>6, StagesAfter DEF Lot
<1>8. \A b \in Auctions : b # a => Lot(b)' = Lot(b)
  BY <1>1, <1>4, LotKept
<1>9. houseBar[a].stage = "none"
  BY <1>1, Stages DEF houseBar, Lot
<1> QED
  BY <1>7, <1>8, <1>9, HouseChanges DEF House!Open

\* What an open auction shows.
LEMMA OpenLot ==
    ASSUME NEW a \in Auctions, auction[a].status = "OPEN"
    PROVE  /\ houseBar[a] = Lot(a) /\ Lot(a).stage = "open"
           /\ Lot(a).bidder = top[a].general /\ Lot(a).amount = top[a].amount /\ Lot(a).purse = paid[a]
           /\ Lot(a).seller = IF auction[a].kind = "RESOURCE" THEN auction[a].host ELSE NoOne
  BY Stages DEF Lot, houseBar

\* A bid.
LEMMA HouseRaises ==
    ASSUME BookInv, NEW a \in Auctions, NEW g \in Generals, NEW amount \in Amounts, NEW extend \in BOOLEAN,
           NEW at \in auction[a].opened .. tick, Bid(a, g, amount, extend, at)
    PROVE  House!Raise(a, g, amount)
<1>0. TypeOK
  BY DEF BookInv
<1>1. /\ auction[a].status = "OPEN" /\ amount > top[a].amount /\ UNCHANGED lot
      /\ auction[a].kind = "RESOURCE" => g # auction[a].host
      /\ auction[a] \in Rows /\ auction \in [Auctions -> Rows] /\ top \in [Auctions -> Bids]
      /\ paid \in [Auctions -> [Generals -> Int]]
  BY <1>0 DEF Bid, MayBid, TypeOK
<1>2. /\ auction'[a].status = "OPEN" /\ auction'[a].kind = auction[a].kind
      /\ \A b \in Auctions : b # a => auction'[b] = auction[b] /\ top'[b] = top[b]
  BY <1>0, BidRaises DEF RowRaised
<1>3. auction'[a].host = auction[a].host
  <2>1. auction'[a] = [auction[a] EXCEPT !.close = NextClose(a, amount, at),
                             !.cut = @ \/ ExtendedClose(a, at) < auction[a].close]
    BY <1>1 DEF Bid
  <2> QED
    BY <1>1, <2>1 DEF Rows
<1>4. /\ top'[a].general = g /\ top'[a].amount = amount /\ paid'[a] = Payments(a, g, amount)
      /\ \A b \in Auctions : b # a => paid'[b] = paid[b]
  BY <1>1 DEF Bid
<1>5. paid'[a] = House!Paid(g, amount)
  <2>1. paid[a] = House!Paid(top[a].general, top[a].amount)
    BY <1>1, PurseLive
  <2>2. top[a].amount \in Nat /\ amount \in Nat
    BY <1>0, AmountTyped
  <2>3. \A h \in Generals : Payments(a, g, amount)[h] = IF h = g THEN amount ELSE 0
    BY <2>1, <2>2 DEF Payments, House!Paid
  <2> QED
    BY <1>4, <2>3 DEF Payments, House!Paid
<1>6. Lot(a)' = [stage |-> "open", seller |-> Lot(a).seller, bidder |-> g, amount |-> amount,
                 purse |-> House!Paid(g, amount), goods |-> NoOne]
  BY <1>1, <1>2, <1>3, <1>4, <1>5, OpenLot, StagesAfter DEF Lot
<1>7. \A b \in Auctions : b # a => Lot(b)' = Lot(b)
  BY <1>1, <1>2, <1>4, LotKept
<1>8. Lot(a).stage = "open" /\ amount > Lot(a).amount /\ g # Lot(a).seller /\ houseBar[a] = Lot(a)
  BY <1>1, OpenLot, GeneralsNamed
<1> QED
  BY <1>6, <1>7, <1>8, HouseChanges DEF House!Raise, House!Becomes

\* The players' steps.
LEMMA HousePlayers == BookInv /\ Players => [House!Step]_houseBar
<1> SUFFICES ASSUME BookInv, Players PROVE [House!Step]_houseBar
  OBVIOUS
<1>1. ASSUME NEW a \in Auctions, NEW host \in Generals \cup {NoOne}, OpenResource(a, host)
      PROVE  House!Step
  BY <1>1, HouseOpensResource DEF House!Step
<1>2. ASSUME NEW a \in Auctions, NEW host \in Generals, NEW amount \in Amounts, OpenUnique(a, host, amount)
      PROVE  House!Step
  BY <1>2, HouseOpensUnique DEF House!Step
<1>3. ASSUME NEW a \in Auctions, NEW g \in Generals, NEW amount \in Amounts, NEW extend \in BOOLEAN,
             NEW at \in auction[a].opened .. tick, Bid(a, g, amount, extend, at)
      PROVE  House!Step
  BY <1>3, HouseRaises DEF House!Step
<1>4. ASSUME UNCHANGED <<auction, top, paid, lot>>
      PROVE  houseBar' = houseBar
  BY <1>4, LotKept DEF houseBar
<1>5. ASSUME NEW hint \in hints, AddTimer(hint[1], hint[2])
      PROVE  houseBar' = houseBar
  BY <1>4, <1>5 DEF AddTimer, game
<1>6. ASSUME NEW g, Leave(g)
      PROVE  houseBar' = houseBar
  BY <1>4, <1>6 DEF Leave
<1> QED
  BY <1>1, <1>2, <1>3, <1>5, <1>6 DEF Players

\* A finalization decides, strands or prolongs its own auction, and only one that is open: what
\* is FINALIZING has lost its host or bidder, so no outcome but the orphan's is left to it.
LEMMA HouseFinalizes ==
    ASSUME BookInv, NEW e \in events, Finalize(e)
    PROVE  [House!Step]_houseBar
<1>a. PICK a \in Auctions : a = e.auction
  BY DEF BookInv, TypeOK, Commands
<1>0. TypeOK /\ RowInv(a) /\ OrphanInv(a) /\ alive \subseteq Generals /\ NoOne \notin alive
      /\ auction \in [Auctions -> Rows] /\ auction[a] \in Rows /\ paid \in [Auctions -> [Generals -> Int]]
      /\ lot \in [Auctions -> Generals \cup {NoOne, Escrow}]
  BY NoOneAssumption DEF BookInv, TypeOK
<1>1. /\ top' = top
      /\ auction'[a].kind = auction[a].kind
      /\ \A b \in Auctions : b # a => auction'[b] = auction[b]
  BY <1>0, <1>a, FinalizeRow
<1>2. \A b \in Auctions : b # a => paid'[b] = paid[b] /\ lot'[b] = lot[b]
  BY <1>0, <1>a DEF Finalize, FinalizeNothing, game, FinalizeExtend, FinalizeOrphan, FinalizeUnsold,
      FinalizeCancel, FinalizeSold, FinalizeBlocked, Refund
<1>3. \A b \in Auctions : b # a => Lot(b)' = Lot(b)
  BY <1>1, <1>2, LotKept
<1>4. houseBar[a] = Lot(a)
  BY DEF houseBar
<1>5. ASSUME NEW status, auction' = [auction EXCEPT ![a].status = status]
      PROVE  auction'[a].status = status /\ auction'[a].host = auction[a].host
  <2>1. auction'[a] = [auction[a] EXCEPT !.status = status]
    BY <1>0, <1>5
  <2> QED
    BY <1>0, <2>1 DEF Rows
<1>6. ASSUME Lot(a)' = Lot(a)
      PROVE  houseBar' = houseBar
  BY <1>3, <1>6 DEF houseBar
<1>7. CASE FinalizeNothing(e)
  <2>1. UNCHANGED game
    BY <1>7 DEF FinalizeNothing
  <2>2. Lot(a)' = Lot(a)
    BY <2>1, LotKept DEF game
  <2> QED
    BY <1>6, <2>2
<1>8. CASE Live(a) /\ ((WantsExtension(a) /\ FinalizeExtend(e, a)) \/ FinalizeBlocked(e, a))
  <2>1. auction[a].status = "OPEN" /\ auction[a].kind = "UNIQUE" /\ UNCHANGED <<paid, lot>>
    BY <1>0, <1>8 DEF FinalizeExtend, FinalizeBlocked, OrphanInv, Live, WantsExtension
  <2>2. ASSUME NEW close, NEW latest, NEW host, NEW extensions, Reopened(a, close, latest, host, extensions)
        PROVE  auction'[a].status = "OPEN"
    <3>1. auction'[a] = [auction[a] EXCEPT !.status = "OPEN", !.close = close, !.latest = latest,
                                           !.host = host, !.extensions = extensions]
      BY <1>0, <2>2 DEF Reopened
    <3> QED
      BY <1>0, <3>1 DEF Rows
  <2>3. auction'[a].status = "OPEN"
    BY <1>8, <2>2 DEF FinalizeExtend, FinalizeBlocked
  <2>4. Lot(a)' = Lot(a)
    BY <1>1, <2>1, <2>3, LotKept
  <2> QED
    BY <1>6, <2>4
<1>9. CASE Live(a) /\ FinalizeOrphan(e, a)
  <2>1. auction'[a].status = "FINALIZING" /\ auction'[a].host = auction[a].host /\ UNCHANGED <<paid, lot>>
    BY <1>5, <1>9 DEF FinalizeOrphan
  <2>2. CASE auction[a].status = "FINALIZING"
    BY <1>1, <1>6, <2>1, <2>2, LotKept
  <2>3. CASE auction[a].status = "OPEN"
    <3>1. Lot(a)' = [stage |-> "stranded", seller |-> Lot(a).seller, bidder |-> Lot(a).bidder,
                     amount |-> Lot(a).amount, purse |-> Lot(a).purse, goods |-> NoOne]
      BY <1>1, <2>1, <2>3, OpenLot, StagesAfter DEF Lot
    <3>3. House!Strand(a)
      BY <1>3, <2>3, <3>1, OpenLot, HouseChanges DEF House!Strand, House!Becomes
    <3> QED
      BY <3>3 DEF House!Step
  <2> QED
    BY <1>9, <2>2, <2>3 DEF Live
<1>10. CASE Live(a) /\ FinalizeUnsold(e, a)
  <2>1. /\ auction'[a].status = "FINISHED" /\ auction'[a].host = auction[a].host /\ paid' = paid
        /\ lot'[a] = auction[a].host /\ auction[a].kind = "RESOURCE" /\ top[a].general = NoOne
    BY <1>0, <1>5, <1>10 DEF FinalizeUnsold, Nobody
  <2>2. auction[a].status = "OPEN"
    BY <1>0, <1>10, <2>1 DEF FinalizeUnsold, OrphanInv, Live
  <2>3. Lot(a)' = [stage |-> "unsold", seller |-> Lot(a).seller, bidder |-> NoOne,
                   amount |-> Lot(a).amount, purse |-> Lot(a).purse, goods |-> Lot(a).seller]
    BY <1>1, <2>1, <2>2, OpenLot, StagesAfter DEF Lot
  <2>5. House!Return(a)
    BY <1>3, <2>1, <2>2, <2>3, OpenLot, HouseChanges DEF House!Return, House!Becomes
  <2> QED
    BY <2>5 DEF House!Step
<1>11. CASE Live(a) /\ FinalizeCancel(e, a)
  <2>1. /\ auction'[a].status = "CANCELED" /\ auction'[a].host = auction[a].host
        /\ top[a].general \in Generals /\ top[a].general # NoOne
        /\ paid'[a] = [paid[a] EXCEPT ![top[a].general] = @ - top[a].amount]
    BY <1>0, <1>5, <1>11 DEF FinalizeCancel, Refund
  <2>2. auction[a].status = "OPEN"
    BY <1>0, <1>11 DEF FinalizeCancel, OrphanInv, Live
  <2>3. paid'[a] = House!Paid(NoOne, 0)
    <3>1. paid[a] = House!Paid(top[a].general, top[a].amount) /\ top[a].amount \in Nat
      BY <1>0, <2>2, PurseLive, AmountTyped
    <3> QED
      BY <2>1, <3>1 DEF House!Paid
  <2>4. Lot(a)' = [stage |-> "void", seller |-> Lot(a).seller, bidder |-> Lot(a).bidder,
                   amount |-> Lot(a).amount, purse |-> House!Paid(NoOne, 0), goods |-> NoOne]
    BY <1>1, <2>1, <2>2, <2>3, OpenLot, StagesAfter DEF Lot
  <2>5. Lot(a).stage = "open" /\ Lot(a).bidder # NoOne
    BY <2>1, <2>2, OpenLot
  <2>6. House!Void({a})
    BY <1>3, <2>4, <2>5 DEF House!Void, houseBar
  <2> QED
    BY <2>6 DEF House!Step
<1>12. CASE Live(a) /\ FinalizeSold(e, a)
  <2> DEFINE seller == IF auction[a].kind = "RESOURCE" THEN auction[a].host ELSE NoOne
             books == [g \in Generals |-> House!Paid(top[a].general, top[a].amount)[g]
                                           - House!Paid(seller, top[a].amount)[g]]
  <2>1. /\ auction'[a].status = "FINISHED" /\ auction'[a].host = auction[a].host
        /\ top[a].general \in Generals /\ top[a].general # NoOne /\ lot'[a] = top[a].general
        /\ paid'[a] = [g \in Generals |-> IF g = auction[a].host /\ auction[a].kind = "RESOURCE"
                                          THEN paid[a][g] - top[a].amount ELSE paid[a][g]]
    BY <1>0, <1>5, <1>12 DEF FinalizeSold
  <2>2. auction[a].status = "OPEN"
    BY <1>0, <1>12 DEF FinalizeSold, OrphanInv, Live
  <2>3. paid'[a] = books
    <3>1. paid[a] = House!Paid(top[a].general, top[a].amount) /\ top[a].amount \in Nat
      BY <1>0, <2>2, PurseLive, AmountTyped
    <3>2. \A g \in Generals : paid'[a][g] = books[g]
      BY <2>1, <3>1, GeneralsNamed DEF House!Paid
    <3> QED
      BY <2>1, <3>2
  <2>4. Lot(a)' = [stage |-> "sold", seller |-> Lot(a).seller, bidder |-> Lot(a).bidder,
                   amount |-> Lot(a).amount, purse |-> books, goods |-> Lot(a).bidder]
    <3> HIDE DEF books, seller
    <3> QED
      BY <1>1, <2>1, <2>2, <2>3, OpenLot, StagesAfter DEF Lot
  <2>5. /\ Lot(a).stage = "open" /\ Lot(a).bidder = top[a].general /\ Lot(a).amount = top[a].amount
        /\ Lot(a).seller = seller
    BY <2>2, OpenLot
  <2>6. House!Sell(a)
    <3>1. books = [g \in Generals |-> House!Paid(Lot(a).bidder, Lot(a).amount)[g]
                                      - House!Paid(Lot(a).seller, Lot(a).amount)[g]]
      BY <2>5
    <3> HIDE DEF books, seller
    <3> QED
      BY <1>3, <1>4, <2>1, <2>4, <2>5, <3>1, HouseChanges DEF House!Sell, House!Becomes
  <2> QED
    BY <2>6 DEF House!Step
<1> QED
  BY <1>a, <1>7, <1>8, <1>9, <1>10, <1>11, <1>12 DEF Finalize

\* The unification voids the auctions it ends: one of them that waited for its bidder would
\* have kept it from happening.
LEMMA HouseUnifies ==
    ASSUME BookInv, Unify
    PROVE  House!Step
<1>0. TypeOK /\ alive \subseteq Generals
  BY DEF BookInv, TypeOK
<1> DEFINE ended == {a \in Auctions : RowEnded(a)}
<1>1. ASSUME NEW a \in ended
      PROVE  /\ Lot(a).stage = "open" /\ Lot(a).bidder # NoOne
             /\ Lot(a)' = [stage |-> "void", seller |-> Lot(a).seller, bidder |-> Lot(a).bidder,
                           amount |-> Lot(a).amount, purse |-> House!Paid(NoOne, 0), goods |-> NoOne]
  <2>1. /\ RowEnded(a) /\ RowInv(a) /\ OrphanInv(a) /\ top' = top
        /\ paid[a] \in [Generals -> Int] /\ top[a].amount \in Nat
    BY <1>0, UnifyRows, AmountTyped DEF BookInv, TypeOK
  <2>2. top[a].general # NoOne /\ auction[a].status = "OPEN" /\ auction[a].kind = "UNIQUE"
    BY <2>1 DEF RowEnded, RowInv, OrphanInv, Live
  <2>3. paid[a] = House!Paid(top[a].general, top[a].amount)
    BY <2>2, PurseLive
  <2>4. paid'[a] = House!Paid(NoOne, 0)
    BY <2>1, <2>3, GeneralsNamed DEF House!Paid, RowEnded
  <2>5. auction'[a].status = "CANCELED" /\ auction'[a].kind = "UNIQUE"
    BY <2>1, <2>2 DEF RowEnded
  <2>6. Lot(a)' = [stage |-> "void", seller |-> NoOne, bidder |-> top[a].general,
                   amount |-> top[a].amount, purse |-> House!Paid(NoOne, 0), goods |-> NoOne]
    BY <2>1, <2>4, <2>5, StagesAfter DEF Lot
  <2>7. /\ Lot(a).stage = "open" /\ Lot(a).seller = NoOne
        /\ Lot(a).bidder = top[a].general /\ Lot(a).amount = top[a].amount
    BY <2>2, OpenLot
  <2> QED
    BY <2>2, <2>6, <2>7
<1>2. ASSUME NEW a \in Auctions, a \notin ended
      PROVE  Lot(a)' = Lot(a)
  BY <1>0, <1>2, UnifyRows, LotKept
<1>3. House!Void(ended)
  <2> HIDE DEF ended
  <2>1. ended \subseteq Auctions
    BY DEF ended
  <2> QED
    BY <1>1, <1>2, <2>1 DEF House!Void, houseBar
<1>4. ended \in SUBSET Auctions
  OBVIOUS
<1> HIDE DEF ended
<1> QED
  BY <1>3, <1>4 DEF House!Step

\* Every step is one of the house or shows nothing.
LEMMA HouseStep == BookInv /\ [Next]_vars => [House!Next]_houseBar
<1> SUFFICES ASSUME BookInv, [Next]_vars PROVE [House!Step]_houseBar
  BY DEF House!Next
<1>0. TypeOK
  BY DEF BookInv
<1>1. CASE Players
  BY <1>1, HousePlayers
<1>2. ASSUME NEW e \in events, Finalize(e)
      PROVE  [House!Step]_houseBar
  BY <1>2, HouseFinalizes
<1>3. ASSUME UNCHANGED game
      PROVE  houseBar' = houseBar
  BY <1>3, LotKept DEF houseBar, game
<1>4. ASSUME NEW e \in events, Accept(e) \/ EventFails(e)
      PROVE  houseBar' = houseBar
  BY <1>3, <1>4 DEF Accept, EventFails
<1>5. CASE Clock
  BY <1>0, <1>5, ClockKeeps, ClockRows, LotKept DEF houseBar
<1>6. CASE WorkerStep \/ WorkerCrash
  BY <1>0, <1>3, <1>6, WorkerKeeps
<1>7. CASE UNCHANGED vars
  BY <1>3, <1>7 DEF vars, game
<1>8. CASE Unify
  BY <1>8, HouseUnifies
<1> QED
  BY <1>1, <1>2, <1>4, <1>5, <1>6, <1>7, <1>8 DEF Next, Engine

\* The auctions implement AuctionHouse for any number of auctions, generals, retries, failures and
\* departures: bids only rise, exactly the standing bid is paid for, and a decision is made once.
THEOREM AuctionsAreAHouse == Spec => ImplementsAuctionHouse
<1>1. Init => House!Init
  BY DEF Init, Nobody, House!Init, House!Paid, houseBar, Lot, Stage
<1> QED
  BY <1>1, BookInvariant, HouseStep, PTL DEF Spec, House!Spec, ImplementsAuctionHouse
=============================================================================
