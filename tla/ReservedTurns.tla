--------------------------- MODULE ReservedTurns ---------------------------
(***************************************************************************)
(* The queues of reserved turns: a general's own and, for each office of a  *)
(* nation, the nation's.  Players edit them in PostgreSQL under a revision  *)
(* (compare and swap); the turn daemon leases a queue, copies it, executes  *)
(* its head, shifts the copy and writes it back with the world's flush.     *)
(*                                                                          *)
(* Every write of a queue raises its revision in the same transaction, so   *)
(* the revision stands for the stored turns, and `base' for the version a   *)
(* copy was read from.  A missing revision row is a free row of revision 0. *)
(* A lease may be seen expired at any moment: the API compares it with its  *)
(* own host's clock.                                                        *)
(***************************************************************************)
EXTENDS Naturals

CONSTANTS
    Daemons,       \* daemon processes; each has a fresh leaseOwner
    Nobody,        \* no lease owner
    Generals,      \* the generals, and their queues
    Npcs,          \* generals no player commands
    Autorun,       \* generals the AI commands: NPCs, and players who let it
    Posts,         \* offices of level 5 and above, and their nations' queues
    NoPost,        \* no such office
    NoGeneral,     \* no general is being prepared
    MaxRevision,   \* bound on the writes of one queue
    Promotions     \* may a turn give an office to a general who is still due?

ASSUME NobodyAssumption == Nobody \notin Daemons
ASSUME QueuesAssumption ==
    /\ Npcs \subseteq Generals
    /\ Autorun \subseteq Generals
    /\ Generals \cap Posts = {}
    /\ NoPost \notin Generals \cup Posts
    /\ NoGeneral \notin Generals \cup Posts
ASSUME PromotionsAssumption == Promotions \in BOOLEAN
ASSUME BoundAssumption == MaxRevision \in Nat

VARIABLES
    row,     \* general_turn_revision and nation_turn_revision
    leader,  \* owner of the turn-daemon lease
    copy,    \* each daemon's in-memory queues and their journals
    saved,   \* captureTransactionState at the start of the run
    run,     \* where each daemon's run stands
    prefetch \* the query of prefetchGeneralTurns that has not answered yet

vars == <<row, leader, copy, saved, run, prefetch>>

Queues == Generals \cup Posts
Edited == Queues \ Npcs

Rows == [revision : Nat, owner : Daemons \cup {Nobody}, expired : BOOLEAN]
Copies == [base : Nat, dirty : BOOLEAN, leased : BOOLEAN, used : SUBSET Nat]

\* The offices of the generals when the due ones are listed: each has one holder.
Offices ==
    {due \in [Generals -> Posts \cup {NoPost}] :
        \A g, h \in Generals : due[g] = due[h] /\ due[g] # NoPost => g = h}

Runs == [pc : {"new", "idle", "run", "general", "post", "claim", "refresh", "execute", "dead"},
         due : Offices, ran : SUBSET Generals, general : Generals \cup {NoGeneral},
         had : BOOLEAN, fresh : BOOLEAN]

\* The generals a prefetch is about, whether the database has read their queues, and
\* the versions it found.
Prefetches == [targets : SUBSET Generals, read : BOOLEAN, answer : [Generals -> Nat]]
NoPrefetch == [targets |-> {}, read |-> FALSE, answer |-> [g \in Generals |-> 0]]

\* A process between two runs.
Idle == [pc |-> "idle", due |-> [g \in Generals |-> NoPost], ran |-> {}, general |-> NoGeneral,
         had |-> FALSE, fresh |-> FALSE]

\* The locals of prepareTurnsForExecution are gone once the general has run.
Prepared(r) == [r EXCEPT !.general = NoGeneral, !.had = FALSE, !.fresh = FALSE]

\* Queues, copies, leases and runs have their types.
TypeOK ==
    /\ row \in [Queues -> Rows]
    /\ leader \in Daemons \cup {Nobody}
    /\ copy \in [Daemons -> [Queues -> Copies]]
    /\ saved \in [Daemons -> [Queues -> Copies]]
    /\ run \in [Daemons -> Runs]
    /\ prefetch \in [Daemons -> Prefetches]

Unread == [q \in Queues |-> [base |-> 0, dirty |-> FALSE, leased |-> FALSE, used |-> {}]]

Init ==
    /\ row = [q \in Queues |-> [revision |-> 0, owner |-> Nobody, expired |-> FALSE]]
    /\ leader = Nobody
    /\ copy = [d \in Daemons |-> Unread]
    /\ saved = [d \in Daemons |-> Unread]
    /\ run = [d \in Daemons |-> [Idle EXCEPT !.pc = "new"]]
    /\ prefetch = [d \in Daemons |-> NoPrefetch]

-----------------------------------------------------------------------------
(* Players. *)

\* The daemon does not hold the queue, as far as the API can tell.
Free(q) == row[q].owner = Nobody \/ row[q].expired

\* claimGeneralRevision and claimNationRevision: the edit ends every lease.
Written(r) == [revision |-> r.revision + 1, owner |-> Nobody, expired |-> FALSE]

\* Setting, shifting or repeating turns under the revision `expected' that the
\* player's screen shows.
Edit(q, expected) ==
    /\ row[q].revision < MaxRevision
    /\ Free(q)
    /\ row[q].revision = expected
    /\ row' = [row EXCEPT ![q] = Written(row[q])]
    /\ UNCHANGED <<leader, copy, saved, run, prefetch>>

\* setNationTurnsAtCurrentPositions: an edit of a nation's queue under an older
\* revision is rebased to the current one.
EditAtCurrentPosition(q, expected) ==
    /\ q \in Posts
    /\ row[q].revision < MaxRevision
    /\ Free(q)
    /\ expected < row[q].revision
    /\ row' = [row EXCEPT ![q] = Written(row[q])]
    /\ UNCHANGED <<leader, copy, saved, run, prefetch>>

\* leaseExpiresAt has passed on some clock.
LeaseExpires(q) ==
    /\ row[q].owner # Nobody /\ ~row[q].expired
    /\ row' = [row EXCEPT ![q].expired = TRUE]
    /\ UNCHANGED <<leader, copy, saved, run, prefetch>>

-----------------------------------------------------------------------------
(* The turn daemon. *)

\* A new process takes over the turn-daemon lease and loads all queues.
Start(d) ==
    /\ run[d].pc = "new"
    /\ leader' = d
    /\ copy' = [copy EXCEPT ![d] = [q \in Queues |-> [Unread[q] EXCEPT !.base = row[q].revision]]]
    /\ run' = [run EXCEPT ![d].pc = "idle"]
    /\ UNCHANGED <<row, saved, prefetch>>

Crash(d) ==
    /\ run[d].pc \notin {"new", "dead"}
    /\ run' = [run EXCEPT ![d] = [Idle EXCEPT !.pc = "dead"]]
    /\ copy' = [copy EXCEPT ![d] = Unread]
    /\ saved' = [saved EXCEPT ![d] = Unread]
    /\ prefetch' = [prefetch EXCEPT ![d] = NoPrefetch]
    /\ UNCHANGED <<row, leader>>

\* A run begins: the savepoint is taken and the due generals are listed, with the
\* offices they hold at this moment.
BeginRun(d) ==
    /\ run[d].pc = "idle"
    /\ saved' = [saved EXCEPT ![d] = copy[d]]
    /\ \E due \in Offices : run' = [run EXCEPT ![d].pc = "run", ![d].due = due, ![d].ran = {}]
    /\ UNCHANGED <<row, leader, copy, prefetch>>

\* beforeExecuteGeneral: prepareTurnsForExecution begins for the next due general.
\* Beside it, for an officer the AI commands and unless his nation was prefetched this
\* month, the queues of his comrades and his own are asked for, the dirty ones left out.
Prepare(d, g) ==
    /\ run[d].pc = "run"
    /\ g \notin run[d].ran
    /\ run' = [run EXCEPT ![d].pc = "general", ![d].general = g]
    /\ \/ UNCHANGED prefetch
       \/ /\ g \in Autorun /\ run[d].due[g] # NoPost
          /\ \E comrades \in SUBSET Generals :
                prefetch' = [prefetch EXCEPT ![d].targets = {h \in comrades \cup {g} : ~copy[d][h].dirty}]
    /\ UNCHANGED <<row, leader, copy, saved>>

\* The database evaluates the query of prefetchGeneralTurns ...
PrefetchReads(d) ==
    /\ prefetch[d].targets # {} /\ ~prefetch[d].read
    /\ prefetch' = [prefetch EXCEPT ![d].read = TRUE,
                        ![d].answer = [g \in Generals |-> IF g \in prefetch[d].targets THEN row[g].revision ELSE 0]]
    /\ UNCHANGED <<row, leader, copy, saved, run>>

\* ... and its answer replaces the copies, whatever was read or written in between.
PrefetchArrives(d) ==
    /\ prefetch[d].read
    /\ copy' = [copy EXCEPT ![d] = [q \in Queues |->
                   IF q \in prefetch[d].targets THEN [copy[d][q] EXCEPT !.base = prefetch[d].answer[q]]
                   ELSE copy[d][q]]]
    /\ prefetch' = [prefetch EXCEPT ![d] = NoPrefetch]
    /\ UNCHANGED <<row, leader, saved, run>>

\* acquireGeneralLease, acquireNationLease: own, free or expired leases are taken.
Acquirable(d, q) == row[q].owner = d \/ Free(q)

Leased(d, r) == [r EXCEPT !.owner = d, !.expired = FALSE]

AcquireGeneralLease(d) ==
    LET g == run[d].general IN
    /\ run[d].pc = "general"
    /\ Acquirable(d, g)
    /\ row' = [row EXCEPT ![g] = Leased(d, @)]
    /\ copy' = [copy EXCEPT ![d][g].leased = TRUE]
    /\ run' = [run EXCEPT ![d].pc = IF run[d].due[g] = NoPost THEN "refresh" ELSE "post"]
    /\ UNCHANGED <<leader, saved, prefetch>>

\* acquireNationLease reads the row to learn whether the lease is already its own
\* (on the database's clock, while `expired' is some host's view) ...
ReadNationLease(d) ==
    LET p == run[d].due[run[d].general] IN
    /\ run[d].pc = "post"
    /\ \E retained \in BOOLEAN :
          /\ retained => row[p].owner = d
          /\ row[p].owner = d /\ ~row[p].expired => retained
          /\ run' = [run EXCEPT ![d].pc = "claim", ![d].had = copy[d][p].leased, ![d].fresh = ~retained]
    /\ UNCHANGED <<row, leader, copy, saved, prefetch>>

\* ... and takes it by a second statement.
AcquireNationLease(d) ==
    LET p == run[d].due[run[d].general] IN
    /\ run[d].pc = "claim"
    /\ Acquirable(d, p)
    /\ row' = [row EXCEPT ![p] = Leased(d, @)]
    /\ copy' = [copy EXCEPT ![d][p].leased = TRUE]
    /\ run' = [run EXCEPT ![d].pc = "refresh"]
    /\ UNCHANGED <<leader, saved, prefetch>>

\* refreshGeneralTurns is forced; refreshNationTurns keeps a dirty copy whose lease
\* was retained, because it holds the shift of another officer of the same run.
Rereads(d, q) == q \in Generals \/ run[d].fresh \/ ~copy[d][q].dirty

\* The queues are read under their leases, together.
Refresh(d) ==
    LET g == run[d].general
        p == run[d].due[g]
    IN
    /\ run[d].pc = "refresh"
    /\ copy' = [copy EXCEPT ![d] = [q \in Queues |->
                   IF q \in {g, p} /\ Rereads(d, q)
                   THEN [copy[d][q] EXCEPT !.base = row[q].revision]
                   ELSE copy[d][q]]]
    /\ run' = [run EXCEPT ![d].pc = "execute"]
    /\ UNCHANGED <<row, leader, saved, prefetch>>

\* A conflict or a database error in prepareTurnsForExecution: the leases it took
\* are given back and the run is rolled back to its savepoint.  The loop pauses until
\* an administrator resumes it; a query still under way is taken to be over by then.
PrepareFails(d) ==
    LET g == run[d].general
        p == run[d].due[g]
        Released ==
            {q \in {g, p} \cap Queues :
                copy[d][q].leased /\ row[q].owner = d /\ (q = p => ~run[d].had \/ run[d].fresh)}
    IN
    /\ run[d].pc \in {"general", "post", "claim", "refresh"}
    /\ row' = [q \in Queues |->
                  IF q \in Released THEN [row[q] EXCEPT !.owner = Nobody, !.expired = FALSE] ELSE row[q]]
    /\ copy' = [copy EXCEPT ![d] = saved[d]]
    /\ run' = [run EXCEPT ![d] = Idle]
    /\ saved' = [saved EXCEPT ![d] = Unread]
    /\ prefetch' = [prefetch EXCEPT ![d] = NoPrefetch]
    /\ UNCHANGED <<leader>>

\* The head of a copied queue is executed and shifted away.
Executed(c) == [c EXCEPT !.dirty = TRUE, !.used = @ \cup {c.base}]

\* The office the general may hold when his turn comes: the one he was listed with,
\* unless an earlier turn of the run took it away or gave him another.
PresentOffices(d) ==
    {run[d].due[run[d].general]}
        \cup (IF run[d].ran # {} THEN {NoPost} ELSE {})
        \cup (IF run[d].ran # {} /\ Promotions THEN Posts ELSE {})

\* Mutant of Answered: the prefetch is not waited for.
AnsweredOrNot(d) == TRUE

\* Promise.all: the general runs when the prefetch has answered too.
Answered(d) == prefetch[d].targets = {}

\* executeGeneralTurn: the head of the queue of the general's present office, then
\* of his own.  A conquest plans turns for NPCs of the ruined nation (setGeneralTurn).
Execute(d) ==
    LET g == run[d].general IN
    /\ run[d].pc = "execute" /\ Answered(d)
    /\ \E p \in PresentOffices(d), Planned \in SUBSET Npcs :
          copy' = [copy EXCEPT ![d] = [q \in Queues |->
                      IF q \in {g, p} THEN Executed(copy[d][q])
                      ELSE IF q \in Planned THEN [copy[d][q] EXCEPT !.dirty = TRUE]
                      ELSE copy[d][q]]]
    /\ run' = [run EXCEPT ![d] = [Prepared(run[d]) EXCEPT !.pc = "run", !.ran = @ \cup {g}]]
    /\ UNCHANGED <<row, leader, saved, prefetch>>

\* The run fails, in a command, in its flush or because the prefetch failed: the
\* savepoint is restored, the leases stay in the database.
Abort(d) ==
    /\ run[d].pc \in {"run", "execute"}
    /\ copy' = [copy EXCEPT ![d] = saved[d]]
    /\ run' = [run EXCEPT ![d] = Idle]
    /\ saved' = [saved EXCEPT ![d] = Unread]
    /\ prefetch' = [prefetch EXCEPT ![d] = NoPrefetch]
    /\ UNCHANGED <<row, leader>>

\* Mutant of Flushable: an executed queue needs no lease any more.
FlushableIfFree(d, q) == Acquirable(d, q)

\* claimGeneralFlushLease, claimNationFlushLease: a queue that was leased must still
\* be; one that was only written in memory may be taken.
Flushable(d, q) == IF copy[d][q].leased THEN row[q].owner = d ELSE Acquirable(d, q)

\* persistChanges: dirty queues are replaced, the other leases released.
FlushedRow(d, q) ==
    IF copy[d][q].dirty THEN Written(row[q])
    ELSE IF copy[d][q].leased /\ row[q].owner = d
    THEN [row[q] EXCEPT !.owner = Nobody, !.expired = FALSE]
    ELSE row[q]

\* acknowledgeDirtyState.
Acknowledged(d, q) ==
    [base |-> IF copy[d][q].dirty THEN row[q].revision + 1 ELSE copy[d][q].base,
     dirty |-> FALSE, leased |-> FALSE, used |-> {}]

\* The flush, fenced by the turn-daemon lease; its acknowledgement may be lost.
Flush(d) ==
    /\ run[d].pc = "run"
    /\ leader = d
    /\ \A q \in Queues : copy[d][q].dirty => Flushable(d, q) /\ row[q].revision < MaxRevision
    /\ row' = [q \in Queues |-> FlushedRow(d, q)]
    /\ \/ copy' = [copy EXCEPT ![d] = [q \in Queues |-> Acknowledged(d, q)]]
       \/ copy' = [copy EXCEPT ![d] = saved[d]]
    /\ run' = [run EXCEPT ![d] = Idle]
    /\ saved' = [saved EXCEPT ![d] = Unread]
    /\ UNCHANGED <<leader, prefetch>>

-----------------------------------------------------------------------------
PlayerStep ==
    \E q \in Edited, expected \in 0 .. MaxRevision : Edit(q, expected) \/ EditAtCurrentPosition(q, expected)

DaemonStep(d) ==
    \/ Start(d) \/ Crash(d) \/ BeginRun(d)
    \/ \E g \in Generals : Prepare(d, g)
    \/ PrefetchReads(d) \/ PrefetchArrives(d)
    \/ AcquireGeneralLease(d) \/ ReadNationLease(d) \/ AcquireNationLease(d)
    \/ Refresh(d) \/ PrepareFails(d) \/ Execute(d) \/ Abort(d) \/ Flush(d)

Next ==
    \/ PlayerStep
    \/ \E q \in Queues : LeaseExpires(q)
    \/ \E d \in Daemons : DaemonStep(d)

Spec == Init /\ [][Next]_vars

-----------------------------------------------------------------------------
(* Properties. *)

\* When a run's flush replaces a queue q that players edit, what it writes was read
\* from the version it replaces, and so was every command the run took from it.
ReplacesItsSource(d, q) ==
    /\ run[d].pc = "run" /\ run'[d].pc = "idle"
    /\ row'[q].revision # row[q].revision
    => copy[d][q].base = row[q].revision /\ copy[d][q].used = {row[q].revision}

\* "Even when an edit of the API races the daemon's execution, an old revision does
\* not overwrite a new queue": no flush replaces a version it has not read.  As each
\* write is a new version, no command is taken by two committed runs either.
OldNeverOverwritesNew == [][\A d \in Daemons, q \in Edited : ReplacesItsSource(d, q)]_vars

\* The queues for which the leases suffice: the own queues of players the AI does not
\* command, and an office's when nobody still due is promoted into it.
SafeQueues == {q \in Edited : q \notin Autorun /\ (q \in Posts => ~Promotions)}

\* The same of those queues only, whatever is promoted and whomever the AI commands.
SafeNeverOverwritten == [][\A d \in Daemons, q \in SafeQueues : ReplacesItsSource(d, q)]_vars
=============================================================================
