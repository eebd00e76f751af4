----------------------- MODULE ReservedTurns_proofs -----------------------
(***************************************************************************)
(* Proofs about the queues of reserved turns, for any daemons, generals,    *)
(* offices and number of writes.                                            *)
(***************************************************************************)
EXTENDS ReservedTurns, TLAPS

-----------------------------------------------------------------------------
(* Type correctness. *)

\* A general is being prepared or executed for the first time in the run, and the
\* nation's lease is only asked for if he was listed with an office.
Position ==
    \A d \in Daemons :
        /\ run[d].pc \in {"general", "post", "claim", "refresh", "execute"} => run[d].general \in Generals \ run[d].ran
        /\ run[d].pc \in {"post", "claim"} => run[d].due[run[d].general] \in Posts

\* No prefetch under way is well typed.
LEMMA NoPrefetchTyped == NoPrefetch \in Prefetches
  BY DEF NoPrefetch, Prefetches

\* A process between two runs is well typed.
LEMMA IdleTyped == Idle \in Runs
<1>1. [g \in Generals |-> NoPost] \in Offices
  BY DEF Offices
<1> QED
  BY <1>1 DEF Idle, Runs

\* The copies of a process that has read nothing are well typed.
LEMMA UnreadTyped == Unread \in [Queues -> Copies]
  BY DEF Unread, Copies

\* No queue is leased and no process has started.
LEMMA TypeInit == Init => TypeOK /\ Position
<1>1. [Idle EXCEPT !.pc = "new"] \in Runs
  BY IdleTyped DEF Runs
<1>2. Init => TypeOK
  BY <1>1, UnreadTyped, NoPrefetchTyped DEF Init, TypeOK, Rows
<1>3. Init => Position
  BY DEF Init, Position, Idle
<1> QED
  BY <1>2, <1>3

\* The rows an edit, a lease or a release leaves are well typed.
LEMMA RowsTyped ==
    ASSUME NEW r \in Rows, NEW d \in Daemons
    PROVE  /\ Written(r) \in Rows
           /\ Leased(d, r) \in Rows
           /\ [r EXCEPT !.owner = Nobody, !.expired = FALSE] \in Rows
<1>1. Written(r) \in Rows
  BY DEF Rows, Written
<1>2. Leased(d, r) \in Rows
  BY DEF Rows, Leased
<1>3. [r EXCEPT !.owner = Nobody, !.expired = FALSE] \in Rows
  BY DEF Rows
<1> QED
  BY <1>1, <1>2, <1>3

\* The copies a lease, a read and a command leave are well typed.
LEMMA CopiesTyped ==
    ASSUME NEW c \in Copies, NEW n \in Nat
    PROVE  /\ [c EXCEPT !.leased = TRUE] \in Copies
           /\ [c EXCEPT !.base = n] \in Copies
           /\ [c EXCEPT !.dirty = TRUE] \in Copies
           /\ Executed(c) \in Copies
<1>1. [c EXCEPT !.leased = TRUE] \in Copies
  BY DEF Copies
<1>2. [c EXCEPT !.base = n] \in Copies
  BY DEF Copies
<1>3. [c EXCEPT !.dirty = TRUE] \in Copies
  BY DEF Copies
<1>4. Executed(c) \in Copies
  BY DEF Copies, Executed
<1> QED
  BY <1>1, <1>2, <1>3, <1>4

\* Noting a lease in memory keeps the copies typed.
LEMMA LeasedCopyTyped ==
    ASSUME TypeOK, NEW d \in Daemons, NEW q \in Queues
    PROVE  [copy EXCEPT ![d][q].leased = TRUE] \in [Daemons -> [Queues -> Copies]]
<1>1. [copy[d][q] EXCEPT !.leased = TRUE] \in Copies
  BY CopiesTyped DEF TypeOK
<1>2. [copy[d] EXCEPT ![q].leased = TRUE] \in [Queues -> Copies]
  BY <1>1 DEF TypeOK
<1> QED
  BY <1>2 DEF TypeOK

\* Every edit and every step of a daemon keeps the types.
LEMMA TypeStep == TypeOK /\ Position /\ [Next]_vars => TypeOK'
<1> SUFFICES ASSUME TypeOK, Position, [Next]_vars PROVE TypeOK'
  OBVIOUS
<1> USE DEF TypeOK
<1>1. ASSUME NEW q \in Edited, NEW expected \in 0 .. MaxRevision, Edit(q, expected) PROVE TypeOK'
  <2>1. q \in Queues
    BY DEF Edited
  <2> QED
    BY <1>1, <2>1 DEF Edit, Rows, Written
<1>2. ASSUME NEW q \in Edited, NEW expected \in 0 .. MaxRevision, EditAtCurrentPosition(q, expected)
      PROVE TypeOK'
  <2>1. q \in Queues
    BY DEF Edited
  <2> QED
    BY <1>2, <2>1 DEF EditAtCurrentPosition, Rows, Written
<1>3. ASSUME NEW q \in Queues, LeaseExpires(q) PROVE TypeOK'
  BY <1>3 DEF LeaseExpires, Rows
<1>4. ASSUME NEW d \in Daemons, Start(d) PROVE TypeOK'
  <2>1. [q \in Queues |-> [Unread[q] EXCEPT !.base = row[q].revision]] \in [Queues -> Copies]
    BY UnreadTyped DEF Copies, Rows
  <2>2. [run[d] EXCEPT !.pc = "idle"] \in Runs
    BY DEF Runs
  <2> QED
    BY <1>4, <2>1, <2>2 DEF Start
<1>5. ASSUME NEW d \in Daemons, Crash(d) PROVE TypeOK'
  <2>1. [Idle EXCEPT !.pc = "dead"] \in Runs
    BY IdleTyped DEF Runs
  <2> QED
    BY <1>5, <2>1, UnreadTyped, NoPrefetchTyped DEF Crash
<1>6. ASSUME NEW d \in Daemons, BeginRun(d) PROVE TypeOK'
  <2>1. \A due \in Offices : [run[d] EXCEPT !.pc = "run", !.due = due, !.ran = {}] \in Runs
    BY DEF Runs
  <2> QED
    BY <1>6, <2>1 DEF BeginRun
<1>7. ASSUME NEW d \in Daemons, NEW g \in Generals, Prepare(d, g) PROVE TypeOK'
  <2>1. [run[d] EXCEPT !.pc = "general", !.general = g] \in Runs
    BY DEF Runs
  <2>2. \A T \in SUBSET Generals : [prefetch[d] EXCEPT !.targets = T] \in Prefetches
    BY DEF Prefetches
  <2>3. prefetch' \in [Daemons -> Prefetches]
    <3>1. CASE UNCHANGED prefetch
      BY <3>1
    <3>2. CASE \E comrades \in SUBSET Generals :
                 prefetch' = [prefetch EXCEPT ![d].targets = {h \in comrades \cup {g} : ~copy[d][h].dirty}]
      <4>1. PICK comrades \in SUBSET Generals :
                 prefetch' = [prefetch EXCEPT ![d].targets = {h \in comrades \cup {g} : ~copy[d][h].dirty}]
        BY <3>2
      <4>2. {h \in comrades \cup {g} : ~copy[d][h].dirty} \in SUBSET Generals
        OBVIOUS
      <4> QED
        BY <2>2, <4>1, <4>2
    <3> QED
      BY <1>7, <3>1, <3>2 DEF Prepare
  <2> QED
    BY <1>7, <2>1, <2>3 DEF Prepare
<1>8. ASSUME NEW d \in Daemons, AcquireGeneralLease(d) PROVE TypeOK'
  <2> DEFINE g == run[d].general
  <2>1. g \in Queues
    BY <1>8 DEF AcquireGeneralLease, Position, Queues
  <2>2. copy' \in [Daemons -> [Queues -> Copies]]
    BY <1>8, <2>1, LeasedCopyTyped DEF AcquireGeneralLease
  <2>3. row' \in [Queues -> Rows]
    BY <1>8, RowsTyped DEF AcquireGeneralLease
  <2>4. [run[d] EXCEPT !.pc = IF run[d].due[g] = NoPost THEN "refresh" ELSE "post"] \in Runs
    BY DEF Runs
  <2>5. run' \in [Daemons -> Runs]
    BY <1>8, <2>4 DEF AcquireGeneralLease
  <2> QED
    BY <1>8, <2>2, <2>3, <2>5 DEF AcquireGeneralLease
<1>9. ASSUME NEW d \in Daemons, ReadNationLease(d) PROVE TypeOK'
  <2> DEFINE p == run[d].due[run[d].general]
  <2>1. PICK retained \in BOOLEAN :
            run' = [run EXCEPT ![d].pc = "claim", ![d].had = copy[d][p].leased, ![d].fresh = ~retained]
    BY <1>9 DEF ReadNationLease
  <2>2. p \in Queues
    BY <1>9 DEF ReadNationLease, Position, Queues
  <2>3. copy[d][p].leased \in BOOLEAN
    BY <2>2 DEF Copies
  <2>4. [run[d] EXCEPT !.pc = "claim", !.had = copy[d][p].leased, !.fresh = ~retained] \in Runs
    BY <2>3 DEF Runs
  <2> QED
    BY <1>9, <2>1, <2>4 DEF ReadNationLease
<1>10. ASSUME NEW d \in Daemons, AcquireNationLease(d) PROVE TypeOK'
  <2> DEFINE p == run[d].due[run[d].general]
  <2>1. p \in Queues
    BY <1>10 DEF AcquireNationLease, Position, Queues
  <2>2. copy' \in [Daemons -> [Queues -> Copies]]
    BY <1>10, <2>1, LeasedCopyTyped DEF AcquireNationLease
  <2>3. row' \in [Queues -> Rows]
    BY <1>10, RowsTyped DEF AcquireNationLease
  <2>4. [run[d] EXCEPT !.pc = "refresh"] \in Runs
    BY DEF Runs
  <2> QED
    BY <1>10, <2>2, <2>3, <2>4 DEF AcquireNationLease
<1>11. ASSUME NEW d \in Daemons, Refresh(d) PROVE TypeOK'
  <2>1. \A q \in Queues : [copy[d][q] EXCEPT !.base = row[q].revision] \in Copies
    <3>1. \A q \in Queues : row[q].revision \in Nat
      BY DEF Rows
    <3> QED
      BY <3>1, CopiesTyped
  <2>2. copy' \in [Daemons -> [Queues -> Copies]]
    BY <1>11, <2>1 DEF Refresh
  <2>3. [run[d] EXCEPT !.pc = "execute"] \in Runs
    BY DEF Runs
  <2> QED
    BY <1>11, <2>2, <2>3 DEF Refresh
<1>12. ASSUME NEW d \in Daemons, PrepareFails(d) PROVE TypeOK'
  <2>1. row' \in [Queues -> Rows]
    BY <1>12, RowsTyped DEF PrepareFails
  <2> QED
    BY <1>12, <2>1, IdleTyped, UnreadTyped, NoPrefetchTyped DEF PrepareFails
<1>13. ASSUME NEW d \in Daemons, Execute(d) PROVE TypeOK'
  <2>1. run[d].general \in Generals
    BY <1>13 DEF Execute, Position
  <2>2. [Prepared(run[d]) EXCEPT !.pc = "run", !.ran = @ \cup {run[d].general}] \in Runs
    BY <2>1 DEF Prepared, Runs
  <2>3. run' \in [Daemons -> Runs]
    BY <1>13, <2>2 DEF Execute
  <2>4. \A q \in Queues : /\ Executed(copy[d][q]) \in Copies
                         /\ [copy[d][q] EXCEPT !.dirty = TRUE] \in Copies
    BY CopiesTyped
  <2>5. copy' \in [Daemons -> [Queues -> Copies]]
    BY <1>13, <2>4 DEF Execute
  <2> QED
    BY <1>13, <2>3, <2>5 DEF Execute
<1>14. ASSUME NEW d \in Daemons, Abort(d) PROVE TypeOK'
  BY <1>14, IdleTyped, UnreadTyped, NoPrefetchTyped DEF Abort
<1>15. ASSUME NEW d \in Daemons, Flush(d) PROVE TypeOK'
  <2>1. row' \in [Queues -> Rows]
    BY <1>15, RowsTyped DEF Flush, FlushedRow
  <2>2. \A q \in Queues : Acknowledged(d, q) \in Copies
    BY DEF Acknowledged, Copies, Rows
  <2>3. copy' \in [Daemons -> [Queues -> Copies]]
    BY <1>15, <2>2 DEF Flush
  <2>4. saved' \in [Daemons -> [Queues -> Copies]] /\ run' \in [Daemons -> Runs]
    BY <1>15, IdleTyped, UnreadTyped DEF Flush
  <2> QED
    BY <1>15, <2>1, <2>3, <2>4 DEF Flush
<1>16. CASE UNCHANGED vars
  BY <1>16 DEF vars
<1>17. ASSUME NEW d \in Daemons, PrefetchReads(d) PROVE TypeOK'
  <2>1. [g \in Generals |-> IF g \in prefetch[d].targets THEN row[g].revision ELSE 0] \in [Generals -> Nat]
    BY DEF Rows, Queues
  <2>2. prefetch' \in [Daemons -> Prefetches]
    BY <1>17, <2>1 DEF PrefetchReads, Prefetches
  <2> QED
    BY <1>17, <2>2 DEF PrefetchReads
<1>18. ASSUME NEW d \in Daemons, PrefetchArrives(d) PROVE TypeOK'
  <2>1. \A q \in prefetch[d].targets : prefetch[d].answer[q] \in Nat
    BY DEF Prefetches
  <2>2. \A q \in Queues : q \in prefetch[d].targets => [copy[d][q] EXCEPT !.base = prefetch[d].answer[q]] \in Copies
    BY <2>1, CopiesTyped
  <2>3. copy' \in [Daemons -> [Queues -> Copies]]
    BY <1>18, <2>2 DEF PrefetchArrives
  <2> QED
    BY <1>18, <2>3, NoPrefetchTyped DEF PrefetchArrives
<1> QED
  BY <1>1, <1>2, <1>3, <1>4, <1>5, <1>6, <1>7, <1>8, <1>9, <1>10, <1>11, <1>12, <1>13, <1>14, <1>15, <1>16, <1>17, <1>18
     DEF Next, PlayerStep, DaemonStep

\* Every step keeps the position of the runs.
LEMMA PositionStep == TypeOK /\ Position /\ [Next]_vars => Position'
<1> SUFFICES ASSUME TypeOK, Position, [Next]_vars PROVE Position'
  OBVIOUS
<1>1. ASSUME PlayerStep \/ \E q \in Queues : LeaseExpires(q) PROVE Position'
  BY <1>1 DEF PlayerStep, Edit, EditAtCurrentPosition, LeaseExpires, Position
<1>2. ASSUME NEW d \in Daemons, DaemonStep(d) PROVE Position'
  <2> SUFFICES ASSUME NEW e \in Daemons
               PROVE  /\ run'[e].pc \in {"general", "post", "claim", "refresh", "execute"}
                            => run'[e].general \in Generals \ run'[e].ran
                      /\ run'[e].pc \in {"post", "claim"} => run'[e].due[run'[e].general] \in Posts
    BY DEF Position
  <2>1. run[d].due \in [Generals -> Posts \cup {NoPost}]
    BY DEF TypeOK, Runs, Offices
  <2>0. CASE PrefetchReads(d) \/ PrefetchArrives(d)
    BY <2>0 DEF PrefetchReads, PrefetchArrives, Position
  <2>2. CASE e # d
    BY <1>2, <2>0, <2>2 DEF TypeOK, Position, DaemonStep, Start, Crash, BeginRun, Prepare, AcquireGeneralLease,
       ReadNationLease, AcquireNationLease, Refresh, PrepareFails, Execute, Abort, Flush
  <2>3. CASE e = d
    <3>1. CASE Start(d) \/ BeginRun(d) \/ Crash(d) \/ PrepareFails(d) \/ Execute(d) \/ Abort(d) \/ Flush(d)
      <4>1. Start(d) => run'[d].pc = "idle"
        BY DEF TypeOK, Runs, Start
      <4>2. BeginRun(d) => run'[d].pc = "run"
        BY DEF TypeOK, Runs, BeginRun
      <4>3. Crash(d) => run'[d].pc = "dead"
        BY DEF TypeOK, Crash, Idle
      <4>4. PrepareFails(d) \/ Abort(d) \/ Flush(d) => run'[d].pc = "idle"
        <5>1. PrepareFails(d) \/ Abort(d) \/ Flush(d) => run' = [run EXCEPT ![d] = Idle]
          BY DEF PrepareFails, Abort, Flush
        <5> QED
          BY <5>1 DEF TypeOK, Idle
      <4>5. Execute(d) => run'[d].pc = "run"
        BY DEF TypeOK, Runs, Execute, Prepared
      <4> QED
        BY <2>3, <3>1, <4>1, <4>2, <4>3, <4>4, <4>5
    <3>2. CASE \E g \in Generals : Prepare(d, g)
      BY <3>2, <2>3 DEF TypeOK, Runs, Prepare
    <3>3. CASE AcquireGeneralLease(d)
      BY <3>3, <2>1, <2>3 DEF TypeOK, Runs, AcquireGeneralLease, Position
    <3>4. CASE ReadNationLease(d)
      <4>1. /\ run'[d].pc = "claim" /\ run'[d].general = run[d].general
            /\ run'[d].ran = run[d].ran /\ run'[d].due = run[d].due
        BY <3>4 DEF TypeOK, Runs, ReadNationLease
      <4> QED
        BY <3>4, <4>1, <2>3 DEF ReadNationLease, Position
    <3>5. CASE AcquireNationLease(d) \/ Refresh(d)
      <4>1. /\ run'[d].pc \in {"refresh", "execute"} /\ run'[d].general = run[d].general
            /\ run'[d].ran = run[d].ran
        BY <3>5 DEF TypeOK, Runs, AcquireNationLease, Refresh
      <4> QED
        BY <3>5, <4>1, <2>3 DEF AcquireNationLease, Refresh, Position
    <3> QED
      BY <1>2, <2>0, <3>1, <3>2, <3>3, <3>4, <3>5 DEF DaemonStep
  <2> QED
    BY <2>2, <2>3
<1>3. CASE UNCHANGED vars
  BY <1>3 DEF vars, Position
<1> QED
  BY <1>1, <1>2, <1>3 DEF Next

\* Rows, copies, savepoints and runs are well typed in every behaviour: no sequence
\* of edits, leases, flushes, rollbacks and crashes leaves a queue in a shape that
\* the store or the API does not know.
THEOREM TypeCorrect == Spec => []TypeOK
<1>1. Init => TypeOK /\ Position
  BY TypeInit
<1>2. TypeOK /\ Position /\ [Next]_vars => TypeOK' /\ Position'
  BY TypeStep, PositionStep
<1> QED
  BY <1>1, <1>2, PTL DEF Spec

-----------------------------------------------------------------------------
(* Old revisions and new queues. *)

\* Nothing is journalled about a queue.
Clean(c) == ~c.dirty /\ ~c.leased /\ c.used = {}

\* While daemon d owns the lease of a queue, its copy is the stored version.
Current(d, q) == row[q].owner = d => copy[d][q].base = row[q].revision

\* The queue belongs to a general whom the run has executed, or to his office.
Consumed(d, q) == q \in run[d].ran \/ \E h \in run[d].ran : run[d].due[h] = q

\* Savepoints carry no journal, and neither do processes between two runs.
QuietInv(d) ==
    \A q \in Queues :
        /\ Clean(saved[d][q])
        /\ run[d].pc \in {"new", "idle", "dead"} => Clean(copy[d][q])

\* The queues of the general being prepared are leased, and copied under the lease.
PreparedInv(d) ==
    \A q \in Queues :
        /\ run[d].pc \in {"post", "claim"} /\ q = run[d].general => copy[d][q].leased
        /\ run[d].pc \in {"refresh", "execute"} /\ q \in {run[d].general, run[d].due[run[d].general]} => copy[d][q].leased
        /\ /\ run[d].pc = "execute"
           /\ q \in {run[d].general, run[d].due[run[d].general]} \cap SafeQueues
           => Current(d, q)

\* A safe queue is written only by the run that consumed it, from one version, and
\* that version is still the stored one while the lease lasts.
ConsumedInv(d) ==
    \A q \in SafeQueues :
        IF copy[d][q].dirty
        THEN copy[d][q].leased /\ Consumed(d, q) /\ Current(d, q) /\ copy[d][q].used = {copy[d][q].base}
        ELSE copy[d][q].used = {}

\* A prefetch under way belongs to the officer being prepared, whom the AI commands,
\* and none of its safe queues is his or has been consumed.
PrefetchInv(d) ==
    /\ prefetch[d].read => prefetch[d].targets # {}
    /\ prefetch[d].targets # {} =>
          /\ run[d].pc \in {"general", "post", "claim", "refresh", "execute"}
          /\ \A q \in prefetch[d].targets \cap SafeQueues : ~copy[d][q].dirty /\ q # run[d].general

DaemonInv(d) == QuietInv(d) /\ PreparedInv(d) /\ ConsumedInv(d) /\ PrefetchInv(d)

QueueInv == \A d \in Daemons : DaemonInv(d)

\* A step that leaves a process alone, and no lease of its own changed, keeps its
\* invariant.
LEMMA Untouched ==
    ASSUME NEW d \in Daemons, DaemonInv(d),
           copy'[d] = copy[d], saved'[d] = saved[d], run'[d] = run[d], prefetch'[d] = prefetch[d],
           \A q \in Queues : row'[q].owner = d => row[q].owner = d /\ row'[q].revision = row[q].revision
    PROVE  DaemonInv(d)'
<1>1. \A q \in Queues : Current(d, q) => Current(d, q)'
  BY DEF Current
<1>2. \A q \in Queues : Consumed(d, q) => Consumed(d, q)'
  BY DEF Consumed
<1>3. QuietInv(d)'
  BY DEF DaemonInv, QuietInv, Clean
<1>4. PreparedInv(d)'
  BY <1>1 DEF DaemonInv, PreparedInv
<1>5. ConsumedInv(d)'
  <2>1. SafeQueues \subseteq Queues
    BY DEF SafeQueues, Edited
  <2> QED
    BY <1>1, <1>2, <2>1 DEF DaemonInv, ConsumedInv
<1>6. PrefetchInv(d)'
  BY DEF DaemonInv, PrefetchInv
<1> QED
  BY <1>3, <1>4, <1>5, <1>6 DEF DaemonInv

\* A process that ends its run with an empty journal has its invariant.
LEMMA Quieted ==
    ASSUME NEW d \in Daemons, run'[d].pc \in {"new", "idle", "dead"},
           prefetch'[d].targets = {}, ~prefetch'[d].read,
           \A q \in Queues : Clean(copy'[d][q]) /\ Clean(saved'[d][q])
    PROVE  DaemonInv(d)'
<1>1. QuietInv(d)'
  BY DEF QuietInv, Clean
<1>2. PreparedInv(d)'
  BY DEF PreparedInv
<1>3. ConsumedInv(d)'
  <2>1. SafeQueues \subseteq Queues
    BY DEF SafeQueues, Edited
  <2> QED
    BY <2>1 DEF ConsumedInv, Clean
<1>4. PrefetchInv(d)'
  BY DEF PrefetchInv
<1> QED
  BY <1>1, <1>2, <1>3, <1>4 DEF DaemonInv

\* What an edit, a lease, a release and an expiry make of a row.
LEMMA RowFields ==
    ASSUME NEW r \in Rows, NEW d \in Daemons
    PROVE  /\ Written(r).owner = Nobody
           /\ Leased(d, r).owner = d /\ Leased(d, r).revision = r.revision
           /\ [r EXCEPT !.owner = Nobody, !.expired = FALSE].owner = Nobody
           /\ [r EXCEPT !.owner = Nobody, !.expired = FALSE].revision = r.revision
           /\ [r EXCEPT !.expired = TRUE].owner = r.owner
           /\ [r EXCEPT !.expired = TRUE].revision = r.revision
<1>1. Leased(d, r).owner = d /\ Leased(d, r).revision = r.revision
  BY DEF Leased, Rows
<1>2. /\ [r EXCEPT !.owner = Nobody, !.expired = FALSE].owner = Nobody
      /\ [r EXCEPT !.owner = Nobody, !.expired = FALSE].revision = r.revision
  BY DEF Rows
<1>3. /\ [r EXCEPT !.expired = TRUE].owner = r.owner
      /\ [r EXCEPT !.expired = TRUE].revision = r.revision
  BY DEF Rows
<1>4. Written(r).owner = Nobody
  BY DEF Written
<1> QED
  BY <1>1, <1>2, <1>3, <1>4

\* Players and expiries leave no daemon an owner it was not, nor a new version under
\* its lease.
LEMMA PlayersKeepLeases ==
    ASSUME TypeOK, PlayerStep \/ \E q \in Queues : LeaseExpires(q), NEW d \in Daemons, NEW q \in Queues
    PROVE  row'[q].owner = d => row[q].owner = d /\ row'[q].revision = row[q].revision
<1>1. row[q] \in Rows
  BY DEF TypeOK
<1>2. row'[q] \in {row[q], Written(row[q]), [row[q] EXCEPT !.expired = TRUE]}
  BY DEF PlayerStep, Edit, EditAtCurrentPosition, LeaseExpires, TypeOK, Edited
<1> QED
  BY <1>1, <1>2, RowFields, NobodyAssumption

\* A daemon changes no other daemon's memory, and takes leases only for itself.
LEMMA OthersKept ==
    ASSUME TypeOK, Position, NEW d \in Daemons, DaemonStep(d), NEW e \in Daemons, e # d
    PROVE  /\ copy'[e] = copy[e] /\ saved'[e] = saved[e] /\ run'[e] = run[e] /\ prefetch'[e] = prefetch[e]
           /\ \A q \in Queues : row'[q].owner = e => row[q].owner = e /\ row'[q].revision = row[q].revision
<1>1. copy'[e] = copy[e] /\ saved'[e] = saved[e] /\ run'[e] = run[e] /\ prefetch'[e] = prefetch[e]
  BY DEF TypeOK, DaemonStep, PrefetchReads, PrefetchArrives, Start, Crash, BeginRun, Prepare, AcquireGeneralLease, ReadNationLease,
     AcquireNationLease, Refresh, PrepareFails, Execute, Abort, Flush
<1>2. ASSUME NEW q \in Queues, row'[q].owner = e PROVE row[q].owner = e /\ row'[q].revision = row[q].revision
  <2>0. row[q] \in Rows
    BY DEF TypeOK
  <2>1. CASE row' = row
    BY <1>2, <2>1
  <2>2. CASE AcquireGeneralLease(d) \/ AcquireNationLease(d)
    <3>1. row'[q] \in {row[q], Leased(d, row[q])}
      BY <2>2 DEF AcquireGeneralLease, AcquireNationLease, TypeOK
    <3> QED
      BY <1>2, <2>0, <3>1, RowFields
  <2>3. CASE PrepareFails(d)
    <3>1. row'[q] \in {row[q], [row[q] EXCEPT !.owner = Nobody, !.expired = FALSE]}
      BY <2>3 DEF PrepareFails
    <3> QED
      BY <1>2, <2>0, <3>1, RowFields, NobodyAssumption
  <2>4. CASE Flush(d)
    <3>1. row'[q] \in {row[q], Written(row[q]), [row[q] EXCEPT !.owner = Nobody, !.expired = FALSE]}
      BY <2>4 DEF Flush, FlushedRow
    <3>2. /\ Written(row[q]).owner = Nobody
          /\ [row[q] EXCEPT !.owner = Nobody, !.expired = FALSE].owner = Nobody
      BY <2>0, RowFields
    <3>3. row'[q] = row[q]
      BY <1>2, <3>1, <3>2, NobodyAssumption
    <3> QED
      BY <1>2, <3>3
  <2> QED
    BY <2>1, <2>2, <2>3, <2>4 DEF DaemonStep, PrefetchReads, PrefetchArrives, Start, Crash, BeginRun, Prepare,
       ReadNationLease, Refresh, Execute, Abort
<1> QED
  BY <1>1, <1>2

\* The queues of a general who has not yet run are not written in memory: he is not
\* among the executed ones, and his office was listed with nobody else.
LEMMA NotYetConsumed ==
    ASSUME TypeOK, Position, NEW d \in Daemons, DaemonInv(d),
           run[d].pc \in {"general", "post", "claim", "refresh", "execute"},
           NEW q \in SafeQueues, q \in {run[d].general, run[d].due[run[d].general]}
    PROVE  ~copy[d][q].dirty /\ copy[d][q].used = {}
<1> DEFINE g == run[d].general
<1>1. g \in Generals /\ g \notin run[d].ran
  BY DEF Position
<1>2. /\ run[d].due \in [Generals -> Posts \cup {NoPost}]
      /\ run[d].ran \subseteq Generals
      /\ \A h, k \in Generals : run[d].due[h] = run[d].due[k] /\ run[d].due[h] # NoPost => h = k
  BY DEF TypeOK, Runs, Offices
<1>3. ~Consumed(d, q)
  BY <1>1, <1>2, QueuesAssumption DEF Consumed, SafeQueues, Edited, Queues
<1> QED
  BY <1>3 DEF DaemonInv, ConsumedInv

\* Taking the lease of a queue that is not yet consumed keeps ConsumedInv.
LEMMA LeaseTaken ==
    ASSUME TypeOK, NEW d \in Daemons, ConsumedInv(d), NEW l \in Queues,
           l \in SafeQueues => ~copy[d][l].dirty /\ copy[d][l].used = {},
           row' = [row EXCEPT ![l] = Leased(d, @)],
           copy' = [copy EXCEPT ![d][l].leased = TRUE],
           run'[d].ran = run[d].ran, run'[d].due = run[d].due
    PROVE  ConsumedInv(d)'
<1> SUFFICES ASSUME NEW q \in SafeQueues
             PROVE  IF copy'[d][q].dirty
                    THEN copy'[d][q].leased /\ Consumed(d, q)' /\ Current(d, q)' /\ copy'[d][q].used = {copy'[d][q].base}
                    ELSE copy'[d][q].used = {}
  BY DEF ConsumedInv
<1>1. q \in Queues
  BY DEF SafeQueues, Edited
<1>2. CASE q = l
  <2>1. copy'[d][q].dirty = copy[d][q].dirty /\ copy'[d][q].used = copy[d][q].used
    BY <1>1, <1>2 DEF TypeOK, Copies
  <2> QED
    BY <1>2, <2>1
<1>3. CASE q # l
  <2>1. copy'[d][q] = copy[d][q] /\ row'[q] = row[q]
    BY <1>1, <1>3 DEF TypeOK
  <2> QED
    BY <2>1 DEF ConsumedInv, Consumed, Current
<1> QED
  BY <1>2, <1>3

\* A daemon that starts, or whose run ends in any way, has an empty journal.
LEMMA EndedStep ==
    ASSUME TypeOK, NEW d \in Daemons, DaemonInv(d),
           Start(d) \/ Crash(d) \/ PrepareFails(d) \/ Abort(d) \/ Flush(d)
    PROVE  DaemonInv(d)'
<1>1. \A q \in Queues : Clean(Unread[q]) /\ Clean(saved[d][q])
  BY DEF Unread, Clean, DaemonInv, QuietInv
<1>p. prefetch'[d].targets = {} /\ ~prefetch'[d].read
  <2>1. CASE Start(d) \/ Flush(d)
    BY <2>1 DEF Start, Flush, DaemonInv, PrefetchInv
  <2>2. CASE Crash(d) \/ PrepareFails(d) \/ Abort(d)
    <3>1. prefetch' = [prefetch EXCEPT ![d] = NoPrefetch]
      BY <2>2 DEF Crash, PrepareFails, Abort
    <3> QED
      BY <3>1 DEF TypeOK, NoPrefetch
  <2> QED
    BY <2>1, <2>2
<1>2. CASE Start(d)
  <2>1. run'[d].pc = "idle"
    BY <1>2 DEF Start, TypeOK, Runs
  <2>2. \A q \in Queues : copy'[d][q] = [Unread[q] EXCEPT !.base = row[q].revision]
    BY <1>2 DEF Start, TypeOK
  <2>3. \A q \in Queues : Clean(copy'[d][q])
    BY <2>2 DEF Unread, Clean
  <2>4. saved' = saved
    BY <1>2 DEF Start
  <2> QED
    BY <1>1, <1>p, <2>1, <2>3, <2>4, Quieted
<1>3. CASE Crash(d)
  <2>1. copy'[d] = Unread /\ saved'[d] = Unread /\ run'[d].pc = "dead"
    BY <1>3 DEF Crash, TypeOK, Idle
  <2> QED
    BY <1>1, <1>p, <2>1, Quieted
<1>4. CASE PrepareFails(d) \/ Abort(d) \/ Flush(d)
  <2>1. saved'[d] = Unread /\ run'[d] = Idle
    BY <1>4 DEF PrepareFails, Abort, Flush, TypeOK
  <2>2. run'[d].pc = "idle"
    BY <2>1 DEF Idle
  <2>3. copy'[d] = saved[d] \/ copy'[d] = [q \in Queues |-> Acknowledged(d, q)]
    BY <1>4 DEF PrepareFails, Abort, Flush, TypeOK
  <2>4. \A q \in Queues : Clean(Acknowledged(d, q))
    BY DEF Acknowledged, Clean
  <2>5. \A q \in Queues : Clean(copy'[d][q])
    BY <1>1, <2>3, <2>4
  <2> QED
    BY <1>1, <1>p, <2>1, <2>2, <2>5, Quieted
<1> QED
  BY <1>2, <1>3, <1>4

\* A run begins with an empty journal, which is also its savepoint.
LEMMA BeginRunStep ==
    ASSUME TypeOK, NEW d \in Daemons, DaemonInv(d), BeginRun(d)
    PROVE  DaemonInv(d)'
<1>1. copy' = copy /\ row' = row /\ saved'[d] = copy[d] /\ run'[d].pc = "run"
  BY DEF BeginRun, TypeOK, Runs
<1>2. \A q \in Queues : Clean(copy[d][q])
  BY DEF BeginRun, DaemonInv, QuietInv
<1>3. QuietInv(d)' /\ PreparedInv(d)'
  BY <1>1, <1>2 DEF QuietInv, PreparedInv, Clean
<1>4. ConsumedInv(d)'
  <2>1. SafeQueues \subseteq Queues
    BY DEF SafeQueues, Edited
  <2> QED
    BY <1>1, <1>2, <2>1 DEF ConsumedInv, Clean
<1>5. PrefetchInv(d)'
  BY DEF BeginRun, DaemonInv, PrefetchInv
<1> QED
  BY <1>3, <1>4, <1>5 DEF DaemonInv

\* Choosing the next due general changes no journal.
LEMMA PrepareStep ==
    ASSUME TypeOK, NEW d \in Daemons, DaemonInv(d), NEW g \in Generals, Prepare(d, g)
    PROVE  DaemonInv(d)'
<1>1. /\ copy' = copy /\ row' = row /\ saved' = saved
      /\ run'[d].pc = "general" /\ run'[d].ran = run[d].ran /\ run'[d].due = run[d].due
      /\ run'[d].general = g
  BY DEF Prepare, TypeOK, Runs
<1>2. QuietInv(d)' /\ PreparedInv(d)'
  BY <1>1 DEF DaemonInv, QuietInv, PreparedInv, Clean
<1>3. ConsumedInv(d)'
  BY <1>1 DEF DaemonInv, ConsumedInv, Consumed, Current
<1>4. PrefetchInv(d)'
  <2>1. prefetch[d].targets = {} /\ ~prefetch[d].read
    BY DEF Prepare, DaemonInv, PrefetchInv
  <2>2. prefetch[d] \in Prefetches
    BY DEF TypeOK
  <2>3. CASE UNCHANGED prefetch
    BY <2>1, <2>3 DEF PrefetchInv
  <2>4. CASE g \in Autorun /\ \E comrades \in SUBSET Generals :
               prefetch' = [prefetch EXCEPT ![d].targets = {h \in comrades \cup {g} : ~copy[d][h].dirty}]
    <3>1. ~prefetch'[d].read /\ \A h \in prefetch'[d].targets : ~copy[d][h].dirty
      BY <2>1, <2>2, <2>4 DEF TypeOK, Prefetches
    <3>2. g \notin SafeQueues
      BY <2>4 DEF SafeQueues
    <3> QED
      BY <1>1, <3>1, <3>2 DEF PrefetchInv
  <2> QED
    BY <2>3, <2>4 DEF Prepare
<1> QED
  BY <1>2, <1>3, <1>4 DEF DaemonInv

\* The database reads the queues of a prefetch: no copy changes yet.
LEMMA PrefetchReadStep ==
    ASSUME TypeOK, NEW d \in Daemons, DaemonInv(d), PrefetchReads(d)
    PROVE  DaemonInv(d)'
<1>1. copy' = copy /\ row' = row /\ saved' = saved /\ run' = run
  BY DEF PrefetchReads
<1>2. prefetch'[d].targets = prefetch[d].targets /\ prefetch[d].targets # {}
  BY DEF PrefetchReads, TypeOK, Prefetches
<1>3. QuietInv(d)' /\ PreparedInv(d)'
  BY <1>1 DEF DaemonInv, QuietInv, PreparedInv, Clean, Current
<1>4. ConsumedInv(d)'
  BY <1>1 DEF DaemonInv, ConsumedInv, Consumed, Current
<1>5. PrefetchInv(d)'
  BY <1>1, <1>2 DEF DaemonInv, PrefetchInv
<1> QED
  BY <1>3, <1>4, <1>5 DEF DaemonInv

\* The answer of a prefetch replaces copies that are not the prepared general's and
\* that nothing was consumed from, as far as they are safe.
LEMMA PrefetchArrivesStep ==
    ASSUME TypeOK, Position, NEW d \in Daemons, DaemonInv(d), PrefetchArrives(d)
    PROVE  DaemonInv(d)'
<1> DEFINE T == prefetch[d].targets
<1>1. row' = row /\ saved' = saved /\ run' = run
  BY DEF PrefetchArrives
<1>2. prefetch'[d].targets = {} /\ ~prefetch'[d].read
  BY DEF PrefetchArrives, TypeOK, NoPrefetch
<1>3. /\ run[d].pc \in {"general", "post", "claim", "refresh", "execute"}
      /\ \A q \in T \cap SafeQueues : ~copy[d][q].dirty /\ q # run[d].general
  BY DEF PrefetchArrives, DaemonInv, PrefetchInv
<1>4. ASSUME NEW q \in Queues
      PROVE  /\ copy'[d][q].leased = copy[d][q].leased
             /\ copy'[d][q].dirty = copy[d][q].dirty
             /\ copy'[d][q].used = copy[d][q].used
             /\ q \notin T => copy'[d][q] = copy[d][q]
  <2>1. copy'[d][q] = IF q \in T THEN [copy[d][q] EXCEPT !.base = prefetch[d].answer[q]] ELSE copy[d][q]
    BY <1>4 DEF PrefetchArrives, TypeOK
  <2>2. copy[d][q] \in Copies
    BY <1>4 DEF TypeOK
  <2> QED
    BY <2>1, <2>2 DEF Copies
<1>5. QuietInv(d)'
  BY <1>1, <1>3 DEF DaemonInv, QuietInv, Clean
<1>6. PreparedInv(d)'
  <2>1. T \subseteq Generals
    BY DEF TypeOK, Prefetches
  <2>2. run[d].due[run[d].general] \notin Generals
    BY <1>3, QueuesAssumption DEF Position, TypeOK, Runs, Offices
  <2>3. \A q \in Queues : q \in {run[d].general, run[d].due[run[d].general]} \cap SafeQueues => q \notin T
    BY <1>3, <2>1, <2>2
  <2> QED
    BY <1>1, <1>4, <2>3 DEF DaemonInv, PreparedInv, Current
<1>7. ConsumedInv(d)'
  <2> SUFFICES ASSUME NEW q \in SafeQueues
               PROVE  IF copy'[d][q].dirty
                      THEN copy'[d][q].leased /\ Consumed(d, q)' /\ Current(d, q)' /\ copy'[d][q].used = {copy'[d][q].base}
                      ELSE copy'[d][q].used = {}
    BY DEF ConsumedInv
  <2>1. q \in Queues
    BY DEF SafeQueues, Edited
  <2>2. CASE q \in T
    BY <1>3, <1>4, <2>1, <2>2 DEF DaemonInv, ConsumedInv
  <2>3. CASE q \notin T
    BY <1>1, <1>4, <2>1, <2>3 DEF DaemonInv, ConsumedInv, Consumed, Current
  <2> QED
    BY <2>2, <2>3
<1>8. PrefetchInv(d)'
  BY <1>2 DEF PrefetchInv
<1> QED
  BY <1>5, <1>6, <1>7, <1>8 DEF DaemonInv

\* The general's own lease is taken.
LEMMA GeneralLeaseStep ==
    ASSUME TypeOK, Position, NEW d \in Daemons, DaemonInv(d), AcquireGeneralLease(d)
    PROVE  DaemonInv(d)'
<1> DEFINE g == run[d].general
<1>1. g \in Generals /\ g \in Queues /\ run[d].pc = "general"
  BY DEF AcquireGeneralLease, Position, Queues
<1>2. /\ run'[d].pc = IF run[d].due[g] = NoPost THEN "refresh" ELSE "post"
      /\ run'[d].ran = run[d].ran /\ run'[d].due = run[d].due /\ run'[d].general = g
  BY DEF AcquireGeneralLease, TypeOK, Runs
<1>3. saved' = saved /\ copy'[d][g].leased
  BY <1>1 DEF AcquireGeneralLease, TypeOK, Copies
<1>4. g \in SafeQueues => ~copy[d][g].dirty /\ copy[d][g].used = {}
  BY <1>1, NotYetConsumed
<1>5. ConsumedInv(d)'
  <2>1. row' = [row EXCEPT ![g] = Leased(d, @)] /\ copy' = [copy EXCEPT ![d][g].leased = TRUE]
    BY DEF AcquireGeneralLease
  <2> QED
    BY <1>1, <1>2, <1>4, <2>1, LeaseTaken DEF DaemonInv
<1>6. QuietInv(d)'
  BY <1>2, <1>3 DEF DaemonInv, QuietInv, Clean
<1>7. PreparedInv(d)'
  BY <1>2, <1>3, QueuesAssumption DEF PreparedInv, Queues
<1>8. PrefetchInv(d)'
  <2>1. \A q \in SafeQueues : copy'[d][q].dirty = copy[d][q].dirty
    BY <1>1 DEF AcquireGeneralLease, TypeOK, Copies, SafeQueues, Edited
  <2> QED
    BY <1>1, <1>2, <2>1 DEF AcquireGeneralLease, DaemonInv, PrefetchInv
<1> QED
  BY <1>5, <1>6, <1>7, <1>8 DEF DaemonInv

\* The lease of the nation's queue is read.
LEMMA ReadLeaseStep ==
    ASSUME TypeOK, Position, NEW d \in Daemons, DaemonInv(d), ReadNationLease(d)
    PROVE  DaemonInv(d)'
<1>1. /\ copy' = copy /\ row' = row /\ saved' = saved /\ run[d].pc = "post"
      /\ run'[d].pc = "claim" /\ run'[d].ran = run[d].ran /\ run'[d].due = run[d].due
      /\ run'[d].general = run[d].general
  BY DEF ReadNationLease, TypeOK, Runs
<1>2. QuietInv(d)' /\ PreparedInv(d)'
  BY <1>1 DEF DaemonInv, QuietInv, PreparedInv, Clean
<1>3. ConsumedInv(d)'
  BY <1>1 DEF DaemonInv, ConsumedInv, Consumed, Current
<1>4. PrefetchInv(d)'
  BY <1>1 DEF ReadNationLease, DaemonInv, PrefetchInv
<1> QED
  BY <1>2, <1>3, <1>4 DEF DaemonInv

\* The lease of the nation's queue is taken.
LEMMA NationLeaseStep ==
    ASSUME TypeOK, Position, NEW d \in Daemons, DaemonInv(d), AcquireNationLease(d)
    PROVE  DaemonInv(d)'
<1> DEFINE g == run[d].general
           p == run[d].due[g]
<1>1. p \in Posts /\ p \in Queues /\ g \in Queues /\ run[d].pc = "claim"
  BY DEF AcquireNationLease, Position, Queues
<1>2. /\ run'[d].pc = "refresh"
      /\ run'[d].ran = run[d].ran /\ run'[d].due = run[d].due /\ run'[d].general = g
  BY DEF AcquireNationLease, TypeOK, Runs
<1>3. saved' = saved
  BY DEF AcquireNationLease
<1>4. copy'[d][p].leased /\ (copy[d][g].leased => copy'[d][g].leased)
  BY <1>1 DEF AcquireNationLease, TypeOK, Copies
<1>5. p \in SafeQueues => ~copy[d][p].dirty /\ copy[d][p].used = {}
  BY <1>1, NotYetConsumed
<1>6. ConsumedInv(d)'
  <2>1. row' = [row EXCEPT ![p] = Leased(d, @)] /\ copy' = [copy EXCEPT ![d][p].leased = TRUE]
    BY DEF AcquireNationLease
  <2> QED
    BY <1>1, <1>2, <1>5, <2>1, LeaseTaken DEF DaemonInv
<1>7. QuietInv(d)'
  BY <1>2, <1>3 DEF DaemonInv, QuietInv, Clean
<1>8. PreparedInv(d)'
  BY <1>1, <1>2, <1>4 DEF DaemonInv, PreparedInv
<1>9. PrefetchInv(d)'
  <2>1. \A q \in SafeQueues : copy'[d][q].dirty = copy[d][q].dirty
    BY <1>1 DEF AcquireNationLease, TypeOK, Copies, SafeQueues, Edited
  <2> QED
    BY <1>1, <1>2, <2>1 DEF AcquireNationLease, DaemonInv, PrefetchInv
<1> QED
  BY <1>6, <1>7, <1>8, <1>9 DEF DaemonInv

\* The queues of the general are read again, as the version that is stored.
LEMMA RefreshStep ==
    ASSUME TypeOK, Position, NEW d \in Daemons, DaemonInv(d), Refresh(d)
    PROVE  DaemonInv(d)'
<1> DEFINE g == run[d].general
           p == run[d].due[g]
<1>1. /\ run[d].pc = "refresh" /\ row' = row /\ saved' = saved
      /\ run'[d].pc = "execute" /\ run'[d].ran = run[d].ran /\ run'[d].due = run[d].due
      /\ run'[d].general = g
  BY DEF Refresh, TypeOK, Runs
<1>2. g \in Generals /\ p \in Posts \cup {NoPost}
  BY <1>1 DEF Position, TypeOK, Runs, Offices
<1>3. ASSUME NEW q \in Queues
      PROVE  /\ copy'[d][q].leased = copy[d][q].leased
             /\ copy'[d][q].dirty = copy[d][q].dirty
             /\ copy'[d][q].used = copy[d][q].used
             /\ q \notin {g, p} => copy'[d][q] = copy[d][q]
             /\ q \in {g, p} \cap SafeQueues => copy'[d][q].base = row[q].revision
  <2>1. copy'[d][q] = IF q \in {g, p} /\ Rereads(d, q)
                      THEN [copy[d][q] EXCEPT !.base = row[q].revision]
                      ELSE copy[d][q]
    BY <1>3 DEF Refresh, TypeOK
  <2>2. q \in {g, p} \cap SafeQueues => Rereads(d, q)
    BY <1>1, NotYetConsumed DEF Rereads
  <2>3. copy[d][q] \in Copies
    BY <1>3 DEF TypeOK
  <2> QED
    BY <2>1, <2>2, <2>3 DEF Copies
<1>4. QuietInv(d)'
  BY <1>1 DEF DaemonInv, QuietInv, Clean
<1>5. PreparedInv(d)'
  BY <1>1, <1>3 DEF DaemonInv, PreparedInv, Current
<1>6. ConsumedInv(d)'
  <2> SUFFICES ASSUME NEW q \in SafeQueues
               PROVE  IF copy'[d][q].dirty
                      THEN copy'[d][q].leased /\ Consumed(d, q)' /\ Current(d, q)' /\ copy'[d][q].used = {copy'[d][q].base}
                      ELSE copy'[d][q].used = {}
    BY DEF ConsumedInv
  <2>1. q \in Queues
    BY DEF SafeQueues, Edited
  <2>2. CASE q \in {g, p}
    BY <1>1, <1>3, <2>1, <2>2, NotYetConsumed
  <2>3. CASE q \notin {g, p}
    BY <1>1, <1>3, <2>1, <2>3 DEF DaemonInv, ConsumedInv, Consumed, Current
  <2> QED
    BY <2>2, <2>3
<1>7. PrefetchInv(d)'
  <2>1. \A q \in SafeQueues : q \in Queues
    BY DEF SafeQueues, Edited
  <2> QED
    BY <1>1, <1>3, <2>1 DEF Refresh, DaemonInv, PrefetchInv
<1> QED
  BY <1>4, <1>5, <1>6, <1>7 DEF DaemonInv

\* The general consumes the head of his queue and of the office he was listed with,
\* unless he has lost it; plans concern only queues that no player edits.
LEMMA ExecuteStep ==
    ASSUME TypeOK, Position, NEW d \in Daemons, DaemonInv(d), Execute(d)
    PROVE  DaemonInv(d)'
<1> DEFINE g == run[d].general
<1>1. PICK p \in PresentOffices(d), Planned \in SUBSET Npcs :
          copy' = [copy EXCEPT ![d] = [q \in Queues |->
                      IF q \in {g, p} THEN Executed(copy[d][q])
                      ELSE IF q \in Planned THEN [copy[d][q] EXCEPT !.dirty = TRUE]
                      ELSE copy[d][q]]]
  BY DEF Execute
<1>2. p \in {run[d].due[g], NoPost} \/ (Promotions /\ p \in Posts)
  BY <1>1 DEF PresentOffices
<1>3. /\ run[d].pc = "execute" /\ row' = row /\ saved' = saved
      /\ run'[d].pc = "run" /\ run'[d].ran = run[d].ran \cup {g} /\ run'[d].due = run[d].due
  BY DEF Execute, TypeOK, Runs, Prepared
<1>4. QuietInv(d)' /\ PreparedInv(d)'
  BY <1>3 DEF DaemonInv, QuietInv, PreparedInv, Clean
<1>5. ConsumedInv(d)'
  <2> SUFFICES ASSUME NEW q \in SafeQueues
               PROVE  IF copy'[d][q].dirty
                      THEN copy'[d][q].leased /\ Consumed(d, q)' /\ Current(d, q)' /\ copy'[d][q].used = {copy'[d][q].base}
                      ELSE copy'[d][q].used = {}
    BY DEF ConsumedInv
  <2>1. q \in Queues /\ q \notin Npcs /\ copy[d][q] \in Copies
    BY DEF SafeQueues, Edited, TypeOK
  <2>2. CASE q \in {g, p}
    <3>1. q \in {g, run[d].due[g]}
      BY <1>2, <2>1, <2>2, QueuesAssumption DEF SafeQueues, Edited, Queues
    <3>2. copy[d][q].leased /\ Current(d, q) /\ copy[d][q].used = {}
      BY <1>3, <2>1, <3>1, NotYetConsumed DEF DaemonInv, PreparedInv
    <3>3. copy'[d][q] = Executed(copy[d][q])
      BY <1>1, <2>1, <2>2 DEF TypeOK
    <3>4. /\ Executed(copy[d][q]).dirty /\ Executed(copy[d][q]).leased = copy[d][q].leased
          /\ Executed(copy[d][q]).base = copy[d][q].base
          /\ Executed(copy[d][q]).used = copy[d][q].used \cup {copy[d][q].base}
      BY <2>1 DEF Executed, Copies
    <3>5. Consumed(d, q)'
      BY <1>3, <3>1 DEF Consumed
    <3>6. Current(d, q)'
      BY <1>3, <3>2, <3>3, <3>4 DEF Current
    <3> QED
      BY <3>2, <3>3, <3>4, <3>5, <3>6
  <2>3. CASE q \notin {g, p}
    <3>1. copy'[d][q] = copy[d][q]
      BY <1>1, <2>1, <2>3 DEF TypeOK
    <3>2. Consumed(d, q) => Consumed(d, q)'
      BY <1>3 DEF Consumed
    <3> QED
      BY <1>3, <3>1, <3>2 DEF DaemonInv, ConsumedInv, Current
  <2> QED
    BY <2>2, <2>3
<1>6. PrefetchInv(d)'
  BY DEF Execute, Answered, DaemonInv, PrefetchInv
<1> QED
  BY <1>4, <1>5, <1>6 DEF DaemonInv

\* The queue invariant holds before any daemon has started.
LEMMA QueueInit == Init => QueueInv
<1> SUFFICES ASSUME Init, NEW d \in Daemons PROVE DaemonInv(d)
  BY DEF QueueInv
<1>1. \A q \in Queues : Clean(Unread[q])
  BY DEF Unread, Clean
<1>2. copy[d] = Unread /\ saved[d] = Unread /\ run[d].pc = "new"
  BY DEF Init, Idle
<1>3. QuietInv(d) /\ PreparedInv(d)
  BY <1>1, <1>2 DEF QuietInv, PreparedInv
<1>4. ConsumedInv(d)
  BY <1>1, <1>2 DEF ConsumedInv, Clean, SafeQueues, Edited
<1>5. PrefetchInv(d)
  BY DEF Init, PrefetchInv, NoPrefetch
<1> QED
  BY <1>3, <1>4, <1>5 DEF DaemonInv

\* Every step, of a player, of this daemon or of another one, keeps the queue invariant.
LEMMA QueueStep ==
    TypeOK /\ Position /\ QueueInv /\ [Next]_vars => QueueInv'
<1> SUFFICES ASSUME TypeOK, Position, QueueInv, [Next]_vars, NEW e \in Daemons
             PROVE  DaemonInv(e)'
  BY DEF QueueInv
<1>0. DaemonInv(e)
  BY DEF QueueInv
<1>1. ASSUME PlayerStep \/ \E q \in Queues : LeaseExpires(q) PROVE DaemonInv(e)'
  <2>1. copy' = copy /\ saved' = saved /\ run' = run /\ prefetch' = prefetch
    BY <1>1 DEF PlayerStep, Edit, EditAtCurrentPosition, LeaseExpires
  <2>2. \A q \in Queues : row'[q].owner = e => row[q].owner = e /\ row'[q].revision = row[q].revision
    BY <1>1, PlayersKeepLeases
  <2> QED
    BY <1>0, <2>1, <2>2, Untouched
<1>2. ASSUME NEW d \in Daemons, DaemonStep(d), e # d PROVE DaemonInv(e)'
  <2>1. /\ copy'[e] = copy[e] /\ saved'[e] = saved[e] /\ run'[e] = run[e] /\ prefetch'[e] = prefetch[e]
        /\ \A q \in Queues : row'[q].owner = e => row[q].owner = e /\ row'[q].revision = row[q].revision
    BY <1>2, OthersKept
  <2> QED
    BY <1>0, <2>1, Untouched
<1>3. ASSUME DaemonStep(e) PROVE DaemonInv(e)'
  BY <1>0, <1>3, EndedStep, BeginRunStep, PrepareStep, GeneralLeaseStep, ReadLeaseStep, NationLeaseStep,
     RefreshStep, ExecuteStep, PrefetchReadStep, PrefetchArrivesStep DEF DaemonStep
<1>4. CASE UNCHANGED vars
  BY <1>0, <1>4, Untouched DEF vars
<1> QED
  BY <1>1, <1>2, <1>3, <1>4 DEF Next

\* A run's flush of a safe queue writes what was read from the version
\* it replaces.
LEMMA FlushReplacesItsSource ==
    ASSUME TypeOK, QueueInv, [Next]_vars, NEW d \in Daemons, NEW q \in SafeQueues,
           run[d].pc = "run", run'[d].pc = "idle", row'[q].revision # row[q].revision
    PROVE  copy[d][q].base = row[q].revision /\ copy[d][q].used = {row[q].revision}
<1>1. q \in Queues /\ row[q] \in Rows
  BY DEF SafeQueues, Edited, TypeOK
<1>2. Flush(d)
  <2>1. ~UNCHANGED vars /\ run' # run
    BY DEF vars
  <2>2. PICK e \in Daemons : DaemonStep(e)
    BY <2>1 DEF Next, PlayerStep, Edit, EditAtCurrentPosition, LeaseExpires
  <2>3. e = d
    BY <2>2 DEF TypeOK, DaemonStep, PrefetchReads, PrefetchArrives, Start, Crash, BeginRun, Prepare, AcquireGeneralLease, ReadNationLease,
       AcquireNationLease, Refresh, PrepareFails, Execute, Abort, Flush
  <2>4. row' # row
    BY <1>1
  <2> QED
    BY <2>2, <2>3, <2>4 DEF DaemonStep, PrefetchReads, PrefetchArrives, Start, Crash, BeginRun, Prepare, AcquireGeneralLease, ReadNationLease,
       AcquireNationLease, Refresh, PrepareFails, Execute, Abort
<1>3. row'[q] = FlushedRow(d, q)
  BY <1>1, <1>2 DEF Flush
<1>4. copy[d][q].dirty
  BY <1>1, <1>3, RowFields DEF FlushedRow
<1>5. Flushable(d, q)
  BY <1>1, <1>2, <1>4 DEF Flush
<1>6. copy[d][q].leased /\ Current(d, q) /\ copy[d][q].used = {copy[d][q].base}
  BY <1>4 DEF QueueInv, DaemonInv, ConsumedInv
<1> QED
  BY <1>5, <1>6 DEF Flushable, Current

\* The inductive invariant.
LeaseInv == TypeOK /\ Position /\ QueueInv

\* Whatever is promoted and whomever the AI commands, no flush overwrites a player's
\* own queue that he commands himself, or an office's queue nobody still due is promoted
\* into, with what was read from an older revision of it, or commits a command taken
\* from one: through all leases, expiries, edits, prefetches, rollbacks, lost
\* acknowledgements, crashes and takeovers.
THEOREM SafeQueuesKept == Spec => SafeNeverOverwritten
<1>1. Init => LeaseInv
  BY TypeInit, QueueInit DEF LeaseInv
<1>2. LeaseInv /\ [Next]_vars => LeaseInv'
  BY TypeStep, PositionStep, QueueStep DEF LeaseInv
<1>3. LeaseInv /\ [Next]_vars => [\A d \in Daemons, q \in SafeQueues : ReplacesItsSource(d, q)]_vars
  BY FlushReplacesItsSource DEF ReplacesItsSource, LeaseInv
<1> QED
  BY <1>1, <1>2, <1>3, PTL DEF Spec, SafeNeverOverwritten

\* Unless a turn gives an office to a general who is still due in the same run, or the
\* AI commands a general for whom a player also reserves turns, this holds of every
\* queue that players edit.
THEOREM OldRevisionsLose ==
    ~Promotions /\ Autorun \subseteq Npcs /\ Spec => OldNeverOverwritesNew
<1> DEFINE Kept == ~Promotions /\ Autorun \subseteq Npcs /\ LeaseInv
<1>1. ~Promotions /\ Autorun \subseteq Npcs => SafeQueues = Edited
  BY DEF SafeQueues, Edited
<1>2. ~Promotions /\ Autorun \subseteq Npcs /\ Init => Kept
  BY TypeInit, QueueInit DEF LeaseInv
<1>3. Kept /\ [Next]_vars => Kept'
  BY TypeStep, PositionStep, QueueStep DEF LeaseInv
<1>4. Kept /\ [Next]_vars => [\A d \in Daemons, q \in Edited : ReplacesItsSource(d, q)]_vars
  BY <1>1, FlushReplacesItsSource DEF ReplacesItsSource, LeaseInv
<1> QED
  BY <1>2, <1>3, <1>4, PTL DEF Spec, OldNeverOverwritesNew
=============================================================================
