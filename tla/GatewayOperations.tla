------------------------- MODULE GatewayOperations -------------------------
(***************************************************************************)
(* The gateway's control plane: the queue of profile operations, executed   *)
(* by the orchestrators, and the queue of gateway releases, executed by the *)
(* release controllers.  Both claim under one advisory lock, hold a lease   *)
(* that a heartbeat renews, and change processes, schemas and seasons that  *)
(* no database transaction covers.                                          *)
(*                                                                          *)
(* Both tables are one here: a row whose target is Gateway is a release.    *)
(* Ids are in the order of created_at, and the rows of a bulk release       *)
(* follow one another in bulk_order.  Time is what it decides: a lease has  *)
(* expired or not, a schedule is in the future or due.                      *)
(***************************************************************************)
EXTENDS Integers, FiniteSets

CONSTANTS
    Profiles,       \* game servers
    Gateway,        \* the gateway itself
    Orchestrators,  \* gateway-orchestrator processes; each has a fresh lease owner
    Controllers,    \* release-controller processes, likewise
    Roles,          \* how many PM2 processes a target has
    Commits,        \* commits of the repository
    First,          \* the commit that everything runs at the start
    Branch,         \* a source that names a branch instead of a commit
    None,
    Requests,       \* what is requested: types of operation, and "BULK" for bulk releases
    LogOutages,     \* whether appends to a log may fail
    MaxOps,         \* bound on the rows of both tables
    MaxFaults       \* bound on early expiries, crashes, log outages, busy builds and repeated bulk rows

ASSUME TargetsAssumption == Gateway \notin Profiles
ASSUME WorkersAssumption ==
    /\ Orchestrators \cap Controllers = {}
    /\ None \notin Orchestrators \cup Controllers \cup Commits
ASSUME CommitsAssumption == First \in Commits /\ Branch \notin Commits
ASSUME OutagesAssumption == LogOutages \in BOOLEAN
ASSUME BoundsAssumption == Roles \in Nat /\ MaxOps \in Nat /\ MaxFaults \in Nat

VARIABLES
    op,       \* gateway_operation and gateway_release_operation
    wk,       \* what each worker is doing
    site,     \* gateway_profile and gateway_release_state: what is published
    procs,    \* the commit each process of a target runs
    world,    \* the season in a profile's game database
    strayed,  \* targets that a worker without the lease has touched
    faults    \* faults so far

vars == <<op, wk, site, procs, world, strayed, faults>>

-----------------------------------------------------------------------------
(* Rows, workers and their types. *)

Ids == 1..MaxOps
Targets == Profiles \cup {Gateway}
Workers == Orchestrators \cup Controllers
Names == 1..Roles

Types == {"START", "STOP", "DEPLOY", "RESET", "CANCEL_GAME", "RELEASE"}
Active == {"QUEUED", "RUNNING"}
Ended == {"SUCCEEDED", "FAILED", "CANCELLED"}

\* `at' is scheduled_at, `phase' the class of the latest log, `key' the install
\* operation id, `batch' the first row of the bulk release (0: none), `attempts'
\* counts to 2, `log' says whether every line was kept, appends fail at the moment
\* or have failed, and `touched' remembers whether an attempt has changed anything
\* but rows of the control plane.
Rows == [target : Targets, type : Types, status : {"ABSENT"} \cup Active \cup Ended,
         at : {"now", "future", "due"}, source : Commits \cup {Branch}, sha : Commits \cup {None},
         owner : Workers \cup {None}, expired : BOOLEAN,
         phase : {"queue", "early", "late", "cancel"}, log : {"kept", "failing", "gaps"},
         key : Ids, batch : 0..MaxOps, attempts : 0..2, touched : BOOLEAN]

\* The steps of the handlers.  A fenced step writes only under the lease; an effect
\* changes what no transaction covers; a loop is an effect on one process at a time.
Early == {"begin", "pin", "mark", "build"}
Fenced == {"mark", "open", "close", "finish", "publish", "reopen", "patch", "done", "fail"}
Stops == {"stop", "clear", "undoStop", "undoClear"}
Starts == {"start", "undoStart"}
Effects == Stops \cup Starts \cup {"clock", "migrate", "seed", "settle"}
Steps == Early \cup Fenced \cup Effects \cup {"ready"}

\* `old' and `status' are the target as the handler read it, `armed' says that the lease was
\* asserted since the last effect, `todo' is what a loop has left, `stray' the effects without lease.
Works == [pc : Steps \cup {"idle"}, op : 0..MaxOps, commit : Commits, old : Commits,
          status : {"RUNNING", "STOPPED", "RESERVED", "CANCELLED"},
          armed : BOOLEAN, todo : SUBSET Names, stray : Nat]

\* Types; and each kind of worker only ever works on rows of its own table.
TypeOK ==
    /\ op \in [Ids -> Rows]
    /\ wk \in [Workers -> Works]
    /\ site \in [Targets -> [status : {"RUNNING", "STOPPED", "RESERVED", "CANCELLED"},
                             commit : Commits, previous : Commits \cup {None}]]
    /\ procs \in [Targets -> [Names -> Commits \cup {None}]]
    /\ world \in [Profiles -> [key : 0..MaxOps, commit : Commits, played : BOOLEAN]]
    /\ strayed \in SUBSET Targets
    /\ faults \in 0..MaxFaults
    /\ \A o \in Ids : op[o].target = Gateway <=> op[o].type = "RELEASE"
    /\ \A w \in Workers : wk[w].pc # "idle" =>
         wk[w].op \in Ids /\ (w \in Controllers <=> op[wk[w].op].type = "RELEASE")

Absent == [target |-> Gateway, type |-> "RELEASE", status |-> "ABSENT", at |-> "now",
           source |-> Branch, sha |-> None, owner |-> None, expired |-> FALSE, phase |-> "queue",
           log |-> "kept", key |-> 1, batch |-> 0, attempts |-> 0, touched |-> FALSE]

Idle == [pc |-> "idle", op |-> 0, commit |-> First, old |-> First, status |-> "STOPPED",
         armed |-> FALSE, todo |-> {}, stray |-> 0]

Init ==
    /\ op = [o \in Ids |-> Absent]
    /\ wk = [w \in Workers |-> Idle]
    /\ site = [t \in Targets |-> [status |-> "RUNNING", commit |-> First, previous |-> None]]
    /\ procs = [t \in Targets |-> [r \in Names |-> First]]
    /\ world = [p \in Profiles |-> [key |-> 0, commit |-> First, played |-> TRUE]]
    /\ strayed = {}
    /\ faults = 0

-----------------------------------------------------------------------------
(* Requests. *)

Job(w) == op[wk[w].op]
Live(t) == {o \in Ids : op[o].target = t /\ op[o].status \in Active}
Unused(o) == op[o].status = "ABSENT" /\ \A p \in Ids : p < o => op[p].status # "ABSENT"

\* Nothing active, or an immediate DEPLOY ahead of the one reserved RESET.
CanQueueAlongside(type, at, t) ==
    \/ Live(t) = {}
    \/ /\ type = "DEPLOY" /\ at = "now"
       /\ \E r \in Ids : Live(t) = {r} /\ op[r].type = "RESET"
                                       /\ op[r].status = "QUEUED" /\ op[r].at = "future"

NewRow(o, t, type, at, source) ==
    [Absent EXCEPT !.target = t, !.type = type, !.status = "QUEUED", !.at = at,
                   !.source = source, !.key = o]

\* createOperation: under the lock that the claims take.
Create(o, p, type, at) ==
    /\ Unused(o) /\ type \in Requests
    /\ at = "future" => type = "RESET"
    /\ CanQueueAlongside(type, at, p)
    /\ op' = [op EXCEPT ![o] = NewRow(o, p, type, at,
                                      IF type = "CANCEL_GAME" THEN site[p].commit ELSE Branch)]
    /\ UNCHANGED <<wk, site, procs, world, strayed, faults>>

\* A release of a branch, or a rollback to the previous one; the partial unique index
\* allows one that is queued or running.
CreateRelease(o, source) ==
    /\ Unused(o) /\ "RELEASE" \in Requests
    /\ Live(Gateway) = {}
    /\ source \in {Branch, site[Gateway].previous} \ {None}
    /\ op' = [op EXCEPT ![o] = NewRow(o, Gateway, "RELEASE", "now", source)]
    /\ UNCHANGED <<wk, site, procs, world, strayed, faults>>

\* A bulk release at one commit: the gateway first, then profiles.  It takes no lock; the
\* unique indexes refuse a target with an immediate row still queued, not a running one.
BulkRelease(o, n, target, commit) ==
    /\ Unused(o) /\ "BULK" \in Requests
    /\ n > o /\ n - 1 \in Ids
    /\ \A i, j \in o..(n - 1) : target[i] = target[j] => i = j
    /\ \A i \in o..(n - 1) : target[i] = Gateway => i = o /\ Live(Gateway) = {}
    /\ \A i \in o..(n - 1) : \A q \in Live(target[i]) : ~(op[q].status = "QUEUED" /\ op[q].at = "now")
    /\ op' = [i \in Ids |->
                IF i \in o..(n - 1)
                THEN [NewRow(i, target[i], IF target[i] = Gateway THEN "RELEASE" ELSE "DEPLOY",
                             "now", commit) EXCEPT !.batch = o]
                ELSE op[i]]
    /\ UNCHANGED <<wk, site, procs, world, strayed, faults>>

CancelledRow(row) ==
    [row EXCEPT !.status = "CANCELLED", !.owner = None, !.expired = FALSE, !.phase = "cancel"]

\* Mutant of Cancel: whatever still builds or is past it.
CancelAnyPhase(o) ==
    /\ \/ op[o].status = "QUEUED"
       \/ op[o].status = "RUNNING" /\ op[o].type \in {"DEPLOY", "RELEASE"}
    /\ op' = [op EXCEPT ![o] = CancelledRow(@)]
    /\ UNCHANGED <<wk, site, procs, world, strayed, faults>>

\* cancelOperation: anything queued; of what runs, only a DEPLOY or a release whose latest
\* log is still about the build.
Cancel(o) ==
    /\ \/ op[o].status = "QUEUED"
       \/ /\ op[o].status = "RUNNING" /\ op[o].type \in {"DEPLOY", "RELEASE"}
          /\ op[o].phase = "early"
    /\ op' = [op EXCEPT ![o] = CancelledRow(@)]
    /\ UNCHANGED <<wk, site, procs, world, strayed, faults>>

\* retryOperation of a row outside a bulk release: a new row at the commit that was pinned,
\* which keeps the install operation id of the first.
Retry(o, n) ==
    /\ op[o].status \in {"FAILED", "CANCELLED"} /\ op[o].batch = 0
    /\ Unused(n)
    /\ CanQueueAlongside(op[o].type, "now", op[o].target)
    /\ op' = [op EXCEPT ![n] =
                [NewRow(n, op[o].target, op[o].type, "now",
                        IF op[o].sha # None THEN op[o].sha ELSE op[o].source)
                 EXCEPT !.key = op[o].key]]
    /\ UNCHANGED <<wk, site, procs, world, strayed, faults>>

\* retryOperation of a bulk row: the row itself is queued again.
RetryBulk(o) ==
    /\ op[o].status \in {"FAILED", "CANCELLED"} /\ op[o].batch # 0
    /\ CanQueueAlongside(op[o].type, "now", op[o].target)
    /\ faults < MaxFaults
    /\ op' = [op EXCEPT ![o].status = "QUEUED", ![o].sha = None, ![o].phase = "queue"]
    /\ faults' = faults + 1
    /\ UNCHANGED <<wk, site, procs, world, strayed>>

\* The schedule of a reserved RESET, or of a postponed one, comes due.
Due(o) ==
    /\ op[o].at = "future"
    /\ op' = [op EXCEPT ![o].at = "due"]
    /\ UNCHANGED <<wk, site, procs, world, strayed, faults>>

-----------------------------------------------------------------------------
(* Claims and leases. *)

Running == {o \in Ids : op[o].status = "RUNNING"}
Releases == {o \in Ids : op[o].type = "RELEASE"}

\* Mutant of Runnable: the earlier targets need only have ended.
RunnableAfterEnd(o) ==
    /\ op[o].status = "QUEUED" /\ op[o].at # "future"
    /\ op[o].batch # 0 =>
         \A p \in Ids : (op[p].batch = op[o].batch /\ p < o) => op[p].status \in Ended

\* A queued row may run when it is due and every earlier row of its bulk release succeeded.
Runnable(o) ==
    /\ op[o].status = "QUEUED" /\ op[o].at # "future"
    /\ op[o].batch # 0 =>
         \A p \in Ids : (op[p].batch = op[o].batch /\ p < o) => op[p].status = "SUCCEEDED"

\* A DEPLOY that was let in ahead of a reserved RESET and is still queued when that is due.
Overdue(o) ==
    /\ op[o].status = "QUEUED" /\ op[o].type = "DEPLOY"
    /\ \E r \in Ids : /\ op[r].target = op[o].target /\ op[r].type = "RESET"
                      /\ op[r].status = "QUEUED" /\ op[r].at = "due"

ClaimedRow(row, w) ==
    [row EXCEPT !.status = "RUNNING", !.owner = w, !.expired = FALSE,
                !.attempts = IF @ = 0 THEN 1 ELSE 2]

\* Mutant of Claim: only one's own table is asked what runs.
ClaimOwnTable(w, c, mine, dropped) ==
    LET taken == {o \in Running \cap mine : op[o].expired}
        queued == {o \in mine : Runnable(o)} \ dropped
        from == IF Running \cap mine # {} THEN taken ELSE queued
    IN  /\ wk[w].pc = "idle"
        /\ Running \cap mine \subseteq taken
        /\ c \in from /\ \A o \in from : c <= o
        /\ op' = [o \in Ids |-> IF o = c THEN ClaimedRow(op[o], w)
                                ELSE IF o \in dropped THEN CancelledRow(op[o]) ELSE op[o]]
        /\ wk' = [wk EXCEPT ![w] = [Idle EXCEPT !.pc = "begin", !.op = c, !.armed = TRUE]]
        /\ UNCHANGED <<site, procs, world, strayed, faults>>

\* Mutant of Claim: a running row is never taken over.
ClaimQueued(w, c, mine, dropped) ==
    LET queued == {o \in mine : Runnable(o)} \ dropped
    IN  /\ wk[w].pc = "idle"
        /\ Running = {}
        /\ c \in queued /\ \A o \in queued : c <= o
        /\ op' = [o \in Ids |-> IF o = c THEN ClaimedRow(op[o], w)
                                ELSE IF o \in dropped THEN CancelledRow(op[o]) ELSE op[o]]
        /\ wk' = [wk EXCEPT ![w] = [Idle EXCEPT !.pc = "begin", !.op = c, !.armed = TRUE]]
        /\ UNCHANGED <<site, procs, world, strayed, faults>>

\* A running row is taken over when its lease has expired; otherwise the oldest runnable one
\* is taken, of one's own table and only while nothing runs in the other.
Claim(w, c, mine, dropped) ==
    LET taken == {o \in Running \cap mine : op[o].expired}
        queued == {o \in mine : Runnable(o)} \ dropped
        from == IF Running # {} THEN taken ELSE queued
    IN  /\ wk[w].pc = "idle"
        /\ Running \subseteq taken
        /\ c \in from /\ \A o \in from : c <= o
        /\ op' = [o \in Ids |-> IF o = c THEN ClaimedRow(op[o], w)
                                ELSE IF o \in dropped THEN CancelledRow(op[o]) ELSE op[o]]
        /\ wk' = [wk EXCEPT ![w] = [Idle EXCEPT !.pc = "begin", !.op = c, !.armed = TRUE]]
        /\ UNCHANGED <<site, procs, world, strayed, faults>>

\* The orchestrators' claim also cancels the updates that a due RESET has overtaken.
ClaimProfile(w, c) ==
    /\ w \in Orchestrators
    /\ Claim(w, c, Ids \ Releases, {o \in Ids : Overdue(o)})

\* Mutant of ClaimRelease: the two queues are not told apart.
ClaimAnyRelease(w, c) ==
    /\ w \in Controllers
    /\ Claim(w, c, Ids, {})

ClaimRelease(w, c) ==
    /\ w \in Controllers
    /\ Claim(w, c, Releases, {})

Holds(w) == wk[w].pc # "idle" /\ Job(w).status = "RUNNING" /\ Job(w).owner = w

\* The heartbeat: it also revives a lease that has expired and that nobody claimed yet.
Heartbeat(w) ==
    /\ Holds(w) /\ Job(w).expired
    /\ op' = [op EXCEPT ![wk[w].op].expired = FALSE]
    /\ UNCHANGED <<wk, site, procs, world, strayed, faults>>

Abandoned(o) ==
    op[o].status = "RUNNING" /\ ~\E w \in Workers : Holds(w) /\ wk[w].op = o

\* Ten minutes without a renewal: certain once the owner is gone, a fault while it lives.
Expire(o) ==
    /\ op[o].status = "RUNNING" /\ ~op[o].expired
    /\ Abandoned(o) \/ faults < MaxFaults
    /\ faults' = IF Abandoned(o) THEN faults ELSE faults + 1
    /\ op' = [op EXCEPT ![o].expired = TRUE]
    /\ UNCHANGED <<wk, site, procs, world, strayed>>

\* appendOperationLog and appendLog swallow what the database refuses.  Only a cancellation
\* reads the log, that of a running update or release, and a lost line makes a difference to
\* it only while the latest is one that lets it pass.
LogFails(o) ==
    /\ op[o].status = "RUNNING" /\ op[o].type \in {"DEPLOY", "RELEASE"}
    /\ op[o].phase = "early" /\ op[o].log # "failing"
    /\ LogOutages /\ faults < MaxFaults
    /\ op' = [op EXCEPT ![o].log = "failing"]
    /\ faults' = faults + 1
    /\ UNCHANGED <<wk, site, procs, world, strayed>>

LogWorks(o) ==
    /\ op[o].status = "RUNNING" /\ op[o].log = "failing"
    /\ op' = [op EXCEPT ![o].log = "gaps"]
    /\ UNCHANGED <<wk, site, procs, world, strayed, faults>>

\* The process dies and is started again, with a new owner id and no memory.
Crash(w) ==
    /\ wk[w].pc # "idle"
    /\ faults < MaxFaults
    /\ wk' = [wk EXCEPT ![w] = Idle]
    /\ faults' = faults + 1
    /\ UNCHANGED <<op, site, procs, world, strayed>>

-----------------------------------------------------------------------------
(* The handlers, one step at a time. *)

\* The steps of each operation when all goes well.
Path ==
    [START |-> [begin |-> "clock", clock |-> "open", open |-> "clear", clear |-> "start",
                start |-> "done", undoStop |-> "patch", patch |-> "fail"],
     STOP |-> [begin |-> "clock", clock |-> "close", close |-> "stop", stop |-> "done"],
     DEPLOY |-> [begin |-> "pin", pin |-> "mark", mark |-> "build", build |-> "stop",
                 stop |-> "migrate", migrate |-> "clear", clear |-> "start", start |-> "ready",
                 ready |-> "publish", publish |-> "done", undoStop |-> "undoClear",
                 undoClear |-> "undoStart", undoStart |-> "patch", patch |-> "fail"],
     RESET |-> [begin |-> "pin", pin |-> "mark", mark |-> "build", build |-> "migrate",
                migrate |-> "close", close |-> "stop", stop |-> "seed", seed |-> "publish",
                publish |-> "clear", clear |-> "start", start |-> "ready", ready |-> "done",
                undoStop |-> "patch", patch |-> "fail"],
     CANCEL_GAME |-> [begin |-> "pin", pin |-> "build", build |-> "migrate", migrate |-> "close",
                      close |-> "stop", stop |-> "settle", settle |-> "finish",
                      finish |-> "done", reopen |-> "undoClear", undoClear |-> "undoStart",
                      undoStart |-> "fail"],
     RELEASE |-> [begin |-> "pin", pin |-> "build", build |-> "migrate", migrate |-> "stop",
                  stop |-> "start", start |-> "ready", ready |-> "publish", publish |-> "done",
                  undoStop |-> "undoStart", undoStart |-> "fail"]]

Up(w) == wk[w].status = "RUNNING"

\* A server that was not running is neither stopped nor started around its update.
Following(w) ==
    LET type == Job(w).type
        pc == wk[w].pc
    IN  IF ~Up(w) /\ type = "DEPLOY" /\ pc = "migrate" THEN "publish"
        ELSE IF ~Up(w) /\ type = "CANCEL_GAME" /\ pc = "migrate" THEN "settle"
        ELSE Path[type][pc]

\* Where a failure leads: what was stopped is started again as far as the handlers do that.
Recovery(w) ==
    LET type == Job(w).type
        pc == wk[w].pc
    IN  CASE type = "DEPLOY" /\ Up(w) /\ pc \in {"migrate", "clear", "start", "publish", "undoStop"}
               -> "undoClear"
          [] type \in {"DEPLOY", "RESET"} /\ pc = "ready" -> "undoStop"
          [] type = "DEPLOY" /\ pc \in {"undoClear", "undoStart"} -> "patch"
          [] type = "RELEASE" /\ pc \in {"start", "ready"} -> "undoStop"
          [] type \in {"START", "RESET"} /\ pc = "start" -> "undoStop"
          [] type \in {"START", "RESET"} /\ pc = "clear" -> "patch"
          [] type = "START" /\ pc = "undoStop" -> "patch"
          [] type = "CANCEL_GAME" /\ Up(w) /\ pc = "settle" -> "reopen"
          [] OTHER -> "fail"

\* The log of the new step lands in the row whoever holds the lease, unless an assertion
\* stands before it; an append that fails is forgotten and the handler goes on.
Logged(w, next) ==
    LET heard == /\ Holds(w) \/ w \in Controllers \/ wk[w].pc \in Early
                 /\ Job(w).log # "failing"
    IN  IF heard THEN IF next \in Early THEN "early" ELSE "late" ELSE Job(w).phase

\* A loop works on the processes that exist when it begins.
Work(w, next) ==
    IF next \in Starts THEN Names
    ELSE IF next \in Stops THEN {r \in Names : procs[Job(w).target][r] # None} ELSE {}

At(w, pc) == wk[w].pc = pc
Moved(w, next) ==
    [wk[w] EXCEPT !.pc = next, !.armed = FALSE, !.todo = Work(w, next)]

\* One step on, with the row's log.
Advance(w, next) ==
    /\ wk' = [wk EXCEPT ![w] = Moved(w, next)]
    /\ op' = [op EXCEPT ![wk[w].op].phase = Logged(w, next)]

\* handleOperation and runOnce begin by reading the target; START and STOP go on under the
\* claim itself.
Begin(w) ==
    LET t == Job(w).target
        refused == \/ Job(w).type = "START" /\ site[t].status # "STOPPED"
                   \/ Job(w).type \in {"STOP", "CANCEL_GAME"} /\ site[t].status \notin {"RUNNING", "STOPPED"}
        next == IF refused THEN "fail" ELSE Path[Job(w).type]["begin"]
    IN  /\ At(w, "begin")
        /\ wk' = [wk EXCEPT ![w] = [Moved(w, next) EXCEPT !.old = site[t].commit,
                                      !.status = site[t].status, !.armed = (next = "clock")]]
        /\ op' = [op EXCEPT ![wk[w].op].phase = Logged(w, next)]
        /\ UNCHANGED <<site, procs, world, strayed, faults>>

\* Mutant of Pin: every attempt resolves the branch, and a pin that is there is left alone.
PinUnchecked(w, commit) ==
    /\ At(w, "pin") /\ Holds(w)
    /\ commit \in IF Job(w).source = Branch THEN Commits ELSE {Job(w).source}
    /\ wk' = [wk EXCEPT ![w] = [Moved(w, Following(w)) EXCEPT !.commit = commit]]
    /\ op' = [op EXCEPT ![wk[w].op].phase = Logged(w, Following(w)),
                        ![wk[w].op].sha = IF @ = None THEN commit ELSE @]
    /\ UNCHANGED <<site, procs, world, strayed, faults>>

\* An orchestrator keeps the commit of an earlier attempt; a controller resolves the source
\* again, and fails when the branch has moved.
Pin(w, commit) ==
    LET kept == IF w \in Orchestrators THEN Job(w).sha ELSE None
        agrees == Job(w).sha \in {None, commit}
    IN  /\ At(w, "pin") /\ Holds(w)
        /\ commit \in IF kept # None THEN {kept}
                      ELSE IF Job(w).source = Branch THEN Commits ELSE {Job(w).source}
        /\ IF agrees
           THEN /\ wk' = [wk EXCEPT ![w] = [Moved(w, Following(w)) EXCEPT !.commit = commit]]
                /\ op' = [op EXCEPT ![wk[w].op].phase = Logged(w, Following(w)),
                                    ![wk[w].op].sha = commit]
           ELSE Advance(w, "fail")
        /\ UNCHANGED <<site, procs, world, strayed, faults>>

\* The build itself writes nowhere but in its workspace; its output goes to the log.
Build(w) ==
    /\ At(w, "build")
    /\ Advance(w, Following(w))
    /\ UNCHANGED <<site, procs, world, strayed, faults>>

BuildOutput(w) ==
    /\ At(w, "build") /\ Job(w).phase # "early" /\ Job(w).log # "failing"
    /\ op' = [op EXCEPT ![wk[w].op].phase = "early"]
    /\ UNCHANGED <<wk, site, procs, world, strayed, faults>>

\* Mutant of Asserts: an orchestrator asserts where a controller does.
AssertsBeforeSwitch(w) == wk[w].pc \in {"migrate", "stop"}

\* assertOperationLease stands around every effect of an orchestrator; a controller asserts
\* only before its migration and before it stops the old processes.
Asserts(w) ==
    IF w \in Orchestrators THEN wk[w].pc \in Effects ELSE wk[w].pc \in {"migrate", "stop"}
Covered(w) == Asserts(w) => wk[w].armed

AssertLease(w) ==
    /\ Asserts(w) /\ ~wk[w].armed /\ Holds(w)
    /\ wk' = [wk EXCEPT ![w].armed = TRUE]
    /\ op' = [op EXCEPT ![wk[w].op].expired = FALSE]
    /\ UNCHANGED <<site, procs, world, strayed, faults>>

\* A worker that finds its lease gone leaves everything as it is.  A controller may add its
\* error to the log of whoever holds the row now.
Drop(w) ==
    /\ wk[w].pc \notin {"idle", "begin"} /\ ~Holds(w)
    /\ w \in Orchestrators => ~wk[w].armed
    /\ w \in Controllers => wk[w].pc \notin Starts \cup Stops \cup {"ready"} \/ (At(w, "stop") /\ ~wk[w].armed)
    /\ wk' = [wk EXCEPT ![w] = Idle]
    /\ \/ UNCHANGED op
       \/ /\ w \in Controllers /\ Job(w).status \in {"RUNNING", "CANCELLED"} /\ Job(w).log # "failing"
          /\ op' = [op EXCEPT ![wk[w].op].phase = IF Job(w).status = "RUNNING" THEN "late" ELSE "cancel"]
    /\ UNCHANGED <<site, procs, world, strayed, faults>>

Foremost(S) == {r \in S : \A q \in S : r <= q}

\* What an effect leaves behind, besides its own change.  The next needs a new assertion; a
\* controller's loops go on without one.
Touch(w, next) ==
    LET stays == next = wk[w].pc
    IN  /\ Covered(w)
        /\ wk' = [wk EXCEPT ![w].pc = next,
                            ![w].todo = IF stays THEN @ \ Foremost(@) ELSE Work(w, next),
                            ![w].armed = stays /\ w \in Controllers /\ @,
                            ![w].stray = IF Holds(w) THEN @ ELSE @ + 1]
        /\ op' = [op EXCEPT ![wk[w].op].touched = TRUE,
                            ![wk[w].op].phase = IF stays THEN @ ELSE Logged(w, next)]
        /\ strayed' = IF Holds(w) THEN strayed ELSE strayed \cup {Job(w).target}
        /\ UNCHANGED <<site, faults>>

\* The game clock is suspended or resumed, the schema migrated, the season settled.  Each is
\* one effect: transitionProfileClock writes the ledger and Redis, and on a resume reconciles
\* and projects, without asserting the lease in between.
ClockOrSchema(w) ==
    /\ wk[w].pc \in {"clock", "migrate", "settle"}
    /\ Touch(w, Following(w))
    /\ UNCHANGED <<procs, world>>

\* Mutant of Seed: the seeder starts from nothing every time.
SeedAgain(w) ==
    /\ At(w, "seed")
    /\ Touch(w, Following(w))
    /\ world' = [world EXCEPT ![Job(w).target] =
                   [key |-> Job(w).key, commit |-> wk[w].commit, played |-> FALSE]]
    /\ UNCHANGED procs

\* The seeder wipes the database unless this installation has already seeded it, and refuses
\* to seed it again from another commit.
Seed(w) ==
    LET season == world[Job(w).target]
        same == season.key = Job(w).key
    IN  /\ At(w, "seed")
        /\ same => season.commit = wk[w].commit
        /\ Touch(w, Following(w))
        /\ world' = IF same THEN world
                    ELSE [world EXCEPT ![Job(w).target] =
                            [key |-> Job(w).key, commit |-> wk[w].commit, played |-> FALSE]]
        /\ UNCHANGED procs

\* stopProfile and the deletions of startProfile, or stopManagedProcesses.
StopProcess(w, r) ==
    /\ wk[w].pc \in Stops
    /\ r \in Foremost(wk[w].todo)
    /\ Touch(w, wk[w].pc)
    /\ procs' = [procs EXCEPT ![Job(w).target][r] = None]
    /\ UNCHANGED world

\* PM2 refuses a name that exists.
StartProcess(w, r) ==
    LET old == At(w, "undoStart") \/ Job(w).type = "START"
    IN  /\ wk[w].pc \in Starts
        /\ r \in Foremost(wk[w].todo)
        /\ procs[Job(w).target][r] = None
        /\ Touch(w, wk[w].pc)
        /\ procs' = [procs EXCEPT ![Job(w).target][r] = IF old THEN wk[w].old ELSE wk[w].commit]
        /\ UNCHANGED world

LoopDone(w) ==
    /\ wk[w].pc \in Stops \cup Starts /\ wk[w].todo = {}
    /\ Advance(w, Following(w))
    /\ UNCHANGED <<site, procs, world, strayed, faults>>

\* Readiness looks at the names of the processes, not at what they run.
Ready(w) ==
    /\ At(w, "ready")
    /\ \A r \in Names : procs[Job(w).target][r] # None
    /\ Advance(w, Following(w))
    /\ UNCHANGED <<site, procs, world, strayed, faults>>

\* updateProfileForOperation and publishRelease: the target's row, under the lease.
Write(w, row, next) ==
    /\ Holds(w)
    /\ site' = [site EXCEPT ![Job(w).target] = row]
    /\ Advance(w, next)
    /\ UNCHANGED <<procs, world, strayed, faults>>

\* A RESET names its commit before it is built, a DEPLOY only that it builds.
Mark(w) ==
    /\ At(w, "mark")
    /\ Write(w, [site[Job(w).target] EXCEPT !.commit = IF Job(w).type = "RESET" THEN wk[w].commit ELSE @],
             Following(w))

SetStatus(w) ==
    LET status == CASE At(w, "open") -> "RUNNING"
                    [] At(w, "close") -> "STOPPED"
                    [] At(w, "finish") -> "CANCELLED"
                    [] At(w, "reopen") -> wk[w].status
                    [] At(w, "patch") -> IF Job(w).type = "DEPLOY" THEN wk[w].status ELSE "STOPPED"
    IN  /\ wk[w].pc \in {"open", "close", "finish", "reopen", "patch"}
        /\ Write(w, [site[Job(w).target] EXCEPT !.status = status], Following(w))

\* A DEPLOY keeps the status, a RESET opens the server or reserves it for later, a release
\* keeps the commit it replaces for a rollback.
Publish(w, status) ==
    LET t == Job(w).target
        published == [site[t] EXCEPT !.commit = wk[w].commit]
    IN  /\ At(w, "publish")
        /\ CASE Job(w).type = "DEPLOY" -> status = site[t].status /\ Write(w, published, Following(w))
             [] Job(w).type = "RESET" ->
                  /\ status \in {"RUNNING", "RESERVED"}
                  /\ Write(w, [published EXCEPT !.status = status],
                           IF status = "RESERVED" THEN "done" ELSE Following(w))
             [] OTHER -> /\ status = site[t].status
                         /\ Write(w, [published EXCEPT !.previous = wk[w].old], Following(w))

\* A build is in progress or the schedule is ahead of this host's clock: the RESET is
\* queued again for later.
Requeue(w) ==
    /\ At(w, "mark") /\ Job(w).type = "RESET" /\ Holds(w)
    /\ faults < MaxFaults
    /\ op' = [op EXCEPT ![wk[w].op] = [@ EXCEPT !.status = "QUEUED", !.at = "future", !.owner = None,
                                                 !.expired = FALSE, !.phase = "late"]]
    /\ wk' = [wk EXCEPT ![w] = Idle]
    /\ faults' = faults + 1
    /\ UNCHANGED <<site, procs, world, strayed>>

\* PM2 refuses a name that exists, readiness times out, the seeder refuses another commit.
MustFail(w) ==
    LET t == Job(w).target
    IN  \/ wk[w].pc \in Starts /\ \E r \in Foremost(wk[w].todo) : procs[t][r] # None
        \/ At(w, "ready") /\ \E r \in Names : procs[t][r] = None
        \/ At(w, "seed") /\ world[t].key = Job(w).key /\ world[t].commit # wk[w].commit

\* Any other failure is a fault, and any step may meet one.  Only a restored server that does
\* not become ready is marked STOPPED.
Fail(w, status) ==
    /\ wk[w].pc \notin {"idle", "begin", "fail"}
    /\ MustFail(w) \/ faults < MaxFaults
    /\ status = wk[w].status \/ (wk[w].pc \in {"undoClear", "undoStart"} /\ status = "STOPPED")
    /\ wk' = [wk EXCEPT ![w] = [Moved(w, Recovery(w)) EXCEPT !.status = status]]
    /\ op' = [op EXCEPT ![wk[w].op].phase = Logged(w, Recovery(w))]
    /\ faults' = IF MustFail(w) THEN faults ELSE faults + 1
    /\ UNCHANGED <<site, procs, world, strayed>>

\* Mutant of Complete: by id, whoever holds the lease.
CompleteAnyway(w) ==
    /\ wk[w].pc \in {"done", "fail"}
    /\ op' = [op EXCEPT ![wk[w].op] =
                [@ EXCEPT !.status = IF At(w, "done") THEN "SUCCEEDED" ELSE "FAILED",
                          !.owner = None, !.expired = FALSE]]
    /\ wk' = [wk EXCEPT ![w] = Idle]
    /\ UNCHANGED <<site, procs, world, strayed, faults>>

\* completeOperation.
Complete(w) ==
    /\ wk[w].pc \in {"done", "fail"} /\ Holds(w)
    /\ op' = [op EXCEPT ![wk[w].op] =
                [@ EXCEPT !.status = IF At(w, "done") THEN "SUCCEEDED" ELSE "FAILED",
                          !.owner = None, !.expired = FALSE]]
    /\ wk' = [wk EXCEPT ![w] = Idle]
    /\ UNCHANGED <<site, procs, world, strayed, faults>>

\* Players act in a season that is open.
Play(p) ==
    /\ ~world[p].played /\ \A r \in Names : procs[p][r] # None
    /\ world' = [world EXCEPT ![p].played = TRUE]
    /\ UNCHANGED <<op, wk, site, procs, strayed, faults>>

-----------------------------------------------------------------------------

Request ==
    \E o \in Ids :
        \/ \E p \in Profiles, type \in Types \ {"RELEASE"}, at \in {"now", "future"} : Create(o, p, type, at)
        \/ \E source \in Commits \cup {Branch} : CreateRelease(o, source)
        \/ \E n \in Ids, commit \in Commits : \E target \in [o..n -> Targets] :
              BulkRelease(o, n + 1, target, commit)
        \/ Cancel(o)
        \/ \E n \in Ids : Retry(o, n)
        \/ RetryBulk(o)

\* What a worker does about the row it claimed.
Step(w) ==
    \/ Begin(w)
    \/ \E commit \in Commits : Pin(w, commit)
    \/ Build(w)
    \/ AssertLease(w)
    \/ ClockOrSchema(w)
    \/ Seed(w)
    \/ \E r \in Names : StopProcess(w, r)
    \/ \E r \in Names : StartProcess(w, r)
    \/ LoopDone(w)
    \/ Ready(w)
    \/ Mark(w)
    \/ SetStatus(w)
    \/ \E status \in {"RUNNING", "STOPPED", "RESERVED", "CANCELLED"} : Publish(w, status)
    \/ \E status \in {"RUNNING", "STOPPED", "RESERVED", "CANCELLED"} : Fail(w, status)
    \/ Drop(w)
    \/ Complete(w)

Poll(w) == \E c \in Ids : ClaimProfile(w, c) \/ ClaimRelease(w, c)

Next ==
    \/ Request
    \/ \E w \in Workers :
         Poll(w) \/ Step(w) \/ Heartbeat(w) \/ BuildOutput(w) \/ Requeue(w) \/ Crash(w)
    \/ \E o \in Ids : Due(o) \/ Expire(o) \/ LogFails(o) \/ LogWorks(o)
    \/ \E p \in Profiles : Play(p)

\* Every process runs, the poll timers fire and wall time passes.
Fairness ==
    /\ \A w \in Workers : WF_vars(Step(w)) /\ WF_vars(Poll(w))
    /\ \A o \in Ids : WF_vars(Due(o)) /\ WF_vars(Abandoned(o) /\ Expire(o))

Spec == Init /\ [][Next]_vars /\ Fairness

-----------------------------------------------------------------------------
(* Properties. *)

\* One operation runs at a time, of both queues together: no two handlers hold a lease, one
\* on a game server and the other on the gateway.  (A handler that lost its lease may still
\* finish the effect it had begun beside the next one: OneStrayEffect.)
OneRunning == \A o, p \in Running : o = p

\* A bulk release goes target by target: what runs or has succeeded has only successes
\* before it, whatever was cancelled, failed and retried.
BulkInOrder ==
    \A o \in Ids : op[o].batch # 0 /\ op[o].status \in {"RUNNING", "SUCCEEDED"} =>
        \A p \in Ids : op[p].batch = op[o].batch /\ p < o => op[p].status = "SUCCEEDED"

\* In its first attempt, and as long as no line of its log was lost, an update or a release can
\* be cancelled only while it has changed no process and no database, and afterwards its
\* handler, wherever it is by then, changes none either: what the cancellation's log promises.
CancelledBuildUntouched ==
    [][\A o \in Ids : op[o].attempts = 1 /\ op[o].log = "kept" =>
         /\ op[o].status = "RUNNING" /\ op'[o].status = "CANCELLED" => ~op[o].touched
         /\ op[o].status = "CANCELLED" => op'[o].touched = op[o].touched]_vars

\* An orchestrator that lost its lease finishes at most the one effect it had begun, where
\* an effect is what stands between two assertions: a change of the game clock, with all that
\* transitionProfileClock writes, is one.
OneStrayEffect == \A w \in Orchestrators : wk[w].stray <= 1

Carried(o) == op[o].status = "RUNNING" /\ op'[o].status = "SUCCEEDED"

\* An update, a reset or a release that reports success is what its target publishes, and,
\* unless a worker without the lease interfered, what its processes run and its season is.
SucceededIsPublished ==
    [][\A o \in Ids : Carried(o) /\ op[o].type \in {"DEPLOY", "RESET", "RELEASE"} =>
         LET t == op[o].target
         IN  /\ site[t].commit = op[o].sha
             /\ t \notin strayed /\ site[t].status = "RUNNING" =>
                  \A r \in Names : procs[t][r] = op[o].sha
             /\ t \notin strayed /\ op[o].type = "RESET" => world[t].key = op[o].key
      ]_vars

\* A season that players have begun is never wiped by the installation that made it,
\* however often that is attempted again.
SeasonKept ==
    [][\A p \in Profiles : world[p].played /\ ~world'[p].played => world'[p].key # world[p].key]_vars

\* An earlier target of the operation's bulk release did not succeed.
Held(o) == \E p \in Ids : /\ op[o].batch # 0 /\ op[p].batch = op[o].batch /\ p < o
                          /\ op[p].status \in {"FAILED", "CANCELLED"}

\* Every operation that is queued or running ends, unless claimNextOperation holds it back.
OperationsEnd ==
    \A o \in Ids : op[o].status \in Active ~> op[o].status \in Ended \/ Held(o)

-----------------------------------------------------------------------------
(* Both tables together are one queue of SerialJobs: a row of a bulk release has the earlier *)
(* rows of that release as prerequisites.                                                     *)

stateBar == [o \in Ids |-> op[o].status]
firstBar == [o \in Ids |-> {p \in Ids : op[o].batch # 0 /\ op[p].batch = op[o].batch /\ p < o}]

Serial == INSTANCE SerialJobs WITH Jobs <- Ids, state <- stateBar, first <- firstBar

\* Whatever leases expire, workers die and lose races: operations run one at a time and in the
\* order of their bulk release, a success is final, and only what runs can succeed or fail.
ImplementsSerialJobs == Serial!Spec
=============================================================================
