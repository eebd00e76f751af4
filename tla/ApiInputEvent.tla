--------------------------- MODULE ApiInputEvent ---------------------------
(***************************************************************************)
(* The API's mutation boundary, executeInputEvent: business writes, the     *)
(* claim of the input_event row and its result commit in one transaction,   *)
(* so that a request id executes once, is replayed to whoever repeats it,   *)
(* and is refused to whoever means something else by it.                    *)
(*                                                                          *)
(* A caller is one HTTP call: it makes one request and is answered once, or *)
(* is left without an answer by a crash.  A client that repeats a request   *)
(* is a further caller.  Business code runs while its caller holds the row  *)
(* lock; nobody sees its writes before the commit.                          *)
(***************************************************************************)
EXTENDS Naturals

CONSTANTS
    Callers,    \* HTTP calls
    Ids,        \* request ids
    Bases,      \* what identifies a call besides its payload: event type and actor
    Digests,    \* payload digests
    Empty,      \* the {} payload of rows written by the former boundary
    Nobody      \* no lock holder; no result

ASSUME EmptyAssumption == Empty \notin Digests
ASSUME NobodyAssumption == Nobody \notin Callers

VARIABLES
    row,        \* the committed input_event row of each id
    lock,       \* the caller whose transaction holds the row lock
    request,    \* what each caller asks for
    pc,         \* where each caller's executeInputEvent stands
    answer,     \* the result a caller was given (Nobody: none)
    applied     \* executions whose writes are committed, per id

vars == <<row, lock, request, pc, answer, applied>>

\* An execution's result is named by the caller that executed.
Rows == [status : {"ABSENT", "PENDING", "PROCESSING", "SUCCEEDED", "FAILED"},
         base : Bases, digest : Digests \cup {Empty},
         result : Callers \cup {Nobody}]
Requests == [id : Ids, base : Bases, digest : Digests]
Stages == {"idle", "begin", "business", "succeeding", "failing", "unwind", "answered", "conflict", "error"}
InTransaction == {"business", "succeeding", "failing"}

\* Rows, locks, calls and answers have their types.
TypeOK ==
    /\ row \in [Ids -> Rows]
    /\ lock \in [Ids -> Callers \cup {Nobody}]
    /\ request \in [Callers -> Requests]
    /\ pc \in [Callers -> Stages]
    /\ answer \in [Callers -> Callers \cup {Nobody}]
    /\ applied \in [Ids -> SUBSET Callers]

\* A table may still hold rows of the former boundary: any status, payload {}.
Init ==
    /\ row \in [Ids -> {r \in Rows : r.result = Nobody /\ r.digest = Empty}]
    /\ lock = [i \in Ids |-> Nobody]
    /\ request \in [Callers -> Requests]
    /\ pc = [c \in Callers |-> "idle"]
    /\ answer = [c \in Callers |-> Nobody]
    /\ applied = [i \in Ids |-> {}]

To(c, stage) == pc' = [pc EXCEPT ![c] = stage]

-----------------------------------------------------------------------------
(* Identity. *)

hasMatchingBaseIdentity(r, q) == r.base = q.base

\* Mutant: the payload is not compared.
matchesAnyPayload(r, q) == hasMatchingBaseIdentity(r, q)

isMatchingIdentity(r, q) == hasMatchingBaseIdentity(r, q) /\ r.digest = q.digest

canAdoptLegacyFailedPayload(r, q) ==
    r.status = "FAILED" /\ r.result = Nobody /\ r.digest = Empty /\ hasMatchingBaseIdentity(r, q)

\* insertPendingIfAbsent, as the transaction that runs it sees the row.
insertPendingIfAbsent(i, q) ==
    IF row[i].status = "ABSENT"
    THEN [status |-> "PENDING", base |-> q.base, digest |-> q.digest, result |-> Nobody]
    ELSE row[i]

\* Mutant: a visible PROCESSING row is taken for an abandoned claim.
ClaimableIfUnfinished(r, q) ==
    /\ r.status # "SUCCEEDED"
    /\ isMatchingIdentity(r, q) \/ r.digest = Empty

\* The statuses that let business code run.
Claimable(r, q) ==
    /\ r.status \notin {"SUCCEEDED", "PROCESSING"}
    /\ isMatchingIdentity(r, q) \/ canAdoptLegacyFailedPayload(r, q)

\* The row a transaction leaves: claimed, then completed with a status and result.
Completed(i, q, status, result) ==
    [insertPendingIfAbsent(i, q) EXCEPT !.digest = q.digest, !.status = status, !.result = result]

-----------------------------------------------------------------------------
(* executeInputEvent. *)

Call(c) ==
    /\ pc[c] = "idle"
    /\ To(c, "begin")
    /\ UNCHANGED <<row, lock, request, answer, applied>>

\* The row is locked and claimed; the claim stays in the transaction.
Claim(c) ==
    LET i == request[c].id IN
    /\ pc[c] = "begin" /\ lock[i] = Nobody
    /\ Claimable(insertPendingIfAbsent(i, request[c]), request[c])
    /\ lock' = [lock EXCEPT ![i] = c]
    /\ To(c, "business")
    /\ UNCHANGED <<row, request, answer, applied>>

Replay(c) ==
    LET i == request[c].id IN
    /\ pc[c] = "begin" /\ lock[i] = Nobody
    /\ row[i].status = "SUCCEEDED" /\ isMatchingIdentity(row[i], request[c])
    /\ answer' = [answer EXCEPT ![c] = row[i].result]
    /\ To(c, "answered")
    /\ UNCHANGED <<row, lock, request, applied>>

\* DuplicateInputEventError.
Refuse(c) ==
    LET i == request[c].id
        r == insertPendingIfAbsent(i, request[c]) IN
    /\ pc[c] = "begin" /\ lock[i] = Nobody
    /\ ~Claimable(r, request[c])
    /\ ~(r.status = "SUCCEEDED" /\ isMatchingIdentity(r, request[c]))
    /\ To(c, "conflict")
    /\ UNCHANGED <<row, lock, request, answer, applied>>

\* execute() returns or throws; a throw rolls its writes back to the savepoint.
Business(c) ==
    /\ pc[c] = "business"
    /\ \E stage \in {"succeeding", "failing"} : To(c, stage)
    /\ UNCHANGED <<row, lock, request, answer, applied>>

\* Mutant: the connection goes back to the pool with its transaction open.
StaysLocked(c) == UNCHANGED lock

Unlocked(c) == lock' = [lock EXCEPT ![request[c].id] = Nobody]

\* Mutant: the writes that failed are kept.
CommitFailureWithWrites(c) ==
    LET i == request[c].id IN
    /\ row' = [row EXCEPT ![i] = Completed(i, request[c], "FAILED", Nobody)]
    /\ applied' = [applied EXCEPT ![i] = @ \cup {c}]

\* What a committed transaction writes.
CommitFailure(c) ==
    LET i == request[c].id IN
    /\ row' = [row EXCEPT ![i] = Completed(i, request[c], "FAILED", Nobody)]
    /\ UNCHANGED applied

CommitSuccess(c) ==
    LET i == request[c].id IN
    /\ row' = [row EXCEPT ![i] = Completed(i, request[c], "SUCCEEDED", c)]
    /\ applied' = [applied EXCEPT ![i] = @ \cup {c}]

Commit(c) ==
    /\ \/ /\ pc[c] = "succeeding" /\ CommitSuccess(c)
          /\ answer' = [answer EXCEPT ![c] = c]
          /\ To(c, "answered")
       \/ /\ pc[c] = "failing" /\ CommitFailure(c)
          /\ To(c, "error") /\ UNCHANGED answer
    /\ Unlocked(c)
    /\ UNCHANGED request

\* The commit is durable, its acknowledgement is lost.
CommitReplyLost(c) ==
    /\ \/ pc[c] = "succeeding" /\ CommitSuccess(c)
       \/ pc[c] = "failing" /\ CommitFailure(c)
    /\ Unlocked(c)
    /\ To(c, "unwind")
    /\ UNCHANGED <<request, answer>>

\* The transaction fails as a whole (connection, timeout, deadlock victim).
Abort(c) ==
    /\ \/ pc[c] = "begin" /\ To(c, "error") /\ UNCHANGED lock
       \/ pc[c] \in InTransaction /\ To(c, "unwind") /\ Unlocked(c)
    /\ UNCHANGED <<row, request, answer, applied>>

\* The process goes away; the database ends its transaction.
Crash(c) ==
    /\ pc[c] \in InTransaction \cup {"begin", "unwind"}
    /\ IF pc[c] \in InTransaction THEN Unlocked(c) ELSE UNCHANGED lock
    /\ To(c, "error")
    /\ UNCHANGED <<row, request, answer, applied>>

-----------------------------------------------------------------------------
(* markUnexpectedFailure. *)

\* Mutant: the recorder trusts its caller's view of the failure.
RecordsAnyway(r, q) == isMatchingIdentity(r, q) \/ canAdoptLegacyFailedPayload(r, q)

Records(r, q) ==
    /\ isMatchingIdentity(r, q) \/ canAdoptLegacyFailedPayload(r, q)
    /\ r.status \notin {"SUCCEEDED", "PROCESSING"}

\* A transaction of its own; the row may have changed since the failed one.
markUnexpectedFailure(c) ==
    LET i == request[c].id
        r == insertPendingIfAbsent(i, request[c]) IN
    /\ pc[c] = "unwind" /\ lock[i] = Nobody
    /\ row' = [row EXCEPT ![i] = IF Records(r, request[c])
                                 THEN Completed(i, request[c], "FAILED", Nobody) ELSE @]
    /\ To(c, "error")
    /\ UNCHANGED <<lock, request, answer, applied>>

-----------------------------------------------------------------------------
Step(c) ==
    \/ Call(c) \/ Claim(c) \/ Replay(c) \/ Refuse(c) \/ Business(c)
    \/ Commit(c) \/ CommitReplyLost(c) \/ Abort(c) \/ Crash(c) \/ markUnexpectedFailure(c)

Next == \E c \in Callers : Step(c)

\* A transaction that has begun ends, and the row lock is granted in turn.  A failed
\* recording is a crash as far as the row is concerned.
Fairness ==
    \A c \in Callers :
        WF_vars(Claim(c) \/ Replay(c) \/ Refuse(c) \/ Business(c) \/ Commit(c) \/ markUnexpectedFailure(c))

Spec == Init /\ [][Next]_vars /\ Fairness

-----------------------------------------------------------------------------
(* Properties. *)

\* Whoever was answered got the stored result of one execution of exactly the request
\* it made; and the row never takes that back, however many callers repeat it.
AnswersAgree ==
    \A c \in Callers : pc[c] = "answered" =>
        LET r == row[request[c].id] IN
        /\ r.status = "SUCCEEDED" /\ r.result = answer[c] /\ answer[c] \in Callers
        /\ request[answer[c]] = request[c]

\* The row holds the result of an execution under this boundary.
Stored(i) == row[i].status = "SUCCEEDED" /\ row[i].digest # Empty

\* The committed writes of a request are those of the execution its row names, and
\* there are none before it succeeded: an error, a rollback or a refused call wrote
\* nothing, a repeated call wrote nothing more.
WritesAreTheResults ==
    \A i \in Ids : applied[i] = IF Stored(i) THEN {row[i].result} ELSE {}

\* Only rows of the former boundary are ever seen PROCESSING, and they, like rows
\* that succeeded, stay what they are: late failure recorders included.
NoTakeBack ==
    [][\A i \in Ids : row[i].status \in {"SUCCEEDED", "PROCESSING"} => row'[i] = row[i]]_vars

\* Nobody waits for ever: every call ends, with or without an answer.
EveryCallEnds ==
    \A c \in Callers : pc[c] = "begin" ~> pc[c] \in {"answered", "conflict", "error"}

-----------------------------------------------------------------------------
(* The boundary implements the promise of ExactlyOnce: a request is accepted when it *)
(* is first made; a failed attempt leaves it open.                                 *)

Asked(i) == \E c \in Callers : request[c].id = i /\ pc[c] # "idle"

outcomeBar ==
    [i \in Ids |-> IF Stored(i) THEN "succeeded" ELSE IF Asked(i) THEN "accepted" ELSE "unknown"]

effectsBar == [i \in Ids |-> IF applied[i] = {} THEN 0 ELSE 1]

Promise == INSTANCE ExactlyOnce WITH Requests <- Ids, outcome <- outcomeBar, effects <- effectsBar

\* The boundary of inputEventBoundary.ts is exactly once for its callers.
ImplementsPromise == Promise!Spec
=============================================================================
