------------------------ MODULE ApiInputEvent_proofs ------------------------
(***************************************************************************)
(* Proofs about the API's mutation boundary, for any callers, request ids,  *)
(* identities and legacy rows.                                              *)
(***************************************************************************)
EXTENDS ApiInputEvent, TLAPS

(* The inductive invariant, in parts. *)

\* A transaction holds the lock of its row, and the row is still one it may claim.
HoldsItsRow ==
    \A c \in Callers : pc[c] \in InTransaction =>
        /\ lock[request[c].id] = c
        /\ Claimable(insertPendingIfAbsent(request[c].id, request[c]), request[c])

\* The result of a succeeded row is that of a caller with the row's identity.
ResultIsOwn ==
    \A i \in Ids : row[i].status = "SUCCEEDED" /\ row[i].digest # Empty =>
        /\ row[i].result \in Callers
        /\ request[row[i].result].id = i
        /\ request[row[i].result].base = row[i].base
        /\ request[row[i].result].digest = row[i].digest

BoundaryInv == TypeOK /\ HoldsItsRow /\ ResultIsOwn /\ WritesAreTheResults /\ AnswersAgree

-----------------------------------------------------------------------------
(* Rows. *)

\* The row a transaction sees is a row, and is the committed one unless absent.
LEMMA InsertMeans ==
    ASSUME TypeOK, NEW c \in Callers
    PROVE  LET r == insertPendingIfAbsent(request[c].id, request[c]) IN
           /\ request[c].id \in Ids /\ request[c] \in Requests
           /\ r \in Rows
           /\ r.status # "ABSENT"
           /\ row[request[c].id].status # "ABSENT" => r = row[request[c].id]
           /\ row[request[c].id].status = "ABSENT" =>
                  r.status = "PENDING" /\ r.base = request[c].base /\ r.digest = request[c].digest
<1> USE DEF TypeOK, Requests, insertPendingIfAbsent
<1>1. request[c].id \in Ids /\ request[c] \in Requests /\ row[request[c].id] \in Rows
  OBVIOUS
<1>2. [status |-> "PENDING", base |-> request[c].base, digest |-> request[c].digest, result |-> Nobody] \in Rows
  BY DEF Rows
<1> QED
  BY <1>1, <1>2

\* Completing a row sets what its transaction decided and keeps who it belongs to.
LEMMA CompletedMeans ==
    ASSUME TypeOK, NEW c \in Callers, NEW st \in {"SUCCEEDED", "FAILED"}, NEW res \in Callers \cup {Nobody}
    PROVE  LET i == request[c].id
               w == Completed(i, request[c], st, res) IN
           /\ w \in Rows
           /\ w.status = st /\ w.result = res /\ w.digest = request[c].digest
           /\ w.base = insertPendingIfAbsent(i, request[c]).base
<1> DEFINE r == insertPendingIfAbsent(request[c].id, request[c])
<1>1. r \in Rows /\ request[c].digest \in Digests
  BY InsertMeans DEF TypeOK, Requests
<1> HIDE DEF r
<1>2. LET w == [r EXCEPT !.digest = request[c].digest, !.status = st, !.result = res] IN
      /\ w \in Rows
      /\ w.status = st /\ w.result = res /\ w.digest = request[c].digest /\ w.base = r.base
  BY <1>1 DEF Rows
<1> QED
  BY <1>2 DEF Completed, r

\* A claimable row has not succeeded, is not in process, and has the claimant's base.
LEMMA ClaimableMeans ==
    ASSUME TypeOK, NEW c \in Callers,
           Claimable(insertPendingIfAbsent(request[c].id, request[c]), request[c])
    PROVE  /\ row[request[c].id].status \notin {"SUCCEEDED", "PROCESSING"}
           /\ insertPendingIfAbsent(request[c].id, request[c]).base = request[c].base
  BY InsertMeans DEF Claimable, isMatchingIdentity, canAdoptLegacyFailedPayload, hasMatchingBaseIdentity

-----------------------------------------------------------------------------
(* Type correctness. *)

\* Any table the former boundary left is well typed.
LEMMA TypeInit == Init => TypeOK
  BY DEF Init, TypeOK, Stages

\* What a committed success writes is well typed.
LEMMA CommitTyped ==
    ASSUME TypeOK, NEW c \in Callers, CommitSuccess(c) \/ CommitFailure(c)
    PROVE  row' \in [Ids -> Rows] /\ applied' \in [Ids -> SUBSET Callers]
<1>1. /\ Completed(request[c].id, request[c], "SUCCEEDED", c) \in Rows
      /\ Completed(request[c].id, request[c], "FAILED", Nobody) \in Rows
  BY CompletedMeans
<1>2. request[c].id \in Ids
  BY InsertMeans
<1> QED
  BY <1>1, <1>2 DEF CommitSuccess, CommitFailure, TypeOK

\* Every step of a call keeps the types.
LEMMA TypeStep == TypeOK /\ [Next]_vars => TypeOK'
<1> SUFFICES ASSUME TypeOK, [Next]_vars PROVE TypeOK'
  OBVIOUS
<1> USE DEF To, Unlocked, Stages, InTransaction
<1>1. ASSUME NEW c \in Callers, Call(c) PROVE TypeOK'
  BY <1>1 DEF Call, TypeOK
<1>2. ASSUME NEW c \in Callers, Claim(c) PROVE TypeOK'
  BY <1>2 DEF Claim, TypeOK
<1>3. ASSUME NEW c \in Callers, Replay(c) PROVE TypeOK'
  <2>1. row[request[c].id].result \in Callers \cup {Nobody}
    BY InsertMeans DEF TypeOK, Rows
  <2> QED
    BY <1>3, <2>1 DEF Replay, TypeOK
<1>4. ASSUME NEW c \in Callers, Refuse(c) PROVE TypeOK'
  BY <1>4 DEF Refuse, TypeOK
<1>5. ASSUME NEW c \in Callers, Business(c) PROVE TypeOK'
  BY <1>5 DEF Business, TypeOK
<1>6. ASSUME NEW c \in Callers, Commit(c) PROVE TypeOK'
  <2>1. row' \in [Ids -> Rows] /\ applied' \in [Ids -> SUBSET Callers]
    BY <1>6, CommitTyped DEF Commit
  <2> QED
    BY <1>6, <2>1 DEF Commit, TypeOK
<1>7. ASSUME NEW c \in Callers, CommitReplyLost(c) PROVE TypeOK'
  <2>1. row' \in [Ids -> Rows] /\ applied' \in [Ids -> SUBSET Callers]
    BY <1>7, CommitTyped DEF CommitReplyLost
  <2> QED
    BY <1>7, <2>1 DEF CommitReplyLost, TypeOK
<1>8. ASSUME NEW c \in Callers, Abort(c) PROVE TypeOK'
  BY <1>8 DEF Abort, TypeOK
<1>9. ASSUME NEW c \in Callers, Crash(c) PROVE TypeOK'
  BY <1>9 DEF Crash, TypeOK
<1>10. ASSUME NEW c \in Callers, markUnexpectedFailure(c) PROVE TypeOK'
  <2>1. Completed(request[c].id, request[c], "FAILED", Nobody) \in Rows
    BY CompletedMeans
  <2>2. row' \in [Ids -> Rows]
    BY <1>10, <2>1, InsertMeans DEF markUnexpectedFailure, TypeOK
  <2> QED
    BY <1>10, <2>2 DEF markUnexpectedFailure, TypeOK
<1>11. CASE UNCHANGED vars
  BY <1>11 DEF vars, TypeOK
<1> QED
  BY <1>1, <1>2, <1>3, <1>4, <1>5, <1>6, <1>7, <1>8, <1>9, <1>10, <1>11 DEF Next, Step

\* Rows, locks, calls and answers are well typed in every behaviour.
THEOREM TypeCorrect == Spec => []TypeOK
  BY TypeInit, TypeStep, PTL DEF Spec

-----------------------------------------------------------------------------
(* The shape of a step: what it does to the rows. *)

\* A step that changes a row is that of a call under way, and replaces a row that is
\* neither succeeded nor in process.
RowStep ==
    \/ row' = row /\ applied' = applied
    \/ \E c \in Callers :
         /\ pc[c] # "idle"
         /\ row[request[c].id].status \notin {"SUCCEEDED", "PROCESSING"}
         /\ insertPendingIfAbsent(request[c].id, request[c]).base = request[c].base
         /\ \/ CommitSuccess(c)
            \/ CommitFailure(c)

\* Every step has that shape.
LEMMA RowShape == BoundaryInv /\ [Next]_vars => RowStep
<1> SUFFICES ASSUME BoundaryInv, [Next]_vars PROVE RowStep
  OBVIOUS
<1> USE DEF BoundaryInv, RowStep
<1>1. ASSUME NEW c \in Callers, Call(c) PROVE RowStep
  BY <1>1 DEF Call
<1>2. ASSUME NEW c \in Callers, Claim(c) PROVE RowStep
  BY <1>2 DEF Claim
<1>3. ASSUME NEW c \in Callers, Replay(c) PROVE RowStep
  BY <1>3 DEF Replay
<1>4. ASSUME NEW c \in Callers, Refuse(c) PROVE RowStep
  BY <1>4 DEF Refuse
<1>5. ASSUME NEW c \in Callers, Business(c) PROVE RowStep
  BY <1>5 DEF Business
<1>6. ASSUME NEW c \in Callers, Commit(c) PROVE RowStep
  <2>1. Claimable(insertPendingIfAbsent(request[c].id, request[c]), request[c]) /\ pc[c] \in InTransaction
    BY <1>6 DEF Commit, HoldsItsRow, InTransaction
  <2>2. pc[c] # "idle"
    BY <1>6 DEF Commit
  <2> QED
    BY <1>6, <2>1, <2>2, ClaimableMeans DEF Commit
<1>7. ASSUME NEW c \in Callers, CommitReplyLost(c) PROVE RowStep
  <2>1. Claimable(insertPendingIfAbsent(request[c].id, request[c]), request[c]) /\ pc[c] \in InTransaction
    BY <1>7 DEF CommitReplyLost, HoldsItsRow, InTransaction
  <2>2. pc[c] # "idle"
    BY <1>7 DEF CommitReplyLost
  <2> QED
    BY <1>7, <2>1, <2>2, ClaimableMeans DEF CommitReplyLost
<1>8. ASSUME NEW c \in Callers, Abort(c) PROVE RowStep
  BY <1>8 DEF Abort
<1>9. ASSUME NEW c \in Callers, Crash(c) PROVE RowStep
  BY <1>9 DEF Crash
<1>10. ASSUME NEW c \in Callers, markUnexpectedFailure(c) PROVE RowStep
  <2> DEFINE r == insertPendingIfAbsent(request[c].id, request[c])
  <2>1. CASE Records(r, request[c])
    <3>1. Claimable(r, request[c])
      BY <2>1 DEF Records, Claimable
    <3>2. CommitFailure(c)
      BY <1>10, <2>1 DEF markUnexpectedFailure, CommitFailure
    <3>3. pc[c] # "idle"
      BY <1>10 DEF markUnexpectedFailure
    <3> QED
      BY <1>10, <3>1, <3>2, <3>3, ClaimableMeans DEF markUnexpectedFailure
  <2>2. CASE ~Records(r, request[c])
    <3>1. row' = [row EXCEPT ![request[c].id] = @]
      BY <1>10, <2>2 DEF markUnexpectedFailure
    <3>2. row' = row
      BY <3>1 DEF TypeOK
    <3> QED
      BY <1>10, <3>2 DEF markUnexpectedFailure
  <2> QED
    BY <2>1, <2>2
<1>11. CASE UNCHANGED vars
  BY <1>11 DEF vars
<1> QED
  BY <1>1, <1>2, <1>3, <1>4, <1>5, <1>6, <1>7, <1>8, <1>9, <1>10, <1>11 DEF Next, Step

\* What was asked never changes.
LEMMA RequestFixed == [Next]_vars => request' = request
  BY DEF Next, Step, Call, Claim, Replay, Refuse, Business, Commit, CommitReplyLost, Abort, Crash,
         markUnexpectedFailure, vars

-----------------------------------------------------------------------------
(* Rows that succeeded, or were left in process, stay. *)

\* A step does not change them.
LEMMA KeepStep ==
    BoundaryInv /\ [Next]_vars =>
        \A i \in Ids : row[i].status \in {"SUCCEEDED", "PROCESSING"} => row'[i] = row[i]
<1> SUFFICES ASSUME BoundaryInv, [Next]_vars, NEW i \in Ids, row[i].status \in {"SUCCEEDED", "PROCESSING"}
             PROVE  row'[i] = row[i]
  OBVIOUS
<1>1. RowStep
  BY RowShape
<1>2. ASSUME NEW c \in Callers, row[request[c].id].status \notin {"SUCCEEDED", "PROCESSING"},
             CommitSuccess(c) \/ CommitFailure(c)
      PROVE  row'[i] = row[i]
  BY <1>2 DEF CommitSuccess, CommitFailure, BoundaryInv, TypeOK
<1> QED
  BY <1>1, <1>2 DEF RowStep

-----------------------------------------------------------------------------
(* The invariant is inductive. *)

\* It holds of every table the former boundary may have left.
LEMMA BoundaryInit == Init => BoundaryInv
<1> SUFFICES ASSUME Init PROVE BoundaryInv
  OBVIOUS
<1>1. \A i \in Ids : row[i].digest = Empty
  BY DEF Init
<1>2. HoldsItsRow /\ AnswersAgree
  BY DEF Init, HoldsItsRow, AnswersAgree, InTransaction
<1>3. ResultIsOwn /\ WritesAreTheResults
  BY <1>1 DEF Init, ResultIsOwn, WritesAreTheResults, Stored
<1> QED
  BY <1>2, <1>3, TypeInit DEF BoundaryInv

\* Nobody else is inside the transaction of a row that changes.
LEMMA LockStep == BoundaryInv /\ [Next]_vars => HoldsItsRow'
<1> SUFFICES ASSUME BoundaryInv, [Next]_vars, NEW b \in Callers, pc'[b] \in InTransaction
             PROVE  /\ lock'[request'[b].id] = b
                    /\ Claimable(insertPendingIfAbsent(request[b].id, request[b]), request[b])'
  BY DEF HoldsItsRow
<1>r. request' = request
  BY RequestFixed
<1>k. ASSUME row'[request[b].id] = row[request[b].id],
             Claimable(insertPendingIfAbsent(request[b].id, request[b]), request[b])
      PROVE  Claimable(insertPendingIfAbsent(request[b].id, request[b]), request[b])'
  BY <1>k, <1>r DEF Claimable, insertPendingIfAbsent, isMatchingIdentity, canAdoptLegacyFailedPayload, hasMatchingBaseIdentity
<1> DEFINE Goal == /\ lock'[request[b].id] = b
                   /\ row'[request[b].id] = row[request[b].id]
                   /\ Claimable(insertPendingIfAbsent(request[b].id, request[b]), request[b])
<1> USE NobodyAssumption, InsertMeans DEF To, InTransaction, BoundaryInv, HoldsItsRow
<1>1. ASSUME NEW c \in Callers, Call(c) PROVE Goal
  BY <1>1 DEF Call, TypeOK
<1>2. ASSUME NEW c \in Callers, Claim(c) PROVE Goal
  BY <1>2 DEF Claim, TypeOK
<1>3. ASSUME NEW c \in Callers, Replay(c) PROVE Goal
  BY <1>3 DEF Replay, TypeOK
<1>4. ASSUME NEW c \in Callers, Refuse(c) PROVE Goal
  BY <1>4 DEF Refuse, TypeOK
<1>5. ASSUME NEW c \in Callers, Business(c) PROVE Goal
  BY <1>5 DEF Business, TypeOK
<1>6. ASSUME NEW c \in Callers, Commit(c) PROVE Goal
  <2>1. b # c
    BY <1>6 DEF Commit, TypeOK
  <2>2. pc'[b] = pc[b] /\ request[b].id # request[c].id
    BY <1>6, <2>1 DEF Commit, TypeOK
  <2> QED
    BY <1>6, <2>2 DEF Commit, CommitSuccess, CommitFailure, Unlocked, TypeOK
<1>7. ASSUME NEW c \in Callers, CommitReplyLost(c) PROVE Goal
  <2>1. b # c
    BY <1>7 DEF CommitReplyLost, TypeOK
  <2>2. pc'[b] = pc[b] /\ request[b].id # request[c].id
    BY <1>7, <2>1 DEF CommitReplyLost, TypeOK
  <2> QED
    BY <1>7, <2>2 DEF CommitReplyLost, CommitSuccess, CommitFailure, Unlocked, TypeOK
<1>8. ASSUME NEW c \in Callers, Abort(c) PROVE Goal
  <2>1. b # c /\ pc'[b] = pc[b]
    BY <1>8 DEF Abort, TypeOK
  <2>2. pc[c] \in InTransaction => request[b].id # request[c].id
    BY <1>8, <2>1
  <2> QED
    BY <1>8, <2>1, <2>2 DEF Abort, Unlocked, TypeOK
<1>9. ASSUME NEW c \in Callers, Crash(c) PROVE Goal
  <2>1. b # c /\ pc'[b] = pc[b]
    BY <1>9 DEF Crash, TypeOK
  <2>2. pc[c] \in InTransaction => request[b].id # request[c].id
    BY <1>9, <2>1
  <2> QED
    BY <1>9, <2>1, <2>2 DEF Crash, Unlocked, TypeOK
<1>10. ASSUME NEW c \in Callers, markUnexpectedFailure(c) PROVE Goal
  BY <1>10 DEF markUnexpectedFailure, TypeOK
<1>11. ASSUME UNCHANGED vars PROVE Goal
  <2>1. pc' = pc /\ lock' = lock /\ row' = row
    BY <1>11 DEF vars
  <2> QED
    BY <2>1
<1> HIDE InsertMeans, NobodyAssumption DEF To, InTransaction, BoundaryInv, HoldsItsRow, Goal
<1>g. Goal
  BY <1>1, <1>2, <1>3, <1>4, <1>5, <1>6, <1>7, <1>8, <1>9, <1>10, <1>11 DEF Next, Step
<1> QED
  BY <1>g, <1>k, <1>r DEF Goal

\* Results and writes stay those of the execution the row names.
LEMMA ResultStep == BoundaryInv /\ [Next]_vars => ResultIsOwn' /\ WritesAreTheResults'
<1> SUFFICES ASSUME BoundaryInv, [Next]_vars PROVE ResultIsOwn' /\ WritesAreTheResults'
  OBVIOUS
<1>r. request' = request
  BY RequestFixed
<1>1. RowStep
  BY RowShape
<1>2. CASE row' = row /\ applied' = applied
  BY <1>2, <1>r DEF BoundaryInv, ResultIsOwn, WritesAreTheResults, Stored
<1>3. ASSUME NEW c \in Callers,
             row[request[c].id].status \notin {"SUCCEEDED", "PROCESSING"},
             insertPendingIfAbsent(request[c].id, request[c]).base = request[c].base,
             CommitSuccess(c)
      PROVE  ResultIsOwn' /\ WritesAreTheResults'
  <2> DEFINE i == request[c].id
             w == Completed(i, request[c], "SUCCEEDED", c)
  <2>1. /\ w.status = "SUCCEEDED" /\ w.result = c
        /\ w.digest = request[c].digest /\ w.base = request[c].base
    BY <1>3, CompletedMeans DEF BoundaryInv
  <2>2. row' = [row EXCEPT ![i] = w] /\ applied' = [applied EXCEPT ![i] = @ \cup {c}]
    BY <1>3 DEF CommitSuccess
  <2>3. i \in Ids /\ request[c].digest # Empty
    BY EmptyAssumption DEF BoundaryInv, TypeOK, Requests
  <2>4. applied[i] = {}
    BY <1>3, <2>3 DEF BoundaryInv, WritesAreTheResults, Stored
  <2> HIDE DEF w, i
  <2>5. row'[i] = w /\ applied'[i] = {c} /\ \A j \in Ids \ {i} : row'[j] = row[j] /\ applied'[j] = applied[j]
    BY <2>2, <2>3, <2>4 DEF BoundaryInv, TypeOK
  <2>6. ResultIsOwn'
    BY <1>r, <2>1, <2>5 DEF BoundaryInv, ResultIsOwn, i
  <2>7. WritesAreTheResults'
    BY <2>1, <2>3, <2>5 DEF BoundaryInv, WritesAreTheResults, Stored
  <2> QED
    BY <2>6, <2>7
<1>4. ASSUME NEW c \in Callers,
             row[request[c].id].status \notin {"SUCCEEDED", "PROCESSING"},
             CommitFailure(c)
      PROVE  ResultIsOwn' /\ WritesAreTheResults'
  <2> DEFINE i == request[c].id
             w == Completed(i, request[c], "FAILED", Nobody)
  <2>1. w.status = "FAILED"
    BY CompletedMeans DEF BoundaryInv
  <2>2. row' = [row EXCEPT ![i] = w] /\ applied' = applied
    BY <1>4 DEF CommitFailure
  <2>3. i \in Ids
    BY DEF BoundaryInv, TypeOK, Requests
  <2>4. applied[i] = {}
    BY <1>4, <2>3 DEF BoundaryInv, WritesAreTheResults, Stored
  <2> HIDE DEF w, i
  <2>5. row'[i] = w /\ \A j \in Ids \ {i} : row'[j] = row[j]
    BY <2>2, <2>3 DEF BoundaryInv, TypeOK
  <2>6. ResultIsOwn'
    BY <1>r, <2>1, <2>5 DEF BoundaryInv, ResultIsOwn
  <2>7. WritesAreTheResults'
    BY <2>1, <2>2, <2>4, <2>5 DEF BoundaryInv, WritesAreTheResults, Stored
  <2> QED
    BY <2>6, <2>7
<1> QED
  BY <1>1, <1>2, <1>3, <1>4 DEF RowStep

\* An answer given is the stored one, and the row that stores it stays.
LEMMA AnswerStep == BoundaryInv /\ [Next]_vars => AnswersAgree'
<1> SUFFICES ASSUME BoundaryInv, [Next]_vars, NEW b \in Callers, pc'[b] = "answered"
             PROVE  /\ row'[request[b].id].status = "SUCCEEDED" /\ row'[request[b].id].result = answer'[b]
                    /\ answer'[b] \in Callers
                    /\ request[answer'[b]] = request[b]
  BY RequestFixed DEF AnswersAgree
<1>1. request[b].id \in Ids /\ request[b] \in Requests
  BY DEF BoundaryInv, TypeOK, Requests
<1>2. CASE pc[b] = "answered" /\ answer'[b] = answer[b]
  BY <1>1, <1>2, KeepStep DEF BoundaryInv, AnswersAgree
<1>3. CASE Replay(b)
  <2>1. row[request[b].id].digest # Empty
    BY <1>1, <1>3, EmptyAssumption DEF Replay, isMatchingIdentity, Requests
  <2>2. answer'[b] = row[request[b].id].result /\ row' = row
    BY <1>3 DEF Replay, BoundaryInv, TypeOK
  <2>3. answer'[b] \in Callers
    BY <1>1, <1>3, <2>1, <2>2 DEF Replay, BoundaryInv, ResultIsOwn
  <2>4. /\ request[answer'[b]].id = request[b].id
        /\ request[answer'[b]].base = request[b].base
        /\ request[answer'[b]].digest = request[b].digest
    BY <1>1, <1>3, <2>1, <2>2 DEF Replay, BoundaryInv, ResultIsOwn, isMatchingIdentity, hasMatchingBaseIdentity
  <2>5. request[answer'[b]] \in Requests
    BY <2>3 DEF BoundaryInv, TypeOK
  <2>6. request[answer'[b]] = request[b]
    BY <1>1, <2>4, <2>5 DEF Requests
  <2> QED
    BY <1>3, <2>2, <2>3, <2>6 DEF Replay
<1>4. CASE Commit(b) /\ pc[b] = "succeeding"
  <2>1. answer'[b] = b /\ CommitSuccess(b)
    BY <1>4 DEF Commit, BoundaryInv, TypeOK
  <2>2. row'[request[b].id] = Completed(request[b].id, request[b], "SUCCEEDED", b)
    BY <1>1, <2>1 DEF CommitSuccess, BoundaryInv, TypeOK
  <2> QED
    BY <2>1, <2>2, CompletedMeans DEF BoundaryInv
<1>5. (pc[b] = "answered" /\ answer'[b] = answer[b]) \/ Replay(b) \/ (Commit(b) /\ pc[b] = "succeeding")
  <2> USE DEF BoundaryInv, TypeOK, To
  <2>1. ASSUME NEW c \in Callers, Step(c), c # b PROVE pc[b] = "answered" /\ answer'[b] = answer[b]
    BY <2>1 DEF Step, Call, Claim, Replay, Refuse, Business, Commit, CommitReplyLost, Abort, Crash, markUnexpectedFailure
  <2>2. CASE Step(b)
    BY <2>2 DEF Step, Call, Claim, Refuse, Business, Commit, CommitReplyLost, Abort, Crash, markUnexpectedFailure
  <2>3. CASE UNCHANGED vars
    BY <2>3 DEF vars
  <2> QED
    BY <2>1, <2>2, <2>3 DEF Next
<1> QED
  BY <1>2, <1>3, <1>4, <1>5

\* The parts together.
LEMMA BoundaryStep == BoundaryInv /\ [Next]_vars => BoundaryInv'
  BY TypeStep, LockStep, ResultStep, AnswerStep DEF BoundaryInv

\* Every answered caller got the stored result of an execution of its own request.
THEOREM AnswersAgreed == Spec => []AnswersAgree
<1>1. BoundaryInv => AnswersAgree
  BY DEF BoundaryInv
<1> QED
  BY <1>1, BoundaryInit, BoundaryStep, PTL DEF Spec

\* A request's committed writes are those of the one execution its row names.
THEOREM WrittenOnce == Spec => []WritesAreTheResults
<1>1. BoundaryInv => WritesAreTheResults
  BY DEF BoundaryInv
<1> QED
  BY <1>1, BoundaryInit, BoundaryStep, PTL DEF Spec

\* A succeeded row, and a row the former boundary left in process, never change.
THEOREM NothingTakenBack == Spec => NoTakeBack
<1>1. BoundaryInv /\ [Next]_vars =>
        [\A i \in Ids : row[i].status \in {"SUCCEEDED", "PROCESSING"} => row'[i] = row[i]]_vars
  BY KeepStep
<1>2. Spec => []BoundaryInv
  BY BoundaryInit, BoundaryStep, PTL DEF Spec
<1> QED
  BY <1>1, <1>2, PTL DEF Spec, NoTakeBack
-----------------------------------------------------------------------------
(* The boundary implements ExactlyOnce. *)

\* Before the first call nothing is known and nothing has happened.
LEMMA PromiseInit == Init => Promise!Init
<1> SUFFICES ASSUME Init PROVE Promise!Init
  OBVIOUS
<1>1. \A i \in Ids : ~Stored(i) /\ ~Asked(i) /\ applied[i] = {}
  BY DEF Init, Stored, Asked
<1> QED
  BY <1>1 DEF Promise!Init, outcomeBar, effectsBar

\* Only Call makes a request known; no step forgets one.
LEMMA AskedStep ==
    ASSUME BoundaryInv, [Next]_vars, ~(\E c \in Callers : Call(c)), NEW i \in Ids
    PROVE  Asked(i)' = Asked(i)
<1>1. \A b \in Callers : (pc'[b] # "idle") = (pc[b] # "idle")
  <2> SUFFICES ASSUME NEW b \in Callers PROVE (pc'[b] # "idle") = (pc[b] # "idle")
    OBVIOUS
  <2>1. ASSUME NEW c \in Callers, Step(c) PROVE (pc'[b] # "idle") = (pc[b] # "idle")
    BY <2>1 DEF Step, Claim, Replay, Refuse, Business, Commit, CommitReplyLost, Abort, Crash,
                markUnexpectedFailure, To, InTransaction, BoundaryInv, TypeOK
  <2>2. CASE UNCHANGED vars
    BY <2>2 DEF vars
  <2> QED
    BY <2>1, <2>2 DEF Next
<1> QED
  BY <1>1, RequestFixed DEF Asked

\* Every step is Accept, Apply or a stutter of the promise.
LEMMA PromiseStep == BoundaryInv /\ BoundaryInv' /\ [Next]_vars => [Promise!Next]_(Promise!vars)
<1> SUFFICES ASSUME BoundaryInv, BoundaryInv', [Next]_vars PROVE [Promise!Next]_(Promise!vars)
  OBVIOUS
<1>1. ASSUME NEW c \in Callers, Call(c) PROVE [Promise!Next]_(Promise!vars)
  <2> DEFINE i == request[c].id
  <2>1. i \in Ids
    BY DEF BoundaryInv, TypeOK, Requests
  <2>2. \A j \in Ids : Stored(j)' = Stored(j)
    BY <1>1 DEF Call, Stored
  <2>3. \A j \in Ids : Asked(j)' = (Asked(j) \/ j = i)
    BY <1>1 DEF Call, Asked, To, BoundaryInv, TypeOK
  <2>4. effectsBar' = effectsBar
    BY <1>1 DEF Call, effectsBar
  <2>5. CASE Stored(i) \/ Asked(i)
    <3>1. outcomeBar' = outcomeBar
      BY <2>2, <2>3, <2>5 DEF outcomeBar
    <3> QED
      BY <2>4, <3>1 DEF Promise!vars
  <2>6. CASE ~Stored(i) /\ ~Asked(i)
    <3>1. outcomeBar[i] = "unknown" /\ outcomeBar' = [outcomeBar EXCEPT ![i] = "accepted"]
      BY <2>1, <2>2, <2>3, <2>6 DEF outcomeBar
    <3>2. Promise!Accept(i)
      BY <2>4, <3>1 DEF Promise!Accept
    <3> QED
      BY <2>1, <3>2 DEF Promise!Next
  <2> QED
    BY <2>5, <2>6
<1>2. CASE ~(\E c \in Callers : Call(c))
  <2>1. RowStep
    BY RowShape
  <2>2. \A j \in Ids : Asked(j)' = Asked(j)
    BY <1>2, AskedStep
  <2>3. CASE row' = row /\ applied' = applied
    <3>1. outcomeBar' = outcomeBar /\ effectsBar' = effectsBar
      BY <2>2, <2>3 DEF outcomeBar, effectsBar, Stored
    <3> QED
      BY <3>1 DEF Promise!vars
  <2>4. ASSUME NEW c \in Callers, row[request[c].id].status \notin {"SUCCEEDED", "PROCESSING"},
               CommitFailure(c)
        PROVE  [Promise!Next]_(Promise!vars)
    <3>i. PICK i \in Ids : i = request[c].id
      BY DEF BoundaryInv, TypeOK, Requests
    <3> DEFINE w == Completed(i, request[c], "FAILED", Nobody)
    <3>1. w.status = "FAILED"
      BY <3>i, CompletedMeans DEF BoundaryInv
    <3>2. row' = [row EXCEPT ![i] = w] /\ applied' = applied
      BY <2>4, <3>i DEF CommitFailure
    <3> HIDE DEF w
    <3>3. row[i].status # "SUCCEEDED" /\ row'[i].status # "SUCCEEDED" /\ \A j \in Ids \ {i} : row'[j] = row[j]
      BY <2>4, <3>i, <3>1, <3>2 DEF BoundaryInv, TypeOK
    <3>4. \A j \in Ids : Stored(j)' = Stored(j)
      BY <3>3 DEF Stored
    <3>5. outcomeBar' = outcomeBar /\ effectsBar' = effectsBar
      BY <2>2, <3>2, <3>4 DEF outcomeBar, effectsBar
    <3> QED
      BY <3>5 DEF Promise!vars
  <2>5. ASSUME NEW c \in Callers, row[request[c].id].status \notin {"SUCCEEDED", "PROCESSING"},
               pc[c] # "idle", CommitSuccess(c)
        PROVE  [Promise!Next]_(Promise!vars)
    <3>i. PICK i \in Ids : i = request[c].id
      BY DEF BoundaryInv, TypeOK, Requests
    <3> DEFINE w == Completed(i, request[c], "SUCCEEDED", c)
    <3>1. w.status = "SUCCEEDED" /\ w.digest # Empty
      BY <3>i, CompletedMeans, EmptyAssumption DEF BoundaryInv, TypeOK, Requests
    <3>2. row' = [row EXCEPT ![i] = w] /\ applied' = [applied EXCEPT ![i] = @ \cup {c}]
      BY <2>5, <3>i DEF CommitSuccess
    <3>3. Asked(i) /\ row[i].status # "SUCCEEDED"
      BY <2>5, <3>i DEF Asked
    <3>4. applied[i] = {}
      BY <3>3 DEF BoundaryInv, WritesAreTheResults, Stored
    <3> HIDE DEF w
    <3>5. row'[i] = w /\ \A j \in Ids \ {i} : row'[j] = row[j]
      BY <3>2 DEF BoundaryInv, TypeOK
    <3>6. Stored(i)' = TRUE /\ Stored(i) = FALSE /\ \A j \in Ids \ {i} : Stored(j)' = Stored(j)
      BY <3>1, <3>3, <3>5 DEF Stored
    <3>7. outcomeBar[i] = "accepted" /\ outcomeBar' = [outcomeBar EXCEPT ![i] = "succeeded"]
      BY <2>2, <3>3, <3>6 DEF outcomeBar
    <3>8. applied'[i] # {} /\ \A j \in Ids \ {i} : applied'[j] = applied[j]
      BY <3>2 DEF BoundaryInv, TypeOK
    <3>a. /\ effectsBar[i] = 0 /\ effectsBar'[i] = 1
          /\ \A j \in Ids \ {i} : effectsBar'[j] = effectsBar[j]
      BY <3>4, <3>8 DEF effectsBar
    <3>b. effectsBar \in [Ids -> {0, 1}] /\ effectsBar' \in [Ids -> {0, 1}]
      BY DEF effectsBar
    <3>9. effectsBar' = [effectsBar EXCEPT ![i] = @ + 1]
      BY <3>a, <3>b
    <3>10. Promise!Apply(i)
      BY <3>7, <3>9 DEF Promise!Apply
    <3> QED
      BY <3>10 DEF Promise!Next
  <2> QED
    BY <2>1, <2>3, <2>4, <2>5 DEF RowStep
<1> QED
  BY <1>1, <1>2

\* The API boundary implements the abstract promise.
THEOREM BoundaryImplementsPromise == Spec => ImplementsPromise
<1>1. Spec => Init /\ [][Next]_vars
  BY PTL DEF Spec
<1>2. Init /\ [][Next]_vars => []BoundaryInv
  BY BoundaryInit, BoundaryStep, PTL
<1> QED
  BY <1>1, <1>2, PromiseInit, PromiseStep, PTL DEF Promise!Spec, ImplementsPromise
=============================================================================
