----------------------------- MODULE SerialJobs -----------------------------
(***************************************************************************)
(* What an operator may rely on when operations and releases are queued,    *)
(* whatever the number of workers, expired leases and lost processes behind *)
(* the queue: one job runs at a time; a job starts after the jobs that were *)
(* named as its prerequisites when it was submitted have succeeded; a job   *)
(* that has succeeded stays so; one that failed or was cancelled leaves     *)
(* that state only when it is queued again; and only a job that runs can    *)
(* succeed or fail.                                                         *)
(***************************************************************************)
CONSTANTS Jobs

VARIABLES
    state,   \* what the queue shows of each job
    first    \* the prerequisites of each job

vars == <<state, first>>

\* What is shown of a job, and its prerequisites.
TypeOK ==
    /\ state \in [Jobs -> {"ABSENT", "QUEUED", "RUNNING", "SUCCEEDED", "FAILED", "CANCELLED"}]
    /\ first \in [Jobs -> SUBSET Jobs]

Init ==
    /\ state = [j \in Jobs |-> "ABSENT"]
    /\ first = [j \in Jobs |-> {}]

Becomes(J, s) == state' = [j \in Jobs |-> IF j \in J THEN s ELSE state[j]]

\* Jobs are submitted together; each may wait for others of them, never both for each other.
Submit(J) ==
    /\ \A j \in J : state[j] = "ABSENT"
    /\ Becomes(J, "QUEUED")
    /\ first' \in [Jobs -> SUBSET Jobs]
    /\ \A j \in J : first'[j] \subseteq J /\ \A k \in first'[j] : j \notin first'[k]
    /\ \A j \in Jobs \ J : first'[j] = first[j]

\* A job starts while nothing runs; queued jobs that it overtakes may be withdrawn with it.
Start(j, W) ==
    /\ \A k \in Jobs : state[k] # "RUNNING"
    /\ state[j] = "QUEUED" /\ \A k \in first[j] : state[k] = "SUCCEEDED"
    /\ \A k \in W : state[k] = "QUEUED"
    /\ state' = [k \in Jobs |-> IF k = j THEN "RUNNING" ELSE IF k \in W THEN "CANCELLED" ELSE state[k]]
    /\ UNCHANGED first

Withdraw(W) ==
    /\ \A k \in W : state[k] = "QUEUED"
    /\ Becomes(W, "CANCELLED")
    /\ UNCHANGED first

\* The job that runs ends, or goes back into the queue.
Finish(j, s) ==
    /\ state[j] = "RUNNING"
    /\ Becomes({j}, s)
    /\ UNCHANGED first

QueueAgain(j) ==
    /\ state[j] \in {"FAILED", "CANCELLED"}
    /\ Becomes({j}, "QUEUED")
    /\ UNCHANGED first

Step ==
    \/ \E J \in SUBSET Jobs : Submit(J) \/ Withdraw(J)
    \/ \E j \in Jobs : \E W \in SUBSET Jobs : Start(j, W)
    \/ \E j \in Jobs : \E s \in {"SUCCEEDED", "FAILED", "CANCELLED", "QUEUED"} : Finish(j, s)
    \/ \E j \in Jobs : QueueAgain(j)

\* What nobody sees is not a step.
Next == vars' # vars /\ Step

Spec == Init /\ [][Next]_vars
=============================================================================
