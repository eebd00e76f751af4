---------------------------- MODULE ExactlyOnce ----------------------------
(***************************************************************************)
(* What a durable request queue promises its clients, whatever the number   *)
(* of workers, retries, crashes and lost replies behind it: an accepted     *)
(* request is answered at most once, it is answered with success exactly    *)
(* when its effect became part of the durable world, and the effect is      *)
(* there once.                                                              *)
(***************************************************************************)
EXTENDS Naturals

CONSTANTS Requests

VARIABLES
    outcome,   \* what a client that asks for a request's result is told
    effects    \* how often the durable world contains each request's effect

vars == <<outcome, effects>>

\* What a client is told, and how often the effect is there.
TypeOK ==
    /\ outcome \in [Requests -> {"unknown", "accepted", "succeeded", "failed"}]
    /\ effects \in [Requests -> Nat]

Init ==
    /\ outcome = [r \in Requests |-> "unknown"]
    /\ effects = [r \in Requests |-> 0]

Accept(r) ==
    /\ outcome[r] = "unknown"
    /\ outcome' = [outcome EXCEPT ![r] = "accepted"]
    /\ UNCHANGED effects

Apply(r) ==
    /\ outcome[r] = "accepted"
    /\ outcome' = [outcome EXCEPT ![r] = "succeeded"]
    /\ effects' = [effects EXCEPT ![r] = @ + 1]

\* One claim may turn down several malformed requests at once.
Reject(R) ==
    /\ \A r \in R : outcome[r] = "accepted"
    /\ outcome' = [r \in Requests |-> IF r \in R THEN "failed" ELSE outcome[r]]
    /\ UNCHANGED effects

Next ==
    \/ \E r \in Requests : Accept(r) \/ Apply(r)
    \/ \E R \in SUBSET Requests : Reject(R)

Spec == Init /\ [][Next]_vars
=============================================================================
