---------------------------- MODULE SingleWriter ----------------------------
(***************************************************************************)
(* What a profile may rely on however many daemon processes run at once:    *)
(* the durable world is changed by the present writer only, and only from a *)
(* copy that is the world as it stands; and whoever was succeeded as the    *)
(* writer never becomes it again.  The turn-daemon lease provides this, and *)
(* the command queue, which is modelled on top of it, keeps it.             *)
(***************************************************************************)
CONSTANTS Writers, Nobody

VARIABLES
    writer,   \* the process that may write
    past,     \* all that have ever been the writer
    copy,     \* the world in the writer's memory: {}, or one world
    world     \* the durable world: any value

vars == <<writer, past, copy, world>>

\* The writer has been one of the processes, and has at most one copy.
TypeOK ==
    /\ past \subseteq Writers
    /\ writer \in past \cup {Nobody}
    /\ copy = {} \/ \E w : copy = {w}

Init == writer = Nobody /\ past = {} /\ copy = {}

\* The new writer may load the world in the same step.
TakeOver(d) ==
    /\ d \notin past
    /\ writer' = d
    /\ past' = past \cup {d}
    /\ copy' \in {{}, {world}}
    /\ UNCHANGED world

Load ==
    /\ writer # Nobody /\ copy = {}
    /\ copy' = {world}
    /\ UNCHANGED <<writer, past, world>>

Commit ==
    /\ copy = {world}
    /\ world' # world
    /\ copy' = {world'}
    /\ UNCHANGED <<writer, past>>

\* The process ends; it stays the writer until another takes over.
Forget ==
    /\ copy' = {}
    /\ UNCHANGED <<writer, past, world>>

Next == Load \/ Commit \/ Forget \/ \E d \in Writers : TakeOver(d)

Spec == Init /\ [][Next]_vars
=============================================================================
