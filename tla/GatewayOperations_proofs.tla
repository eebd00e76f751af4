---------------------- MODULE GatewayOperations_proofs ----------------------
(***************************************************************************)
(* Proofs about the gateway's operation and release queues, for any number  *)
(* of profiles, workers, processes, commits and rows.                       *)
(***************************************************************************)
EXTENDS GatewayOperations, TLAPS

-----------------------------------------------------------------------------
(* The paths of the handlers. *)

\* Every path stays among its own steps until it ends, and never goes back to one
\* whose log lets the operation be cancelled.
LEMMA PathClosed ==
    \A type \in Types : \A pc \in DOMAIN Path[type] :
        /\ Path[type][pc] \in Steps
        /\ Path[type][pc] \in DOMAIN Path[type] \cup {"done", "fail"}
        /\ pc \notin Early => Path[type][pc] \notin Early
<1> SUFFICES ASSUME NEW type \in Types, NEW pc \in DOMAIN Path[type]
             PROVE  /\ Path[type][pc] \in Steps
                    /\ Path[type][pc] \in DOMAIN Path[type] \cup {"done", "fail"}
                    /\ pc \notin Early => Path[type][pc] \notin Early
  OBVIOUS
<1> USE DEF Steps, Early, Fenced, Effects, Stops, Starts
<1>1. CASE type = "START"
  BY <1>1 DEF Path
<1>2. CASE type = "STOP"
  BY <1>2 DEF Path
<1>3. CASE type = "DEPLOY"
  BY <1>3 DEF Path
<1>4. CASE type = "RESET"
  BY <1>4 DEF Path
<1>5. CASE type = "CANCEL_GAME"
  BY <1>5 DEF Path
<1>6. CASE type = "RELEASE"
  BY <1>6 DEF Path
<1> QED
  BY <1>1, <1>2, <1>3, <1>4, <1>5, <1>6 DEF Types

\* A worker is on the path of its operation.
OnPath ==
    \A w \in Workers : wk[w].pc # "idle" => wk[w].pc \in DOMAIN Path[Job(w).type] \cup {"done", "fail"}

\* Rows are used in order; what was never claimed has no worker and no history.
Ledger ==
    /\ \A o, p \in Ids : op[o].status = "ABSENT" /\ o <= p => op[p].status = "ABSENT"
    /\ \A o \in Ids : op[o].status = "ABSENT" => op[o].batch = 0 /\ op[o].attempts = 0
    /\ \A o \in Ids : op[o].batch <= o
    /\ \A o \in Ids : op[o].attempts = 0 =>
         ~op[o].touched /\ \A w \in Workers : wk[w].pc # "idle" => wk[w].op # o

TypeInv == TypeOK /\ OnPath /\ Ledger

\* A step that ends on the way leads to a step of the same path.
OnWay(w, next) ==
    /\ next \in Steps
    /\ next \in DOMAIN Path[Job(w).type] \cup {"done", "fail"}
    /\ wk[w].pc \notin Early => next \notin Early

\* A worker's row has a type.
LEMMA JobTyped ==
    ASSUME TypeOK, NEW w \in Workers, wk[w].pc # "idle"
    PROVE  /\ wk[w].op \in Ids
           /\ Job(w) \in Rows
           /\ Job(w).type \in Types
           /\ Job(w).target \in Targets
           /\ wk[w] \in Works
  BY DEF TypeOK, Rows, Job

\* The next step of a path is on the way.
LEMMA FollowingOnWay ==
    ASSUME TypeInv, NEW w \in Workers, wk[w].pc \notin {"idle", "done", "fail"}
    PROVE  OnWay(w, Following(w))
<1> DEFINE type == Job(w).type
           pc == wk[w].pc
<1>1. type \in Types /\ pc \in DOMAIN Path[type]
  BY JobTyped DEF TypeInv, OnPath
<1>2. CASE ~Up(w) /\ type = "DEPLOY" /\ pc = "migrate"
  <2>1. "publish" \in DOMAIN Path["DEPLOY"]
    BY DEF Path
  <2>2. "publish" \in Steps /\ "publish" \notin Early
    BY DEF Steps, Early, Fenced
  <2> QED
    BY <1>2, <2>1, <2>2 DEF Following, OnWay
<1>3. CASE ~Up(w) /\ type = "CANCEL_GAME" /\ pc = "migrate"
  <2>1. "settle" \in DOMAIN Path["CANCEL_GAME"]
    BY DEF Path
  <2>2. "settle" \in Steps /\ "settle" \notin Early
    BY DEF Steps, Early, Effects
  <2> QED
    BY <1>3, <2>1, <2>2 DEF Following, OnWay
<1>4. CASE Following(w) = Path[type][pc]
  BY <1>1, <1>4, PathClosed DEF OnWay
<1> QED
  BY <1>2, <1>3, <1>4 DEF Following

\* So is where a failure leads.
LEMMA RecoveryOnWay ==
    ASSUME TypeInv, NEW w \in Workers, wk[w].pc \notin {"idle", "begin", "fail"}
    PROVE  OnWay(w, Recovery(w)) /\ Recovery(w) \notin Early
<1> DEFINE type == Job(w).type
           pc == wk[w].pc
<1>0. {"undoClear", "undoStop", "patch", "reopen", "fail"} \subseteq Steps \ Early
  BY DEF Steps, Early, Fenced, Effects, Stops
<1>1. CASE type = "DEPLOY"
  <2>1. {"undoClear", "undoStop", "patch"} \subseteq DOMAIN Path["DEPLOY"]
    BY DEF Path
  <2>2. Recovery(w) \in {"undoClear", "undoStop", "patch", "fail"}
    BY <1>1 DEF Recovery
  <2> QED
    BY <1>0, <1>1, <2>1, <2>2 DEF OnWay
<1>2. CASE type = "RESET"
  <2>1. {"undoStop", "patch"} \subseteq DOMAIN Path["RESET"]
    BY DEF Path
  <2>2. Recovery(w) \in {"undoStop", "patch", "fail"}
    BY <1>2 DEF Recovery
  <2> QED
    BY <1>0, <1>2, <2>1, <2>2 DEF OnWay
<1>3. CASE type = "START"
  <2>1. {"undoStop", "patch"} \subseteq DOMAIN Path["START"]
    BY DEF Path
  <2>2. Recovery(w) \in {"undoStop", "patch", "fail"}
    BY <1>3 DEF Recovery
  <2> QED
    BY <1>0, <1>3, <2>1, <2>2 DEF OnWay
<1>4. CASE type = "RELEASE"
  <2>1. "undoStop" \in DOMAIN Path["RELEASE"]
    BY DEF Path
  <2>2. Recovery(w) \in {"undoStop", "fail"}
    BY <1>4 DEF Recovery
  <2> QED
    BY <1>0, <1>4, <2>1, <2>2 DEF OnWay
<1>5. CASE type = "CANCEL_GAME"
  <2>1. "reopen" \in DOMAIN Path["CANCEL_GAME"]
    BY DEF Path
  <2>2. Recovery(w) \in {"reopen", "fail"}
    BY <1>5 DEF Recovery
  <2> QED
    BY <1>0, <1>5, <2>1, <2>2 DEF OnWay
<1>6. CASE type = "STOP"
  <2>1. Recovery(w) = "fail"
    BY <1>6 DEF Recovery
  <2> QED
    BY <1>0, <2>1 DEF OnWay
<1> QED
  BY <1>1, <1>2, <1>3, <1>4, <1>5, <1>6, JobTyped DEF TypeInv, Types

\* What a move writes is well typed.
LEMMA MovedTyped ==
    ASSUME TypeOK, NEW w \in Workers, wk[w].pc # "idle", NEW next \in Steps
    PROVE  /\ Work(w, next) \in SUBSET Names
           /\ Moved(w, next) \in Works
           /\ Moved(w, next).pc = next
           /\ Moved(w, next).op = wk[w].op
           /\ Moved(w, next).stray = wk[w].stray
           /\ Moved(w, next).armed = FALSE
           /\ Logged(w, next) \in {"queue", "early", "late", "cancel"}
<1>1. Work(w, next) \in SUBSET Names
  BY DEF Work
<1>2. wk[w] \in Works /\ Job(w).phase \in {"queue", "early", "late", "cancel"}
  BY JobTyped DEF Rows
<1>3. Moved(w, next) = [wk[w] EXCEPT !.pc = next, !.armed = FALSE, !.todo = Work(w, next)]
  BY DEF Moved
<1>4. Logged(w, next) \in {"queue", "early", "late", "cancel"}
  BY <1>2 DEF Logged
<1> HIDE DEF Works
<1>5. next \in Steps \cup {"idle"} /\ FALSE \in BOOLEAN
  OBVIOUS
<1>6. Moved(w, next) \in Works
  BY <1>1, <1>2, <1>3, <1>5 DEF Works
<1> QED
  BY <1>1, <1>2, <1>3, <1>4, <1>6 DEF Works

-----------------------------------------------------------------------------
(* What a worker's step leaves alone. *)

\* What a row keeps through every step but claims, requests and ends.
Kept(o) ==
    /\ op'[o].target = op[o].target /\ op'[o].type = op[o].type
    /\ op'[o].status = op[o].status /\ op'[o].owner = op[o].owner
    /\ op'[o].key = op[o].key /\ op'[o].batch = op[o].batch
    /\ op'[o].attempts = op[o].attempts /\ op'[o].log = op[o].log

\* A step of w about its row: other rows and other workers are untouched.
Quiet(w) ==
    /\ wk[w].pc # "idle"
    /\ op' \in [Ids -> Rows] /\ wk' \in [Workers -> Works]
    /\ \A o \in Ids : Kept(o) /\ (o # wk[w].op => op'[o] = op[o])
    /\ \A v \in Workers \ {w} : wk'[v] = wk[v]
    /\ \/ wk'[w] = Idle
       \/ wk'[w].op = wk[w].op /\ wk'[w].pc \in DOMAIN Path[Job(w).type] \cup {"done", "fail"}

\* Such a step keeps workers on their paths and rows in order.
LEMMA QuietKeeps ==
    ASSUME TypeInv, NEW w \in Workers, Quiet(w)
    PROVE  /\ (\A o \in Ids : op[o].target = Gateway <=> op[o].type = "RELEASE")'
           /\ (\A v \in Workers : wk[v].pc # "idle" =>
                 wk[v].op \in Ids /\ (v \in Controllers <=> op[wk[v].op].type = "RELEASE"))'
           /\ OnPath'
           /\ Ledger'
<1>1. \A o \in Ids : op'[o].type = op[o].type /\ op'[o].target = op[o].target
  BY DEF Quiet, Kept
<1>2. \A v \in Workers : wk'[v].pc # "idle" => wk[v].pc # "idle" /\ wk'[v].op = wk[v].op
  <2> SUFFICES ASSUME NEW v \in Workers, wk'[v].pc # "idle" PROVE wk[v].pc # "idle" /\ wk'[v].op = wk[v].op
    OBVIOUS
  <2>1. CASE v = w
    BY <2>1 DEF Quiet, Idle
  <2>2. CASE v # w
    BY <2>2 DEF Quiet
  <2> QED
    BY <2>1, <2>2
<1>3. \A v \in Workers : wk[v].pc # "idle" => wk[v].op \in Ids
  BY DEF TypeInv, TypeOK
<1>4. (\A v \in Workers : wk[v].pc # "idle" =>
         wk[v].op \in Ids /\ (v \in Controllers <=> op[wk[v].op].type = "RELEASE"))'
  BY <1>1, <1>2, <1>3 DEF TypeInv, TypeOK
<1>5. OnPath'
  <2> SUFFICES ASSUME NEW v \in Workers, wk'[v].pc # "idle"
               PROVE  wk'[v].pc \in DOMAIN Path[op'[wk'[v].op].type] \cup {"done", "fail"}
    BY DEF OnPath, Job
  <2>1. op'[wk'[v].op].type = op[wk[v].op].type
    BY <1>1, <1>2, <1>3
  <2>2. CASE v = w
    BY <2>1, <2>2 DEF Quiet, Idle, Job
  <2>3. CASE v # w
    BY <1>2, <2>1, <2>3 DEF Quiet, TypeInv, OnPath, Job
  <2> QED
    BY <2>2, <2>3
<1>6. op[wk[w].op].attempts # 0
  BY <1>3 DEF Quiet, TypeInv, Ledger
<1>7. Ledger'
  <2>1. \A o \in Ids : op'[o].status = op[o].status /\ op'[o].batch = op[o].batch
                       /\ op'[o].attempts = op[o].attempts
    BY DEF Quiet, Kept
  <2>2. \A o \in Ids : op'[o].attempts = 0 => op'[o] = op[o]
    BY <1>6, <2>1 DEF Quiet
  <2>3. (\A o \in Ids : op[o].attempts = 0 =>
           ~op[o].touched /\ \A v \in Workers : wk[v].pc # "idle" => wk[v].op # o)'
    BY <1>2, <2>1, <2>2 DEF TypeInv, Ledger
  <2>4. (\A o, p \in Ids : op[o].status = "ABSENT" /\ o <= p => op[p].status = "ABSENT")'
    BY <2>1 DEF TypeInv, Ledger
  <2>5. (\A o \in Ids : op[o].status = "ABSENT" => op[o].batch = 0 /\ op[o].attempts = 0)'
    BY <2>1 DEF TypeInv, Ledger
  <2>6. (\A o \in Ids : op[o].batch <= o)'
    BY <2>1 DEF TypeInv, Ledger
  <2> QED
    BY <2>3, <2>4, <2>5, <2>6 DEF Ledger
<1> QED
  BY <1>1, <1>4, <1>5, <1>7 DEF TypeInv, TypeOK

\* Writing the log and the pin keeps a row.
LEMMA PinTyped ==
    ASSUME TypeOK, NEW o \in Ids, NEW phase \in {"queue", "early", "late", "cancel"}, NEW sha \in Commits,
           op' = [op EXCEPT ![o].phase = phase, ![o].sha = sha]
    PROVE  /\ op' \in [Ids -> Rows]
           /\ \A p \in Ids : Kept(p) /\ (p # o => op'[p] = op[p])
           /\ op'[o].phase = phase /\ op'[o].sha = sha /\ op'[o].touched = op[o].touched
<1>1. op \in [Ids -> Rows] /\ op[o] \in Rows
  BY DEF TypeOK
<1>2. [op[o] EXCEPT !.phase = phase, !.sha = sha] \in Rows
  BY <1>1 DEF Rows
<1>3. op' \in [Ids -> Rows]
  BY <1>1, <1>2
<1>4. op'[o] = [op[o] EXCEPT !.phase = phase, !.sha = sha]
  BY <1>1
<1>5. \A p \in Ids : p # o => op'[p] = op[p]
  BY <1>1
<1> QED
  BY <1>1, <1>3, <1>4, <1>5 DEF Rows, Kept

\* The same for a row that only gets a new log.
LEMMA LogTyped ==
    ASSUME TypeOK, NEW o \in Ids, NEW phase \in {"queue", "early", "late", "cancel"},
           op' = [op EXCEPT ![o].phase = phase]
    PROVE  /\ op' \in [Ids -> Rows]
           /\ \A p \in Ids : Kept(p) /\ (p # o => op'[p] = op[p])
           /\ op'[o].phase = phase /\ op'[o].sha = op[o].sha
           /\ op'[o].touched = op[o].touched /\ op'[o].expired = op[o].expired
<1>1. op \in [Ids -> Rows] /\ op[o] \in Rows
  BY DEF TypeOK
<1>2. [op[o] EXCEPT !.phase = phase] \in Rows
  BY <1>1 DEF Rows
<1>3. op' \in [Ids -> Rows]
  BY <1>1, <1>2
<1>4. op'[o] = [op[o] EXCEPT !.phase = phase]
  BY <1>1
<1>5. \A p \in Ids : p # o => op'[p] = op[p]
  BY <1>1
<1> QED
  BY <1>1, <1>3, <1>4, <1>5 DEF Rows, Kept

\* An advance along the way is a quiet step.
LEMMA AdvanceQuiet ==
    ASSUME TypeInv, NEW w \in Workers, wk[w].pc # "idle", NEW next, OnWay(w, next), Advance(w, next)
    PROVE  /\ Quiet(w)
           /\ wk'[w] = Moved(w, next)
           /\ op'[wk[w].op].phase = Logged(w, next)
           /\ op'[wk[w].op].sha = Job(w).sha
           /\ op'[wk[w].op].touched = Job(w).touched
<1>1. TypeOK /\ next \in Steps /\ wk[w].op \in Ids
  BY JobTyped DEF TypeInv, OnWay
<1>2. Moved(w, next) \in Works /\ Moved(w, next).pc = next /\ Moved(w, next).op = wk[w].op
  BY <1>1, MovedTyped
<1>3. Logged(w, next) \in {"queue", "early", "late", "cancel"}
  BY <1>1, MovedTyped
<1>4. op' = [op EXCEPT ![wk[w].op].phase = Logged(w, next)]
  BY DEF Advance
<1>5. wk' = [wk EXCEPT ![w] = Moved(w, next)] /\ wk \in [Workers -> Works]
  BY DEF Advance, TypeInv, TypeOK
<1>6. wk' \in [Workers -> Works] /\ wk'[w] = Moved(w, next) /\ \A v \in Workers \ {w} : wk'[v] = wk[v]
  BY <1>2, <1>5
<1>7. /\ op' \in [Ids -> Rows]
      /\ \A p \in Ids : Kept(p) /\ (p # wk[w].op => op'[p] = op[p])
      /\ op'[wk[w].op].phase = Logged(w, next)
      /\ op'[wk[w].op].sha = op[wk[w].op].sha
      /\ op'[wk[w].op].touched = op[wk[w].op].touched
  BY <1>1, <1>3, <1>4, LogTyped
<1>8. wk'[w].op = wk[w].op /\ wk'[w].pc \in DOMAIN Path[Job(w).type] \cup {"done", "fail"}
  BY <1>2, <1>6 DEF OnWay
<1> QED
  BY <1>6, <1>7, <1>8 DEF Quiet, Job

\* Every path begins with "begin".
LEMMA BeginOnPath == \A type \in Types : "begin" \in DOMAIN Path[type]
<1> SUFFICES ASSUME NEW type \in Types PROVE "begin" \in DOMAIN Path[type]
  OBVIOUS
<1>1. CASE type = "START"
  BY <1>1 DEF Path
<1>2. CASE type = "STOP"
  BY <1>2 DEF Path
<1>3. CASE type = "DEPLOY"
  BY <1>3 DEF Path
<1>4. CASE type = "RESET"
  BY <1>4 DEF Path
<1>5. CASE type = "CANCEL_GAME"
  BY <1>5 DEF Path
<1>6. CASE type = "RELEASE"
  BY <1>6 DEF Path
<1> QED
  BY <1>1, <1>2, <1>3, <1>4, <1>5, <1>6 DEF Types

\* The first step of a handler is quiet: it reads the target and logs.
LEMMA BeginQuiet ==
    ASSUME TypeInv, NEW w \in Workers, Begin(w)
    PROVE  /\ Quiet(w) /\ wk'[w].stray = wk[w].stray /\ wk[w].pc = "begin"
           /\ \E next : /\ OnWay(w, next) /\ wk'[w].pc = next
                        /\ next \in {"fail", Path[Job(w).type]["begin"]}
                        /\ op'[wk[w].op].phase = Logged(w, next)
           /\ op'[wk[w].op].touched = Job(w).touched
           /\ wk'[w].status = site[Job(w).target].status
           /\ op'[wk[w].op].sha = Job(w).sha
<1> DEFINE t == Job(w).target
           refused == \/ Job(w).type = "START" /\ site[t].status # "STOPPED"
                      \/ Job(w).type \in {"STOP", "CANCEL_GAME"} /\ site[t].status \notin {"RUNNING", "STOPPED"}
           next == IF refused THEN "fail" ELSE Path[Job(w).type]["begin"]
           work == [Moved(w, next) EXCEPT !.old = site[t].commit, !.status = site[t].status,
                                          !.armed = (next = "clock")]
<1>1. wk[w].pc = "begin" /\ wk[w].pc # "idle" /\ TypeOK
  BY DEF Begin, At, TypeInv
<1>2. Job(w).type \in Types /\ t \in Targets /\ wk[w].op \in Ids
  BY <1>1, JobTyped
<1>3. OnWay(w, next) /\ next \in Steps
  <2>1. "fail" \in Steps /\ "begin" \in Early
    BY DEF Steps, Fenced, Early
  <2> QED
    BY <1>1, <1>2, <2>1, BeginOnPath, PathClosed DEF OnWay
<1>4. /\ wk' = [wk EXCEPT ![w] = work]
      /\ op' = [op EXCEPT ![wk[w].op].phase = Logged(w, next)]
  BY DEF Begin
<1> HIDE DEF next
<1>5. /\ Moved(w, next) \in Works /\ Moved(w, next).pc = next /\ Moved(w, next).op = wk[w].op
      /\ Moved(w, next).stray = wk[w].stray
      /\ Logged(w, next) \in {"queue", "early", "late", "cancel"}
  BY <1>1, <1>3, MovedTyped
<1>6. site[t].commit \in Commits /\ site[t].status \in {"RUNNING", "STOPPED", "RESERVED", "CANCELLED"}
  BY <1>1, <1>2 DEF TypeOK
<1>7. /\ work \in Works /\ work.pc = next /\ work.op = wk[w].op /\ work.stray = wk[w].stray
      /\ work.status = site[t].status
  BY <1>5, <1>6 DEF Works
<1> HIDE DEF work
<1>8. wk \in [Workers -> Works]
  BY <1>1 DEF TypeOK
<1>9. wk' \in [Workers -> Works] /\ wk'[w] = work /\ \A v \in Workers \ {w} : wk'[v] = wk[v]
  BY <1>4, <1>7, <1>8
<1>10. /\ op' \in [Ids -> Rows]
       /\ \A p \in Ids : Kept(p) /\ (p # wk[w].op => op'[p] = op[p])
       /\ op'[wk[w].op].phase = Logged(w, next)
       /\ op'[wk[w].op].sha = op[wk[w].op].sha
       /\ op'[wk[w].op].touched = op[wk[w].op].touched
  BY <1>1, <1>2, <1>4, <1>5, LogTyped
<1>11. wk'[w].op = wk[w].op /\ wk'[w].pc \in DOMAIN Path[Job(w).type] \cup {"done", "fail"}
  BY <1>3, <1>7, <1>9 DEF OnWay
<1>12. Quiet(w)
  BY <1>1, <1>9, <1>10, <1>11 DEF Quiet
<1>13. next \in {"fail", Path[Job(w).type]["begin"]}
  BY DEF next
<1> QED
  BY <1>1, <1>3, <1>7, <1>9, <1>10, <1>12, <1>13 DEF Job

\* Pinning is quiet; on the path it leaves the pinned commit in both the row and the worker.
LEMMA PinQuiet ==
    ASSUME TypeInv, NEW w \in Workers, NEW commit \in Commits, Pin(w, commit)
    PROVE  /\ Quiet(w) /\ wk'[w].stray = wk[w].stray /\ wk[w].pc = "pin" /\ wk'[w].status = wk[w].status
           /\ \E next : /\ OnWay(w, next) /\ wk'[w].pc = next
                        /\ op'[wk[w].op].phase = Logged(w, next)
           /\ op'[wk[w].op].touched = Job(w).touched
           /\ wk'[w].pc = "fail" \/ (wk'[w].commit = commit /\ op'[wk[w].op].sha = commit)
<1>1. wk[w].pc = "pin" /\ wk[w].pc \notin {"idle", "done", "fail"} /\ TypeOK /\ wk[w].op \in Ids
  BY JobTyped DEF Pin, At, TypeInv
<1>2. CASE Job(w).sha \in {None, commit}
  <2> DEFINE next == Following(w)
             work == [Moved(w, next) EXCEPT !.commit = commit]
  <2>1. /\ wk' = [wk EXCEPT ![w] = work]
        /\ op' = [op EXCEPT ![wk[w].op].phase = Logged(w, next), ![wk[w].op].sha = commit]
    BY <1>2 DEF Pin
  <2>2. OnWay(w, next) /\ next \in Steps
    BY <1>1, FollowingOnWay DEF OnWay
  <2> HIDE DEF next
  <2>3. /\ Moved(w, next) \in Works /\ Moved(w, next).pc = next /\ Moved(w, next).op = wk[w].op
        /\ Moved(w, next).stray = wk[w].stray /\ Moved(w, next).status = wk[w].status
        /\ Logged(w, next) \in {"queue", "early", "late", "cancel"}
    <3>1. wk[w] \in Works
      BY <1>1, JobTyped
    <3> QED
      BY <1>1, <2>2, <3>1, MovedTyped DEF Moved, Works
  <2>4. /\ work \in Works /\ work.pc = next /\ work.op = wk[w].op /\ work.stray = wk[w].stray
        /\ work.commit = commit /\ work.status = wk[w].status
    BY <2>3 DEF Works
  <2> HIDE DEF work
  <2>5. wk \in [Workers -> Works] /\ op \in [Ids -> Rows]
    BY <1>1 DEF TypeOK
  <2>6. wk' \in [Workers -> Works] /\ wk'[w] = work /\ \A v \in Workers \ {w} : wk'[v] = wk[v]
    BY <2>1, <2>4, <2>5
  <2>7. /\ op' \in [Ids -> Rows]
        /\ \A p \in Ids : Kept(p) /\ (p # wk[w].op => op'[p] = op[p])
        /\ op'[wk[w].op].phase = Logged(w, next) /\ op'[wk[w].op].sha = commit
        /\ op'[wk[w].op].touched = op[wk[w].op].touched
    BY <1>1, <2>1, <2>3, PinTyped
  <2>10. Quiet(w)
    BY <1>1, <2>2, <2>4, <2>6, <2>7 DEF Quiet, OnWay
  <2> QED
    BY <1>1, <2>2, <2>4, <2>6, <2>7, <2>10 DEF Job
<1>3. CASE Job(w).sha \notin {None, commit}
  <2>1. Advance(w, "fail")
    BY <1>3 DEF Pin
  <2>2. OnWay(w, "fail") /\ "fail" \in Steps
    BY DEF OnWay, Steps, Fenced, Early
  <2>3. Moved(w, "fail").pc = "fail" /\ Moved(w, "fail").stray = wk[w].stray /\ Moved(w, "fail").status = wk[w].status
    <3>1. wk[w] \in Works
      BY <1>1, JobTyped
    <3> QED
      BY <1>1, <2>2, <3>1, MovedTyped DEF Moved, Works
  <2> QED
    BY <1>1, <2>1, <2>2, <2>3, AdvanceQuiet
<1> QED
  BY <1>2, <1>3

\* What an effect writes in its row.
LEMMA TouchTyped ==
    ASSUME TypeOK, NEW o \in Ids, NEW phase \in {"queue", "early", "late", "cancel"},
           op' = [op EXCEPT ![o].touched = TRUE, ![o].phase = phase]
    PROVE  /\ op' \in [Ids -> Rows]
           /\ \A p \in Ids : Kept(p) /\ (p # o => op'[p] = op[p])
           /\ op'[o].phase = phase /\ op'[o].sha = op[o].sha /\ op'[o].touched = TRUE
<1>1. op \in [Ids -> Rows] /\ op[o] \in Rows
  BY DEF TypeOK
<1>2. [op[o] EXCEPT !.touched = TRUE, !.phase = phase] \in Rows
  BY <1>1 DEF Rows
<1>3. op' \in [Ids -> Rows]
  BY <1>1, <1>2
<1>4. op'[o] = [op[o] EXCEPT !.touched = TRUE, !.phase = phase]
  BY <1>1
<1>5. \A p \in Ids : p # o => op'[p] = op[p]
  BY <1>1
<1> QED
  BY <1>1, <1>3, <1>4, <1>5 DEF Rows, Kept

\* An effect is a quiet step; the next one needs a new assertion, except in a controller's loop.
LEMMA TouchQuiet ==
    ASSUME TypeInv, NEW w \in Workers, wk[w].pc \in Effects, NEW next,
           next = wk[w].pc \/ OnWay(w, next), Touch(w, next)
    PROVE  /\ Quiet(w)
           /\ wk'[w].pc = next
           /\ wk'[w].todo = IF next = wk[w].pc THEN wk[w].todo \ Foremost(wk[w].todo) ELSE Work(w, next)
           /\ w \in Orchestrators => ~wk'[w].armed
           /\ wk'[w].stray = IF Holds(w) THEN wk[w].stray ELSE wk[w].stray + 1
           /\ wk'[w].commit = wk[w].commit /\ wk'[w].status = wk[w].status
           /\ op'[wk[w].op].phase = IF next = wk[w].pc THEN Job(w).phase ELSE Logged(w, next)
           /\ op'[wk[w].op].sha = Job(w).sha
           /\ op'[wk[w].op].touched = TRUE
           /\ Covered(w)
           /\ strayed' = IF Holds(w) THEN strayed ELSE strayed \cup {Job(w).target}
           /\ UNCHANGED <<site, faults>>
<1> DEFINE stays == next = wk[w].pc
           todo == IF stays THEN wk[w].todo \ Foremost(wk[w].todo) ELSE Work(w, next)
           armed == stays /\ w \in Controllers /\ wk[w].armed
           stray == IF Holds(w) THEN wk[w].stray ELSE wk[w].stray + 1
           phase == IF stays THEN op[wk[w].op].phase ELSE Logged(w, next)
<1>1. wk[w].pc # "idle" /\ wk[w].pc \in Steps /\ TypeOK
  BY DEF Effects, Stops, Starts, Steps, TypeInv
<1>2. wk[w].op \in Ids /\ wk[w] \in Works /\ Job(w) \in Rows
  BY <1>1, JobTyped
<1>3. next \in Steps /\ next \in DOMAIN Path[Job(w).type] \cup {"done", "fail"}
  BY <1>1 DEF OnWay, TypeInv, OnPath
<1>4. todo \in SUBSET Names
  BY <1>1, <1>2, <1>3, MovedTyped DEF Works
<1>5. armed \in BOOLEAN /\ stray \in Nat
  BY <1>2 DEF Works
<1>6. phase \in {"queue", "early", "late", "cancel"}
  BY <1>1, <1>2, <1>3, MovedTyped DEF Rows, Job
<1>7. wk' = [wk EXCEPT ![w].pc = next, ![w].todo = todo, ![w].armed = armed, ![w].stray = stray]
  <2>1. wk' = [wk EXCEPT ![w].pc = next,
                         ![w].todo = IF next = wk[w].pc THEN @ \ Foremost(@) ELSE Work(w, next),
                         ![w].armed = next = wk[w].pc /\ w \in Controllers /\ @,
                         ![w].stray = IF Holds(w) THEN @ ELSE @ + 1]
    BY DEF Touch
  <2>2. wk \in [Workers -> Works]
    BY <1>1 DEF TypeOK
  <2> QED
    BY <1>2, <2>1, <2>2 DEF Works
<1>8. op' = [op EXCEPT ![wk[w].op].touched = TRUE, ![wk[w].op].phase = phase]
  <2>1. op' = [op EXCEPT ![wk[w].op].touched = TRUE,
                         ![wk[w].op].phase = IF next = wk[w].pc THEN @ ELSE Logged(w, next)]
    BY DEF Touch
  <2>2. op \in [Ids -> Rows]
    BY <1>1 DEF TypeOK
  <2> QED
    BY <1>2, <2>1, <2>2 DEF Rows
<1> HIDE DEF todo, armed, stray, phase
<1>9. /\ op' \in [Ids -> Rows]
      /\ \A p \in Ids : Kept(p) /\ (p # wk[w].op => op'[p] = op[p])
      /\ op'[wk[w].op].phase = phase /\ op'[wk[w].op].sha = op[wk[w].op].sha
      /\ op'[wk[w].op].touched = TRUE
  BY <1>1, <1>2, <1>6, <1>8, TouchTyped
<1>10. /\ wk' \in [Workers -> Works]
       /\ \A v \in Workers \ {w} : wk'[v] = wk[v]
       /\ wk'[w].pc = next /\ wk'[w].op = wk[w].op /\ wk'[w].todo = todo
       /\ wk'[w].armed = armed /\ wk'[w].stray = stray
       /\ wk'[w].commit = wk[w].commit /\ wk'[w].status = wk[w].status
  <2>1. wk \in [Workers -> Works]
    BY <1>1 DEF TypeOK
  <2>2. [wk[w] EXCEPT !.pc = next, !.todo = todo, !.armed = armed, !.stray = stray] \in Works
    BY <1>2, <1>3, <1>4, <1>5 DEF Works
  <2>3. wk'[w] = [wk[w] EXCEPT !.pc = next, !.todo = todo, !.armed = armed, !.stray = stray]
    BY <1>7, <2>1
  <2>4. wk' \in [Workers -> Works] /\ \A v \in Workers \ {w} : wk'[v] = wk[v]
    BY <1>7, <2>1, <2>2
  <2> QED
    BY <1>2, <2>3, <2>4 DEF Works
<1>11. Quiet(w)
  BY <1>1, <1>3, <1>9, <1>10 DEF Quiet
<1>12. w \in Orchestrators => ~armed
  BY WorkersAssumption DEF armed
<1>13. Covered(w) /\ strayed' = (IF Holds(w) THEN strayed ELSE strayed \cup {Job(w).target})
       /\ UNCHANGED <<site, faults>>
  BY DEF Touch
<1> QED
  BY <1>9, <1>10, <1>11, <1>12, <1>13 DEF todo, stray, phase, Job

\* A failure is a quiet step onto the way of recovery.
LEMMA FailQuiet ==
    ASSUME TypeInv, NEW w \in Workers,
           NEW status \in {"RUNNING", "STOPPED", "RESERVED", "CANCELLED"}, Fail(w, status)
    PROVE  /\ Quiet(w)
           /\ wk[w].pc \notin {"idle", "begin", "fail"}
           /\ wk'[w].pc = Recovery(w) /\ wk'[w].stray = wk[w].stray /\ ~wk'[w].armed
           /\ op'[wk[w].op].phase = Logged(w, Recovery(w))
           /\ op'[wk[w].op].touched = Job(w).touched
<1> DEFINE next == Recovery(w)
           work == [Moved(w, next) EXCEPT !.status = status]
<1>1. wk[w].pc \notin {"idle", "begin", "fail"} /\ TypeOK /\ wk[w].op \in Ids
  BY JobTyped DEF Fail, TypeInv
<1>2. OnWay(w, next) /\ next \in Steps
  BY <1>1, RecoveryOnWay DEF OnWay
<1>3. /\ wk' = [wk EXCEPT ![w] = work]
      /\ op' = [op EXCEPT ![wk[w].op].phase = Logged(w, next)]
  BY DEF Fail
<1>4. /\ Moved(w, next) \in Works /\ Moved(w, next).pc = next /\ Moved(w, next).op = wk[w].op
      /\ Moved(w, next).stray = wk[w].stray /\ Moved(w, next).armed = FALSE
      /\ Logged(w, next) \in {"queue", "early", "late", "cancel"}
  BY <1>1, <1>2, MovedTyped
<1> HIDE DEF next
<1>5. /\ work \in Works /\ work.pc = next /\ work.op = wk[w].op /\ work.stray = wk[w].stray
      /\ ~work.armed
  BY <1>4 DEF Works
<1> HIDE DEF work
<1>6. wk \in [Workers -> Works]
  BY <1>1 DEF TypeOK
<1>7. wk' \in [Workers -> Works] /\ wk'[w] = work /\ \A v \in Workers \ {w} : wk'[v] = wk[v]
  BY <1>3, <1>5, <1>6
<1>8. /\ op' \in [Ids -> Rows]
      /\ \A p \in Ids : Kept(p) /\ (p # wk[w].op => op'[p] = op[p])
      /\ op'[wk[w].op].phase = Logged(w, next)
      /\ op'[wk[w].op].touched = op[wk[w].op].touched
  BY <1>1, <1>3, <1>4, LogTyped
<1>9. Quiet(w)
  BY <1>1, <1>2, <1>5, <1>7, <1>8 DEF Quiet, OnWay
<1> QED
  BY <1>1, <1>5, <1>7, <1>8, <1>9 DEF next, Job

\* A renewal of the lease changes nothing but its end.
LEMMA RenewTyped ==
    ASSUME TypeOK, NEW o \in Ids, NEW expired \in BOOLEAN, op' = [op EXCEPT ![o].expired = expired]
    PROVE  /\ op' \in [Ids -> Rows]
           /\ \A p \in Ids : Kept(p) /\ (p # o => op'[p] = op[p])
           /\ op'[o].phase = op[o].phase /\ op'[o].sha = op[o].sha /\ op'[o].touched = op[o].touched
<1>1. op \in [Ids -> Rows] /\ op[o] \in Rows
  BY DEF TypeOK
<1>2. [op[o] EXCEPT !.expired = expired] \in Rows
  BY <1>1 DEF Rows
<1>3. op' \in [Ids -> Rows]
  BY <1>1, <1>2
<1>4. op'[o] = [op[o] EXCEPT !.expired = expired]
  BY <1>1
<1>5. \A p \in Ids : p # o => op'[p] = op[p]
  BY <1>1
<1> QED
  BY <1>1, <1>3, <1>4, <1>5 DEF Rows, Kept

\* assertOperationLease changes nothing but the lease.
LEMMA AssertQuiet ==
    ASSUME TypeInv, NEW w \in Workers, AssertLease(w)
    PROVE  /\ Quiet(w) /\ Holds(w)
           /\ wk'[w] = [wk[w] EXCEPT !.armed = TRUE]
           /\ op'[wk[w].op].phase = Job(w).phase /\ op'[wk[w].op].sha = Job(w).sha
           /\ op'[wk[w].op].touched = Job(w).touched
<1>1. Holds(w) /\ wk[w].pc # "idle" /\ TypeOK
  BY DEF AssertLease, Holds, TypeInv
<1>2. wk[w].op \in Ids /\ wk[w] \in Works
  BY <1>1, JobTyped
<1>3. op' = [op EXCEPT ![wk[w].op].expired = FALSE] /\ wk' = [wk EXCEPT ![w].armed = TRUE]
  BY DEF AssertLease
<1>4. /\ op' \in [Ids -> Rows]
      /\ \A p \in Ids : Kept(p) /\ (p # wk[w].op => op'[p] = op[p])
      /\ op'[wk[w].op].phase = op[wk[w].op].phase /\ op'[wk[w].op].sha = op[wk[w].op].sha
      /\ op'[wk[w].op].touched = op[wk[w].op].touched
  BY <1>1, <1>2, <1>3, RenewTyped
<1>5. [wk[w] EXCEPT !.armed = TRUE] \in Works /\ wk \in [Workers -> Works]
  BY <1>1, <1>2 DEF Works, TypeOK
<1>6. wk' \in [Workers -> Works] /\ wk'[w] = [wk[w] EXCEPT !.armed = TRUE] /\ \A v \in Workers \ {w} : wk'[v] = wk[v]
  BY <1>3, <1>5
<1>7. wk'[w].op = wk[w].op /\ wk'[w].pc = wk[w].pc
  BY <1>2, <1>6 DEF Works
<1>8. Quiet(w)
  BY <1>1, <1>4, <1>6, <1>7 DEF Quiet, TypeInv, OnPath
<1> QED
  BY <1>1, <1>4, <1>6, <1>8 DEF Job

\* A heartbeat changes nothing but the lease.
LEMMA HeartbeatQuiet ==
    ASSUME TypeInv, NEW w \in Workers, Heartbeat(w)
    PROVE  /\ Quiet(w) /\ wk' = wk
           /\ op'[wk[w].op].phase = Job(w).phase /\ op'[wk[w].op].sha = Job(w).sha
           /\ op'[wk[w].op].touched = Job(w).touched
<1>1. Holds(w) /\ wk[w].pc # "idle" /\ TypeOK
  BY DEF Heartbeat, Holds, TypeInv
<1>2. wk[w].op \in Ids
  BY <1>1, JobTyped
<1>3. op' = [op EXCEPT ![wk[w].op].expired = FALSE] /\ wk' = wk
  BY DEF Heartbeat
<1>4. /\ op' \in [Ids -> Rows]
      /\ \A p \in Ids : Kept(p) /\ (p # wk[w].op => op'[p] = op[p])
      /\ op'[wk[w].op].phase = op[wk[w].op].phase /\ op'[wk[w].op].sha = op[wk[w].op].sha
      /\ op'[wk[w].op].touched = op[wk[w].op].touched
  BY <1>1, <1>2, <1>3, RenewTyped
<1> QED
  BY <1>1, <1>3, <1>4 DEF Quiet, TypeInv, OnPath, TypeOK, Job

\* A line of build output only writes the log's class.
LEMMA OutputQuiet ==
    ASSUME TypeInv, NEW w \in Workers, BuildOutput(w)
    PROVE  /\ Quiet(w) /\ wk' = wk /\ wk[w].pc = "build"
           /\ op'[wk[w].op].sha = Job(w).sha /\ op'[wk[w].op].touched = Job(w).touched
<1>1. wk[w].pc = "build" /\ TypeOK
  BY DEF BuildOutput, At, TypeInv
<1>2. wk[w].op \in Ids
  BY <1>1, JobTyped
<1>3. op' = [op EXCEPT ![wk[w].op].phase = "early"] /\ wk' = wk
  BY DEF BuildOutput
<1>4. /\ op' \in [Ids -> Rows]
      /\ \A p \in Ids : Kept(p) /\ (p # wk[w].op => op'[p] = op[p])
      /\ op'[wk[w].op].sha = op[wk[w].op].sha
      /\ op'[wk[w].op].touched = op[wk[w].op].touched
  BY <1>1, <1>2, <1>3, LogTyped
<1> QED
  BY <1>1, <1>3, <1>4 DEF Quiet, TypeInv, OnPath, TypeOK, Job

\* An idle worker is well typed.
LEMMA IdleTyped == Idle \in Works
  BY CommitsAssumption, BoundsAssumption DEF Idle, Works

\* A worker that gives up or dies.
LEMMA LeaveQuiet ==
    ASSUME TypeInv, NEW w \in Workers, Drop(w) \/ Crash(w)
    PROVE  /\ Quiet(w) /\ wk'[w] = Idle
           /\ Drop(w) => ~Holds(w)
           /\ op'[wk[w].op].sha = Job(w).sha /\ op'[wk[w].op].touched = Job(w).touched
           /\ op'[wk[w].op].phase \in {Job(w).phase, "late", "cancel"}
<1>1. wk[w].pc # "idle" /\ TypeOK /\ (Drop(w) => ~Holds(w))
  BY DEF Drop, Crash, TypeInv
<1>2. wk[w].op \in Ids /\ wk \in [Workers -> Works]
  BY <1>1, JobTyped DEF TypeOK
<1>3. wk' = [wk EXCEPT ![w] = Idle]
  BY DEF Drop, Crash
<1>4. wk' \in [Workers -> Works] /\ wk'[w] = Idle /\ \A v \in Workers \ {w} : wk'[v] = wk[v]
  BY <1>2, <1>3, IdleTyped
<1>5. op' = op \/ op' = [op EXCEPT ![wk[w].op].phase = "late"] \/ op' = [op EXCEPT ![wk[w].op].phase = "cancel"]
  BY DEF Drop, Crash
<1>6. /\ op' \in [Ids -> Rows]
      /\ \A p \in Ids : Kept(p) /\ (p # wk[w].op => op'[p] = op[p])
      /\ op'[wk[w].op].sha = op[wk[w].op].sha
      /\ op'[wk[w].op].touched = op[wk[w].op].touched
      /\ op'[wk[w].op].phase \in {op[wk[w].op].phase, "late", "cancel"}
  <2>1. CASE op' = op
    BY <1>1, <2>1 DEF Kept, TypeOK
  <2>2. CASE op' = [op EXCEPT ![wk[w].op].phase = "late"]
    BY <1>1, <1>2, <2>2, LogTyped
  <2>3. CASE op' = [op EXCEPT ![wk[w].op].phase = "cancel"]
    BY <1>1, <1>2, <2>3, LogTyped
  <2> QED
    BY <1>5, <2>1, <2>2, <2>3
<1> QED
  BY <1>1, <1>4, <1>6 DEF Quiet, Job

-----------------------------------------------------------------------------
(* Type correctness. *)

\* The state outside rows and workers is well typed.
WorldTyped ==
    /\ site \in [Targets -> [status : {"RUNNING", "STOPPED", "RESERVED", "CANCELLED"},
                             commit : Commits, previous : Commits \cup {None}]]
    /\ procs \in [Targets -> [Names -> Commits \cup {None}]]
    /\ world \in [Profiles -> [key : 0..MaxOps, commit : Commits, played : BOOLEAN]]
    /\ strayed \in SUBSET Targets
    /\ faults \in 0..MaxFaults

\* A step inside one handler keeps the type invariant.
LEMMA QuietTyped ==
    ASSUME TypeInv, NEW w \in Workers, Quiet(w), WorldTyped'
    PROVE  TypeInv'
  BY QuietKeeps DEF TypeInv, TypeOK, WorldTyped, Quiet

\* Steps that write at most the target's row advance along the way.
Advances(w) ==
    \/ Build(w) \/ LoopDone(w) \/ Ready(w) \/ Mark(w) \/ SetStatus(w)
    \/ \E status \in {"RUNNING", "STOPPED", "RESERVED", "CANCELLED"} : Publish(w, status)

\* Such a step follows the handler's way, and writes the target's row only under the lease.
LEMMA AdvancesOnWay ==
    ASSUME TypeInv, NEW w \in Workers, Advances(w)
    PROVE  /\ wk[w].pc \notin {"idle", "done", "fail"}
           /\ \E next : OnWay(w, next) /\ Advance(w, next)
           /\ WorldTyped'
           /\ UNCHANGED <<procs, world, strayed, faults>>
           /\ site' # site => Holds(w) /\ \A t \in Targets \ {Job(w).target} : site'[t] = site[t]
<1> DEFINE S == [status : {"RUNNING", "STOPPED", "RESERVED", "CANCELLED"},
                 commit : Commits, previous : Commits \cup {None}]
<1>1. wk[w].pc \notin {"idle", "done", "fail"}
  BY DEF Advances, Build, LoopDone, Ready, Mark, SetStatus, Publish, At, Stops, Starts
<1>2. OnWay(w, Following(w)) /\ OnWay(w, "done")
  BY <1>1, FollowingOnWay DEF OnWay, Steps, Fenced, Early
<1>3. WorldTyped /\ Job(w).target \in Targets /\ wk[w] \in Works
  BY <1>1, JobTyped DEF TypeInv, TypeOK, WorldTyped
<1>4. ASSUME NEW row \in S, NEW next, OnWay(w, next), Write(w, row, next)
      PROVE  /\ Advance(w, next) /\ Holds(w) /\ WorldTyped'
             /\ UNCHANGED <<procs, world, strayed, faults>>
             /\ \A t \in Targets \ {Job(w).target} : site'[t] = site[t]
  <2>1. site' = [site EXCEPT ![Job(w).target] = row] /\ UNCHANGED <<procs, world, strayed, faults>>
    BY <1>4 DEF Write
  <2>2. site' \in [Targets -> S] /\ \A t \in Targets \ {Job(w).target} : site'[t] = site[t]
    BY <1>3, <1>4, <2>1 DEF WorldTyped
  <2> QED
    BY <1>3, <1>4, <2>1, <2>2 DEF WorldTyped, Write
<1>5. site[Job(w).target] \in S /\ wk[w].commit \in Commits /\ wk[w].old \in Commits
      /\ wk[w].status \in {"RUNNING", "STOPPED", "RESERVED", "CANCELLED"}
  BY <1>3 DEF WorldTyped, Works
<1>6. CASE Build(w) \/ LoopDone(w) \/ Ready(w)
  BY <1>1, <1>2, <1>3, <1>6 DEF Build, LoopDone, Ready, WorldTyped
<1>7. CASE Mark(w)
  <2> DEFINE row == [site[Job(w).target] EXCEPT !.commit = IF Job(w).type = "RESET" THEN wk[w].commit ELSE @]
  <2>1. row \in S
    BY <1>5
  <2>2. Write(w, row, Following(w))
    BY <1>7 DEF Mark
  <2> HIDE DEF row, S
  <2> QED
    BY <1>1, <1>2, <1>4, <2>1, <2>2
<1>8. CASE SetStatus(w)
  <2>1. \E status \in {"RUNNING", "STOPPED", "RESERVED", "CANCELLED"} :
          Write(w, [site[Job(w).target] EXCEPT !.status = status], Following(w))
    BY <1>5, <1>8 DEF SetStatus, At
  <2>2. PICK status \in {"RUNNING", "STOPPED", "RESERVED", "CANCELLED"} :
          Write(w, [site[Job(w).target] EXCEPT !.status = status], Following(w))
    BY <2>1
  <2>3. [site[Job(w).target] EXCEPT !.status = status] \in S
    BY <1>5
  <2> HIDE DEF S
  <2> QED
    BY <1>1, <1>2, <1>4, <2>2, <2>3
<1>9. CASE \E status \in {"RUNNING", "STOPPED", "RESERVED", "CANCELLED"} : Publish(w, status)
  <2>1. PICK status \in {"RUNNING", "STOPPED", "RESERVED", "CANCELLED"} : Publish(w, status)
    BY <1>9
  <2> DEFINE published == [site[Job(w).target] EXCEPT !.commit = wk[w].commit]
  <2>2. /\ published \in S
        /\ [published EXCEPT !.status = status] \in S
        /\ [published EXCEPT !.previous = wk[w].old] \in S
    BY <1>5
  <2>3. \/ Write(w, published, Following(w))
        \/ \E next \in {"done", Following(w)} : Write(w, [published EXCEPT !.status = status], next)
        \/ Write(w, [published EXCEPT !.previous = wk[w].old], Following(w))
    BY <2>1 DEF Publish
  <2> HIDE DEF S, published
  <2> QED
    BY <1>1, <1>2, <1>4, <2>2, <2>3
<1> QED
  BY <1>6, <1>7, <1>8, <1>9 DEF Advances

\* What PM2 and the seeder change.
Effect(w) ==
    \/ ClockOrSchema(w) \/ Seed(w)
    \/ \E r \in Names : StopProcess(w, r) \/ StartProcess(w, r)

\* An effect follows the way or repeats its loop, touches one target, and only seeding makes a season.
LEMMA EffectOnWay ==
    ASSUME TypeInv, NEW w \in Workers, Effect(w)
    PROVE  /\ wk[w].pc \in Effects
           /\ \E next : (next = wk[w].pc \/ OnWay(w, next)) /\ Touch(w, next)
           /\ WorldTyped'
           /\ site' = site
           /\ \A t \in Targets \ {Job(w).target} : procs'[t] = procs[t]
           /\ world' # world => Seed(w)
<1>1. wk[w].pc \in Effects /\ wk[w].pc \notin {"idle", "done", "fail"}
  BY DEF Effect, ClockOrSchema, Seed, StopProcess, StartProcess, At, Effects, Stops, Starts
<1>2. OnWay(w, Following(w)) /\ Job(w).target \in Targets /\ wk[w] \in Works /\ Job(w) \in Rows /\ WorldTyped
  BY <1>1, FollowingOnWay, JobTyped DEF TypeInv, TypeOK, WorldTyped
<1>3. PICK next : (next = wk[w].pc \/ next = Following(w)) /\ Touch(w, next)
  BY DEF Effect, ClockOrSchema, Seed, StopProcess, StartProcess
<1>4. strayed' \in SUBSET Targets /\ site' = site /\ faults' = faults
  <2>1. strayed' = (IF Holds(w) THEN strayed ELSE strayed \cup {Job(w).target}) /\ UNCHANGED <<site, faults>>
    BY <1>3 DEF Touch
  <2> QED
    BY <1>2, <2>1 DEF WorldTyped
<1>5. world' # world => Seed(w)
  BY DEF Effect, ClockOrSchema, StopProcess, StartProcess
<1>6. procs' \in [Targets -> [Names -> Commits \cup {None}]]
      /\ \A t \in Targets \ {Job(w).target} : procs'[t] = procs[t]
  <2>1. \/ procs' = procs
        \/ \E r \in Names, c \in Commits \cup {None} : procs' = [procs EXCEPT ![Job(w).target][r] = c]
    BY <1>2 DEF Effect, ClockOrSchema, Seed, StopProcess, StartProcess, Works
  <2>2. CASE procs' = procs
    BY <1>2, <2>2 DEF WorldTyped
  <2>3. ASSUME NEW r \in Names, NEW c \in Commits \cup {None}, procs' = [procs EXCEPT ![Job(w).target][r] = c]
        PROVE  procs' \in [Targets -> [Names -> Commits \cup {None}]]
               /\ \A t \in Targets \ {Job(w).target} : procs'[t] = procs[t]
    BY <1>2, <2>3 DEF WorldTyped
  <2> QED
    BY <2>1, <2>2, <2>3
<1>7. world' \in [Profiles -> [key : 0..MaxOps, commit : Commits, played : BOOLEAN]]
  <2>1. CASE world' = world
    BY <1>2, <2>1 DEF WorldTyped
  <2>2. CASE world' # world
    <3>1. Seed(w) /\ wk[w].pc = "seed"
      BY <1>5, <2>2 DEF Seed, At
    <3>2. Job(w).target \in Profiles
      <4>1. "seed" \notin DOMAIN Path["RELEASE"]
        BY DEF Path
      <4>2. Job(w).type # "RELEASE"
        BY <3>1, <4>1 DEF TypeInv, OnPath
      <4> QED
        BY <1>2, <3>1, <4>2, JobTyped DEF TypeInv, TypeOK, Targets, Job
    <3>3. world' = [world EXCEPT ![Job(w).target] = [key |-> Job(w).key, commit |-> wk[w].commit, played |-> FALSE]]
      BY <2>2, <3>1 DEF Seed
    <3>4. Job(w).key \in 0..MaxOps /\ wk[w].commit \in Commits
      BY <1>2, BoundsAssumption DEF Rows, Works, Ids
    <3> DEFINE season == [key |-> Job(w).key, commit |-> wk[w].commit, played |-> FALSE]
    <3>5. season \in [key : 0..MaxOps, commit : Commits, played : BOOLEAN]
      BY <3>4
    <3> HIDE DEF season
    <3>6. world' = [world EXCEPT ![Job(w).target] = season]
      BY <3>3 DEF season
    <3> QED
      BY <1>2, <3>2, <3>5, <3>6 DEF WorldTyped
  <2> QED
    BY <2>1, <2>2
<1> QED
  BY <1>1, <1>2, <1>3, <1>4, <1>5, <1>6, <1>7 DEF WorldTyped

\* A step of a worker about the row it claimed, other than its end.
Inner(w) ==
    \/ Begin(w) \/ \E commit \in Commits : Pin(w, commit)
    \/ Advances(w) \/ Effect(w) \/ AssertLease(w)
    \/ \E status \in {"RUNNING", "STOPPED", "RESERVED", "CANCELLED"} : Fail(w, status)
    \/ Drop(w) \/ Heartbeat(w) \/ BuildOutput(w) \/ Crash(w)

\* Every step inside a handler stays in its own operation.
LEMMA InnerQuiet ==
    ASSUME TypeInv, NEW w \in Workers, Inner(w)
    PROVE  Quiet(w) /\ WorldTyped'
<1>0. WorldTyped
  BY DEF TypeInv, TypeOK, WorldTyped
<1>1. CASE Begin(w)
  BY <1>0, <1>1, BeginQuiet DEF Begin, WorldTyped
<1>2. CASE \E commit \in Commits : Pin(w, commit)
  BY <1>0, <1>2, PinQuiet DEF Pin, WorldTyped
<1>3. CASE Advances(w)
  BY <1>3, AdvancesOnWay, AdvanceQuiet
<1>4. CASE Effect(w)
  BY <1>4, EffectOnWay, TouchQuiet
<1>5. CASE AssertLease(w)
  BY <1>0, <1>5, AssertQuiet DEF AssertLease, WorldTyped
<1>6. CASE \E status \in {"RUNNING", "STOPPED", "RESERVED", "CANCELLED"} : Fail(w, status)
  <2>1. Quiet(w)
    BY <1>6, FailQuiet
  <2>2. UNCHANGED <<site, procs, world, strayed>> /\ faults' \in 0..MaxFaults
    BY <1>0, <1>6, BoundsAssumption DEF Fail, WorldTyped
  <2> QED
    BY <1>0, <2>1, <2>2 DEF WorldTyped
<1>7. CASE Drop(w)
  BY <1>0, <1>7, LeaveQuiet DEF Drop, WorldTyped
<1>8. CASE Heartbeat(w)
  BY <1>0, <1>8, HeartbeatQuiet DEF Heartbeat, WorldTyped
<1>9. CASE BuildOutput(w)
  BY <1>0, <1>9, OutputQuiet DEF BuildOutput, WorldTyped
<1>10. CASE Crash(w)
  <2>1. UNCHANGED <<site, procs, world, strayed>> /\ faults' \in 0..MaxFaults
    BY <1>0, <1>10, BoundsAssumption DEF Crash, WorldTyped
  <2> QED
    BY <1>0, <1>10, <2>1, LeaveQuiet DEF WorldTyped
<1> QED
  BY <1>1, <1>2, <1>3, <1>4, <1>5, <1>6, <1>7, <1>8, <1>9, <1>10 DEF Inner

\* What a row keeps once it is there: its request, and what earlier attempts have done.
Same(o) ==
    /\ op'[o].target = op[o].target /\ op'[o].type = op[o].type
    /\ op'[o].key = op[o].key /\ op'[o].batch = op[o].batch
    /\ op'[o].touched = op[o].touched
    /\ op'[o].status = "ABSENT" <=> op[o].status = "ABSENT"

\* A worker goes on, becomes idle or begins with a row it has claimed.
Enters(v) ==
    \/ wk'[v] = wk[v]
    \/ wk'[v] = Idle
    \/ /\ wk'[v].pc = "begin" /\ wk'[v].op \in Ids
       /\ v \in Controllers <=> op[wk'[v].op].type = "RELEASE"
       /\ op'[wk'[v].op].attempts # 0

\* Steps that keep what rows are for, and that workers leave or enter properly, keep the type invariant.
LEMMA SameTyped ==
    ASSUME TypeInv, op' \in [Ids -> Rows], wk' \in [Workers -> Works], WorldTyped',
           \A o \in Ids : Same(o) /\ (op'[o].attempts # op[o].attempts => op'[o].attempts # 0
                                                                          /\ op[o].status # "ABSENT"),
           \A v \in Workers : Enters(v)
    PROVE  TypeInv'
<1>1. \A o \in Ids : op'[o].type = op[o].type /\ op'[o].target = op[o].target /\ op'[o].batch = op[o].batch
                     /\ op'[o].touched = op[o].touched
                     /\ (op'[o].status = "ABSENT" <=> op[o].status = "ABSENT")
  BY DEF Same
<1>2. \A o \in Ids : op'[o].attempts = 0 => op[o].attempts = 0
  OBVIOUS
<1>3. ASSUME NEW v \in Workers, wk'[v].pc # "idle"
      PROVE  /\ wk'[v].op \in Ids
             /\ v \in Controllers <=> op'[wk'[v].op].type = "RELEASE"
             /\ wk'[v].pc \in DOMAIN Path[op'[wk'[v].op].type] \cup {"done", "fail"}
             /\ op'[wk'[v].op].attempts # 0
  <2>1. CASE wk'[v] = wk[v]
    <3>1. wk[v].pc # "idle" /\ wk[v].op \in Ids /\ (v \in Controllers <=> op[wk[v].op].type = "RELEASE")
      BY <1>3, <2>1 DEF TypeInv, TypeOK
    <3>2. op[wk[v].op].attempts # 0
      BY <3>1 DEF TypeInv, Ledger
    <3>3. op'[wk[v].op].attempts # 0
      BY <1>2, <3>1, <3>2
    <3>4. wk[v].pc \in DOMAIN Path[op[wk[v].op].type] \cup {"done", "fail"}
      BY <3>1 DEF TypeInv, OnPath, Job
    <3> QED
      BY <1>1, <2>1, <3>1, <3>3, <3>4
  <2>2. CASE wk'[v] = Idle
    BY <1>3, <2>2 DEF Idle
  <2>3. CASE /\ wk'[v].pc = "begin" /\ wk'[v].op \in Ids
             /\ v \in Controllers <=> op[wk'[v].op].type = "RELEASE"
             /\ op'[wk'[v].op].attempts # 0
    <3>1. op'[wk'[v].op].type = op[wk'[v].op].type /\ op'[wk'[v].op].type \in Types
      BY <1>1, <2>3 DEF Rows
    <3> QED
      BY <2>3, <3>1, BeginOnPath
  <2> QED
    BY <2>1, <2>2, <2>3 DEF Enters
<1>4. OnPath'
  BY <1>3 DEF OnPath, Job
<1>5. (\A o \in Ids : op[o].target = Gateway <=> op[o].type = "RELEASE")'
  BY <1>1 DEF TypeInv, TypeOK
<1>6. TypeOK'
  BY <1>3, <1>5 DEF TypeOK, WorldTyped
<1>7. Ledger'
  <2>1. (\A o, p \in Ids : op[o].status = "ABSENT" /\ o <= p => op[p].status = "ABSENT")'
    BY <1>1 DEF TypeInv, Ledger
  <2>2. (\A o \in Ids : op[o].status = "ABSENT" => op[o].batch = 0 /\ op[o].attempts = 0)'
    BY <1>1 DEF TypeInv, Ledger
  <2>3. (\A o \in Ids : op[o].batch <= o)'
    BY <1>1 DEF TypeInv, Ledger
  <2>4. (\A o \in Ids : op[o].attempts = 0 => ~op[o].touched)'
    BY <1>1, <1>2 DEF TypeInv, Ledger
  <2>5. (\A o \in Ids : op[o].attempts = 0 => \A v \in Workers : wk[v].pc # "idle" => wk[v].op # o)'
    BY <1>3
  <2> QED
    BY <2>1, <2>2, <2>3, <2>4, <2>5 DEF Ledger
<1> QED
  BY <1>4, <1>6, <1>7 DEF TypeInv

\* A claim: one row runs under the new lease, rows that a due RESET has overtaken are
\* cancelled, and the worker begins.
LEMMA ClaimFacts ==
    ASSUME TypeInv, NEW w \in Workers, NEW c \in Ids, ClaimProfile(w, c) \/ ClaimRelease(w, c)
    PROVE  /\ wk[w].pc = "idle"
           /\ w \in Controllers <=> op[c].type = "RELEASE"
           /\ op[c].status \in Active
           /\ op[c].status = "QUEUED" => Running = {} /\ Runnable(c)
           /\ op[c].status = "RUNNING" => op[c].expired
           /\ op'[c] = ClaimedRow(op[c], w)
           /\ \A o \in Ids \ {c} : \/ op'[o] = op[o]
                                   \/ op[o].status = "QUEUED" /\ op'[o] = CancelledRow(op[o])
           /\ wk' = [wk EXCEPT ![w] = [Idle EXCEPT !.pc = "begin", !.op = c, !.armed = TRUE]]
           /\ UNCHANGED <<site, procs, world, strayed, faults>>
<1>1. PICK mine, dropped : /\ Claim(w, c, mine, dropped)
                           /\ mine \subseteq Ids /\ (mine \cap Releases = {} <=> w \in Orchestrators)
                           /\ (w \in Orchestrators /\ mine = Ids \ Releases)
                              \/ (w \in Controllers /\ mine = Releases)
                           /\ dropped = {} \/ dropped = {o \in Ids : Overdue(o)}
  <2>1. CASE ClaimProfile(w, c)
    BY <2>1 DEF ClaimProfile
  <2>2. CASE ClaimRelease(w, c)
    <3>1. Claim(w, c, Releases, {}) /\ w \in Controllers /\ w \notin Orchestrators
      BY <2>2, WorkersAssumption DEF ClaimRelease
    <3>2. c \in Releases
      BY <3>1 DEF Claim
    <3> QED
      BY <3>1, <3>2 DEF Releases
  <2> QED
    BY <2>1, <2>2
<1>2. c \in mine /\ (w \in Controllers <=> op[c].type = "RELEASE")
  <2>1. c \in mine
    BY <1>1 DEF Claim
  <2> QED
    BY <1>1, <2>1, WorkersAssumption DEF Releases
<1>3. dropped \subseteq {o \in Ids : op[o].status = "QUEUED"}
  BY <1>1 DEF Overdue
<1>4. op[c].status \in Active /\ (op[c].status = "QUEUED" => Running = {} /\ Runnable(c))
      /\ (op[c].status = "RUNNING" => op[c].expired)
  <2>1. CASE Running = {}
    BY <1>1, <2>1 DEF Claim, Runnable, Active
  <2>2. CASE Running # {}
    BY <1>1, <2>2 DEF Claim, Running, Active
  <2> QED
    BY <2>1, <2>2
<1>5. /\ op' = [o \in Ids |-> IF o = c THEN ClaimedRow(op[o], w)
                              ELSE IF o \in dropped THEN CancelledRow(op[o]) ELSE op[o]]
      /\ wk[w].pc = "idle"
      /\ wk' = [wk EXCEPT ![w] = [Idle EXCEPT !.pc = "begin", !.op = c, !.armed = TRUE]]
      /\ UNCHANGED <<site, procs, world, strayed, faults>>
  BY <1>1 DEF Claim
<1> QED
  BY <1>2, <1>3, <1>4, <1>5

\* What the two forms of a row hold.
LEMMA ClaimedTyped ==
    ASSUME NEW row \in Rows, NEW w \in Workers
    PROVE  /\ ClaimedRow(row, w) \in Rows
           /\ ClaimedRow(row, w).status = "RUNNING" /\ ClaimedRow(row, w).owner = w
           /\ ClaimedRow(row, w).attempts = IF row.attempts = 0 THEN 1 ELSE 2
           /\ ClaimedRow(row, w).target = row.target /\ ClaimedRow(row, w).type = row.type
           /\ ClaimedRow(row, w).key = row.key /\ ClaimedRow(row, w).batch = row.batch
           /\ ClaimedRow(row, w).touched = row.touched /\ ClaimedRow(row, w).phase = row.phase
           /\ ClaimedRow(row, w).sha = row.sha
<1> DEFINE n == IF row.attempts = 0 THEN 1 ELSE 2
<1>1. ClaimedRow(row, w) = [row EXCEPT !.status = "RUNNING", !.owner = w, !.expired = FALSE, !.attempts = n]
  BY DEF ClaimedRow, Rows
<1>2. n \in 0..2 /\ "RUNNING" \in {"ABSENT"} \cup Active \cup Ended /\ w \in Workers \cup {None}
  BY DEF Active
<1> HIDE DEF n
<1>3. [row EXCEPT !.status = "RUNNING", !.owner = w, !.expired = FALSE, !.attempts = n] \in Rows
  BY <1>2 DEF Rows
<1> QED
  BY <1>1, <1>3 DEF Rows, n

\* A cancelled row keeps its identity and its history.
LEMMA CancelledTyped ==
    ASSUME NEW row \in Rows
    PROVE  /\ CancelledRow(row) \in Rows
           /\ CancelledRow(row).status = "CANCELLED" /\ CancelledRow(row).owner = None
           /\ CancelledRow(row).attempts = row.attempts
           /\ CancelledRow(row).target = row.target /\ CancelledRow(row).type = row.type
           /\ CancelledRow(row).key = row.key /\ CancelledRow(row).batch = row.batch
           /\ CancelledRow(row).touched = row.touched
           /\ CancelledRow(row).sha = row.sha /\ CancelledRow(row).log = row.log
  BY DEF CancelledRow, Rows, Active, Ended

\* Claims of both queues keep the type invariant.
LEMMA ClaimTyped ==
    ASSUME TypeInv, NEW w \in Workers, NEW c \in Ids, ClaimProfile(w, c) \/ ClaimRelease(w, c)
    PROVE  TypeInv'
<1>1. op \in [Ids -> Rows] /\ wk \in [Workers -> Works] /\ WorldTyped
  BY DEF TypeInv, TypeOK, WorldTyped
<1>2. WorldTyped'
  BY <1>1, ClaimFacts DEF WorldTyped
<1>3. \A o \in Ids : \/ op'[o] = op[o]
                     \/ o = c /\ op'[o] = ClaimedRow(op[o], w) /\ op[o].status \in Active
                     \/ op[o].status = "QUEUED" /\ op'[o] = CancelledRow(op[o])
  BY ClaimFacts
<1>4. DOMAIN op' = Ids /\ op' = [o \in Ids |-> op'[o]]
  BY DEF ClaimProfile, ClaimRelease, Claim
<1>5. \A o \in Ids : op'[o] \in Rows /\ Same(o)
                     /\ (op'[o].attempts # op[o].attempts => op'[o].attempts # 0 /\ op[o].status # "ABSENT")
  BY <1>1, <1>3, ClaimedTyped, CancelledTyped DEF Same, Active
<1>6. op' \in [Ids -> Rows]
  BY <1>4, <1>5
<1> DEFINE work == [Idle EXCEPT !.pc = "begin", !.op = c, !.armed = TRUE]
<1>7. work \in Works /\ work.pc = "begin" /\ work.op = c
  <2>1. c \in 0..MaxOps /\ "begin" \in Steps
    BY BoundsAssumption DEF Ids, Steps, Early
  <2>2. Idle \in Works
    BY IdleTyped
  <2> QED
    BY <2>1, <2>2 DEF Works
<1>8. wk' = [wk EXCEPT ![w] = work] /\ (w \in Controllers <=> op[c].type = "RELEASE")
  BY ClaimFacts
<1> HIDE DEF work
<1>9. wk' \in [Workers -> Works] /\ wk'[w] = work /\ \A v \in Workers \ {w} : wk'[v] = wk[v]
  BY <1>1, <1>7, <1>8
<1>10. op'[c].attempts # 0
  <2>1. op'[c] = ClaimedRow(op[c], w) /\ op[c] \in Rows
    BY <1>1, ClaimFacts
  <2> QED
    BY <2>1, ClaimedTyped
<1>11. \A v \in Workers : Enters(v)
  BY <1>7, <1>8, <1>9, <1>10 DEF Enters
<1> QED
  BY <1>2, <1>5, <1>6, <1>9, <1>11, SameTyped

\* Requests, schedules and ends that change one row and keep its request.
LEMMA OneRowTyped ==
    ASSUME TypeInv, WorldTyped', NEW o \in Ids, NEW row \in Rows, op' = [op EXCEPT ![o] = row],
           row.target = op[o].target, row.type = op[o].type, row.key = op[o].key,
           row.batch = op[o].batch, row.touched = op[o].touched, row.attempts = op[o].attempts,
           row.status = "ABSENT" <=> op[o].status = "ABSENT",
           wk' \in [Workers -> Works], \A v \in Workers : wk'[v] = wk[v] \/ wk'[v] = Idle
    PROVE  TypeInv'
<1>1. op \in [Ids -> Rows]
  BY DEF TypeInv, TypeOK
<1>2. op' \in [Ids -> Rows] /\ op'[o] = row /\ \A p \in Ids \ {o} : op'[p] = op[p]
  BY <1>1
<1>3. \A p \in Ids : Same(p) /\ op'[p].attempts = op[p].attempts
  BY <1>2 DEF Same
<1>4. \A v \in Workers : Enters(v)
  BY DEF Enters
<1> QED
  BY <1>2, <1>3, <1>4, SameTyped

\* The end of a worker's row, for now or for good: the row leaves RUNNING, the worker is idle.
LEMMA EndFacts ==
    ASSUME TypeInv, NEW w \in Workers, Complete(w) \/ Requeue(w)
    PROVE  /\ Holds(w) /\ wk[w].pc # "idle" /\ wk[w].op \in Ids
           /\ \E row \in Rows :
                /\ op' = [op EXCEPT ![wk[w].op] = row]
                /\ row.target = Job(w).target /\ row.type = Job(w).type /\ row.key = Job(w).key
                /\ row.batch = Job(w).batch /\ row.touched = Job(w).touched
                /\ row.attempts = Job(w).attempts /\ row.sha = Job(w).sha /\ row.log = Job(w).log
                /\ row.status \in {"QUEUED", "SUCCEEDED", "FAILED"} /\ row.owner = None
                /\ row.status = "SUCCEEDED" => wk[w].pc = "done"
                /\ wk[w].pc \in {"done", "fail"} \/ (wk[w].pc = "mark" /\ Job(w).type = "RESET")
           /\ wk' = [wk EXCEPT ![w] = Idle]
           /\ UNCHANGED <<site, procs, world, strayed>> /\ faults' \in 0..MaxFaults
<1>1. Holds(w) /\ wk[w].pc # "idle" /\ wk[w].op \in Ids /\ op[wk[w].op] \in Rows /\ faults \in 0..MaxFaults
  BY JobTyped DEF Complete, Requeue, Holds, TypeInv, TypeOK, Job
<1>2. CASE Complete(w)
  <2> DEFINE status == IF At(w, "done") THEN "SUCCEEDED" ELSE "FAILED"
             row == [op[wk[w].op] EXCEPT !.status = status, !.owner = None, !.expired = FALSE]
  <2>1. op' = [op EXCEPT ![wk[w].op] = row]
    BY <1>2 DEF Complete
  <2>2. status \in {"SUCCEEDED", "FAILED"} /\ (status = "SUCCEEDED" => wk[w].pc = "done")
    BY DEF At
  <2> HIDE DEF status
  <2>3. /\ row \in Rows
        /\ row.target = Job(w).target /\ row.type = Job(w).type /\ row.key = Job(w).key
        /\ row.batch = Job(w).batch /\ row.touched = Job(w).touched
        /\ row.attempts = Job(w).attempts /\ row.sha = Job(w).sha /\ row.log = Job(w).log
        /\ row.status = status /\ row.owner = None
    BY <1>1, <2>2 DEF Rows, Ended, Job
  <2> HIDE DEF row
  <2>4. wk' = [wk EXCEPT ![w] = Idle] /\ UNCHANGED <<site, procs, world, strayed, faults>>
        /\ wk[w].pc \in {"done", "fail"}
    BY <1>2 DEF Complete
  <2> QED
    BY <1>1, <2>1, <2>2, <2>3, <2>4
<1>3. CASE Requeue(w)
  <2> DEFINE row == [op[wk[w].op] EXCEPT !.status = "QUEUED", !.at = "future", !.owner = None,
                                         !.expired = FALSE, !.phase = "late"]
  <2>1. op' = [op EXCEPT ![wk[w].op] = row]
    BY <1>3 DEF Requeue
  <2>3. /\ row \in Rows
        /\ row.target = Job(w).target /\ row.type = Job(w).type /\ row.key = Job(w).key
        /\ row.batch = Job(w).batch /\ row.touched = Job(w).touched
        /\ row.attempts = Job(w).attempts /\ row.sha = Job(w).sha /\ row.log = Job(w).log
        /\ row.status = "QUEUED" /\ row.owner = None
    BY <1>1 DEF Rows, Active, Job
  <2> HIDE DEF row
  <2>4. wk' = [wk EXCEPT ![w] = Idle] /\ UNCHANGED <<site, procs, world, strayed>>
        /\ faults' \in 0..MaxFaults /\ wk[w].pc = "mark" /\ Job(w).type = "RESET"
    BY <1>1, <1>3, BoundsAssumption DEF Requeue, At
  <2> QED
    BY <1>1, <2>1, <2>3, <2>4
<1> QED
  BY <1>2, <1>3

\* Completing and requeueing keep the type invariant.
LEMMA EndTyped ==
    ASSUME TypeInv, NEW w \in Workers, Complete(w) \/ Requeue(w)
    PROVE  TypeInv'
<1>1. PICK row \in Rows :
        /\ op' = [op EXCEPT ![wk[w].op] = row]
        /\ row.target = Job(w).target /\ row.type = Job(w).type /\ row.key = Job(w).key
        /\ row.batch = Job(w).batch /\ row.touched = Job(w).touched
        /\ row.attempts = Job(w).attempts
        /\ row.status \in {"QUEUED", "SUCCEEDED", "FAILED"}
  BY EndFacts
<1>2. /\ wk[w].op \in Ids /\ op[wk[w].op].status = "RUNNING"
      /\ UNCHANGED <<site, procs, world, strayed>> /\ faults' \in 0..MaxFaults
      /\ wk' = [wk EXCEPT ![w] = Idle]
  BY EndFacts DEF Holds, Job
<1>3. wk \in [Workers -> Works] /\ WorldTyped
  BY DEF TypeInv, TypeOK, WorldTyped
<1>4. WorldTyped'
  BY <1>2, <1>3 DEF WorldTyped
<1>5. wk' \in [Workers -> Works] /\ \A v \in Workers : wk'[v] = wk[v] \/ wk'[v] = Idle
  BY <1>2, <1>3, IdleTyped
<1>6. row.status = "ABSENT" <=> op[wk[w].op].status = "ABSENT"
  BY <1>1, <1>2
<1> QED
  BY <1>1, <1>2, <1>4, <1>5, <1>6, OneRowTyped DEF Job

\* A request or a timer that changes one row.
Turn(o) == Cancel(o) \/ RetryBulk(o) \/ Due(o) \/ Expire(o) \/ LogFails(o) \/ LogWorks(o)

\* What happens to one row from outside its handler: due, expired, cancelled or retried, or its
\* log stops and begins again to take lines.
LEMMA TurnFacts ==
    ASSUME TypeInv, NEW o \in Ids, Turn(o)
    PROVE  /\ \E row \in Rows :
                /\ op' = [op EXCEPT ![o] = row]
                /\ row.target = op[o].target /\ row.type = op[o].type /\ row.key = op[o].key
                /\ row.batch = op[o].batch /\ row.touched = op[o].touched
                /\ row.attempts = op[o].attempts /\ (row.log = "kept" => op[o].log = "kept")
                /\ row.status = op[o].status \/ row.status \in {"QUEUED", "CANCELLED"}
                /\ row.status = "RUNNING" => row.owner = op[o].owner /\ row.phase = op[o].phase /\ row.sha = op[o].sha
                /\ row.status = "ABSENT" <=> op[o].status = "ABSENT"
                /\ op[o].status = "SUCCEEDED" => row.status = "SUCCEEDED"
                /\ op[o].status = "FAILED" => row.status # "CANCELLED"
                /\ op[o].status = "RUNNING" =>
                     row.status = "RUNNING" \/ (row.status = "CANCELLED" /\ op[o].phase = "early"
                                                /\ op[o].type \in {"DEPLOY", "RELEASE"})
           /\ UNCHANGED <<wk, site, procs, world, strayed>>
           /\ faults' \in 0..MaxFaults
<1>1. op[o] \in Rows /\ faults \in 0..MaxFaults /\ op \in [Ids -> Rows]
  BY DEF TypeInv, TypeOK
<1>2. CASE Cancel(o)
  <2>1. op' = [op EXCEPT ![o] = CancelledRow(op[o])]
    BY <1>2 DEF Cancel
  <2>2. \/ op[o].status = "QUEUED"
        \/ op[o].status = "RUNNING" /\ op[o].type \in {"DEPLOY", "RELEASE"} /\ op[o].phase = "early"
    BY <1>2 DEF Cancel
  <2>3. UNCHANGED <<wk, site, procs, world, strayed, faults>>
    BY <1>2 DEF Cancel
  <2> DEFINE row == CancelledRow(op[o])
  <2>4. /\ row \in Rows /\ row.status = "CANCELLED" /\ row.attempts = op[o].attempts
        /\ row.log = op[o].log
        /\ row.target = op[o].target /\ row.type = op[o].type /\ row.key = op[o].key
        /\ row.batch = op[o].batch /\ row.touched = op[o].touched
    BY <1>1, CancelledTyped
  <2> HIDE DEF row
  <2>5. op' = [op EXCEPT ![o] = row]
    BY <2>1 DEF row
  <2> QED
    BY <1>1, <2>2, <2>3, <2>4, <2>5
<1>3. CASE RetryBulk(o)
  <2> DEFINE row == [op[o] EXCEPT !.status = "QUEUED", !.sha = None, !.phase = "queue"]
  <2>1. op' = [op EXCEPT ![o] = row]
    BY <1>1, <1>3 DEF RetryBulk, Rows
  <2>2. op[o].status \in {"FAILED", "CANCELLED"} /\ UNCHANGED <<wk, site, procs, world, strayed>>
        /\ faults' \in 0..MaxFaults
    BY <1>1, <1>3, BoundsAssumption DEF RetryBulk
  <2>3. /\ row \in Rows /\ row.status = "QUEUED" /\ row.attempts = op[o].attempts
        /\ row.log = op[o].log
        /\ row.target = op[o].target /\ row.type = op[o].type /\ row.key = op[o].key
        /\ row.batch = op[o].batch /\ row.touched = op[o].touched
    BY <1>1 DEF Rows, Active
  <2> HIDE DEF row
  <2> QED
    BY <2>1, <2>2, <2>3
<1>4. CASE Due(o)
  <2> DEFINE row == [op[o] EXCEPT !.at = "due"]
  <2>1. op' = [op EXCEPT ![o] = row]
    BY <1>1, <1>4 DEF Due, Rows
  <2>2. UNCHANGED <<wk, site, procs, world, strayed, faults>>
    BY <1>4 DEF Due
  <2>3. /\ row \in Rows /\ row.status = op[o].status /\ row.attempts = op[o].attempts
        /\ row.log = op[o].log
        /\ row.target = op[o].target /\ row.type = op[o].type /\ row.key = op[o].key
        /\ row.batch = op[o].batch /\ row.touched = op[o].touched /\ row.owner = op[o].owner
        /\ row.phase = op[o].phase /\ row.sha = op[o].sha
    BY <1>1 DEF Rows
  <2> HIDE DEF row
  <2> QED
    BY <1>1, <2>1, <2>2, <2>3
<1>5. CASE Expire(o)
  <2> DEFINE row == [op[o] EXCEPT !.expired = TRUE]
  <2>1. op' = [op EXCEPT ![o] = row]
    BY <1>1, <1>5 DEF Expire, Rows
  <2>2. UNCHANGED <<wk, site, procs, world, strayed>> /\ faults' \in 0..MaxFaults
    BY <1>1, <1>5, BoundsAssumption DEF Expire
  <2>3. /\ row \in Rows /\ row.status = op[o].status /\ row.attempts = op[o].attempts
        /\ row.log = op[o].log
        /\ row.target = op[o].target /\ row.type = op[o].type /\ row.key = op[o].key
        /\ row.batch = op[o].batch /\ row.touched = op[o].touched /\ row.owner = op[o].owner
        /\ row.phase = op[o].phase /\ row.sha = op[o].sha
    BY <1>1 DEF Rows
  <2> HIDE DEF row
  <2> QED
    BY <1>1, <2>1, <2>2, <2>3
<1>6. CASE LogFails(o)
  <2> DEFINE row == [op[o] EXCEPT !.log = "failing"]
  <2>1. op' = [op EXCEPT ![o] = row]
    BY <1>1, <1>6 DEF LogFails, Rows
  <2>2. UNCHANGED <<wk, site, procs, world, strayed>> /\ faults' \in 0..MaxFaults
    BY <1>1, <1>6, BoundsAssumption DEF LogFails
  <2>3. /\ row \in Rows /\ row.status = op[o].status /\ row.attempts = op[o].attempts
        /\ row.log # "kept"
        /\ row.target = op[o].target /\ row.type = op[o].type /\ row.key = op[o].key
        /\ row.batch = op[o].batch /\ row.touched = op[o].touched /\ row.owner = op[o].owner
        /\ row.phase = op[o].phase /\ row.sha = op[o].sha
    BY <1>1 DEF Rows
  <2> HIDE DEF row
  <2> QED
    BY <1>1, <2>1, <2>2, <2>3
<1>7. CASE LogWorks(o)
  <2> DEFINE row == [op[o] EXCEPT !.log = "gaps"]
  <2>1. op' = [op EXCEPT ![o] = row]
    BY <1>1, <1>7 DEF LogWorks, Rows
  <2>2. UNCHANGED <<wk, site, procs, world, strayed>> /\ faults' \in 0..MaxFaults
    BY <1>1, <1>7, BoundsAssumption DEF LogWorks
  <2>3. /\ row \in Rows /\ row.status = op[o].status /\ row.attempts = op[o].attempts
        /\ row.log # "kept"
        /\ row.target = op[o].target /\ row.type = op[o].type /\ row.key = op[o].key
        /\ row.batch = op[o].batch /\ row.touched = op[o].touched /\ row.owner = op[o].owner
        /\ row.phase = op[o].phase /\ row.sha = op[o].sha
    BY <1>1 DEF Rows
  <2> HIDE DEF row
  <2> QED
    BY <1>1, <2>1, <2>2, <2>3
<1> QED
  BY <1>2, <1>3, <1>4, <1>5, <1>6, <1>7 DEF Turn

\* Such a change keeps the type invariant.
LEMMA TurnTyped ==
    ASSUME TypeInv, NEW o \in Ids, Turn(o)
    PROVE  TypeInv'
<1>1. PICK row \in Rows :
        /\ op' = [op EXCEPT ![o] = row]
        /\ row.target = op[o].target /\ row.type = op[o].type /\ row.key = op[o].key
        /\ row.batch = op[o].batch /\ row.touched = op[o].touched
        /\ row.attempts = op[o].attempts
        /\ row.status = "ABSENT" <=> op[o].status = "ABSENT"
  BY TurnFacts
<1>2. UNCHANGED <<wk, site, procs, world, strayed>> /\ faults' \in 0..MaxFaults
  BY TurnFacts
<1>3. wk \in [Workers -> Works] /\ WorldTyped
  BY DEF TypeInv, TypeOK, WorldTyped
<1>4. WorldTyped' /\ wk' \in [Workers -> Works] /\ \A v \in Workers : wk'[v] = wk[v]
  BY <1>2, <1>3 DEF WorldTyped
<1> QED
  BY <1>1, <1>4, OneRowTyped

\* A request that adds rows after the ones that are there.
Adds(o) ==
    \/ \E p \in Profiles, type \in Types \ {"RELEASE"}, at \in {"now", "future"} : Create(o, p, type, at)
    \/ \E source \in Commits \cup {Branch} : CreateRelease(o, source)
    \/ \E n \in Ids, commit \in Commits : \E target \in [o..n -> Targets] : BulkRelease(o, n + 1, target, commit)
    \/ \E n \in Ids : Retry(o, n)

\* What a new row holds.
Fresh(row) ==
    /\ row \in Rows /\ row.status = "QUEUED" /\ row.owner = None
    /\ row.attempts = 0 /\ ~row.touched
    /\ row.target = Gateway <=> row.type = "RELEASE"

\* A requested row is fresh and belongs to no bulk release.
LEMMA NewRowFresh ==
    \A o \in Ids, t \in Targets, type \in Types, at \in {"now", "future"}, source \in Commits \cup {Branch} :
        (t = Gateway <=> type = "RELEASE") =>
            Fresh(NewRow(o, t, type, at, source)) /\ NewRow(o, t, type, at, source).batch = 0
<1> SUFFICES ASSUME NEW o \in Ids, NEW t \in Targets, NEW type \in Types, NEW at \in {"now", "future"},
                    NEW source \in Commits \cup {Branch}, t = Gateway <=> type = "RELEASE"
             PROVE  Fresh(NewRow(o, t, type, at, source)) /\ NewRow(o, t, type, at, source).batch = 0
  OBVIOUS
<1> DEFINE row == NewRow(o, t, type, at, source)
<1>1. 1 \in Ids /\ 0 \in 0..MaxOps
  BY BoundsAssumption DEF Ids
<1>2. Absent \in Rows /\ Absent.batch = 0 /\ Absent.attempts = 0 /\ Absent.touched = FALSE /\ Absent.owner = None
  BY <1>1 DEF Absent, Rows, Targets, Types
<1>3. "QUEUED" \in {"ABSENT"} \cup Active \cup Ended
  BY DEF Active
<1>4. row = [Absent EXCEPT !.target = t, !.type = type, !.status = "QUEUED", !.at = at,
                           !.source = source, !.key = o]
  BY DEF NewRow
<1>5. row \in Rows
  BY <1>2, <1>3, <1>4 DEF Rows
<1>6. /\ row.status = "QUEUED" /\ row.owner = None /\ row.attempts = 0 /\ row.touched = FALSE
      /\ row.target = t /\ row.type = type /\ row.batch = 0
  BY <1>2, <1>4 DEF Rows
<1> QED
  BY <1>5, <1>6 DEF Fresh

\* A retried installation's key leaves the row fresh.
LEMMA KeyedFresh ==
    ASSUME NEW row, Fresh(row), NEW key \in Ids
    PROVE  Fresh([row EXCEPT !.key = key]) /\ [row EXCEPT !.key = key].batch = row.batch
<1> DEFINE new == [row EXCEPT !.key = key]
<1>1. /\ new \in Rows /\ new.status = row.status /\ new.owner = row.owner
      /\ new.attempts = row.attempts /\ new.touched = row.touched
      /\ new.target = row.target /\ new.type = row.type /\ new.batch = row.batch
  BY DEF Fresh, Rows
<1> QED
  BY <1>1 DEF Fresh

\* So does its place in a bulk release.
LEMMA BatchedFresh ==
    ASSUME NEW row, Fresh(row), NEW batch \in 0..MaxOps
    PROVE  Fresh([row EXCEPT !.batch = batch]) /\ [row EXCEPT !.batch = batch].batch = batch
<1> DEFINE new == [row EXCEPT !.batch = batch]
<1>1. /\ new \in Rows /\ new.status = row.status /\ new.owner = row.owner
      /\ new.attempts = row.attempts /\ new.touched = row.touched
      /\ new.target = row.target /\ new.type = row.type /\ new.batch = batch
  BY DEF Fresh, Rows
<1> QED
  BY <1>1 DEF Fresh

\* A request adds one interval of fresh rows behind the used ones, all of one bulk release or of none.
LEMMA AddFacts ==
    ASSUME TypeInv, NEW o \in Ids, Adds(o)
    PROVE  /\ \E a \in Ids, b \in Ids :
                /\ a <= b /\ Unused(a)
                /\ \A i \in a..b : Fresh(op'[i]) /\ op'[i].batch \in {0, a}
                /\ \A i \in Ids \ (a..b) : op'[i] = op[i]
                /\ DOMAIN op' = Ids /\ op' = [i \in Ids |-> op'[i]]
           /\ UNCHANGED <<wk, site, procs, world, strayed, faults>>
<1>0. op \in [Ids -> Rows] /\ (\A p \in Ids : op[p].target = Gateway <=> op[p].type = "RELEASE")
      /\ site \in [Targets -> [status : {"RUNNING", "STOPPED", "RESERVED", "CANCELLED"},
                             commit : Commits, previous : Commits \cup {None}]]
  BY DEF TypeInv, TypeOK
<1>1. ASSUME NEW a \in Ids, NEW row, Fresh(row), row.batch = 0, Unused(a), op' = [op EXCEPT ![a] = row]
      PROVE  /\ a <= a /\ Unused(a)
             /\ \A i \in a..a : Fresh(op'[i]) /\ op'[i].batch \in {0, a}
             /\ \A i \in Ids \ (a..a) : op'[i] = op[i]
             /\ DOMAIN op' = Ids /\ op' = [i \in Ids |-> op'[i]]
  <2>1. a \in Int /\ a..a = {a}
    BY BoundsAssumption DEF Ids
  <2>2. op'[a] = row /\ \A i \in Ids \ {a} : op'[i] = op[i]
    BY <1>0, <1>1
  <2>3. DOMAIN op' = Ids /\ op' = [i \in Ids |-> op'[i]]
    BY <1>0, <1>1
  <2> QED
    BY <1>1, <2>1, <2>2, <2>3
<1>2. ASSUME NEW p \in Profiles, NEW type \in Types \ {"RELEASE"}, NEW at \in {"now", "future"}, Create(o, p, type, at)
      PROVE  \E row : /\ Fresh(row) /\ row.batch = 0 /\ Unused(o) /\ op' = [op EXCEPT ![o] = row]
                      /\ UNCHANGED <<wk, site, procs, world, strayed, faults>>
  <2> DEFINE source == IF type = "CANCEL_GAME" THEN site[p].commit ELSE Branch
  <2>1. Unused(o) /\ op' = [op EXCEPT ![o] = NewRow(o, p, type, at, source)]
        /\ UNCHANGED <<wk, site, procs, world, strayed, faults>>
    BY <1>2 DEF Create
  <2>2. p \in Targets /\ p # Gateway /\ source \in Commits \cup {Branch}
    BY <1>0, TargetsAssumption DEF Targets
  <2>3. o \in Ids /\ 0 \in 0..MaxOps /\ type \in Types
    BY BoundsAssumption
  <2> HIDE DEF source
  <2>4. Fresh(NewRow(o, p, type, at, source)) /\ NewRow(o, p, type, at, source).batch = 0
    BY <2>2, <2>3, NewRowFresh
  <2> QED
    BY <2>1, <2>4
<1>3. ASSUME NEW source \in Commits \cup {Branch}, CreateRelease(o, source)
      PROVE  \E row : /\ Fresh(row) /\ row.batch = 0 /\ Unused(o) /\ op' = [op EXCEPT ![o] = row]
                      /\ UNCHANGED <<wk, site, procs, world, strayed, faults>>
  <2>1. Unused(o) /\ op' = [op EXCEPT ![o] = NewRow(o, Gateway, "RELEASE", "now", source)]
        /\ UNCHANGED <<wk, site, procs, world, strayed, faults>>
    BY <1>3 DEF CreateRelease
  <2>2. Gateway \in Targets /\ "RELEASE" \in Types /\ 0 \in 0..MaxOps
    BY BoundsAssumption DEF Targets, Types
  <2>3. Fresh(NewRow(o, Gateway, "RELEASE", "now", source)) /\ NewRow(o, Gateway, "RELEASE", "now", source).batch = 0
    BY <2>2, NewRowFresh
  <2> QED
    BY <2>1, <2>3
<1>4. ASSUME NEW n \in Ids, Retry(o, n)
      PROVE  \E row : /\ Fresh(row) /\ row.batch = 0 /\ Unused(n) /\ op' = [op EXCEPT ![n] = row]
                      /\ UNCHANGED <<wk, site, procs, world, strayed, faults>>
  <2> DEFINE source == IF op[o].sha # None THEN op[o].sha ELSE op[o].source
             row == [NewRow(n, op[o].target, op[o].type, "now", source) EXCEPT !.key = op[o].key]
  <2>1. Unused(n) /\ op' = [op EXCEPT ![n] = row] /\ UNCHANGED <<wk, site, procs, world, strayed, faults>>
    BY <1>4 DEF Retry
  <2>2. op[o] \in Rows
    BY <1>0
  <2>3. op[o].target \in Targets /\ op[o].type \in Types /\ op[o].key \in Ids /\ source \in Commits \cup {Branch}
        /\ 0 \in 0..MaxOps
    BY <2>2, BoundsAssumption DEF Rows
  <2> HIDE DEF source
  <2>4. Fresh(NewRow(n, op[o].target, op[o].type, "now", source))
        /\ NewRow(n, op[o].target, op[o].type, "now", source).batch = 0
    BY <1>0, <2>3, NewRowFresh
  <2>5. Fresh(row) /\ row.batch = 0
    BY <2>3, <2>4, KeyedFresh
  <2> QED
    BY <2>1, <2>5
<1>5. ASSUME NEW n \in Ids, NEW commit \in Commits, NEW target \in [o..n -> Targets],
             BulkRelease(o, n + 1, target, commit)
      PROVE  /\ o <= n /\ Unused(o)
             /\ \A i \in o..n : Fresh(op'[i]) /\ op'[i].batch \in {0, o}
             /\ \A i \in Ids \ (o..n) : op'[i] = op[i]
             /\ DOMAIN op' = Ids /\ op' = [i \in Ids |-> op'[i]]
             /\ UNCHANGED <<wk, site, procs, world, strayed, faults>>
  <2>1. n + 1 - 1 = n /\ n \in Int /\ o \in Int /\ o \in 0..MaxOps /\ o..n \subseteq Ids
    BY BoundsAssumption DEF Ids
  <2>2. /\ Unused(o) /\ n + 1 > o
        /\ op' = [i \in Ids |->
                    IF i \in o..n
                    THEN [NewRow(i, target[i], IF target[i] = Gateway THEN "RELEASE" ELSE "DEPLOY",
                                 "now", commit) EXCEPT !.batch = o]
                    ELSE op[i]]
        /\ UNCHANGED <<wk, site, procs, world, strayed, faults>>
    BY <1>5, <2>1 DEF BulkRelease
  <2>3. ASSUME NEW i \in o..n
        PROVE  Fresh(op'[i]) /\ op'[i].batch \in {0, o}
    <3> DEFINE type == IF target[i] = Gateway THEN "RELEASE" ELSE "DEPLOY"
               t == target[i]
    <3>1. op'[i] = [NewRow(i, t, type, "now", commit) EXCEPT !.batch = o] /\ i \in Ids
      BY <2>1, <2>2, <2>3
    <3>2. t \in Targets /\ type \in Types /\ (t = Gateway <=> type = "RELEASE")
      BY DEF Types
    <3>3. commit \in Commits \cup {Branch} /\ "now" \in {"now", "future"}
      OBVIOUS
    <3> HIDE DEF type, t
    <3>4. Fresh(NewRow(i, t, type, "now", commit))
      BY <3>1, <3>2, <3>3, NewRowFresh
    <3>5. /\ Fresh([NewRow(i, t, type, "now", commit) EXCEPT !.batch = o])
          /\ [NewRow(i, t, type, "now", commit) EXCEPT !.batch = o].batch = o
      BY <2>1, <3>4, BatchedFresh
    <3> QED
      BY <3>1, <3>5
  <2>4. o <= n
    BY <2>1, <2>2
  <2>5. \A i \in Ids \ (o..n) : op'[i] = op[i]
    BY <2>2
  <2>6. DOMAIN op' = Ids /\ op' = [i \in Ids |-> op'[i]]
    BY <2>2
  <2> QED
    BY <2>2, <2>3, <2>4, <2>5, <2>6
<1> QED
  BY <1>1, <1>2, <1>3, <1>4, <1>5 DEF Adds

\* Requests keep the type invariant.
LEMMA AddTyped ==
    ASSUME TypeInv, NEW o \in Ids, Adds(o)
    PROVE  TypeInv'
<1>1. PICK a \in Ids, b \in Ids :
        /\ a <= b /\ Unused(a)
        /\ \A i \in a..b : Fresh(op'[i]) /\ op'[i].batch \in {0, a}
        /\ \A i \in Ids \ (a..b) : op'[i] = op[i]
        /\ DOMAIN op' = Ids /\ op' = [i \in Ids |-> op'[i]]
  BY AddFacts
<1>2. UNCHANGED <<wk, site, procs, world, strayed, faults>>
  BY AddFacts
<1>3. op \in [Ids -> Rows] /\ wk \in [Workers -> Works] /\ WorldTyped
  BY DEF TypeInv, TypeOK, WorldTyped
<1>4. a \in Int /\ b \in Int /\ Ids \subseteq Int /\ a..b \subseteq Ids
  BY BoundsAssumption DEF Ids
<1>5. \A i \in Ids : op'[i] \in Rows
  BY <1>1, <1>3 DEF Fresh
<1>6. op' \in [Ids -> Rows]
  BY <1>1, <1>5
<1>7. \A i \in a..b : op[i].status = "ABSENT" /\ op[i].attempts = 0
  BY <1>1, <1>4 DEF Unused, TypeInv, Ledger
<1>8. \A v \in Workers : wk[v].pc # "idle" => wk[v].op \in Ids /\ wk[v].op \notin a..b
  BY <1>4, <1>7 DEF TypeInv, TypeOK, Ledger
<1>9. \A v \in Workers : wk[v].pc # "idle" => op'[wk[v].op] = op[wk[v].op]
  BY <1>1, <1>8
<1>10. OnPath'
  BY <1>2, <1>9 DEF OnPath, Job, TypeInv
<1>11. (\A p \in Ids : op[p].target = Gateway <=> op[p].type = "RELEASE")'
  BY <1>1 DEF Fresh, TypeInv, TypeOK
<1>12. TypeOK'
  BY <1>2, <1>3, <1>6, <1>8, <1>9, <1>11 DEF TypeInv, TypeOK
<1>13. Ledger'
  <2>1. (\A p, q \in Ids : op[p].status = "ABSENT" /\ p <= q => op[q].status = "ABSENT")'
    <3> SUFFICES ASSUME NEW p \in Ids, NEW q \in Ids, op'[p].status = "ABSENT", p <= q
                 PROVE  op'[q].status = "ABSENT"
      OBVIOUS
    <3>1. p \notin a..b /\ op'[p] = op[p] /\ p \in Int /\ q \in Int
      BY <1>1, <1>4 DEF Fresh
    <3>2. p > b
      <4>1. CASE p < a
        BY <1>1, <3>1, <4>1 DEF Unused
      <4> QED
        BY <1>4, <3>1, <4>1
    <3>3. q \notin a..b
      BY <1>4, <3>1, <3>2
    <3> QED
      BY <1>1, <3>1, <3>3 DEF TypeInv, Ledger
  <2>2. (\A p \in Ids : op[p].status = "ABSENT" => op[p].batch = 0 /\ op[p].attempts = 0)'
    BY <1>1 DEF Fresh, TypeInv, Ledger
  <2>3. (\A p \in Ids : op[p].batch <= p)'
    <3> SUFFICES ASSUME NEW p \in Ids PROVE op'[p].batch <= p
      OBVIOUS
    <3>1. CASE p \in a..b
      <4>1. op'[p].batch \in {0, a} /\ a <= p /\ 0 <= p
        BY <1>1, <1>4, <3>1 DEF Ids
      <4> QED
        BY <1>4, <4>1
    <3>2. CASE p \notin a..b
      BY <1>1, <3>2 DEF TypeInv, Ledger
    <3> QED
      BY <3>1, <3>2
  <2>4. (\A p \in Ids : op[p].attempts = 0 => ~op[p].touched)'
    BY <1>1 DEF Fresh, TypeInv, Ledger
  <2>5. (\A p \in Ids : op[p].attempts = 0 => \A v \in Workers : wk[v].pc # "idle" => wk[v].op # p)'
    <3>1. \A v \in Workers : wk[v].pc # "idle" => op[wk[v].op].attempts # 0
      BY <1>8 DEF TypeInv, Ledger
    <3> QED
      BY <1>2, <1>9, <3>1
  <2> QED
    BY <2>1, <2>2, <2>3, <2>4, <2>5 DEF Ledger
<1> QED
  BY <1>10, <1>12, <1>13 DEF TypeInv

\* Every step is of one of the kinds above.
LEMMA Kinds ==
    ASSUME [Next]_vars
    PROVE  \/ \E o \in Ids : Adds(o)
           \/ \E o \in Ids : Turn(o)
           \/ \E w \in Workers, c \in Ids : ClaimProfile(w, c) \/ ClaimRelease(w, c)
           \/ \E w \in Workers : Inner(w)
           \/ \E w \in Workers : Complete(w) \/ Requeue(w)
           \/ \E p \in Profiles : Play(p)
           \/ UNCHANGED vars
<1>1. CASE Request
  BY <1>1 DEF Request, Adds, Turn
<1>2. CASE \E w \in Workers : Poll(w)
  BY <1>2 DEF Poll
<1>3. CASE \E w \in Workers : Step(w)
  BY <1>3 DEF Step, Inner, Advances, Effect
<1>4. CASE \E w \in Workers : Heartbeat(w) \/ BuildOutput(w) \/ Requeue(w) \/ Crash(w)
  BY <1>4 DEF Inner
<1>5. CASE \E o \in Ids : Due(o) \/ Expire(o) \/ LogFails(o) \/ LogWorks(o)
  BY <1>5 DEF Turn
<1> QED
  BY <1>1, <1>2, <1>3, <1>4, <1>5 DEF Next

\* Players change only the season.
LEMMA PlayTyped ==
    ASSUME TypeInv, NEW p \in Profiles, Play(p)
    PROVE  TypeInv'
<1>1. world' = [world EXCEPT ![p].played = TRUE] /\ UNCHANGED <<op, wk, site, procs, strayed, faults>>
  BY DEF Play
<1>2. world' \in [Profiles -> [key : 0..MaxOps, commit : Commits, played : BOOLEAN]]
  BY <1>1 DEF TypeInv, TypeOK
<1>3. TypeOK'
  BY <1>1, <1>2 DEF TypeInv, TypeOK
<1> QED
  BY <1>1, <1>3 DEF TypeInv, OnPath, Ledger, Job

\* The type invariant holds at the start.
LEMMA TypeInit == Init => TypeInv
<1> SUFFICES ASSUME Init PROVE TypeInv
  OBVIOUS
<1>1. \A o \in Ids : Absent \in Rows
  BY BoundsAssumption DEF Absent, Rows, Ids, Targets, Types
<1>2. Idle \in Works
  BY IdleTyped
<1>3. op \in [Ids -> Rows] /\ wk \in [Workers -> Works]
  BY <1>1, <1>2 DEF Init
<1>4. WorldTyped
  BY BoundsAssumption, CommitsAssumption DEF Init, WorldTyped
<1>5. \A o \in Ids : /\ op[o].target = Gateway /\ op[o].type = "RELEASE" /\ op[o].status = "ABSENT"
                     /\ op[o].batch = 0 /\ op[o].attempts = 0 /\ op[o].touched = FALSE
  BY DEF Init, Absent
<1>6. \A w \in Workers : wk[w].pc = "idle"
  BY DEF Init, Idle
<1>7. TypeOK
  BY <1>3, <1>4, <1>5, <1>6 DEF TypeOK, WorldTyped
<1>8. \A o \in Ids : 0 <= o
  BY BoundsAssumption DEF Ids
<1> QED
  BY <1>5, <1>6, <1>7, <1>8 DEF TypeInv, OnPath, Ledger

\* Every step keeps the type invariant.
LEMMA TypeStep == TypeInv /\ [Next]_vars => TypeInv'
<1> SUFFICES ASSUME TypeInv, [Next]_vars PROVE TypeInv'
  OBVIOUS
<1>1. CASE \E o \in Ids : Adds(o)
  BY <1>1, AddTyped
<1>2. CASE \E o \in Ids : Turn(o)
  BY <1>2, TurnTyped
<1>3. CASE \E w \in Workers, c \in Ids : ClaimProfile(w, c) \/ ClaimRelease(w, c)
  BY <1>3, ClaimTyped
<1>4. CASE \E w \in Workers : Inner(w)
  BY <1>4, InnerQuiet, QuietTyped
<1>5. CASE \E w \in Workers : Complete(w) \/ Requeue(w)
  BY <1>5, EndTyped
<1>6. CASE \E p \in Profiles : Play(p)
  BY <1>6, PlayTyped
<1>7. CASE UNCHANGED vars
  BY <1>7 DEF vars, TypeInv, TypeOK, OnPath, Ledger, Job
<1> QED
  BY <1>1, <1>2, <1>3, <1>4, <1>5, <1>6, <1>7, Kinds

\* The type invariant holds in every behaviour.
LEMMA TypeInvariant == Spec => []TypeInv
  BY TypeInit, TypeStep, PTL DEF Spec

\* Type correctness of both queues, their workers and everything they change: among others, no
\* orchestrator ever works on a release and no release controller on a profile's operation.
THEOREM TypeCorrect == Spec => []TypeOK
  BY TypeInvariant, PTL DEF TypeInv

-----------------------------------------------------------------------------
(* One operation at a time. *)

\* A claim leaves its own row as the only one that runs.
LEMMA OneRunningStep == TypeInv /\ OneRunning /\ [Next]_vars => OneRunning'
<1> SUFFICES ASSUME TypeInv, OneRunning, [Next]_vars,
                    NEW o \in Ids, NEW p \in Ids, op'[o].status = "RUNNING", op'[p].status = "RUNNING"
             PROVE  o = p
  BY DEF OneRunning, Running
<1>0. op \in [Ids -> Rows]
  BY DEF TypeInv, TypeOK
<1>a. op[o].status = "RUNNING" /\ op[p].status = "RUNNING" => o = p
  BY DEF OneRunning, Running
<1>1. CASE \E q \in Ids : Adds(q)
  <2>1. op'[o] = op[o] /\ op'[p] = op[p]
    BY <1>1, AddFacts DEF Fresh
  <2> QED
    BY <1>a, <2>1
<1>2. CASE \E q \in Ids : Turn(q)
  <2>1. PICK q \in Ids : Turn(q)
    BY <1>2
  <2>2. PICK row \in Rows : /\ op' = [op EXCEPT ![q] = row]
                            /\ row.status = op[q].status \/ row.status \in {"QUEUED", "CANCELLED"}
    BY <2>1, TurnFacts
  <2>3. op[o].status = "RUNNING" /\ op[p].status = "RUNNING"
    BY <1>0, <2>2
  <2> QED
    BY <1>a, <2>3
<1>3. CASE \E w \in Workers, c \in Ids : ClaimProfile(w, c) \/ ClaimRelease(w, c)
  <2>1. PICK w \in Workers, c \in Ids : ClaimProfile(w, c) \/ ClaimRelease(w, c)
    BY <1>3
  <2>2. ASSUME NEW q \in Ids, q # c, op'[q].status = "RUNNING"
        PROVE  FALSE
    <3>1. op'[q] = op[q]
      <4>1. op'[q] = op[q] \/ op'[q] = CancelledRow(op[q])
        <5>1. \A i \in Ids \ {c} : op'[i] = op[i] \/ (op[i].status = "QUEUED" /\ op'[i] = CancelledRow(op[i]))
          BY <2>1, ClaimFacts
        <5> QED
          BY <2>2, <5>1
      <4>2. CancelledRow(op[q]).status = "CANCELLED"
        BY <1>0, CancelledTyped
      <4> QED
        BY <2>2, <4>1, <4>2
    <3>2. op[q].status = "RUNNING"
      BY <2>2, <3>1
    <3>3. op[c].status \in Active /\ (op[c].status = "QUEUED" => Running = {})
      BY <2>1, ClaimFacts
    <3>4. op[c].status = "RUNNING"
      BY <3>2, <3>3 DEF Running, Active
    <3> QED
      BY <2>2, <3>2, <3>4 DEF OneRunning, Running
  <2> QED
    BY <2>2
<1>4. CASE \E w \in Workers : Inner(w)
  <2>1. op'[o].status = op[o].status /\ op'[p].status = op[p].status
    BY <1>4, InnerQuiet DEF Quiet, Kept
  <2> QED
    BY <1>a, <2>1
<1>5. CASE \E w \in Workers : Complete(w) \/ Requeue(w)
  <2>1. PICK w \in Workers : Complete(w) \/ Requeue(w)
    BY <1>5
  <2>2. PICK row \in Rows : /\ op' = [op EXCEPT ![wk[w].op] = row]
                            /\ row.status \in {"QUEUED", "SUCCEEDED", "FAILED"}
    BY <2>1, EndFacts
  <2>3. op[o].status = "RUNNING" /\ op[p].status = "RUNNING"
    BY <1>0, <2>2
  <2> QED
    BY <1>a, <2>3
<1>6. CASE (\E q \in Profiles : Play(q)) \/ UNCHANGED vars
  BY <1>a, <1>6 DEF Play, vars
<1> QED
  BY <1>1, <1>2, <1>3, <1>4, <1>5, <1>6, Kinds

\* At most one operation of both queues runs, however many orchestrators and controllers poll
\* and whatever leases expire: the claim under one advisory lock asks both tables.
THEOREM OneAtATime == Spec => []OneRunning
<1>1. Init => OneRunning
  BY DEF Init, Absent, OneRunning, Running
<1> QED
  BY <1>1, TypeInvariant, OneRunningStep, PTL DEF Spec

-----------------------------------------------------------------------------
(* Bulk releases. *)

\* A target of a bulk release is claimed after its predecessors have succeeded, and what has
\* succeeded is never run again.
LEMMA BulkStep == TypeInv /\ BulkInOrder /\ [Next]_vars => BulkInOrder'
<1> SUFFICES ASSUME TypeInv, BulkInOrder, [Next]_vars,
                    NEW o \in Ids, op'[o].batch # 0, op'[o].status \in {"RUNNING", "SUCCEEDED"},
                    NEW p \in Ids, op'[p].batch = op'[o].batch, p < o
             PROVE  op'[p].status = "SUCCEEDED"
  BY DEF BulkInOrder
<1>0. op \in [Ids -> Rows]
  BY DEF TypeInv, TypeOK
<1>a. op[o].batch # 0 /\ op[o].status \in {"RUNNING", "SUCCEEDED"} /\ op[p].batch = op[o].batch
      => op[p].status = "SUCCEEDED"
  BY DEF BulkInOrder
<1>1. CASE \E q \in Ids : Adds(q)
  <2>1. PICK a \in Ids, b \in Ids :
          /\ a <= b /\ Unused(a)
          /\ \A i \in a..b : Fresh(op'[i])
          /\ \A i \in Ids \ (a..b) : op'[i] = op[i]
    BY <1>1, AddFacts
  <2>2. o \notin a..b /\ op'[o] = op[o]
    BY <2>1 DEF Fresh
  <2>3. Ids \subseteq Int
    BY DEF Ids
  <2>4. o < a
    <3>1. CASE o >= a
      <4>1. op[a].status = "ABSENT" /\ a <= o
        BY <2>1, <2>3, <3>1 DEF Unused
      <4>2. op[o].status = "ABSENT"
        BY <4>1 DEF TypeInv, Ledger
      <4> QED
        BY <2>2, <4>2
    <3> QED
      BY <2>3, <3>1
  <2>5. p \notin a..b /\ op'[p] = op[p]
    BY <2>1, <2>3, <2>4
  <2> QED
    BY <1>a, <2>2, <2>5
<1>2. CASE \E q \in Ids : Turn(q)
  <2>1. PICK q \in Ids : Turn(q)
    BY <1>2
  <2>2. PICK row \in Rows : /\ op' = [op EXCEPT ![q] = row]
                            /\ row.batch = op[q].batch
                            /\ row.status = op[q].status \/ row.status \in {"QUEUED", "CANCELLED"}
                            /\ op[q].status = "SUCCEEDED" => row.status = "SUCCEEDED"
    BY <2>1, TurnFacts
  <2>3. op'[q] = row /\ \A i \in Ids \ {q} : op'[i] = op[i]
    BY <1>0, <2>2
  <2>4. op[o].status \in {"RUNNING", "SUCCEEDED"} /\ op[o].batch # 0 /\ op[p].batch = op[o].batch
    BY <2>2, <2>3
  <2> QED
    BY <1>a, <2>2, <2>3, <2>4
<1>3. CASE \E w \in Workers, c \in Ids : ClaimProfile(w, c) \/ ClaimRelease(w, c)
  <2>1. PICK w \in Workers, c \in Ids : ClaimProfile(w, c) \/ ClaimRelease(w, c)
    BY <1>3
  <2>2. /\ op[c].status \in Active
        /\ op[c].status = "QUEUED" => Runnable(c)
        /\ op'[c] = ClaimedRow(op[c], w)
        /\ \A i \in Ids \ {c} : op'[i] = op[i] \/ (op[i].status = "QUEUED" /\ op'[i] = CancelledRow(op[i]))
    BY <2>1, ClaimFacts
  <2>3. \A i \in Ids : op'[i].batch = op[i].batch
    BY <1>0, <2>2, ClaimedTyped, CancelledTyped
  <2>4. op[p].status = "SUCCEEDED"
    <3>1. CASE o = c
      <4>1. CASE op[c].status = "QUEUED"
        <5>1. op[o].batch # 0 /\ op[p].batch = op[o].batch
          BY <2>3
        <5> QED
          BY <2>2, <3>1, <4>1, <5>1 DEF Runnable
      <4>2. CASE op[c].status = "RUNNING"
        BY <1>a, <2>3, <3>1, <4>2
      <4> QED
        BY <2>2, <4>1, <4>2 DEF Active
    <3>2. CASE o # c
      <4>1. CancelledRow(op[o]).status = "CANCELLED"
        BY <1>0, CancelledTyped
      <4>2. op'[o] = op[o]
        BY <2>2, <3>2, <4>1
      <4> QED
        BY <1>a, <2>3, <4>2
    <3> QED
      BY <3>1, <3>2
  <2> QED
    BY <2>2, <2>4 DEF Active
<1>4. CASE \E w \in Workers : Inner(w)
  <2>1. \A i \in Ids : op'[i].status = op[i].status /\ op'[i].batch = op[i].batch
    BY <1>4, InnerQuiet DEF Quiet, Kept
  <2> QED
    BY <1>a, <2>1
<1>5. CASE \E w \in Workers : Complete(w) \/ Requeue(w)
  <2>1. PICK w \in Workers : Complete(w) \/ Requeue(w)
    BY <1>5
  <2>2. Holds(w) /\ wk[w].op \in Ids
    BY <2>1, EndFacts
  <2>3. PICK row \in Rows : op' = [op EXCEPT ![wk[w].op] = row] /\ row.batch = Job(w).batch
    BY <2>1, EndFacts
  <2>4. op'[wk[w].op] = row /\ \A i \in Ids \ {wk[w].op} : op'[i] = op[i]
    BY <1>0, <2>2, <2>3
  <2>5. op[wk[w].op].status = "RUNNING" /\ \A i \in Ids : op'[i].batch = op[i].batch
    BY <2>2, <2>3, <2>4 DEF Holds, Job
  <2>6. op[o].status \in {"RUNNING", "SUCCEEDED"}
    BY <2>4, <2>5
  <2>7. op[p].status = "SUCCEEDED"
    BY <1>a, <2>5, <2>6
  <2> QED
    BY <2>4, <2>5, <2>7
<1>6. CASE (\E q \in Profiles : Play(q)) \/ UNCHANGED vars
  BY <1>a, <1>6 DEF Play, vars
<1> QED
  BY <1>1, <1>2, <1>3, <1>4, <1>5, <1>6, Kinds

\* A bulk release goes target by target, whatever fails, is cancelled or retried in between.
THEOREM BulkOrder == Spec => []BulkInOrder
<1>1. Init => BulkInOrder
  BY DEF Init, Absent, BulkInOrder
<1> QED
  BY <1>1, TypeInvariant, BulkStep, PTL DEF Spec

-----------------------------------------------------------------------------
(* A lease that is lost stays lost. *)

\* Rows and workers that a step of another worker leaves alone.
LEMMA QuietOthers ==
    ASSUME TypeInv, NEW v \in Workers, Quiet(v), NEW w \in Workers, w # v
    PROVE  wk'[w] = wk[w] /\ (Holds(w)' => Holds(w))
<1>1. wk'[w] = wk[w]
  BY DEF Quiet
<1>2. wk[w].pc # "idle" => wk[w].op \in Ids
  BY DEF TypeInv, TypeOK
<1>3. \A o \in Ids : op'[o].status = op[o].status /\ op'[o].owner = op[o].owner
  BY DEF Quiet, Kept
<1> QED
  BY <1>1, <1>2, <1>3 DEF Holds, Job

\* A worker holds a row because it held it before or because it has just claimed it.
LEMMA Regain ==
    ASSUME TypeInv, [Next]_vars, NEW w \in Workers, Holds(w)'
    PROVE  \/ Holds(w) /\ wk'[w].op = wk[w].op
           \/ wk'[w] = [Idle EXCEPT !.pc = "begin", !.op = wk'[w].op, !.armed = TRUE]
<1>0. op \in [Ids -> Rows] /\ wk \in [Workers -> Works] /\ (wk[w].pc # "idle" => wk[w].op \in Ids)
  BY DEF TypeInv, TypeOK
<1>a. wk'[w].pc # "idle" /\ op'[wk'[w].op].status = "RUNNING" /\ op'[wk'[w].op].owner = w
  BY DEF Holds, Job
<1>1. CASE \E o \in Ids : Adds(o)
  <2>1. PICK a \in Ids, b \in Ids : /\ \A i \in a..b : Fresh(op'[i])
                                    /\ \A i \in Ids \ (a..b) : op'[i] = op[i]
    BY <1>1, AddFacts
  <2>2. wk' = wk
    BY <1>1, AddFacts
  <2>3. op'[wk[w].op] = op[wk[w].op]
    BY <1>0, <1>a, <2>1, <2>2 DEF Fresh
  <2> QED
    BY <1>a, <2>2, <2>3 DEF Holds, Job
<1>2. CASE \E o \in Ids : Turn(o)
  <2>1. PICK o \in Ids : Turn(o)
    BY <1>2
  <2>2. PICK row \in Rows : /\ op' = [op EXCEPT ![o] = row]
                            /\ row.status = op[o].status \/ row.status \in {"QUEUED", "CANCELLED"}
                            /\ row.status = "RUNNING" => row.owner = op[o].owner
    BY <2>1, TurnFacts
  <2>3. wk' = wk
    BY <2>1, TurnFacts
  <2>4. op'[o] = row /\ \A i \in Ids \ {o} : op'[i] = op[i]
    BY <1>0, <2>2
  <2> QED
    BY <1>0, <1>a, <2>2, <2>3, <2>4 DEF Holds, Job
<1>3. CASE \E v \in Workers, c \in Ids : ClaimProfile(v, c) \/ ClaimRelease(v, c)
  <2>1. PICK v \in Workers, c \in Ids : ClaimProfile(v, c) \/ ClaimRelease(v, c)
    BY <1>3
  <2> DEFINE work == [Idle EXCEPT !.pc = "begin", !.op = c, !.armed = TRUE]
  <2>2. /\ op'[c] = ClaimedRow(op[c], v)
        /\ \A i \in Ids \ {c} : op'[i] = op[i] \/ (op[i].status = "QUEUED" /\ op'[i] = CancelledRow(op[i]))
        /\ wk' = [wk EXCEPT ![v] = work]
    BY <2>1, ClaimFacts
  <2>3. work.op = c
    BY DEF Idle
  <2>4. CASE v = w
    BY <1>0, <2>2, <2>3, <2>4
  <2>5. CASE v # w
    <3>1. wk'[w] = wk[w]
      BY <1>0, <2>2, <2>5
    <3>2. op'[c].owner = v
      BY <1>0, <2>2, ClaimedTyped
    <3>3. wk[w].op # c /\ wk[w].op \in Ids
      BY <1>0, <1>a, <2>5, <3>1, <3>2
    <3>4. CancelledRow(op[wk[w].op]).status = "CANCELLED"
      BY <1>0, <3>3, CancelledTyped
    <3>5. op'[wk[w].op] = op[wk[w].op]
      BY <1>a, <2>2, <3>1, <3>3, <3>4
    <3> QED
      BY <1>a, <3>1, <3>5 DEF Holds, Job
  <2> QED
    BY <2>4, <2>5
<1>4. CASE \E v \in Workers : Inner(v)
  <2>1. PICK v \in Workers : Inner(v)
    BY <1>4
  <2>2. Quiet(v)
    BY <2>1, InnerQuiet
  <2>3. CASE v # w
    BY <2>2, <2>3, QuietOthers
  <2>4. CASE v = w
    <3>1. wk'[w] # Idle
      BY <1>a DEF Idle
    <3>2. wk'[w].op = wk[w].op /\ wk[w].pc # "idle"
      BY <2>2, <2>4, <3>1 DEF Quiet
    <3>3. op'[wk[w].op].status = op[wk[w].op].status /\ op'[wk[w].op].owner = op[wk[w].op].owner
      BY <1>0, <2>2, <3>2 DEF Quiet, Kept
    <3> QED
      BY <1>a, <3>2, <3>3 DEF Holds, Job
  <2> QED
    BY <2>3, <2>4
<1>5. CASE \E v \in Workers : Complete(v) \/ Requeue(v)
  <2>1. PICK v \in Workers : Complete(v) \/ Requeue(v)
    BY <1>5
  <2>2. wk[v].op \in Ids /\ wk' = [wk EXCEPT ![v] = Idle]
    BY <2>1, EndFacts
  <2>3. PICK row \in Rows : /\ op' = [op EXCEPT ![wk[v].op] = row]
                            /\ row.status \in {"QUEUED", "SUCCEEDED", "FAILED"}
    BY <2>1, EndFacts
  <2>4. op'[wk[v].op] = row /\ \A i \in Ids \ {wk[v].op} : op'[i] = op[i]
    BY <1>0, <2>2, <2>3
  <2>5. w # v
    BY <1>0, <1>a, <2>2 DEF Idle
  <2>6. wk'[w] = wk[w]
    BY <1>0, <2>2, <2>5
  <2> QED
    BY <1>0, <1>a, <2>3, <2>4, <2>6 DEF Holds, Job
<1>6. CASE (\E q \in Profiles : Play(q)) \/ UNCHANGED vars
  BY <1>6 DEF Play, vars, Holds, Job
<1> QED
  BY <1>1, <1>2, <1>3, <1>4, <1>5, <1>6, Kinds

\* An orchestrator's stray effect ends its assertion, and it never asserts again.
StrayInv ==
    \A w \in Orchestrators :
        /\ wk[w].stray <= 1
        /\ wk[w].stray >= 1 => ~wk[w].armed /\ ~Holds(w) /\ wk[w].pc \notin Early

\* After its one stray effect an orchestrator is not armed, has no lease and is past the early steps.
LEMMA StrayStep == TypeInv /\ StrayInv /\ [Next]_vars => StrayInv'
<1> SUFFICES ASSUME TypeInv, StrayInv, [Next]_vars, NEW w \in Orchestrators
             PROVE  /\ wk'[w].stray <= 1
                    /\ wk'[w].stray >= 1 => ~wk'[w].armed /\ ~Holds(w)' /\ wk'[w].pc \notin Early
  BY DEF StrayInv
<1>0. w \in Workers /\ wk \in [Workers -> Works] /\ wk[w].stray \in Nat
  BY DEF TypeInv, TypeOK, Workers, Works
<1>a. wk[w].stray <= 1 /\ (wk[w].stray >= 1 => ~wk[w].armed /\ ~Holds(w) /\ wk[w].pc \notin Early)
  BY DEF StrayInv
<1>b. Idle.stray = 0
  BY DEF Idle
<1>c. [Idle EXCEPT !.pc = "begin", !.op = wk'[w].op, !.armed = TRUE].stray = 0
  BY DEF Idle
<1>d. wk'[w].stray = 0 \/ (Holds(w)' => Holds(w))
  BY <1>0, <1>c, Regain
<1>1. CASE wk'[w] = wk[w]
  BY <1>0, <1>1, <1>a, <1>d
<1>2. CASE wk'[w].stray = 0
  BY <1>2
<1>3. ASSUME wk[w].stray >= 1 => wk'[w].stray = wk[w].stray /\ ~wk'[w].armed /\ wk'[w].pc \notin Early,
             wk[w].stray = 0 => wk'[w].stray = 0
      PROVE  /\ wk'[w].stray <= 1
             /\ wk'[w].stray >= 1 => ~wk'[w].armed /\ ~Holds(w)' /\ wk'[w].pc \notin Early
  BY <1>0, <1>3, <1>a, <1>d
<1>4. CASE \E o \in Ids : Adds(o) \/ Turn(o)
  BY <1>1, <1>4, AddFacts, TurnFacts
<1>5. CASE \E v \in Workers, c \in Ids : ClaimProfile(v, c) \/ ClaimRelease(v, c)
  <2>1. PICK v \in Workers, c \in Ids : wk' = [wk EXCEPT ![v] = [Idle EXCEPT !.pc = "begin", !.op = c, !.armed = TRUE]]
    BY <1>5, ClaimFacts
  <2>2. [Idle EXCEPT !.pc = "begin", !.op = c, !.armed = TRUE].stray = 0
    BY DEF Idle
  <2> QED
    BY <1>0, <1>1, <1>2, <2>1, <2>2
<1>6. CASE \E v \in Workers : Inner(v)
  <2>1. PICK v \in Workers : Inner(v)
    BY <1>6
  <2>2. CASE v # w
    BY <1>0, <1>1, <2>1, <2>2, InnerQuiet, QuietOthers
  <2>3. CASE v = w
    <3>1. CASE Begin(w)
      <4>1. wk'[w].stray = wk[w].stray /\ wk[w].pc = "begin"
        BY <1>0, <3>1, BeginQuiet
      <4> QED
        BY <1>0, <1>a, <1>2, <4>1 DEF Early
    <3>2. CASE \E commit \in Commits : Pin(w, commit)
      <4>1. wk'[w].stray = wk[w].stray /\ wk[w].pc = "pin"
        BY <1>0, <3>2, PinQuiet
      <4> QED
        BY <1>0, <1>a, <1>2, <4>1 DEF Early
    <3>3. CASE Advances(w)
      <4>1. PICK next : OnWay(w, next) /\ Advance(w, next)
        BY <1>0, <3>3, AdvancesOnWay
      <4>2. wk[w].pc # "idle" /\ wk'[w] = Moved(w, next)
        BY <1>0, <3>3, <4>1, AdvancesOnWay, AdvanceQuiet
      <4>3. next \in Steps /\ TypeOK
        BY <4>1 DEF OnWay, TypeInv
      <4>4. wk'[w].stray = wk[w].stray /\ wk'[w].armed = FALSE /\ wk'[w].pc = next
        <5>1. Moved(w, next).stray = wk[w].stray /\ Moved(w, next).armed = FALSE /\ Moved(w, next).pc = next
          BY <1>0, <4>2, <4>3, MovedTyped
        <5> QED
          BY <4>2, <5>1
      <4> QED
        BY <1>3, <1>a, <4>1, <4>4 DEF OnWay
    <3>4. CASE Effect(w)
      <4>1. wk[w].pc \in Effects
        BY <1>0, <3>4, EffectOnWay
      <4>2. PICK next : (next = wk[w].pc \/ OnWay(w, next)) /\ Touch(w, next)
        BY <1>0, <3>4, EffectOnWay
      <4>3. /\ wk'[w].pc = next /\ Covered(w) /\ ~wk'[w].armed
            /\ wk'[w].stray = IF Holds(w) THEN wk[w].stray ELSE wk[w].stray + 1
        BY <1>0, <4>1, <4>2, TouchQuiet
      <4>4. wk[w].armed
        BY <4>1, <4>3 DEF Covered, Asserts
      <4>5. wk[w].stray = 0
        BY <1>0, <1>a, <4>4
      <4>6. wk[w].pc \notin Early /\ next \notin Early
        BY <4>1, <4>2 DEF OnWay, Effects, Stops, Starts, Early
      <4>7. CASE Holds(w)
        BY <1>2, <4>3, <4>5, <4>7
      <4>8. CASE ~Holds(w)
        <5>1. wk'[w].stray = 1
          BY <4>3, <4>5, <4>8
        <5>2. ~Holds(w)'
          BY <1>d, <4>8, <5>1
        <5> QED
          BY <4>3, <4>6, <5>1, <5>2
      <4> QED
        BY <4>7, <4>8
    <3>5. CASE AssertLease(w)
      <4>1. Holds(w) /\ wk'[w] = [wk[w] EXCEPT !.armed = TRUE]
        BY <1>0, <3>5, AssertQuiet
      <4>2. wk'[w].stray = wk[w].stray
        BY <1>0, <4>1 DEF Works
      <4> QED
        BY <1>0, <1>2, <1>a, <4>1, <4>2
    <3>6. CASE \E status \in {"RUNNING", "STOPPED", "RESERVED", "CANCELLED"} : Fail(w, status)
      <4>1. /\ wk[w].pc \notin {"idle", "begin", "fail"}
            /\ wk'[w].pc = Recovery(w) /\ wk'[w].stray = wk[w].stray /\ ~wk'[w].armed
        BY <1>0, <3>6, FailQuiet
      <4> QED
        BY <1>0, <1>3, <4>1, RecoveryOnWay
    <3>7. CASE Drop(w) \/ Crash(w)
      BY <1>0, <1>2, <1>b, <3>7, LeaveQuiet
    <3>8. CASE Heartbeat(w) \/ BuildOutput(w)
      BY <1>0, <1>1, <3>8, HeartbeatQuiet, OutputQuiet
    <3> QED
      BY <2>1, <2>3, <3>1, <3>2, <3>3, <3>4, <3>5, <3>6, <3>7, <3>8 DEF Inner
  <2> QED
    BY <2>2, <2>3
<1>7. CASE \E v \in Workers : Complete(v) \/ Requeue(v)
  <2>1. PICK v \in Workers : wk' = [wk EXCEPT ![v] = Idle]
    BY <1>7, EndFacts
  <2> QED
    BY <1>0, <1>1, <1>2, <1>b, <2>1
<1>8. CASE (\E q \in Profiles : Play(q)) \/ UNCHANGED vars
  BY <1>1, <1>8 DEF Play, vars
<1> QED
  BY <1>4, <1>5, <1>6, <1>7, <1>8, Kinds

\* An orchestrator that lost its lease finishes at most the one effect it had begun: every
\* effect stands between two assertions, and a lease that is lost is never held again.
THEOREM StrayBound == Spec => []OneStrayEffect
<1>1. Init => StrayInv
  BY DEF Init, Idle, StrayInv, Workers
<1>2. StrayInv => OneStrayEffect
  BY DEF StrayInv, OneStrayEffect
<1> QED
  BY <1>1, <1>2, TypeInvariant, StrayStep, PTL DEF Spec

-----------------------------------------------------------------------------
(* Seasons. *)

\* Only the seeder replaces a season, and only one of another installation.
LEMMA SeasonStep ==
    ASSUME TypeInv, [Next]_vars, NEW p \in Profiles, world[p].played, ~world'[p].played
    PROVE  world'[p].key # world[p].key
<1>0. world \in [Profiles -> [key : 0..MaxOps, commit : Commits, played : BOOLEAN]]
  BY DEF TypeInv, TypeOK
<1>1. CASE \E q \in Profiles : Play(q)
  BY <1>0, <1>1 DEF Play
<1>2. ASSUME NEW w \in Workers, Effect(w)
      PROVE  world'[p].key # world[p].key
  <2>1. Seed(w)
    BY <1>2, EffectOnWay
  <2>2. /\ world[Job(w).target].key # Job(w).key
        /\ world' = [world EXCEPT ![Job(w).target] = [key |-> Job(w).key, commit |-> wk[w].commit, played |-> FALSE]]
    BY <2>1 DEF Seed
  <2>3. p = Job(w).target
    BY <1>0, <2>2
  <2> QED
    BY <1>0, <2>2, <2>3
<1>3. CASE \E w \in Workers : Inner(w)
  <2>1. PICK w \in Workers : Inner(w)
    BY <1>3
  <2>2. CASE Effect(w)
    BY <1>2, <2>2
  <2>3. CASE Advances(w)
    BY <2>3, AdvancesOnWay
  <2>4. CASE ~Effect(w) /\ ~Advances(w)
    BY <2>1, <2>4 DEF Inner, Begin, Pin, AssertLease, Fail, Drop, Heartbeat, BuildOutput, Crash
  <2> QED
    BY <2>2, <2>3, <2>4
<1>4. CASE \E o \in Ids : Adds(o) \/ Turn(o)
  BY <1>4, AddFacts, TurnFacts
<1>5. CASE \E w \in Workers, c \in Ids : ClaimProfile(w, c) \/ ClaimRelease(w, c)
  BY <1>5, ClaimFacts
<1>6. CASE \E w \in Workers : Complete(w) \/ Requeue(w)
  BY <1>6, EndFacts
<1>7. CASE UNCHANGED vars
  BY <1>7 DEF vars
<1> QED
  BY <1>1, <1>3, <1>4, <1>5, <1>6, <1>7, Kinds

\* A season that players have begun is never wiped by the installation that made it, however
\* often its RESET is taken over, retried or repeated by a worker without the lease.
THEOREM SeasonSafe == Spec => SeasonKept
<1>1. TypeInv /\ [Next]_vars =>
        [\A p \in Profiles : world[p].played /\ ~world'[p].played => world'[p].key # world[p].key]_vars
  BY SeasonStep
<1> QED
  BY <1>1, TypeInvariant, PTL DEF Spec, SeasonKept

-----------------------------------------------------------------------------
(* Cancelled builds. *)

\* In its first attempt a row has no worker but its owner; while its log has every line, what
\* that worker has touched, or is about to, is out of the reach of a cancellation.
Building(o) ==
    op[o].status = "RUNNING" /\ op[o].attempts = 1 /\ op[o].log = "kept" =>
        /\ op[o].touched => op[o].phase # "early"
        /\ \A w \in Workers : wk[w].pc # "idle" /\ wk[w].op = o =>
             /\ op[o].owner = w
             /\ wk[w].pc \notin Early => op[o].phase # "early"
             /\ op[o].touched => wk[w].pc \notin Early

BuildInv == \A o \in Ids : Building(o)

\* A quiet step of the owner.
LEMMA BuildOwner ==
    ASSUME TypeInv, BuildInv, NEW w \in Workers, Quiet(w),
           Holds(w) /\ Job(w).log = "kept" =>
                       \/ wk'[w] = Idle /\ op'[wk[w].op].phase = Job(w).phase
                          /\ op'[wk[w].op].touched = Job(w).touched
                       \/ /\ op'[wk[w].op].touched => op'[wk[w].op].phase # "early" /\ wk'[w].pc \notin Early
                          /\ wk'[w].pc \notin Early => op'[wk[w].op].phase # "early"
    PROVE  BuildInv'
<1> SUFFICES ASSUME NEW o \in Ids, op'[o].status = "RUNNING", op'[o].attempts = 1, op'[o].log = "kept"
             PROVE  /\ op'[o].touched => op'[o].phase # "early"
                    /\ \A v \in Workers : wk'[v].pc # "idle" /\ wk'[v].op = o =>
                         /\ op'[o].owner = v
                         /\ wk'[v].pc \notin Early => op'[o].phase # "early"
                         /\ op'[o].touched => wk'[v].pc \notin Early
  BY DEF BuildInv, Building
<1>1. op[o].status = "RUNNING" /\ op[o].attempts = 1 /\ op[o].log = "kept" /\ op'[o].owner = op[o].owner
  BY DEF Quiet, Kept
<1>2. Building(o) /\ wk[w].pc # "idle"
  BY DEF BuildInv, Quiet
<1>3. CASE wk[w].op # o
  <2>1. op'[o] = op[o]
    BY <1>3 DEF Quiet
  <2>2. wk'[w].pc = "idle" \/ wk'[w].op # o
    BY <1>3 DEF Quiet, Idle
  <2>3. \A v \in Workers \ {w} : wk'[v] = wk[v]
    BY DEF Quiet
  <2> QED
    BY <1>1, <1>2, <2>1, <2>2, <2>3 DEF Building
<1>4. CASE wk[w].op = o
  <2>1. op[o].owner = w /\ Holds(w)
    BY <1>1, <1>2, <1>4 DEF Building, Holds, Job
  <2>2. \A v \in Workers \ {w} : wk'[v].pc # "idle" => wk'[v].op # o
    BY <1>1, <1>2, <2>1 DEF Building, Quiet
  <2>3. CASE wk'[w] = Idle /\ op'[o].phase = op[o].phase /\ op'[o].touched = op[o].touched
    BY <1>1, <1>2, <2>2, <2>3 DEF Building, Idle
  <2>4. CASE /\ op'[o].touched => op'[o].phase # "early" /\ wk'[w].pc \notin Early
             /\ wk'[w].pc \notin Early => op'[o].phase # "early"
    BY <1>1, <2>1, <2>2, <2>4
  <2> QED
    BY <1>1, <1>4, <2>1, <2>3, <2>4 DEF Job
<1> QED
  BY <1>3, <1>4

\* What the holder logs.
LEMMA HolderLogs ==
    ASSUME NEW w \in Workers, Holds(w), Job(w).log = "kept", NEW next
    PROVE  Logged(w, next) = "early" <=> next \in Early
  BY DEF Logged

\* A handler that is still in its early steps has touched nothing.
LEMMA BuildInner ==
    ASSUME TypeInv, BuildInv, NEW w \in Workers, Inner(w)
    PROVE  BuildInv'
<1>1. Quiet(w) /\ wk[w].pc # "idle"
  BY InnerQuiet DEF Quiet
<1>2. wk[w].op \in Ids
  BY <1>1 DEF TypeInv, TypeOK
<1> DEFINE o == wk[w].op
<1>a. Job(w).status = "RUNNING" /\ Job(w).attempts = 1 /\ Job(w).log = "kept" =>
        Holds(w) /\ (Job(w).touched => Job(w).phase # "early" /\ wk[w].pc \notin Early)
        /\ (wk[w].pc \notin Early => Job(w).phase # "early")
  BY <1>1, <1>2 DEF BuildInv, Building, Holds, Job
<1>b. SUFFICES ASSUME Job(w).status = "RUNNING", Job(w).attempts = 1, Job(w).log = "kept"
               PROVE  \/ wk'[w] = Idle /\ op'[o].phase = Job(w).phase
                         /\ op'[o].touched = Job(w).touched
                      \/ /\ op'[o].touched => op'[o].phase # "early" /\ wk'[w].pc \notin Early
                         /\ wk'[w].pc \notin Early => op'[o].phase # "early"
  <2> DEFINE Goal == \/ wk'[w] = Idle /\ op'[o].phase = Job(w).phase
                        /\ op'[o].touched = Job(w).touched
                     \/ /\ op'[o].touched => op'[o].phase # "early" /\ wk'[w].pc \notin Early
                        /\ wk'[w].pc \notin Early => op'[o].phase # "early"
  <2>1. CASE Job(w).attempts = 1
    <3>1. Holds(w) /\ Job(w).log = "kept" => Goal
      BY <1>b, <2>1 DEF Holds
    <3> QED
      BY <1>1, <3>1, BuildOwner
  <2>2. CASE Job(w).attempts # 1
    <3> SUFFICES ASSUME NEW p \in Ids, op'[p].status = "RUNNING", op'[p].attempts = 1, op'[p].log = "kept"
                 PROVE  Building(p)'
      BY DEF BuildInv, Building
    <3>1. p # o
      BY <1>1, <1>2, <2>2 DEF Quiet, Kept, Job
    <3>2. op'[p] = op[p] /\ Building(p)
      BY <1>1, <3>1 DEF Quiet, BuildInv
    <3>3. wk'[w].pc = "idle" \/ wk'[w].op # p
      BY <1>1, <3>1 DEF Quiet, Idle
    <3>4. \A v \in Workers \ {w} : wk'[v] = wk[v]
      BY <1>1 DEF Quiet
    <3> QED
      BY <3>2, <3>3, <3>4 DEF Building
  <2> QED
    BY <2>1, <2>2
<1>c. /\ Holds(w) /\ (Job(w).touched => Job(w).phase # "early" /\ wk[w].pc \notin Early)
      /\ wk[w].pc \notin Early => Job(w).phase # "early"
  BY <1>a, <1>b
<1>d. ASSUME NEW next, wk'[w].pc = next, op'[o].phase = Logged(w, next), op'[o].touched = Job(w).touched,
             wk[w].pc \notin Early => next \notin Early
      PROVE  /\ op'[o].touched => op'[o].phase # "early" /\ wk'[w].pc \notin Early
             /\ wk'[w].pc \notin Early => op'[o].phase # "early"
  BY <1>b, <1>c, <1>d, HolderLogs
<1>3. CASE Begin(w)
  <2>1. op'[o].touched = Job(w).touched
    BY <1>3, BeginQuiet
  <2>2. PICK next : OnWay(w, next) /\ wk'[w].pc = next /\ op'[o].phase = Logged(w, next)
    BY <1>3, BeginQuiet
  <2> QED
    BY <1>d, <2>1, <2>2 DEF OnWay
<1>4. CASE \E commit \in Commits : Pin(w, commit)
  <2>1. op'[o].touched = Job(w).touched
    BY <1>4, PinQuiet
  <2>2. PICK next : OnWay(w, next) /\ wk'[w].pc = next /\ op'[o].phase = Logged(w, next)
    BY <1>4, PinQuiet
  <2> QED
    BY <1>d, <2>1, <2>2 DEF OnWay
<1>5. CASE Advances(w)
  <2>1. PICK next : OnWay(w, next) /\ Advance(w, next)
    BY <1>5, AdvancesOnWay
  <2>2. next \in Steps /\ TypeOK
    BY <2>1 DEF OnWay, TypeInv
  <2>3. op'[o].touched = Job(w).touched /\ op'[o].phase = Logged(w, next) /\ wk'[w] = Moved(w, next)
    BY <1>1, <2>1, AdvanceQuiet
  <2>4. Moved(w, next).pc = next
    BY <1>1, <2>2, MovedTyped
  <2> QED
    BY <1>d, <2>1, <2>3, <2>4 DEF OnWay
<1>6. CASE Effect(w)
  <2>1. wk[w].pc \in Effects
    BY <1>6, EffectOnWay
  <2>2. PICK next : (next = wk[w].pc \/ OnWay(w, next)) /\ Touch(w, next)
    BY <1>6, EffectOnWay
  <2>3. wk'[w].pc = next /\ op'[o].phase = IF next = wk[w].pc THEN Job(w).phase ELSE Logged(w, next)
    BY <2>1, <2>2, TouchQuiet
  <2>4. wk[w].pc \notin Early /\ next \notin Early
    BY <2>1, <2>2 DEF OnWay, Effects, Stops, Starts, Early
  <2> QED
    BY <1>b, <1>c, <2>3, <2>4, HolderLogs
<1>7. CASE AssertLease(w)
  <2>1. /\ wk'[w] = [wk[w] EXCEPT !.armed = TRUE]
        /\ op'[o].phase = Job(w).phase /\ op'[o].touched = Job(w).touched
    BY <1>7, AssertQuiet
  <2>2. wk'[w].pc = wk[w].pc
    BY <1>1, <2>1, JobTyped DEF TypeInv, Works
  <2> QED
    BY <1>c, <2>1, <2>2
<1>8. CASE \E status \in {"RUNNING", "STOPPED", "RESERVED", "CANCELLED"} : Fail(w, status)
  <2>1. /\ wk[w].pc \notin {"idle", "begin", "fail"}
        /\ wk'[w].pc = Recovery(w) /\ op'[o].phase = Logged(w, Recovery(w))
        /\ op'[o].touched = Job(w).touched
    BY <1>8, FailQuiet
  <2>2. Recovery(w) \notin Early
    BY <2>1, RecoveryOnWay
  <2> QED
    BY <1>d, <2>1, <2>2
<1>9. CASE Drop(w)
  BY <1>9, <1>c, LeaveQuiet
<1>10. CASE Crash(w)
  <2>1. wk'[w] = Idle
    BY <1>10, LeaveQuiet
  <2>2. op' = op
    BY <1>10 DEF Crash
  <2> QED
    BY <2>1, <2>2 DEF Job
<1>11. CASE Heartbeat(w)
  BY <1>11, <1>c, HeartbeatQuiet
<1>12. CASE BuildOutput(w)
  <2>1. wk' = wk /\ wk[w].pc = "build" /\ op'[o].touched = Job(w).touched
    BY <1>12, OutputQuiet
  <2> QED
    BY <1>c, <2>1 DEF Early
<1> QED
  BY <1>3, <1>4, <1>5, <1>6, <1>7, <1>8, <1>9, <1>10, <1>11, <1>12 DEF Inner

\* Every step keeps the link between the log's class, the handler's step and what was touched.
LEMMA BuildStep == TypeInv /\ BuildInv /\ [Next]_vars => BuildInv'
<1> SUFFICES ASSUME TypeInv, BuildInv, [Next]_vars PROVE BuildInv'
  OBVIOUS
<1>0. op \in [Ids -> Rows] /\ wk \in [Workers -> Works]
  BY DEF TypeInv, TypeOK
<1>1. CASE \E o \in Ids : Adds(o)
  <2>1. PICK a \in Ids, b \in Ids : /\ \A i \in a..b : Fresh(op'[i])
                                    /\ \A i \in Ids \ (a..b) : op'[i] = op[i]
    BY <1>1, AddFacts
  <2>2. wk' = wk
    BY <1>1, AddFacts
  <2>3. \A i \in Ids : op'[i] = op[i] \/ op'[i].status # "RUNNING"
    BY <2>1 DEF Fresh
  <2> QED
    BY <2>2, <2>3 DEF BuildInv, Building
<1>2. CASE \E o \in Ids : Turn(o)
  <2>1. PICK o \in Ids : Turn(o)
    BY <1>2
  <2>2. PICK row \in Rows : /\ op' = [op EXCEPT ![o] = row]
                            /\ row.touched = op[o].touched /\ row.attempts = op[o].attempts
                            /\ row.status = op[o].status \/ row.status \in {"QUEUED", "CANCELLED"}
                            /\ row.status = "RUNNING" => row.owner = op[o].owner /\ row.phase = op[o].phase
                            /\ row.log = "kept" => op[o].log = "kept"
    BY <2>1, TurnFacts
  <2>3. wk' = wk
    BY <2>1, TurnFacts
  <2>4. op'[o] = row /\ \A i \in Ids \ {o} : op'[i] = op[i]
    BY <1>0, <2>2
  <2>5. ASSUME NEW i \in Ids PROVE Building(i)'
    <3>1. Building(i)
      BY DEF BuildInv
    <3>2. CASE i = o
      BY <2>2, <2>3, <2>4, <3>1, <3>2 DEF Building
    <3>3. CASE i # o
      BY <2>3, <2>4, <3>1, <3>3 DEF Building
    <3> QED
      BY <3>2, <3>3
  <2> QED
    BY <2>5 DEF BuildInv
<1>3. CASE \E w \in Workers, c \in Ids : ClaimProfile(w, c) \/ ClaimRelease(w, c)
  <2>1. PICK w \in Workers, c \in Ids : ClaimProfile(w, c) \/ ClaimRelease(w, c)
    BY <1>3
  <2> DEFINE work == [Idle EXCEPT !.pc = "begin", !.op = c, !.armed = TRUE]
  <2>2. /\ wk[w].pc = "idle" /\ op'[c] = ClaimedRow(op[c], w)
        /\ \A i \in Ids \ {c} : op'[i] = op[i] \/ (op[i].status = "QUEUED" /\ op'[i] = CancelledRow(op[i]))
        /\ wk' = [wk EXCEPT ![w] = work]
    BY <2>1, ClaimFacts
  <2>3. work.op = c /\ work.pc = "begin" /\ "begin" \in Early
    BY DEF Idle, Early
  <2> HIDE DEF work
  <2>4. wk'[w] = work /\ \A v \in Workers \ {w} : wk'[v] = wk[v]
    BY <1>0, <2>2
  <2>5. Building(c)'
    <3> SUFFICES ASSUME op'[c].attempts = 1
                 PROVE  /\ ~op'[c].touched
                        /\ \A v \in Workers : wk'[v].pc # "idle" /\ wk'[v].op = c =>
                             op'[c].owner = v /\ wk'[v].pc \in Early
      BY DEF Building
    <3>1. op'[c].owner = w /\ op'[c].attempts = (IF op[c].attempts = 0 THEN 1 ELSE 2) /\ op'[c].touched = op[c].touched
      BY <1>0, <2>2, ClaimedTyped
    <3>2. op[c].attempts = 0
      BY <3>1
    <3>3. ~op[c].touched /\ \A v \in Workers : wk[v].pc # "idle" => wk[v].op # c
      BY <3>2 DEF TypeInv, Ledger
    <3> QED
      BY <2>3, <2>4, <3>1, <3>3
  <2>6. ASSUME NEW i \in Ids, i # c PROVE Building(i)'
    <3>1. op'[i] = op[i] \/ op'[i].status # "RUNNING"
      <4>1. CancelledRow(op[i]).status = "CANCELLED"
        BY <1>0, CancelledTyped
      <4> QED
        BY <2>2, <2>6, <4>1
    <3>2. \A v \in Workers : wk'[v].op = i => wk'[v] = wk[v]
      BY <2>3, <2>4, <2>6
    <3>3. Building(i)
      BY DEF BuildInv
    <3> QED
      BY <3>1, <3>2, <3>3 DEF Building
  <2> QED
    BY <2>5, <2>6 DEF BuildInv
<1>4. CASE \E w \in Workers : Inner(w)
  BY <1>4, BuildInner
<1>5. CASE \E w \in Workers : Complete(w) \/ Requeue(w)
  <2>1. PICK w \in Workers : Complete(w) \/ Requeue(w)
    BY <1>5
  <2>2. wk[w].op \in Ids /\ wk' = [wk EXCEPT ![w] = Idle]
    BY <2>1, EndFacts
  <2>3. PICK row \in Rows : /\ op' = [op EXCEPT ![wk[w].op] = row]
                            /\ row.status \in {"QUEUED", "SUCCEEDED", "FAILED"}
    BY <2>1, EndFacts
  <2>4. \A i \in Ids : op'[i] = op[i] \/ op'[i].status # "RUNNING"
    BY <1>0, <2>3
  <2>5. \A v \in Workers : wk'[v] = wk[v] \/ wk'[v].pc = "idle"
    BY <1>0, <2>2 DEF Idle
  <2> QED
    BY <2>4, <2>5 DEF BuildInv, Building
<1>6. CASE (\E q \in Profiles : Play(q)) \/ UNCHANGED vars
  BY <1>6 DEF Play, vars, BuildInv, Building
<1> QED
  BY <1>1, <1>2, <1>3, <1>4, <1>5, <1>6, Kinds

\* Only a request cancels what runs, and only while its latest log is about the build.
LEMMA CancelStep ==
    ASSUME TypeInv, BuildInv, [Next]_vars, NEW o \in Ids, op[o].status = "RUNNING",
           op'[o].status = "CANCELLED", op[o].attempts = 1, op[o].log = "kept"
    PROVE  ~op[o].touched
<1>0. op \in [Ids -> Rows]
  BY DEF TypeInv, TypeOK
<1>1. CASE \E q \in Ids : Adds(q)
  BY <1>1, AddFacts DEF Fresh
<1>2. CASE \E q \in Ids : Turn(q)
  <2>1. PICK q \in Ids : Turn(q)
    BY <1>2
  <2>2. PICK row \in Rows : /\ op' = [op EXCEPT ![q] = row]
                            /\ op[q].status = "RUNNING" =>
                                 row.status = "RUNNING" \/ (row.status = "CANCELLED" /\ op[q].phase = "early"
                                                            /\ op[q].type \in {"DEPLOY", "RELEASE"})
    BY <2>1, TurnFacts
  <2>3. op[o].phase = "early"
    BY <1>0, <2>2
  <2> QED
    BY <2>3 DEF BuildInv, Building
<1>3. CASE \E w \in Workers, c \in Ids : ClaimProfile(w, c) \/ ClaimRelease(w, c)
  <2>1. PICK w \in Workers, c \in Ids : ClaimProfile(w, c) \/ ClaimRelease(w, c)
    BY <1>3
  <2>2. /\ op'[c] = ClaimedRow(op[c], w)
        /\ \A i \in Ids \ {c} : op'[i] = op[i] \/ (op[i].status = "QUEUED" /\ op'[i] = CancelledRow(op[i]))
    BY <2>1, ClaimFacts
  <2>3. ClaimedRow(op[c], w).status = "RUNNING"
    BY <1>0, ClaimedTyped
  <2> QED
    BY <2>2, <2>3
<1>4. CASE \E w \in Workers : Inner(w)
  BY <1>4, InnerQuiet DEF Quiet, Kept
<1>5. CASE \E w \in Workers : Complete(w) \/ Requeue(w)
  <2>1. PICK w \in Workers : Complete(w) \/ Requeue(w)
    BY <1>5
  <2>2. PICK row \in Rows : /\ op' = [op EXCEPT ![wk[w].op] = row]
                            /\ row.status \in {"QUEUED", "SUCCEEDED", "FAILED"}
    BY <2>1, EndFacts
  <2> QED
    BY <1>0, <2>2
<1>6. CASE (\E q \in Profiles : Play(q)) \/ UNCHANGED vars
  BY <1>6 DEF Play, vars
<1> QED
  BY <1>1, <1>2, <1>3, <1>4, <1>5, <1>6, Kinds

\* A handler whose first attempt no longer runs is still before its first effect, or stands at
\* an effect that it may only begin after asserting a lease it does not have.
Stalled(w) ==
    \/ wk[w].pc \in Early
    \/ ~wk[w].armed /\ (w \in Orchestrators \/ wk[w].pc \in {"migrate", "fail"})

Ending(o) ==
    op[o].status # "RUNNING" /\ op[o].attempts = 1 /\ op[o].log = "kept" =>
        \A w \in Workers : wk[w].pc # "idle" /\ wk[w].op = o =>
            op[o].type \in {"DEPLOY", "RELEASE"} /\ Stalled(w)

EndingInv == \A o \in Ids : Ending(o)

\* Without the lease such a handler only leaves, or goes on to where it must assert it.
LEMMA StalledStays ==
    ASSUME TypeInv, NEW w \in Workers, Inner(w), Job(w).type \in {"DEPLOY", "RELEASE"},
           ~Holds(w), Stalled(w)
    PROVE  wk'[w] = Idle \/ Stalled(w)'
<1>0. /\ wk[w].pc # "idle" /\ wk[w] \in Works /\ TypeOK
      /\ w \in Controllers <=> Job(w).type = "RELEASE"
      /\ w \in Orchestrators \/ w \in Controllers
  BY InnerQuiet, JobTyped DEF Quiet, TypeInv, TypeOK, Job, Workers
<1>1. CASE Begin(w)
  <2>1. wk[w].pc = "begin"
    BY <1>1 DEF Begin, At
  <2>2. Path[Job(w).type]["begin"] = "pin"
    BY DEF Path
  <2>3. wk'[w].pc = "pin"
    <3>1. wk' = [wk EXCEPT ![w] = [Moved(w, "pin") EXCEPT !.old = site[Job(w).target].commit,
                                     !.status = site[Job(w).target].status, !.armed = ("pin" = "clock")]]
      BY <1>1, <2>2 DEF Begin
    <3>2. Moved(w, "pin") \in Works /\ Moved(w, "pin").pc = "pin"
      BY <1>0, MovedTyped DEF Steps, Early
    <3> QED
      BY <1>0, <3>1, <3>2 DEF TypeOK, Works
  <2> QED
    BY <2>3 DEF Stalled, Early
<1>2. CASE \E commit \in Commits : Pin(w, commit)
  BY <1>2 DEF Pin
<1>3. CASE Advances(w)
  <2>1. PICK next : OnWay(w, next) /\ Advance(w, next)
    BY <1>3, AdvancesOnWay
  <2>2. wk'[w] = Moved(w, next) /\ next \in Steps
    BY <1>0, <2>1, AdvanceQuiet DEF OnWay
  <2>3. ~wk'[w].armed /\ wk'[w].pc = next
    BY <1>0, <2>2, MovedTyped
  <2>4. CASE w \in Orchestrators
    BY <2>3, <2>4 DEF Stalled
  <2>5. CASE w \in Controllers
    <3>1. Build(w)
      <4>1. wk[w].pc \in Early \cup {"migrate", "fail"}
        BY <2>5, WorkersAssumption DEF Stalled
      <4> QED
        BY <1>3, <4>1 DEF Advances, LoopDone, Ready, Mark, SetStatus, Publish, Write, At, Early, Stops, Starts
    <3>2. wk[w].pc = "build" /\ wk' = [wk EXCEPT ![w] = Moved(w, Following(w))]
      BY <3>1 DEF Build, At, Advance
    <3>3. Job(w).type = "RELEASE"
      BY <1>0, <2>5
    <3>4. Following(w) = "migrate"
      BY <3>2, <3>3 DEF Following, Path
    <3>5. wk'[w] = Moved(w, "migrate")
      BY <1>0, <3>2, <3>4 DEF TypeOK
    <3>6. Moved(w, "migrate").pc = "migrate"
      BY <1>0, MovedTyped DEF Steps, Effects
    <3> QED
      BY <2>3, <3>5, <3>6 DEF Stalled
  <2> QED
    BY <1>0, <2>4, <2>5
<1>4. CASE Effect(w)
  <2>1. wk[w].pc \in Effects
    BY <1>4, EffectOnWay
  <2>2. PICK next : (next = wk[w].pc \/ OnWay(w, next)) /\ Touch(w, next)
    BY <1>4, EffectOnWay
  <2>3. Covered(w)
    BY <2>1, <2>2, TouchQuiet
  <2>4. wk[w].pc \notin Early \cup {"fail"}
    BY <2>1 DEF Effects, Stops, Starts, Early
  <2>5. ~wk[w].armed /\ Asserts(w)
    BY <2>1, <2>4 DEF Stalled, Asserts
  <2> QED
    BY <2>3, <2>5 DEF Covered
<1>5. CASE AssertLease(w)
  BY <1>5 DEF AssertLease
<1>6. CASE \E status \in {"RUNNING", "STOPPED", "RESERVED", "CANCELLED"} : Fail(w, status)
  <2>1. wk'[w].pc = Recovery(w) /\ ~wk'[w].armed
    BY <1>6, FailQuiet
  <2>2. CASE w \in Orchestrators
    BY <2>1, <2>2 DEF Stalled
  <2>3. CASE w \in Controllers
    <3>1. wk[w].pc \in Early \cup {"migrate", "fail"}
      BY <2>3, WorkersAssumption DEF Stalled
    <3>2. Recovery(w) = "fail"
      BY <1>0, <2>3, <3>1 DEF Recovery, Early
    <3> QED
      BY <2>1, <3>2 DEF Stalled
  <2> QED
    BY <1>0, <2>2, <2>3
<1>7. CASE Drop(w) \/ Crash(w)
  BY <1>7, LeaveQuiet
<1>8. CASE Heartbeat(w)
  BY <1>8 DEF Heartbeat
<1>9. CASE BuildOutput(w)
  BY <1>9, OutputQuiet DEF Stalled
<1> QED
  BY <1>1, <1>2, <1>3, <1>4, <1>5, <1>6, <1>7, <1>8, <1>9 DEF Inner

\* Rows end under their owner, who is then gone, or are cancelled before the first effect.
LEMMA EndingStep == TypeInv /\ BuildInv /\ EndingInv /\ [Next]_vars => EndingInv'
<1> SUFFICES ASSUME TypeInv, BuildInv, EndingInv, [Next]_vars,
                    NEW o \in Ids, op'[o].status # "RUNNING", op'[o].attempts = 1, op'[o].log = "kept",
                    NEW w \in Workers, wk'[w].pc # "idle", wk'[w].op = o
             PROVE  op'[o].type \in {"DEPLOY", "RELEASE"} /\ Stalled(w)'
  BY DEF EndingInv, Ending
<1>0. op \in [Ids -> Rows] /\ wk \in [Workers -> Works] /\ Building(o) /\ Ending(o)
  BY DEF TypeInv, TypeOK, BuildInv, EndingInv
<1>a. ASSUME wk'[w] = wk[w], op'[o].type = op[o].type, op[o].attempts = 1, op[o].log = "kept",
             op[o].status # "RUNNING"
      PROVE  op'[o].type \in {"DEPLOY", "RELEASE"} /\ Stalled(w)'
  BY <1>0, <1>a DEF Ending, Stalled
<1>1. CASE \E q \in Ids : Adds(q)
  <2>1. PICK a \in Ids, b \in Ids : /\ \A i \in a..b : Fresh(op'[i])
                                    /\ \A i \in Ids \ (a..b) : op'[i] = op[i]
    BY <1>1, AddFacts
  <2>2. wk' = wk
    BY <1>1, AddFacts
  <2>3. op'[o] = op[o]
    BY <2>1 DEF Fresh
  <2> QED
    BY <1>a, <2>2, <2>3
<1>2. CASE \E q \in Ids : Turn(q)
  <2>1. PICK q \in Ids : Turn(q)
    BY <1>2
  <2>2. PICK row \in Rows :
          /\ op' = [op EXCEPT ![q] = row]
          /\ row.type = op[q].type
          /\ row.attempts = op[q].attempts /\ (row.log = "kept" => op[q].log = "kept")
          /\ op[q].status = "RUNNING" =>
               row.status = "RUNNING" \/ (row.status = "CANCELLED" /\ op[q].phase = "early"
                                          /\ op[q].type \in {"DEPLOY", "RELEASE"})
    BY <2>1, TurnFacts
  <2>3. wk' = wk
    BY <2>1, TurnFacts
  <2>4. op[o].attempts = 1 /\ op[o].log = "kept" /\ op'[o].type = op[o].type
    BY <1>0, <2>2
  <2>5. CASE op[o].status # "RUNNING"
    BY <1>a, <2>3, <2>4, <2>5
  <2>6. CASE op[o].status = "RUNNING"
    <3>1. op[o].phase = "early" /\ op[o].type \in {"DEPLOY", "RELEASE"}
      BY <1>0, <2>2, <2>6
    <3>2. wk[w].pc \in Early
      BY <1>0, <2>3, <2>4, <2>6, <3>1 DEF Building
    <3> QED
      BY <2>3, <2>4, <3>1, <3>2 DEF Stalled
  <2> QED
    BY <2>5, <2>6
<1>3. CASE \E v \in Workers, c \in Ids : ClaimProfile(v, c) \/ ClaimRelease(v, c)
  <2>1. PICK v \in Workers, c \in Ids : ClaimProfile(v, c) \/ ClaimRelease(v, c)
    BY <1>3
  <2> DEFINE work == [Idle EXCEPT !.pc = "begin", !.op = c, !.armed = TRUE]
  <2>2. /\ op'[c] = ClaimedRow(op[c], v)
        /\ \A i \in Ids \ {c} : op'[i] = op[i] \/ (op[i].status = "QUEUED" /\ op'[i] = CancelledRow(op[i]))
        /\ wk' = [wk EXCEPT ![v] = work]
    BY ONLY TypeInv, <2>1, ClaimFacts
  <2>3. work.op = c
    BY DEF Idle
  <2> HIDE DEF work
  <2>4. op'[c].status = "RUNNING"
    BY <1>0, <2>2, ClaimedTyped
  <2>5. c # o /\ wk'[w] = wk[w]
    BY <1>0, <2>2, <2>3, <2>4
  <2>6. /\ op'[o].type = op[o].type /\ op'[o].attempts = op[o].attempts /\ op'[o].log = op[o].log
        /\ op[o].status # "RUNNING"
    <3>1. CASE op'[o] = op[o]
      BY <3>1
    <3>2. CASE op[o].status = "QUEUED" /\ op'[o] = CancelledRow(op[o])
      BY <1>0, <3>2, CancelledTyped
    <3> QED
      BY <2>2, <2>5, <3>1, <3>2
  <2> QED
    BY <1>a, <2>5, <2>6
<1>4. CASE \E v \in Workers : Inner(v)
  <2>1. PICK v \in Workers : Inner(v)
    BY <1>4
  <2>2. Quiet(v)
    BY <2>1, InnerQuiet
  <2>3. /\ op'[o].type = op[o].type /\ op[o].attempts = 1 /\ op[o].log = "kept"
        /\ op[o].status # "RUNNING"
    BY <2>2 DEF Quiet, Kept
  <2>4. CASE v # w
    <3>1. wk'[w] = wk[w]
      BY <2>2, <2>4 DEF Quiet
    <3> QED
      BY <1>a, <2>3, <3>1
  <2>5. CASE v = w
    <3>1. wk[w].op = o /\ wk[w].pc # "idle" /\ wk'[w] # Idle
      BY <2>2, <2>5 DEF Quiet, Idle
    <3>2. op[o].type \in {"DEPLOY", "RELEASE"} /\ Stalled(w)
      BY <1>0, <2>3, <3>1 DEF Ending
    <3>3. ~Holds(w) /\ Job(w).type = op[o].type
      BY <2>3, <3>1 DEF Holds, Job
    <3>4. Stalled(w)'
      BY <2>1, <2>5, <3>1, <3>2, <3>3, StalledStays
    <3> QED
      BY <2>3, <3>2, <3>4
  <2> QED
    BY <2>4, <2>5
<1>5. CASE \E v \in Workers : Complete(v) \/ Requeue(v)
  <2>1. PICK v \in Workers : Complete(v) \/ Requeue(v)
    BY <1>5
  <2>2. Holds(v) /\ wk[v].op \in Ids /\ wk' = [wk EXCEPT ![v] = Idle]
    BY <2>1, EndFacts
  <2>3. PICK row \in Rows :
          /\ op' = [op EXCEPT ![wk[v].op] = row]
          /\ row.attempts = Job(v).attempts /\ row.log = Job(v).log
    BY <2>1, EndFacts
  <2>4. v # w /\ wk'[w] = wk[w]
    BY <1>0, <2>2 DEF Idle
  <2>5. CASE wk[v].op = o
    <3>1. op[o].status = "RUNNING" /\ op[o].attempts = 1 /\ op[o].log = "kept" /\ op[o].owner = v
      BY <1>0, <2>2, <2>3, <2>5 DEF Holds, Job
    <3>2. op[o].owner = w
      BY <1>0, <2>4, <3>1 DEF Building
    <3> QED
      BY <2>4, <3>1, <3>2
  <2>6. CASE wk[v].op # o
    <3>1. op'[o] = op[o]
      BY <1>0, <2>3, <2>6
    <3> QED
      BY <1>a, <2>4, <3>1
  <2> QED
    BY <2>5, <2>6
<1>6. CASE (\E q \in Profiles : Play(q)) \/ UNCHANGED vars
  <2>1. wk' = wk /\ op' = op
    BY <1>6 DEF Play, vars
  <2> QED
    BY <1>a, <2>1
<1> QED
  BY <1>1, <1>2, <1>3, <1>4, <1>5, <1>6, Kinds

\* Nobody touches anything for a first attempt that was cancelled.
LEMMA CancelledStep ==
    ASSUME TypeInv, EndingInv, [Next]_vars, NEW o \in Ids, op[o].status = "CANCELLED",
           op[o].attempts = 1, op[o].log = "kept"
    PROVE  op'[o].touched = op[o].touched
<1>0. op \in [Ids -> Rows] /\ Ending(o)
  BY DEF TypeInv, TypeOK, EndingInv
<1>1. CASE \E q \in Ids : Adds(q)
  <2>1. PICK a \in Ids, b \in Ids : a <= b /\ Unused(a) /\ \A i \in Ids \ (a..b) : op'[i] = op[i]
    BY <1>1, AddFacts
  <2>2. \A i \in a..b : i \in Ids => op[i].status = "ABSENT"
    BY <2>1 DEF Unused, TypeInv, Ledger
  <2> QED
    BY <2>1, <2>2
<1>2. CASE \E q \in Ids : Turn(q)
  <2>1. PICK q \in Ids, row \in Rows : op' = [op EXCEPT ![q] = row] /\ row.touched = op[q].touched
    BY <1>2, TurnFacts
  <2> QED
    BY <1>0, <2>1
<1>3. CASE \E w \in Workers, c \in Ids : ClaimProfile(w, c) \/ ClaimRelease(w, c)
  <2>1. PICK w \in Workers, c \in Ids : ClaimProfile(w, c) \/ ClaimRelease(w, c)
    BY <1>3
  <2>2. /\ op'[c] = ClaimedRow(op[c], w)
        /\ \A i \in Ids \ {c} : op'[i] = op[i] \/ (op[i].status = "QUEUED" /\ op'[i] = CancelledRow(op[i]))
    BY <2>1, ClaimFacts
  <2>3. ClaimedRow(op[c], w).touched = op[c].touched
    BY <1>0, ClaimedTyped
  <2> QED
    BY <2>2, <2>3
<1>4. CASE \E w \in Workers : Inner(w)
  <2>1. PICK w \in Workers : Inner(w)
    BY <1>4
  <2>2. Quiet(w) /\ wk[w].pc # "idle"
    BY <2>1, InnerQuiet DEF Quiet
  <2>3. CASE wk[w].op # o
    BY <2>2, <2>3 DEF Quiet
  <2>4. CASE wk[w].op = o
    <3>1. Stalled(w) /\ ~Holds(w) /\ Job(w) = op[o]
      BY <1>0, <2>2, <2>4 DEF Ending, Holds, Job
    <3>2. CASE Effect(w)
      <4>1. wk[w].pc \in Effects
        BY <3>2, EffectOnWay
      <4>2. PICK next : (next = wk[w].pc \/ OnWay(w, next)) /\ Touch(w, next)
        BY <3>2, EffectOnWay
      <4>3. Covered(w)
        BY <4>1, <4>2, TouchQuiet
      <4>4. wk[w].pc \notin Early \cup {"fail"}
        BY <4>1 DEF Effects, Stops, Starts, Early
      <4> QED
        BY <3>1, <4>1, <4>3, <4>4 DEF Stalled, Asserts, Covered
    <3>3. CASE Begin(w)
      BY <2>4, <3>1, <3>3, BeginQuiet
    <3>4. CASE \E commit \in Commits : Pin(w, commit)
      BY <3>1, <3>4 DEF Pin
    <3>5. CASE Advances(w)
      <4>1. PICK next : OnWay(w, next) /\ Advance(w, next)
        BY <3>5, AdvancesOnWay
      <4> QED
        BY <2>2, <2>4, <3>1, <4>1, AdvanceQuiet
    <3>6. CASE AssertLease(w)
      BY <3>1, <3>6 DEF AssertLease
    <3>7. CASE \E status \in {"RUNNING", "STOPPED", "RESERVED", "CANCELLED"} : Fail(w, status)
      BY <2>4, <3>1, <3>7, FailQuiet
    <3>8. CASE Drop(w) \/ Crash(w)
      BY <2>4, <3>1, <3>8, LeaveQuiet
    <3>9. CASE Heartbeat(w) \/ BuildOutput(w)
      BY <2>4, <3>1, <3>9, HeartbeatQuiet, OutputQuiet
    <3> QED
      BY <2>1, <3>2, <3>3, <3>4, <3>5, <3>6, <3>7, <3>8, <3>9 DEF Inner
  <2> QED
    BY <2>3, <2>4
<1>5. CASE \E w \in Workers : Complete(w) \/ Requeue(w)
  <2>1. PICK w \in Workers : Complete(w) \/ Requeue(w)
    BY <1>5
  <2>2. PICK row \in Rows : op' = [op EXCEPT ![wk[w].op] = row] /\ row.touched = Job(w).touched
    BY <2>1, EndFacts
  <2> QED
    BY <1>0, <2>2 DEF Job
<1>6. CASE (\E q \in Profiles : Play(q)) \/ UNCHANGED vars
  BY <1>6 DEF Play, vars
<1> QED
  BY <1>1, <1>2, <1>3, <1>4, <1>5, <1>6, Kinds

\* An update or a release that is cancelled in its first attempt, no line of its log lost, has
\* changed no process and no database and changes none afterwards, wherever the cancellation
\* finds its handler.
THEOREM CancelKeeps == Spec => CancelledBuildUntouched
<1>1. Init => BuildInv /\ EndingInv
  BY DEF Init, Absent, Idle, BuildInv, Building, EndingInv, Ending
<1>2. TypeInv /\ BuildInv /\ EndingInv /\ [Next]_vars =>
        [\A o \in Ids : op[o].attempts = 1 /\ op[o].log = "kept" =>
           /\ op[o].status = "RUNNING" /\ op'[o].status = "CANCELLED" => ~op[o].touched
           /\ op[o].status = "CANCELLED" => op'[o].touched = op[o].touched]_vars
  BY CancelStep, CancelledStep
<1> QED
  BY <1>1, <1>2, TypeInvariant, BuildStep, EndingStep, PTL DEF Spec, CancelledBuildUntouched

-----------------------------------------------------------------------------
(* What succeeds is published and runs. *)

Builds == {"DEPLOY", "RESET", "RELEASE"}

\* The steps between the pin and the success.
Forward == {"mark", "build", "stop", "migrate", "clear", "start", "ready", "publish", "close", "seed", "done"}

\* The worker builds the commit that its row pins.
Pinned(w) == wk[w].pc \in Forward => Job(w).sha = wk[w].commit

\* The status that an update read is the one that is published.
StatusRead(w) ==
    Job(w).type = "DEPLOY" /\ wk[w].pc \in Forward \cup {"pin"} => site[Job(w).target].status = wk[w].status

\* After the publication the target names the commit.
Announced(w) ==
    wk[w].pc = "done" \/ (Job(w).type = "RESET" /\ wk[w].pc \in {"clear", "start", "ready"}) =>
        site[Job(w).target].commit = wk[w].commit

\* A loop leaves behind what it has stopped or started.
Swept(w) ==
    wk[w].pc \in {"stop", "clear"} => \A r \in Names \ wk[w].todo : procs[Job(w).target][r] = None
Started(w) ==
    wk[w].pc = "start" =>
        \A r \in Names : procs[Job(w).target][r] = IF r \in wk[w].todo THEN None ELSE wk[w].commit

\* Where the processes all run the commit.
Carries(w) ==
    \/ wk[w].pc = "ready"
    \/ wk[w].pc = "publish" /\ Job(w).type # "RESET" /\ (Job(w).type = "DEPLOY" => Up(w))
    \/ wk[w].pc = "done" /\ site[Job(w).target].status = "RUNNING"
Serving(w) == Carries(w) => \A r \in Names : procs[Job(w).target][r] = wk[w].commit

\* A season is there once it is seeded.
Seeded(w) ==
    Job(w).type = "RESET" /\ wk[w].pc \in {"publish", "clear", "start", "ready", "done"} =>
        world[Job(w).target].key = Job(w).key

Produced(w) ==
    /\ Pinned(w) /\ StatusRead(w) /\ Announced(w)
    /\ Job(w).target \notin strayed => Swept(w) /\ Started(w) /\ Serving(w) /\ Seeded(w)

ProducedInv == \A w \in Workers : Holds(w) /\ Job(w).type \in Builds => Produced(w)

\* Where the steps of an update, a reset and a release come from.
LEMMA Predecessors ==
    ASSUME TypeInv, NEW w \in Workers, Job(w).type \in Builds,
           wk[w].pc \notin {"idle", "begin", "pin", "done", "fail"}
    PROVE  /\ Following(w) # "pin"
           /\ Following(w) \in Forward => wk[w].pc \in Forward
           /\ Following(w) = "done" => \/ wk[w].pc = "publish" /\ Job(w).type # "RESET"
                                       \/ wk[w].pc = "ready" /\ Job(w).type = "RESET"
           /\ Following(w) = "ready" => wk[w].pc = "start"
           /\ Following(w) = "start" => wk[w].pc \in {"stop", "clear"}
           /\ Following(w) = "publish" => \/ wk[w].pc = "ready" /\ Job(w).type # "RESET"
                                          \/ wk[w].pc = "migrate" /\ Job(w).type = "DEPLOY" /\ ~Up(w)
                                          \/ wk[w].pc = "seed" /\ Job(w).type = "RESET"
           /\ Following(w) = "clear" /\ Job(w).type = "RESET" => wk[w].pc = "publish"
           /\ wk[w].pc = "patch" => Following(w) = "fail"
           /\ wk[w].pc \notin {"open", "finish", "reopen", "clock", "settle"}
           /\ wk[w].pc = "close" => Job(w).type = "RESET"
           /\ wk[w].pc \in {"start", "undoStart"} => wk[w].pc = "undoStart" \/ Following(w) = "ready"
<1>1. wk[w].pc \in DOMAIN Path[Job(w).type]
  BY DEF TypeInv, OnPath
<1>2. CASE Job(w).type = "DEPLOY"
  <2>1. CASE ~Up(w) /\ wk[w].pc = "migrate"
    <3>1. Following(w) = "publish"
      BY <1>2, <2>1 DEF Following
    <3> QED
      BY <1>2, <2>1, <3>1 DEF Forward
  <2>2. CASE ~(~Up(w) /\ wk[w].pc = "migrate")
    <3>1. Following(w) = Path["DEPLOY"][wk[w].pc] /\ wk[w].pc \in DOMAIN Path["DEPLOY"]
      BY <1>1, <1>2, <2>2 DEF Following
    <3> QED
      BY <1>2, <3>1 DEF Path, Forward
  <2> QED
    BY <2>1, <2>2
<1>3. CASE Job(w).type = "RESET"
  <2>1. Following(w) = Path["RESET"][wk[w].pc] /\ wk[w].pc \in DOMAIN Path["RESET"]
    BY <1>1, <1>3 DEF Following
  <2> QED
    BY <1>3, <2>1 DEF Path, Forward
<1>4. CASE Job(w).type = "RELEASE"
  <2>1. Following(w) = Path["RELEASE"][wk[w].pc] /\ wk[w].pc \in DOMAIN Path["RELEASE"]
    BY <1>1, <1>4 DEF Following
  <2> QED
    BY <1>4, <2>1 DEF Path, Forward
<1> QED
  BY <1>2, <1>3, <1>4 DEF Builds

\* A failure leaves the way to success.
LEMMA RecoveryOff ==
    ASSUME NEW w \in Workers
    PROVE  Recovery(w) \notin Forward \cup {"pin"}
  BY DEF Recovery, Forward

\* The row of a worker that goes on.
LEMMA QuietJob ==
    ASSUME TypeInv, NEW w \in Workers, Quiet(w), wk'[w].pc # "idle"
    PROVE  /\ wk'[w].op = wk[w].op /\ wk[w].op \in Ids
           /\ Job(w)' = op'[wk[w].op]
           /\ Job(w)'.type = Job(w).type /\ Job(w)'.target = Job(w).target /\ Job(w)'.key = Job(w).key
<1>1. wk'[w].op = wk[w].op /\ wk[w].op \in Ids
  BY DEF Quiet, Idle, TypeInv, TypeOK
<1> QED
  BY <1>1 DEF Quiet, Kept, Job

\* What a move keeps.
LEMMA MovedKeeps ==
    ASSUME TypeOK, NEW w \in Workers, wk[w].pc # "idle", NEW next \in Steps
    PROVE  /\ Moved(w, next).commit = wk[w].commit /\ Moved(w, next).status = wk[w].status
           /\ Moved(w, next).todo = Work(w, next) /\ Moved(w, next).pc = next
<1>1. wk[w] \in Works
  BY JobTyped
<1> QED
  BY <1>1 DEF Moved, Works

\* Where an advance leads and what it publishes.
LEMMA AdvancesTo ==
    ASSUME TypeInv, NEW w \in Workers, Job(w).type \in Builds, wk[w].pc # "pin", Advances(w)
    PROVE  \E next :
             /\ OnWay(w, next) /\ Advance(w, next)
             /\ \/ next = Following(w)
                \/ next = "done" /\ wk[w].pc = "publish" /\ Job(w).type = "RESET"
                   /\ site'[Job(w).target].status = "RESERVED"
             /\ wk[w].pc = "publish" => site'[Job(w).target].commit = wk[w].commit
             /\ wk[w].pc \in {"start", "ready", "clear", "stop"} => site'[Job(w).target] = site[Job(w).target]
             /\ Job(w).type = "DEPLOY" /\ wk[w].pc # "patch" =>
                  site'[Job(w).target].status = site[Job(w).target].status
             /\ wk[w].pc \in Stops \cup Starts => wk[w].todo = {}
             /\ wk[w].pc \notin {"begin", "pin", "seed", "migrate"}
<1> DEFINE S == [status : {"RUNNING", "STOPPED", "RESERVED", "CANCELLED"},
                 commit : Commits, previous : Commits \cup {None}]
           t == Job(w).target
<1>1. wk[w].pc \notin {"idle", "done", "fail"}
  BY AdvancesOnWay
<1>2. OnWay(w, Following(w)) /\ OnWay(w, "done")
  BY <1>1, FollowingOnWay DEF OnWay, Steps, Fenced, Early
<1>3. t \in Targets /\ wk[w] \in Works /\ site \in [Targets -> S] /\ site[t] \in S
  BY <1>1, JobTyped DEF TypeInv, TypeOK
<1>4. CASE Build(w) \/ LoopDone(w) \/ Ready(w)
  <2>1. Advance(w, Following(w)) /\ site' = site
    BY <1>4 DEF Build, LoopDone, Ready
  <2>2. wk[w].pc \in {"build", "ready"} \/ (wk[w].pc \in Stops \cup Starts /\ wk[w].todo = {})
    BY <1>4 DEF Build, LoopDone, Ready, At
  <2>3. {"build", "ready"} \cap (Stops \cup Starts) = {}
        /\ {"begin", "pin", "seed", "migrate", "publish"} \cap (Stops \cup Starts) = {}
    BY DEF Stops, Starts
  <2> QED
    BY <1>2, <2>1, <2>2, <2>3
<1>5. CASE Mark(w)
  <2>1. wk[w].pc = "mark" /\ Advance(w, Following(w))
    BY <1>5 DEF Mark, At, Write
  <2>2. site' = [site EXCEPT ![t] = [site[t] EXCEPT !.commit = IF Job(w).type = "RESET" THEN wk[w].commit ELSE @]]
    BY <1>5 DEF Mark, Write
  <2>3. site'[t].status = site[t].status
    BY <1>3, <2>2
  <2> QED
    BY <1>2, <2>1, <2>3 DEF Stops, Starts
<1>6. CASE SetStatus(w)
  <2>1. wk[w].pc \in {"open", "close", "finish", "reopen", "patch"} /\ Advance(w, Following(w))
    BY <1>6 DEF SetStatus, Write
  <2>2. Job(w).type = "DEPLOY" => wk[w].pc = "patch"
    BY <2>1, Predecessors
  <2> QED
    BY <1>2, <2>1, <2>2 DEF Stops, Starts
<1>7. CASE \E status \in {"RUNNING", "STOPPED", "RESERVED", "CANCELLED"} : Publish(w, status)
  <2>1. PICK status \in {"RUNNING", "STOPPED", "RESERVED", "CANCELLED"} : Publish(w, status)
    BY <1>7
  <2>2. wk[w].pc = "publish"
    BY <2>1 DEF Publish, At
  <2> DEFINE published == [site[t] EXCEPT !.commit = wk[w].commit]
  <2>3. /\ published \in S /\ published.commit = wk[w].commit /\ published.status = site[t].status
        /\ wk[w].old \in Commits
    BY <1>3 DEF Works
  <2>4. CASE Job(w).type = "DEPLOY"
    <3>1. Write(w, published, Following(w))
      BY <2>1, <2>4 DEF Publish
    <3> HIDE DEF published
    <3>2. site' = [site EXCEPT ![t] = published] /\ Advance(w, Following(w))
      BY <3>1 DEF Write
    <3>3. site'[t] = published
      BY <1>3, <3>2
    <3> QED
      BY <1>2, <2>2, <2>3, <2>4, <3>2, <3>3 DEF Stops, Starts
  <2>5. CASE Job(w).type = "RESET"
    <3> DEFINE next == IF status = "RESERVED" THEN "done" ELSE Following(w)
    <3>1. Write(w, [published EXCEPT !.status = status], next)
      BY <2>1, <2>5 DEF Publish
    <3>2. [published EXCEPT !.status = status].status = status
          /\ [published EXCEPT !.status = status].commit = wk[w].commit
      BY <2>3
    <3> HIDE DEF published
    <3>3. site' = [site EXCEPT ![t] = [published EXCEPT !.status = status]] /\ Advance(w, next)
      BY <3>1 DEF Write
    <3>4. site'[t] = [published EXCEPT !.status = status]
      BY <1>3, <3>3
    <3>5. OnWay(w, next)
      BY <1>2
    <3>6. next = Following(w) \/ (next = "done" /\ status = "RESERVED")
      OBVIOUS
    <3> HIDE DEF next
    <3> QED
      BY <2>2, <2>5, <3>2, <3>3, <3>4, <3>5, <3>6 DEF Stops, Starts
  <2>6. CASE Job(w).type = "RELEASE"
    <3>1. Write(w, [published EXCEPT !.previous = wk[w].old], Following(w))
      BY <2>1, <2>6 DEF Publish
    <3>2. [published EXCEPT !.previous = wk[w].old].commit = wk[w].commit
      BY <2>3
    <3> HIDE DEF published
    <3>3. site' = [site EXCEPT ![t] = [published EXCEPT !.previous = wk[w].old]] /\ Advance(w, Following(w))
      BY <3>1 DEF Write
    <3>4. site'[t] = [published EXCEPT !.previous = wk[w].old]
      BY <1>3, <3>3
    <3> QED
      BY <1>2, <2>2, <2>6, <3>2, <3>3, <3>4 DEF Stops, Starts
  <2> QED
    BY <2>4, <2>5, <2>6 DEF Builds
<1> QED
  BY <1>4, <1>5, <1>6, <1>7 DEF Advances

\* An advance of the holder.
LEMMA AdvanceProduces ==
    ASSUME TypeInv, NEW w \in Workers, Holds(w), Job(w).type \in Builds, Produced(w),
           wk[w].pc # "pin", Advances(w)
    PROVE  Produced(w)'
<1> DEFINE t == Job(w).target
<1>1. PICK next :
        /\ OnWay(w, next) /\ Advance(w, next)
        /\ \/ next = Following(w)
           \/ next = "done" /\ wk[w].pc = "publish" /\ Job(w).type = "RESET" /\ site'[t].status = "RESERVED"
        /\ wk[w].pc = "publish" => site'[t].commit = wk[w].commit
        /\ wk[w].pc \in {"start", "ready", "clear", "stop"} => site'[t] = site[t]
        /\ Job(w).type = "DEPLOY" /\ wk[w].pc # "patch" => site'[t].status = site[t].status
        /\ wk[w].pc \in Stops \cup Starts => wk[w].todo = {}
        /\ wk[w].pc \notin {"begin", "pin", "seed", "migrate"}
  BY AdvancesTo
<1>2. wk[w].pc \notin {"idle", "done", "fail"} /\ UNCHANGED <<procs, world, strayed, faults>>
  BY AdvancesOnWay
<1>3. next \in Steps /\ next # "idle" /\ TypeOK
  BY <1>1 DEF OnWay, TypeInv, Steps, Early, Fenced, Effects, Stops, Starts
<1>4. Quiet(w) /\ wk'[w] = Moved(w, next) /\ op'[wk[w].op].sha = Job(w).sha
  BY <1>1, <1>2, AdvanceQuiet
<1>5. /\ wk'[w].commit = wk[w].commit /\ wk'[w].status = wk[w].status
      /\ wk'[w].todo = Work(w, next) /\ wk'[w].pc = next
  <2>1. /\ Moved(w, next).commit = wk[w].commit /\ Moved(w, next).status = wk[w].status
        /\ Moved(w, next).todo = Work(w, next) /\ Moved(w, next).pc = next
    BY <1>2, <1>3, MovedKeeps
  <2> QED
    BY <1>4, <2>1
<1>6. /\ Job(w)'.type = Job(w).type /\ Job(w)'.target = t /\ Job(w)'.key = Job(w).key /\ Job(w)'.sha = Job(w).sha
  BY <1>3, <1>4, <1>5, QuietJob
<1>7. /\ next # "pin"
      /\ next \in Forward => wk[w].pc \in Forward
      /\ next = "done" => wk[w].pc = "publish" \/ (wk[w].pc = "ready" /\ Job(w).type = "RESET")
      /\ next = "ready" => wk[w].pc = "start"
      /\ next = "start" => wk[w].pc \in {"stop", "clear"}
      /\ next = "publish" => wk[w].pc = "ready" /\ Job(w).type # "RESET"
      /\ next = "clear" /\ Job(w).type = "RESET" => wk[w].pc = "publish"
      /\ wk[w].pc = "patch" => next = "fail"
      /\ wk[w].pc = "start" => next = "ready"
  BY <1>1, <1>2, Predecessors DEF Forward
<1>8. Pinned(w)'
  BY <1>5, <1>6, <1>7 DEF Produced, Pinned
<1>9. StatusRead(w)'
  <2>1. "fail" \notin Forward \cup {"pin"}
    BY DEF Forward
  <2> QED
    BY <1>1, <1>5, <1>6, <1>7, <2>1 DEF Produced, StatusRead
<1>10. Announced(w)'
  <2>1. CASE next = "done"
    BY <1>1, <1>5, <1>6, <1>7, <2>1 DEF Produced, Announced
  <2>2. CASE Job(w).type = "RESET" /\ next \in {"clear", "start", "ready"}
    <3>1. wk[w].pc = "publish" \/ wk[w].pc \in {"start", "clear"} \/ wk[w].pc = "stop"
      BY <1>7, <2>2
    <3>2. wk[w].pc # "stop"
      <4>1. Job(w).type = "RESET" /\ wk[w].pc = "stop" => Following(w) = "seed"
        BY DEF Following, Path
      <4> QED
        BY <1>1, <2>2, <4>1
    <3> QED
      BY <1>1, <1>5, <1>6, <2>2, <3>1, <3>2 DEF Produced, Announced
  <2> QED
    BY <1>5, <1>6, <2>1, <2>2 DEF Announced
<1>11. ASSUME t \notin strayed'
       PROVE  Swept(w)' /\ Started(w)' /\ Serving(w)' /\ Seeded(w)'
  <2>1. t \notin strayed /\ procs' = procs /\ world' = world
    BY <1>2, <1>11
  <2>2. Swept(w) /\ Started(w) /\ Serving(w) /\ Seeded(w)
    BY <2>1 DEF Produced
  <2>3. Swept(w)'
    <3> SUFFICES ASSUME next \in {"stop", "clear"}, NEW r \in Names \ Work(w, next)
                 PROVE  procs[t][r] = None
      BY <1>5, <1>6, <2>1 DEF Swept
    <3> QED
      BY DEF Work, Starts, Stops
  <2>4. Started(w)'
    <3> SUFFICES ASSUME next = "start"
                 PROVE  \A r \in Names : procs[t][r] = None /\ r \in Work(w, next)
      BY <1>5, <1>6, <2>1 DEF Started
    <3>1. wk[w].todo = {} /\ wk[w].pc \in {"stop", "clear"}
      BY <1>1, <1>7 DEF Stops
    <3> QED
      BY <2>2, <3>1 DEF Swept, Work, Starts
  <2>5. Serving(w)'
    <3>1. CASE next = "ready"
      <4>1. wk[w].pc = "start" /\ wk[w].todo = {}
        BY <1>1, <1>7, <3>1 DEF Starts
      <4> QED
        BY <1>5, <1>6, <2>1, <2>2, <4>1 DEF Serving, Started
    <3>2. CASE next = "publish"
      BY <1>5, <1>6, <1>7, <2>1, <2>2, <3>2 DEF Serving, Carries
    <3>3. CASE next = "done" /\ site'[t].status = "RUNNING"
      <4>1. Carries(w)
        <5>1. CASE wk[w].pc = "ready"
          BY <5>1 DEF Carries
        <5>2. CASE wk[w].pc = "publish" /\ Job(w).type = "DEPLOY"
          <6>1. site[t].status = wk[w].status
            BY <5>2 DEF Produced, StatusRead, Forward
          <6> QED
            BY <1>1, <3>3, <5>2, <6>1 DEF Carries, Up
        <5>3. CASE wk[w].pc = "publish" /\ Job(w).type = "RELEASE"
          BY <5>3 DEF Carries
        <5>4. CASE wk[w].pc = "publish" /\ Job(w).type = "RESET"
          <6>1. Following(w) = "clear"
            BY <5>4 DEF Following, Path
          <6> QED
            BY <1>1, <3>3, <6>1
        <5> QED
          BY <1>7, <3>3, <5>1, <5>2, <5>3, <5>4 DEF Builds
      <4> QED
        BY <1>5, <1>6, <2>1, <2>2, <4>1 DEF Serving
    <3> QED
      BY <1>5, <1>6, <3>1, <3>2, <3>3 DEF Serving, Carries
  <2>6. Seeded(w)'
    <3> SUFFICES ASSUME Job(w).type = "RESET", next \in {"publish", "clear", "start", "ready", "done"}
                 PROVE  world[t].key = Job(w).key
      BY <1>5, <1>6, <2>1 DEF Seeded
    <3>1. wk[w].pc \in {"publish", "clear", "start", "ready", "stop"}
      BY <1>7
    <3>2. wk[w].pc # "stop"
      <4>1. Job(w).type = "RESET" /\ wk[w].pc = "stop" => Following(w) = "seed"
        BY DEF Following, Path
      <4> QED
        BY <1>1, <4>1
    <3> QED
      BY <2>2, <3>1, <3>2 DEF Seeded
  <2> QED
    BY <2>3, <2>4, <2>5, <2>6
<1> QED
  BY <1>6, <1>8, <1>9, <1>10, <1>11 DEF Produced

\* The first of a set of processes is one.
LEMMA ForemostOne ==
    ASSUME NEW S \in SUBSET Names, NEW r \in Foremost(S)
    PROVE  r \in S /\ S \ Foremost(S) = S \ {r}
<1>1. \A q \in S : q \in Int
  BY DEF Names
<1>2. \A q \in Foremost(S) : q = r
  BY <1>1 DEF Foremost
<1> QED
  BY <1>2 DEF Foremost

\* An effect of the holder.
LEMMA EffectProduces ==
    ASSUME TypeInv, NEW w \in Workers, Holds(w), Job(w).type \in Builds, Produced(w), Effect(w)
    PROVE  Produced(w)'
<1> DEFINE t == Job(w).target
           pc == wk[w].pc
<1>1. pc \in Effects /\ site' = site /\ pc \notin {"idle", "begin", "pin", "done", "fail"}
  BY EffectOnWay DEF Effects, Stops, Starts
<1>2. PICK next : (next = pc \/ OnWay(w, next)) /\ Touch(w, next) /\ next \in {pc, Following(w)}
                  /\ (next = pc \/ pc \in {"clock", "migrate", "settle", "seed"})
  <2>1. CASE ClockOrSchema(w) \/ Seed(w)
    BY <1>1, <2>1, FollowingOnWay DEF ClockOrSchema, Seed, At
  <2>2. CASE \E r \in Names : StopProcess(w, r) \/ StartProcess(w, r)
    BY <2>2 DEF StopProcess, StartProcess
  <2> QED
    BY <2>1, <2>2 DEF Effect
<1>3. /\ Quiet(w) /\ wk'[w].pc = next
      /\ wk'[w].todo = IF next = pc THEN wk[w].todo \ Foremost(wk[w].todo) ELSE Work(w, next)
      /\ wk'[w].commit = wk[w].commit /\ wk'[w].status = wk[w].status
      /\ op'[wk[w].op].sha = Job(w).sha
      /\ strayed' = strayed
  BY <1>1, <1>2, TouchQuiet
<1>4. wk'[w].pc # "idle"
  BY <1>1, <1>2, <1>3 DEF OnWay, Steps, Early, Fenced, Effects, Stops, Starts
<1>5. /\ Job(w)'.type = Job(w).type /\ Job(w)'.target = t /\ Job(w)'.key = Job(w).key /\ Job(w)'.sha = Job(w).sha
  BY <1>3, <1>4, QuietJob
<1>6. /\ next # "pin" /\ next # "done" /\ next # "ready" /\ (next = "start" => pc = "start")
      /\ next \in Forward => pc \in Forward
      /\ next = "publish" => \/ pc = "migrate" /\ Job(w).type = "DEPLOY" /\ ~Up(w)
                             \/ pc = "seed" /\ Job(w).type = "RESET"
      /\ next = "clear" /\ Job(w).type = "RESET" => pc = "clear"
  BY <1>1, <1>2, Predecessors DEF Effects, Stops, Starts
<1>7. Pinned(w)' /\ StatusRead(w)' /\ Announced(w)'
  BY <1>1, <1>3, <1>5, <1>6 DEF Produced, Pinned, StatusRead, Announced
<1>8. ASSUME t \notin strayed
      PROVE  Swept(w)' /\ Started(w)' /\ Serving(w)' /\ Seeded(w)'
  <2>0. Swept(w) /\ Started(w) /\ Serving(w) /\ Seeded(w)
    BY <1>8 DEF Produced
  <2>1. wk[w].todo \in SUBSET Names /\ wk[w] \in Works /\ t \in Targets
        /\ procs \in [Targets -> [Names -> Commits \cup {None}]]
        /\ world \in [Profiles -> [key : 0..MaxOps, commit : Commits, played : BOOLEAN]]
    BY <1>1, JobTyped DEF TypeInv, TypeOK, Works
  <2>2. Serving(w)'
    BY <1>3, <1>5, <1>6 DEF Serving, Carries, Up
  <2>3. CASE ClockOrSchema(w)
    <3>1. procs' = procs /\ world' = world /\ pc \in {"clock", "migrate", "settle"} /\ next = Following(w)
      <4>1. procs' = procs /\ world' = world /\ pc \in {"clock", "migrate", "settle"}
        BY <2>3 DEF ClockOrSchema
      <4>2. Following(w) # pc => next = Following(w)
        <5>1. Touch(w, Following(w))
          BY <2>3 DEF ClockOrSchema
        <5>2. wk \in [Workers -> Works] /\ wk' = [wk EXCEPT ![w].pc = Following(w),
                            ![w].todo = IF Following(w) = wk[w].pc THEN @ \ Foremost(@) ELSE Work(w, Following(w)),
                            ![w].armed = Following(w) = wk[w].pc /\ w \in Controllers /\ @,
                            ![w].stray = IF Holds(w) THEN @ ELSE @ + 1]
          BY <5>1 DEF Touch, TypeInv, TypeOK
        <5>3. wk'[w].pc = Following(w)
          BY <5>2 DEF Works
        <5> QED
          BY <1>3, <5>3
      <4> QED
        BY <1>2, <4>1, <4>2
    <3>2. Swept(w)'
      <4> SUFFICES ASSUME next \in {"stop", "clear"}, NEW r \in Names \ Work(w, next)
                   PROVE  procs[t][r] = None
        BY <1>3, <1>5, <3>1 DEF Swept
      <4> QED
        BY DEF Work, Starts, Stops
    <3>3. Started(w)'
      BY <1>3, <1>6, <3>1 DEF Started
    <3>4. Seeded(w)'
      BY <1>3, <1>5, <1>6, <3>1 DEF Seeded
    <3> QED
      BY <2>2, <3>2, <3>3, <3>4
  <2>4. CASE Seed(w)
    <3>1. procs' = procs /\ pc = "seed" /\ Touch(w, Following(w))
      BY <2>4 DEF Seed, At
    <3>2. Job(w).type = "RESET" /\ t \in Profiles
      <4>1. "seed" \notin DOMAIN Path["RELEASE"] /\ "seed" \notin DOMAIN Path["DEPLOY"]
        BY DEF Path
      <4>2. Job(w).type = "RESET"
        BY <3>1, <4>1 DEF TypeInv, OnPath, Builds
      <4> QED
        BY <1>1, <2>1, <4>2, JobTyped DEF TypeInv, TypeOK, Targets, Job
    <3>3. Following(w) = "publish"
      BY <3>1, <3>2 DEF Following, Path
    <3>4. next = "publish"
      <4>1. OnWay(w, "publish")
        BY <1>1, <3>3, FollowingOnWay
      <4>2. wk'[w].pc = "publish"
        BY <1>1, <3>1, <3>3, <4>1, TouchQuiet
      <4> QED
        BY <1>3, <4>2
    <3>5. world'[t].key = Job(w).key
      <4>1. CASE world[t].key = Job(w).key
        BY <2>4, <4>1 DEF Seed
      <4>2. CASE world[t].key # Job(w).key
        <5>1. world' = [world EXCEPT ![t] = [key |-> Job(w).key, commit |-> wk[w].commit, played |-> FALSE]]
          BY <2>4, <4>2 DEF Seed
        <5> QED
          BY <2>1, <3>2, <5>1
      <4> QED
        BY <4>1, <4>2
    <3> QED
      BY <1>3, <1>5, <2>2, <3>4, <3>5 DEF Swept, Started, Seeded
  <2>5. ASSUME NEW r \in Names, StopProcess(w, r)
        PROVE  Swept(w)' /\ Started(w)' /\ Seeded(w)'
    <3>1. /\ pc \in Stops /\ r \in Foremost(wk[w].todo) /\ world' = world
          /\ procs' = [procs EXCEPT ![t][r] = None]
      BY <2>5 DEF StopProcess
    <3>2. next = pc
      BY <1>2, <3>1 DEF Stops
    <3>3. wk'[w].todo = wk[w].todo \ {r}
      BY <1>3, <2>1, <3>1, <3>2, ForemostOne
    <3>4. procs'[t][r] = None /\ \A q \in Names \ {r} : procs'[t][q] = procs[t][q]
      BY <2>1, <3>1
    <3>5. Swept(w)'
      BY <1>3, <1>5, <2>0, <3>2, <3>3, <3>4 DEF Swept
    <3>6. Started(w)'
      BY <1>3, <3>1, <3>2 DEF Started, Stops
    <3>7. Seeded(w)'
      BY <1>3, <1>5, <2>0, <3>1, <3>2 DEF Seeded
    <3> QED
      BY <3>5, <3>6, <3>7
  <2>6. ASSUME NEW r \in Names, StartProcess(w, r)
        PROVE  Swept(w)' /\ Started(w)' /\ Seeded(w)'
    <3>1. /\ pc \in Starts /\ r \in Foremost(wk[w].todo) /\ world' = world
          /\ procs' = [procs EXCEPT ![t][r] = IF At(w, "undoStart") \/ Job(w).type = "START"
                                               THEN wk[w].old ELSE wk[w].commit]
      BY <2>6 DEF StartProcess
    <3>2. next = pc
      BY <1>2, <3>1 DEF Starts
    <3>3. wk'[w].todo = wk[w].todo \ {r}
      BY <1>3, <2>1, <3>1, <3>2, ForemostOne
    <3>4. (pc = "start" => procs'[t][r] = wk[w].commit) /\ \A q \in Names \ {r} : procs'[t][q] = procs[t][q]
      BY <2>1, <3>1 DEF At, Builds
    <3>5. Swept(w)'
      BY <1>3, <3>1, <3>2 DEF Swept, Starts
    <3>6. Started(w)'
      BY <1>3, <1>5, <2>0, <3>2, <3>3, <3>4 DEF Started
    <3>7. Seeded(w)'
      BY <1>3, <1>5, <2>0, <3>1, <3>2 DEF Seeded
    <3> QED
      BY <3>5, <3>6, <3>7
  <2> QED
    BY <2>2, <2>3, <2>4, <2>5, <2>6 DEF Effect
<1> QED
  BY <1>3, <1>5, <1>7, <1>8 DEF Produced

\* The other steps of the holder.
LEMMA HolderProduces ==
    ASSUME TypeInv, NEW w \in Workers, Holds(w), Job(w).type \in Builds, Produced(w), Inner(w),
           Holds(w)'
    PROVE  Produced(w)'
<1> DEFINE t == Job(w).target
<1>0. Quiet(w) /\ wk[w].pc # "idle" /\ wk'[w].pc # "idle" /\ wk[w] \in Works /\ TypeOK
  BY InnerQuiet, JobTyped DEF Quiet, Holds, TypeInv
<1>1. /\ Job(w)' = op'[wk[w].op] /\ Job(w)'.type = Job(w).type /\ Job(w)'.target = t /\ Job(w)'.key = Job(w).key
  BY <1>0, QuietJob
<1>2. CASE Begin(w)
  <2>1. /\ wk[w].pc = "begin" /\ wk'[w].status = site[t].status
        /\ \E next : wk'[w].pc = next /\ next \in {"fail", Path[Job(w).type]["begin"]}
    BY <1>2, BeginQuiet
  <2>2. Path[Job(w).type]["begin"] = "pin"
    BY DEF Builds, Path
  <2>3. wk'[w].pc \in {"fail", "pin"} /\ site' = site
    BY <1>2, <2>1, <2>2 DEF Begin
  <2> QED
    BY <1>1, <2>1, <2>3 DEF Produced, Pinned, StatusRead, Announced, Swept, Started, Serving, Carries,
                            Seeded, Forward
<1>3. CASE \E commit \in Commits : Pin(w, commit)
  <2>1. PICK commit \in Commits : Pin(w, commit)
    BY <1>3
  <2>2. /\ wk[w].pc = "pin" /\ wk'[w].status = wk[w].status
        /\ wk'[w].pc = "fail" \/ (wk'[w].commit = commit /\ op'[wk[w].op].sha = commit)
    BY <2>1, PinQuiet
  <2>3. wk'[w].pc \in {"fail", "mark", "build"}
    <3>1. Following(w) \in {"mark", "build"}
      BY <2>2 DEF Following, Path, Builds
    <3>2. wk'[w].pc \in {"fail", Following(w)}
      <4>1. wk \in [Workers -> Works]
        BY <1>0 DEF TypeOK
      <4>2. CASE wk' = [wk EXCEPT ![w] = Moved(w, "fail")]
        <5>1. Moved(w, "fail").pc = "fail"
          BY <1>0, MovedKeeps DEF Steps, Fenced
        <5> QED
          BY <4>1, <4>2, <5>1
      <4>3. CASE wk' = [wk EXCEPT ![w] = [Moved(w, Following(w)) EXCEPT !.commit = commit]]
        <5>1. Moved(w, Following(w)).pc = Following(w) /\ Moved(w, Following(w)) \in Works
          BY <1>0, <3>1, MovedTyped DEF Steps, Early
        <5>2. [Moved(w, Following(w)) EXCEPT !.commit = commit].pc = Following(w)
          BY <5>1 DEF Works
        <5> QED
          BY <4>1, <4>3, <5>2
      <4> QED
        BY <2>1, <4>2, <4>3 DEF Pin, Advance
    <3> QED
      BY <3>1, <3>2
  <2>4. site' = site
    BY <2>1 DEF Pin
  <2>5. StatusRead(w)'
    BY <1>1, <2>2, <2>4 DEF Produced, StatusRead
  <2>6. Pinned(w)'
    BY <1>1, <2>2 DEF Pinned, Forward
  <2> QED
    BY <1>1, <2>3, <2>5, <2>6 DEF Produced, Announced, Swept, Started, Serving, Carries, Seeded
<1>4. CASE Advances(w)
  <2>1. wk[w].pc # "pin"
    BY <1>4 DEF Advances, Build, LoopDone, Ready, Mark, SetStatus, Publish, At, Stops, Starts
  <2> QED
    BY <1>4, <2>1, AdvanceProduces
<1>5. CASE Effect(w)
  BY <1>5, EffectProduces
<1>6. CASE AssertLease(w)
  <2>1. /\ wk'[w] = [wk[w] EXCEPT !.armed = TRUE] /\ op'[wk[w].op].sha = Job(w).sha
        /\ UNCHANGED <<site, procs, world, strayed>>
    BY <1>6, AssertQuiet DEF AssertLease
  <2>2. wk'[w].pc = wk[w].pc /\ wk'[w].commit = wk[w].commit /\ wk'[w].todo = wk[w].todo /\ wk'[w].status = wk[w].status
    BY <1>0, <2>1 DEF Works
  <2> QED
    BY <1>1, <2>1, <2>2 DEF Produced, Pinned, StatusRead, Announced, Swept, Started, Serving, Carries, Seeded, Up
<1>7. CASE \E status \in {"RUNNING", "STOPPED", "RESERVED", "CANCELLED"} : Fail(w, status)
  <2>1. wk'[w].pc = Recovery(w)
    BY <1>7, FailQuiet
  <2>2. wk'[w].pc \notin Forward \cup {"pin"}
    BY <2>1, RecoveryOff
  <2> QED
    BY <2>2 DEF Produced, Pinned, StatusRead, Announced, Swept, Started, Serving, Carries, Seeded, Forward
<1>8. CASE Drop(w) \/ Crash(w)
  BY <1>0, <1>8, LeaveQuiet DEF Idle
<1>9. CASE Heartbeat(w) \/ BuildOutput(w)
  <2>1. wk' = wk /\ op'[wk[w].op].sha = Job(w).sha /\ UNCHANGED <<site, procs, world, strayed>>
    BY <1>9, HeartbeatQuiet, OutputQuiet DEF Heartbeat, BuildOutput
  <2> QED
    BY <1>1, <2>1 DEF Produced, Pinned, StatusRead, Announced, Swept, Started, Serving, Carries, Seeded, Up
<1> QED
  BY <1>2, <1>3, <1>4, <1>5, <1>6, <1>7, <1>8, <1>9 DEF Inner

\* A step that leaves the holder, its row and its target alone, or marks the target.
Aside(w) ==
    /\ wk'[w] = wk[w]
    /\ Job(w)'.type = Job(w).type /\ Job(w)'.target = Job(w).target
    /\ Job(w)'.key = Job(w).key /\ Job(w)'.sha = Job(w).sha
    /\ site' = site /\ strayed \subseteq strayed'
    /\ Job(w).target \notin strayed' =>
         /\ procs'[Job(w).target] = procs[Job(w).target]
         /\ Job(w).target \in Profiles => world'[Job(w).target].key = world[Job(w).target].key

\* Steps of other workers leave what a lease holder has produced.
LEMMA AsideProduces ==
    ASSUME TypeInv, NEW w \in Workers, Holds(w), Produced(w), Aside(w)
    PROVE  Produced(w)'
<1>1. Job(w).type = "RESET" => Job(w).target \in Profiles
  <2>1. wk[w].pc # "idle" /\ TypeOK
    BY DEF Holds, TypeInv
  <2>2. Job(w).target \in Targets /\ wk[w].op \in Ids
    BY <2>1, JobTyped
  <2> QED
    BY <2>1, <2>2 DEF TypeOK, Targets, Job
<1>2. Pinned(w)' /\ StatusRead(w)' /\ Announced(w)'
  BY DEF Aside, Produced, Pinned, StatusRead, Announced
<1>3. ASSUME Job(w).target \notin strayed'
      PROVE  Swept(w)' /\ Started(w)' /\ Serving(w)' /\ Seeded(w)'
  <2>1. Swept(w) /\ Started(w) /\ Serving(w) /\ Seeded(w)
    BY <1>3 DEF Aside, Produced
  <2>2. Swept(w)' /\ Started(w)'
    BY <1>3, <2>1 DEF Aside, Swept, Started
  <2>3. Serving(w)' /\ Seeded(w)'
    BY <1>1, <1>3, <2>1 DEF Aside, Serving, Carries, Seeded, Up
  <2> QED
    BY <2>2, <2>3
<1> QED
  BY <1>2, <1>3 DEF Produced, Aside

\* Whoever is not the holder of the running row holds nothing, writes no target and marks what
\* it touches.
LEMMA OthersAside ==
    ASSUME TypeInv, OneRunning, NEW w \in Workers, Holds(w), NEW v \in Workers, v # w, Inner(v)
    PROVE  Aside(w)
<1> DEFINE t == Job(w).target
<1>0. /\ Quiet(v) /\ wk[v].pc # "idle" /\ wk[w].pc # "idle" /\ wk[v].op \in Ids /\ wk[w].op \in Ids
      /\ wk'[w] = wk[w] /\ t \in Targets
  BY InnerQuiet, QuietOthers, JobTyped DEF Quiet, Holds, TypeInv
<1>1. ~Holds(v)
  <2>1. Holds(v) => wk[v].op = wk[w].op
    BY <1>0 DEF Holds, Job, OneRunning, Running
  <2> QED
    BY <2>1 DEF Holds, Job
<1>2. Job(w)'.type = Job(w).type /\ Job(w)'.target = t /\ Job(w)'.key = Job(w).key
  BY <1>0 DEF Quiet, Kept, Job
<1>3. Job(w)'.sha = Job(w).sha
  <2>1. CASE wk[w].op # wk[v].op
    BY <1>0, <2>1 DEF Quiet, Job
  <2>2. op'[wk[v].op].sha = Job(v).sha
    <3>1. CASE Begin(v)
      BY <3>1, BeginQuiet
    <3>2. CASE Advances(v)
      BY <3>2, AdvancesOnWay, AdvanceQuiet
    <3>3. CASE Effect(v)
      BY <3>3, EffectOnWay, TouchQuiet
    <3>4. CASE \E status \in {"RUNNING", "STOPPED", "RESERVED", "CANCELLED"} : Fail(v, status)
      <4>1. op' = [op EXCEPT ![wk[v].op].phase = Logged(v, Recovery(v))]
        BY <3>4 DEF Fail
      <4>2. op \in [Ids -> Rows]
        BY DEF TypeInv, TypeOK
      <4> QED
        BY <1>0, <4>1, <4>2 DEF Rows, Job
    <3>5. CASE Drop(v) \/ Crash(v)
      BY <3>5, LeaveQuiet
    <3>6. CASE Heartbeat(v) \/ BuildOutput(v) \/ AssertLease(v)
      BY <3>6, HeartbeatQuiet, OutputQuiet, AssertQuiet
    <3>7. CASE \E commit \in Commits : Pin(v, commit)
      BY <1>1, <3>7 DEF Pin
    <3> QED
      BY <3>1, <3>2, <3>3, <3>4, <3>5, <3>6, <3>7 DEF Inner
  <2> QED
    BY <1>0, <2>1, <2>2 DEF Job
<1>4. CASE Effect(v)
  <2>1. site' = site /\ \A s \in Targets \ {Job(v).target} : procs'[s] = procs[s]
    BY <1>4, EffectOnWay
  <2>2. PICK next : Touch(v, next)
    BY <1>4, EffectOnWay
  <2>3. strayed' = strayed \cup {Job(v).target}
    BY <1>1, <2>2 DEF Touch
  <2>4. ASSUME t # Job(v).target, t \in Profiles PROVE world'[t].key = world[t].key
    <3>1. world \in [Profiles -> [key : 0..MaxOps, commit : Commits, played : BOOLEAN]]
      BY DEF TypeInv, TypeOK
    <3>2. \/ world' = world
          \/ world' = [world EXCEPT ![Job(v).target] = [key |-> Job(v).key, commit |-> wk[v].commit, played |-> FALSE]]
      BY <1>4, EffectOnWay DEF Seed
    <3> QED
      BY <2>4, <3>1, <3>2
  <2> QED
    BY <1>0, <1>2, <1>3, <2>1, <2>3, <2>4 DEF Aside
<1>5. CASE Advances(v)
  <2>1. site' = site /\ UNCHANGED <<procs, world, strayed>>
    BY <1>1, <1>5, AdvancesOnWay
  <2> QED
    BY <1>0, <1>2, <1>3, <2>1 DEF Aside
<1>6. CASE ~Effect(v) /\ ~Advances(v)
  <2>1. UNCHANGED <<site, procs, world, strayed>>
    BY <1>6 DEF Inner, Begin, Pin, AssertLease, Fail, Drop, Heartbeat, BuildOutput, Crash
  <2> QED
    BY <1>0, <1>2, <1>3, <2>1 DEF Aside
<1> QED
  BY <1>4, <1>5, <1>6

\* Every step keeps what the lease holder has produced so far along its way.
LEMMA ProducedStep == TypeInv /\ OneRunning /\ ProducedInv /\ [Next]_vars => ProducedInv'
<1> SUFFICES ASSUME TypeInv, OneRunning, ProducedInv, [Next]_vars, NEW w \in Workers, Holds(w)',
                    Job(w)'.type \in Builds
             PROVE  Produced(w)'
  BY DEF ProducedInv
<1>0. op \in [Ids -> Rows] /\ wk \in [Workers -> Works]
      /\ world \in [Profiles -> [key : 0..MaxOps, commit : Commits, played : BOOLEAN]]
  BY DEF TypeInv, TypeOK
<1>1. CASE wk'[w] = [Idle EXCEPT !.pc = "begin", !.op = wk'[w].op, !.armed = TRUE]
  <2>1. wk'[w].pc = "begin"
    BY <1>1 DEF Idle
  <2> QED
    BY <2>1 DEF Produced, Pinned, StatusRead, Announced, Swept, Started, Serving, Carries, Seeded, Forward
<1>2. CASE Holds(w) /\ wk'[w].op = wk[w].op
  <2>0. /\ wk[w].op \in Ids /\ wk[w].pc # "idle" /\ op[wk[w].op].status = "RUNNING" /\ op[wk[w].op].owner = w
        /\ op'[wk[w].op].status = "RUNNING" /\ op'[wk[w].op].owner = w /\ wk'[w].pc # "idle"
    BY <1>2 DEF Holds, Job, TypeInv, TypeOK
  <2>a. ASSUME Aside(w) PROVE Produced(w)'
    <3>1. Produced(w)
      BY <1>2, <2>a DEF Aside, ProducedInv
    <3> QED
      BY <1>2, <2>a, <3>1, AsideProduces
  <2>b. ASSUME wk'[w] = wk[w], op'[wk[w].op] = op[wk[w].op], UNCHANGED <<site, procs, world, strayed>>
        PROVE  Produced(w)'
    <3>1. Aside(w)
      BY <2>b DEF Aside, Job
    <3> QED
      BY <2>a, <3>1
  <2>1. CASE \E o \in Ids : Adds(o)
    <3>1. PICK a \in Ids, b \in Ids : /\ \A i \in a..b : Fresh(op'[i])
                                      /\ \A i \in Ids \ (a..b) : op'[i] = op[i]
      BY <2>1, AddFacts
    <3>2. op'[wk[w].op] = op[wk[w].op] /\ UNCHANGED <<wk, site, procs, world, strayed>>
      BY <2>0, <2>1, <3>1, AddFacts DEF Fresh
    <3> QED
      BY <2>b, <3>2
  <2>2. CASE \E o \in Ids : Turn(o)
    <3>1. PICK o \in Ids : Turn(o)
      BY <2>2
    <3>2. PICK row \in Rows : /\ op' = [op EXCEPT ![o] = row]
                              /\ row.target = op[o].target /\ row.type = op[o].type /\ row.key = op[o].key
                              /\ row.status = "RUNNING" => row.sha = op[o].sha
      BY <3>1, TurnFacts
    <3>3. UNCHANGED <<wk, site, procs, world, strayed>>
      BY <3>1, TurnFacts
    <3>4. op'[o] = row /\ \A i \in Ids \ {o} : op'[i] = op[i]
      BY <1>0, <3>2
    <3>5. Aside(w)
      <4>1. CASE o = wk[w].op
        BY <2>0, <3>2, <3>3, <3>4, <4>1 DEF Aside, Job
      <4>2. CASE o # wk[w].op
        BY <2>0, <3>3, <3>4, <4>2 DEF Aside, Job
      <4> QED
        BY <4>1, <4>2
    <3> QED
      BY <2>a, <3>5
  <2>3. CASE \E v \in Workers, c \in Ids : ClaimProfile(v, c) \/ ClaimRelease(v, c)
    <3>1. PICK v \in Workers, c \in Ids : ClaimProfile(v, c) \/ ClaimRelease(v, c)
      BY <2>3
    <3>2. /\ wk[v].pc = "idle" /\ op'[c] = ClaimedRow(op[c], v)
          /\ \A i \in Ids \ {c} : op'[i] = op[i] \/ (op[i].status = "QUEUED" /\ op'[i] = CancelledRow(op[i]))
          /\ wk' = [wk EXCEPT ![v] = [Idle EXCEPT !.pc = "begin", !.op = c, !.armed = TRUE]]
          /\ UNCHANGED <<site, procs, world, strayed, faults>>
      BY <3>1, ClaimFacts
    <3>3. v # w /\ wk'[w] = wk[w]
      BY <1>0, <2>0, <3>2
    <3>4. op'[c].owner = v
      BY <1>0, <3>2, ClaimedTyped
    <3>5. op'[wk[w].op] = op[wk[w].op]
      BY <2>0, <3>2, <3>3, <3>4
    <3> QED
      BY <2>b, <3>2, <3>3, <3>5
  <2>4. CASE \E v \in Workers : Inner(v)
    <3>1. PICK v \in Workers : Inner(v)
      BY <2>4
    <3>2. CASE v # w
      BY <1>2, <2>a, <3>1, <3>2, OthersAside
    <3>3. CASE v = w
      <4>1. Quiet(w)
        BY <3>1, <3>3, InnerQuiet
      <4>2. Job(w).type \in Builds
        BY <2>0, <4>1, QuietJob
      <4>3. Produced(w)
        BY <1>2, <4>2 DEF ProducedInv
      <4> QED
        BY <1>2, <3>1, <3>3, <4>2, <4>3, HolderProduces
    <3> QED
      BY <3>2, <3>3
  <2>5. CASE \E v \in Workers : Complete(v) \/ Requeue(v)
    <3>1. PICK v \in Workers : Complete(v) \/ Requeue(v)
      BY <2>5
    <3>2. wk[v].op \in Ids /\ Holds(v) /\ wk' = [wk EXCEPT ![v] = Idle]
      BY <3>1, EndFacts
    <3>3. PICK row \in Rows : op' = [op EXCEPT ![wk[v].op] = row] /\ row.status \in {"QUEUED", "SUCCEEDED", "FAILED"}
      BY <3>1, EndFacts
    <3>4. wk[v].op = wk[w].op
      BY <1>2, <2>0, <3>2 DEF Holds, Job, OneRunning, Running
    <3> QED
      BY <1>0, <2>0, <3>2, <3>3, <3>4
  <2>6. CASE \E q \in Profiles : Play(q)
    <3>1. PICK q \in Profiles : Play(q)
      BY <2>6
    <3>2. UNCHANGED <<op, wk, site, procs, strayed>> /\ world' = [world EXCEPT ![q].played = TRUE]
      BY <3>1 DEF Play
    <3>3. \A p \in Profiles : world'[p].key = world[p].key
      BY <1>0, <3>2
    <3>4. Aside(w)
      BY <3>2, <3>3 DEF Aside, Job
    <3> QED
      BY <2>a, <3>4
  <2>7. CASE UNCHANGED vars
    BY <2>7, <2>b DEF vars
  <2> QED
    BY <2>1, <2>2, <2>3, <2>4, <2>5, <2>6, <2>7, Kinds
<1> QED
  BY <1>1, <1>2, Regain

\* Only a worker that holds the row and has come to the end of its path reports success.
LEMMA SuccessStep ==
    ASSUME TypeInv, ProducedInv, [Next]_vars, NEW o \in Ids, Carried(o),
           op[o].type \in {"DEPLOY", "RESET", "RELEASE"}
    PROVE  /\ site[op[o].target].commit = op[o].sha
           /\ op[o].target \notin strayed /\ site[op[o].target].status = "RUNNING" =>
                \A r \in Names : procs[op[o].target][r] = op[o].sha
           /\ op[o].target \notin strayed /\ op[o].type = "RESET" => world[op[o].target].key = op[o].key
<1>0. op \in [Ids -> Rows] /\ op[o].status = "RUNNING" /\ op'[o].status = "SUCCEEDED"
  BY DEF TypeInv, TypeOK, Carried
<1>1. CASE \E q \in Ids : Adds(q)
  BY <1>0, <1>1, AddFacts DEF Fresh
<1>2. CASE \E q \in Ids : Turn(q)
  <2>1. PICK q \in Ids, row \in Rows : /\ op' = [op EXCEPT ![q] = row]
                                       /\ row.status = op[q].status \/ row.status \in {"QUEUED", "CANCELLED"}
    BY <1>2, TurnFacts
  <2> QED
    BY <1>0, <2>1
<1>3. CASE \E w \in Workers, c \in Ids : ClaimProfile(w, c) \/ ClaimRelease(w, c)
  <2>1. PICK w \in Workers, c \in Ids : ClaimProfile(w, c) \/ ClaimRelease(w, c)
    BY <1>3
  <2>2. /\ op'[c] = ClaimedRow(op[c], w)
        /\ \A i \in Ids \ {c} : op'[i] = op[i] \/ (op[i].status = "QUEUED" /\ op'[i] = CancelledRow(op[i]))
    BY <2>1, ClaimFacts
  <2>3. ClaimedRow(op[c], w).status = "RUNNING"
    BY <1>0, ClaimedTyped
  <2> QED
    BY <1>0, <2>2, <2>3
<1>4. CASE \E w \in Workers : Inner(w)
  BY <1>0, <1>4, InnerQuiet DEF Quiet, Kept
<1>5. CASE \E w \in Workers : Complete(w) \/ Requeue(w)
  <2>1. PICK w \in Workers : Complete(w) \/ Requeue(w)
    BY <1>5
  <2>2. Holds(w) /\ wk[w].op \in Ids
    BY <2>1, EndFacts
  <2>3. PICK row \in Rows : op' = [op EXCEPT ![wk[w].op] = row] /\ (row.status = "SUCCEEDED" => wk[w].pc = "done")
    BY <2>1, EndFacts
  <2>4. wk[w].op = o /\ wk[w].pc = "done"
    BY <1>0, <2>2, <2>3
  <2>5. Job(w) = op[o]
    BY <2>4 DEF Job
  <2>6. Produced(w)
    BY <2>2, <2>5 DEF ProducedInv, Builds
  <2>7. Pinned(w) /\ Announced(w) /\ (op[o].target \notin strayed => Serving(w) /\ Seeded(w))
    BY <2>5, <2>6 DEF Produced
  <2> QED
    BY <2>4, <2>5, <2>7 DEF Pinned, Announced, Serving, Carries, Seeded, Forward
<1>6. CASE (\E q \in Profiles : Play(q)) \/ UNCHANGED vars
  BY <1>0, <1>6 DEF Play, vars
<1> QED
  BY <1>1, <1>2, <1>3, <1>4, <1>5, <1>6, Kinds

\* An update, a reset or a release that reports success is what its target publishes; unless a
\* worker without the lease has touched the target, its processes run that commit and its
\* season is the one of this installation, whatever was taken over on the way.
THEOREM SuccessIsPublished == Spec => SucceededIsPublished
<1>1. Init => ProducedInv /\ OneRunning
  BY DEF Init, Idle, Absent, ProducedInv, Holds, OneRunning, Running
<1>2. TypeInv /\ ProducedInv /\ [Next]_vars =>
        [\A o \in Ids : Carried(o) /\ op[o].type \in {"DEPLOY", "RESET", "RELEASE"} =>
           LET t == op[o].target
           IN  /\ site[t].commit = op[o].sha
               /\ t \notin strayed /\ site[t].status = "RUNNING" =>
                    \A r \in Names : procs[t][r] = op[o].sha
               /\ t \notin strayed /\ op[o].type = "RESET" => world[t].key = op[o].key]_vars
  BY SuccessStep
<1> QED
  BY <1>1, <1>2, TypeInvariant, OneRunningStep, ProducedStep, PTL DEF Spec, SucceededIsPublished
-----------------------------------------------------------------------------
(* The two tables implement one queue of serial jobs. *)

\* Rows never change their bulk release, so prerequisites stay while no row is added.
LEMMA FirstKept ==
    ASSUME \A o \in Ids : op'[o].batch = op[o].batch
    PROVE  firstBar' = firstBar
  BY DEF firstBar

\* A step that changes the status of one row.
LEMMA OneBecomes ==
    ASSUME NEW o \in Ids, NEW s, op'[o].status = s, \A p \in Ids \ {o} : op'[p].status = op[p].status
    PROVE  Serial!Becomes({o}, s)
  BY DEF Serial!Becomes, stateBar

\* Added rows are behind the used ones, and a bulk release is numbered by its first row: nothing
\* that was there becomes a prerequisite, and nothing gets a new one.
LEMMA SerialAdd ==
    ASSUME TypeInv, NEW o \in Ids, Adds(o)
    PROVE  \E J \in SUBSET Ids : Serial!Submit(J)
<1>1. PICK a \in Ids, b \in Ids :
        /\ a <= b /\ Unused(a)
        /\ \A i \in a..b : Fresh(op'[i]) /\ op'[i].batch \in {0, a}
        /\ \A i \in Ids \ (a..b) : op'[i] = op[i]
  BY AddFacts
<1> DEFINE J == a..b
<1>2. a \in Int /\ b \in Int /\ Ids \subseteq Int /\ J \subseteq Ids /\ a # 0
  BY BoundsAssumption DEF Ids
<1>3. \A i \in Ids : i >= a => op[i].status = "ABSENT" /\ op[i].batch = 0
  BY <1>1, <1>2 DEF Unused, TypeInv, Ledger
<1>4. \A i \in Ids : op[i].batch <= i /\ op[i].batch \in Int
  BY <1>2, BoundsAssumption DEF TypeInv, TypeOK, Ledger, Rows
<1>5. \A j \in J : stateBar[j] = "ABSENT"
  BY <1>2, <1>3 DEF stateBar
<1>6. Serial!Becomes(J, "QUEUED")
  <2>1. \A i \in Ids : op'[i].status = IF i \in J THEN "QUEUED" ELSE op[i].status
    BY <1>1 DEF Fresh
  <2> QED
    BY <2>1 DEF Serial!Becomes, stateBar
<1>7. firstBar' \in [Ids -> SUBSET Ids]
  BY DEF firstBar
<1>8. \A j \in Ids : firstBar'[j] = {p \in Ids : op'[j].batch # 0 /\ op'[p].batch = op'[j].batch /\ p < j}
  BY DEF firstBar
<1>9. ASSUME NEW j \in J
      PROVE  firstBar'[j] \subseteq J /\ \A k \in firstBar'[j] : j \notin firstBar'[k]
  <2>1. ASSUME NEW k \in firstBar'[j]
        PROVE  k \in J /\ j \notin firstBar'[k]
    <3>1. k \in Ids /\ op'[j].batch = a /\ op'[k].batch = a /\ k < j
      BY <1>1, <1>2, <1>8, <1>9, <2>1
    <3>2. k \in J
      <4>1. CASE k \notin J
        <5>1. op[k].batch = a /\ op[k].batch <= k
          BY <1>1, <1>4, <3>1, <4>1
        <5> QED
          BY <1>2, <3>1, <4>1, <5>1
      <4> QED
        BY <4>1
    <3>3. j \notin firstBar'[k]
      BY <1>2, <1>8, <1>9, <3>1
    <3> QED
      BY <3>2, <3>3
  <2> QED
    BY <2>1
<1>10. ASSUME NEW j \in Ids \ J
       PROVE  firstBar'[j] = firstBar[j]
  <2>1. op'[j] = op[j]
    BY <1>1
  <2>2. firstBar[j] = {p \in Ids : op[j].batch # 0 /\ op[p].batch = op[j].batch /\ p < j}
    BY DEF firstBar
  <2>3. CASE op[j].batch = 0
    BY <1>8, <2>1, <2>2, <2>3
  <2>4. CASE op[j].batch # 0
    <3>1. j < a
      BY <1>2, <1>3, <2>4
    <3>2. \A p \in Ids : p < j => op'[p] = op[p]
      BY <1>1, <1>2, <3>1
    <3> QED
      BY <1>8, <2>1, <2>2, <3>2
  <2> QED
    BY <2>3, <2>4
<1>11. Serial!Submit(J)
  BY <1>5, <1>6, <1>7, <1>9, <1>10 DEF Serial!Submit
<1> QED
  BY <1>2, <1>11

\* Cancellations, retries of bulk rows and timers.
LEMMA SerialTurn ==
    ASSUME TypeInv, NEW o \in Ids, Turn(o)
    PROVE  [Serial!Step]_(Serial!vars)
<1>0. op \in [Ids -> Rows] /\ op[o].status \in {"ABSENT", "QUEUED", "RUNNING", "SUCCEEDED", "FAILED", "CANCELLED"}
  BY DEF TypeInv, TypeOK, Rows, Active, Ended
<1>1. PICK row \in Rows :
        /\ op' = [op EXCEPT ![o] = row]
        /\ row.batch = op[o].batch
        /\ row.status = op[o].status \/ row.status \in {"QUEUED", "CANCELLED"}
        /\ row.status = "ABSENT" <=> op[o].status = "ABSENT"
        /\ op[o].status = "SUCCEEDED" => row.status = "SUCCEEDED"
        /\ op[o].status = "FAILED" => row.status # "CANCELLED"
        /\ op[o].status = "RUNNING" => row.status \in {"RUNNING", "CANCELLED"}
  BY TurnFacts
<1>2. op'[o] = row /\ \A p \in Ids \ {o} : op'[p] = op[p]
  BY <1>0, <1>1
<1>3. firstBar' = firstBar
  BY <1>1, <1>2, FirstKept
<1>4. Serial!Becomes({o}, row.status)
  BY <1>2, OneBecomes
<1>5. stateBar[o] = op[o].status
  BY DEF stateBar
<1>6. CASE row.status = op[o].status
  BY <1>2, <1>3, <1>6 DEF stateBar, Serial!vars
<1>7. CASE op[o].status = "QUEUED" /\ row.status = "CANCELLED"
  <2>1. Serial!Withdraw({o})
    BY <1>3, <1>4, <1>5, <1>7 DEF Serial!Withdraw
  <2> QED
    BY <2>1 DEF Serial!Step
<1>8. CASE op[o].status = "RUNNING" /\ row.status = "CANCELLED"
  <2>1. Serial!Finish(o, "CANCELLED")
    BY <1>3, <1>4, <1>5, <1>8 DEF Serial!Finish
  <2> QED
    BY <2>1 DEF Serial!Step
<1>9. CASE op[o].status \in {"FAILED", "CANCELLED"} /\ row.status = "QUEUED"
  <2>1. Serial!QueueAgain(o)
    BY <1>3, <1>4, <1>5, <1>9 DEF Serial!QueueAgain
  <2> QED
    BY <2>1 DEF Serial!Step
<1> QED
  BY <1>0, <1>1, <1>6, <1>7, <1>8, <1>9

\* A claim starts a job, or takes over the one that runs, which an operator does not see; the
\* overtaken updates are withdrawn in either case.
LEMMA SerialClaim ==
    ASSUME TypeInv, NEW w \in Workers, NEW c \in Ids, ClaimProfile(w, c) \/ ClaimRelease(w, c)
    PROVE  Serial!Step
<1>0. op \in [Ids -> Rows]
  BY DEF TypeInv, TypeOK
<1>1. /\ op[c].status \in Active
      /\ op[c].status = "QUEUED" => Running = {} /\ Runnable(c)
      /\ op'[c] = ClaimedRow(op[c], w)
      /\ \A o \in Ids \ {c} : op'[o] = op[o] \/ (op[o].status = "QUEUED" /\ op'[o] = CancelledRow(op[o]))
  BY ClaimFacts
<1> DEFINE W == {o \in Ids \ {c} : op'[o] # op[o]}
<1>2. /\ op'[c].status = "RUNNING" /\ op'[c].batch = op[c].batch
      /\ \A o \in Ids \ {c} : op'[o].batch = op[o].batch
      /\ \A o \in W : op[o].status = "QUEUED" /\ op'[o].status = "CANCELLED"
      /\ \A o \in Ids \ {c} : o \notin W => op'[o].status = op[o].status
  BY <1>0, <1>1, ClaimedTyped, CancelledTyped
<1>3. firstBar' = firstBar
  BY <1>2, FirstKept
<1>4. W \in SUBSET Ids /\ c \notin W /\ \A o \in W : stateBar[o] = "QUEUED"
  BY <1>2 DEF stateBar
<1> HIDE DEF W
<1>5. CASE op[c].status = "QUEUED"
  <2>1. stateBar[c] = "QUEUED" /\ \A k \in Ids : stateBar[k] # "RUNNING"
    BY <1>1, <1>5 DEF stateBar, Running
  <2>2. \A k \in firstBar[c] : stateBar[k] = "SUCCEEDED"
    BY <1>1, <1>5 DEF Runnable, firstBar, stateBar
  <2>3. stateBar' = [k \in Ids |-> IF k = c THEN "RUNNING" ELSE IF k \in W THEN "CANCELLED" ELSE stateBar[k]]
    BY <1>2 DEF stateBar
  <2>4. Serial!Start(c, W)
    BY <1>3, <1>4, <2>1, <2>2, <2>3 DEF Serial!Start
  <2> QED
    BY <1>4, <2>4 DEF Serial!Step
<1>6. CASE op[c].status = "RUNNING"
  <2>1. \A k \in Ids : op'[k].status = IF k \in W THEN "CANCELLED" ELSE op[k].status
    BY <1>2, <1>4, <1>6
  <2>2. Serial!Becomes(W, "CANCELLED")
    BY <2>1 DEF Serial!Becomes, stateBar
  <2>3. Serial!Withdraw(W)
    BY <1>3, <1>4, <2>2 DEF Serial!Withdraw
  <2> QED
    BY <1>4, <2>3 DEF Serial!Step
<1> QED
  BY <1>1, <1>5, <1>6 DEF Active

\* Only the holder of a running row completes it or puts it back.
LEMMA SerialEnd ==
    ASSUME TypeInv, NEW w \in Workers, Complete(w) \/ Requeue(w)
    PROVE  Serial!Step
<1>1. PICK o \in Ids : o = wk[w].op /\ op[o].status = "RUNNING"
  BY EndFacts DEF Holds, Job
<1>2. PICK row \in Rows :
        /\ op' = [op EXCEPT ![o] = row] /\ row.batch = op[o].batch
        /\ row.status \in {"QUEUED", "SUCCEEDED", "FAILED"}
  BY <1>1, EndFacts DEF Job
<1>3. op'[o] = row /\ \A p \in Ids \ {o} : op'[p] = op[p]
  BY <1>2 DEF TypeInv, TypeOK
<1>4. firstBar' = firstBar
  BY <1>2, <1>3, FirstKept
<1>5. Serial!Becomes({o}, row.status)
  BY <1>3, OneBecomes
<1>6. stateBar[o] = "RUNNING"
  BY <1>1 DEF stateBar
<1>7. Serial!Finish(o, row.status)
  BY <1>4, <1>5, <1>6 DEF Serial!Finish
<1> QED
  BY <1>2, <1>7 DEF Serial!Step

\* Every step of the queues is a step of the abstract queue or invisible in it.
LEMMA SerialStep == TypeInv /\ [Next]_vars => [Serial!Next]_(Serial!vars)
<1> SUFFICES ASSUME TypeInv, [Next]_vars PROVE [Serial!Step]_(Serial!vars)
  BY DEF Serial!Next
<1>1. CASE \E o \in Ids : Adds(o)
  BY <1>1, SerialAdd DEF Serial!Step
<1>2. CASE \E o \in Ids : Turn(o)
  BY <1>2, SerialTurn
<1>3. CASE \E w \in Workers, c \in Ids : ClaimProfile(w, c) \/ ClaimRelease(w, c)
  BY <1>3, SerialClaim
<1>4. CASE \E w \in Workers : Inner(w)
  <2>1. \A o \in Ids : op'[o].status = op[o].status /\ op'[o].batch = op[o].batch
    BY <1>4, InnerQuiet DEF Quiet, Kept
  <2> QED
    BY <2>1, FirstKept DEF stateBar, Serial!vars
<1>5. CASE \E w \in Workers : Complete(w) \/ Requeue(w)
  BY <1>5, SerialEnd
<1>6. CASE (\E p \in Profiles : Play(p)) \/ UNCHANGED vars
  <2>1. op' = op
    BY <1>6 DEF Play, vars
  <2> QED
    BY <2>1 DEF stateBar, firstBar, Serial!vars
<1> QED
  BY <1>1, <1>2, <1>3, <1>4, <1>5, <1>6, Kinds

\* The operation and release queues implement SerialJobs: however many orchestrators and release
\* controllers poll, crash, stall past their leases and finish late, an operator sees one queue in
\* which jobs run one at a time, in the order of their bulk release, and successes are final.
THEOREM QueueIsSerial == Spec => ImplementsSerialJobs
<1>1. Init => Serial!Init
  BY DEF Init, Absent, Serial!Init, stateBar, firstBar
<1> QED
  BY <1>1, TypeInvariant, SerialStep, PTL DEF Spec, Serial!Spec, ImplementsSerialJobs
=============================================================================
