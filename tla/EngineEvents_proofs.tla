------------------------ MODULE EngineEvents_proofs ------------------------
(***************************************************************************)
(* Proofs about the engine's command queue, for any daemons, any requests,  *)
(* any number of attempts and any bounds.                                   *)
(***************************************************************************)
EXTENDS EngineEvents, TLAPS

-----------------------------------------------------------------------------
(* Worlds. *)

\* Applying a command counts its effect once more and changes nothing else.
LEMMA AppliedMeans ==
    ASSUME NEW w \in Worlds, NEW e \in Events
    PROVE  /\ Applied(w, e) \in Worlds
           /\ Applied(w, e).applied = [w.applied EXCEPT ![e] = @ + 1]
  BY DEF Applied, Worlds

\* A turn run keeps every command's effect.
LEMMA TurnRunMeans ==
    ASSUME NEW w \in Worlds
    PROVE  TurnRun(w) \in Worlds /\ TurnRun(w).applied = w.applied
  BY DEF TurnRun, Worlds

-----------------------------------------------------------------------------
(* Type correctness. *)

\* The empty queue and the idle daemons are well typed.
LEMMA TypeInit == Init => TypeOK
<1>1. EmptyWorld \in Worlds
  BY DEF EmptyWorld, Worlds
<1> QED
  BY <1>1 DEF Init, TypeOK, Statuses

\* Every step of the API, the clock and the daemons keeps the types.
LEMMA TypeStep == TypeOK /\ [Next]_vars => TypeOK'
<1> SUFFICES ASSUME TypeOK, [Next]_vars PROVE TypeOK'
  OBVIOUS
<1> USE DEF TypeOK, rowVars
<1>1. ASSUME NEW e \in Events, SendCommand(e) PROVE TypeOK'
  BY <1>1 DEF SendCommand, Statuses
<1>2. ASSUME NEW e \in Events, LeaseExpires(e) PROVE TypeOK'
  BY <1>2, BoundsAssumption DEF LeaseExpires, Fault
<1>3. ASSUME NEW d \in Daemons, Start(d) PROVE TypeOK'
  BY <1>3, BoundsAssumption DEF Start, Fault
<1>4. ASSUME NEW d \in Daemons, NoticeLoss(d) PROVE TypeOK'
  BY <1>4, BoundsAssumption DEF NoticeLoss, Fault
<1>5. ASSUME NEW d \in Daemons, Exit(d) PROVE TypeOK'
  BY <1>5 DEF Exit
<1>6. ASSUME NEW d \in Daemons, Crash(d) PROVE TypeOK'
  BY <1>6, BoundsAssumption DEF Crash, Fault
<1>7. ASSUME NEW d \in Daemons, RecoverExpiredLeases(d) PROVE TypeOK'
  BY <1>7 DEF RecoverExpiredLeases, Statuses
<1>8. ASSUME NEW d \in Daemons, ClaimPending(d) PROVE TypeOK'
  <2>1. PICK S \in SUBSET {e \in Events : status[e] = "PENDING"} :
          /\ status' = [e \in Events |-> IF e \notin S THEN status[e]
                                         ELSE IF e \in Malformed THEN "FAILED" ELSE "PROCESSING"]
          /\ lockedBy' = [e \in Events |-> IF e \notin S THEN lockedBy[e]
                                           ELSE IF e \in Malformed THEN NoDaemon ELSE d]
          /\ attempts' = [e \in Events |-> IF e \in S THEN attempts[e] + 1 ELSE attempts[e]]
          /\ expired' = expired \ S
          /\ batch' = [batch EXCEPT ![d] = S \ Malformed]
    BY <1>8 DEF ClaimPending
  <2>2. status' \in [Events -> Statuses]
    BY <2>1 DEF Statuses
  <2>3. lockedBy' \in [Events -> Daemons \cup {NoDaemon}]
    BY <2>1
  <2>4. attempts' \in [Events -> Nat] /\ expired' \subseteq Events
    BY <2>1
  <2>5. batch' \in [Daemons -> SUBSET Events]
    BY <2>1
  <2>6. faults' \in Nat
    BY <1>8 DEF ClaimPending, Fault
  <2> QED
    BY <1>8, <2>2, <2>3, <2>4, <2>5, <2>6 DEF ClaimPending
<1>9. ASSUME NEW d \in Daemons, RunOnce(d) PROVE TypeOK'
  <2>1. \A w \in Bases(d) : w \in Worlds
    BY DEF Bases
  <2>2. durable' \in Worlds /\ memory' \in [Daemons -> Worlds]
    BY <1>9, <2>1, TurnRunMeans DEF RunOnce
  <2> QED
    BY <1>9, <2>2 DEF RunOnce
<1>10. ASSUME NEW d \in Daemons, RunReplyLost(d) PROVE TypeOK'
  <2>1. \A w \in Bases(d) : w \in Worlds
    BY DEF Bases
  <2>2. durable' \in Worlds /\ faults' \in Nat
    BY <1>10, <2>1, TurnRunMeans DEF RunReplyLost, Fault
  <2> QED
    BY <1>10, <2>2 DEF RunReplyLost
<1>11. ASSUME NEW d \in Daemons, NEW e \in Events, ExecuteCommand(d, e) PROVE TypeOK'
  <2>1. \A w \in Bases(d) : w \in Worlds
    BY DEF Bases
  <2>a. PICK w \in Bases(d) : durable' = Applied(w, e)
    BY <1>11 DEF ExecuteCommand
  <2>b. Applied(w, e) \in Worlds /\ Applied(memory[d], e) \in Worlds
    BY <2>1, <2>a, AppliedMeans
  <2>2. durable' \in Worlds /\ memory' \in [Daemons -> Worlds]
    BY <1>11, <2>a, <2>b DEF ExecuteCommand
  <2>3. status' \in [Events -> Statuses] /\ lockedBy' \in [Events -> Daemons \cup {NoDaemon}]
    BY <1>11 DEF ExecuteCommand, CommitRows, Statuses
  <2> QED
    BY <1>11, <2>2, <2>3 DEF ExecuteCommand, CommitRows
<1>12. ASSUME NEW d \in Daemons, NEW e \in Events, FailCommand(d, e) PROVE TypeOK'
  BY <1>12, BoundsAssumption DEF FailCommand, Fault
<1>13. ASSUME NEW d \in Daemons, NEW e \in Events, CommitReplyLost(d, e) PROVE TypeOK'
  <2>1. \A w \in Bases(d) : w \in Worlds
    BY DEF Bases
  <2>a. PICK w \in Bases(d) : durable' = Applied(w, e)
    BY <1>13 DEF CommitReplyLost
  <2>b. Applied(w, e) \in Worlds
    BY <2>1, <2>a, AppliedMeans
  <2>2. durable' \in Worlds /\ faults' \in Nat
    BY <1>13, <2>a, <2>b DEF CommitReplyLost, Fault
  <2>3. status' \in [Events -> Statuses] /\ lockedBy' \in [Events -> Daemons \cup {NoDaemon}]
    BY <1>13 DEF CommitReplyLost, CommitRows, Statuses
  <2> QED
    BY <1>13, <2>2, <2>3 DEF CommitReplyLost, CommitRows
<1>14. ASSUME NEW d \in Daemons, NEW e \in Events, PublishCommandError(d, e) PROVE TypeOK'
  BY <1>14 DEF PublishCommandError, Statuses
<1>15. ASSUME NEW d \in Daemons, NEW e \in Events, ReportFails(d, e) PROVE TypeOK'
  BY <1>15, BoundsAssumption DEF ReportFails, Fault
<1>16. CASE UNCHANGED vars
  BY <1>16 DEF vars
<1>17. ASSUME NEW H \in SUBSET Withheld, Withhold(H) PROVE TypeOK'
  BY <1>17 DEF Withhold
<1> QED
  BY <1>1, <1>2, <1>3, <1>4, <1>5, <1>6, <1>7, <1>8, <1>9, <1>10, <1>11, <1>12, <1>13, <1>14, <1>15, <1>16, <1>17 DEF Next, DaemonStep

\* The queue's rows, the daemons and the worlds are well typed in every behaviour.
THEOREM TypeCorrect == Spec => []TypeOK
  BY TypeInit, TypeStep, PTL DEF Spec

-----------------------------------------------------------------------------
(* Answers are final. *)

\* A step leaves a status that a client may have read.
LEMMA FinalStep ==
    TypeOK /\ [Next]_vars =>
        \A r \in Events : status[r] \in {"SUCCEEDED", "FAILED"} => status'[r] = status[r]
<1> SUFFICES ASSUME TypeOK, [Next]_vars, NEW r \in Events, status[r] \in {"SUCCEEDED", "FAILED"}
             PROVE  status'[r] = status[r]
  OBVIOUS
<1> USE DEF TypeOK, rowVars
<1>1. ASSUME NEW e \in Events, SendCommand(e) PROVE status'[r] = status[r]
  BY <1>1 DEF SendCommand
<1>2. ASSUME NEW e \in Events, LeaseExpires(e) PROVE status'[r] = status[r]
  BY <1>2 DEF LeaseExpires
<1>3. ASSUME NEW d \in Daemons, Start(d) PROVE status'[r] = status[r]
  BY <1>3 DEF Start
<1>4. ASSUME NEW d \in Daemons, NoticeLoss(d) PROVE status'[r] = status[r]
  BY <1>4 DEF NoticeLoss
<1>5. ASSUME NEW d \in Daemons, Exit(d) PROVE status'[r] = status[r]
  BY <1>5 DEF Exit
<1>6. ASSUME NEW d \in Daemons, Crash(d) PROVE status'[r] = status[r]
  BY <1>6 DEF Crash
<1>7. ASSUME NEW d \in Daemons, RecoverExpiredLeases(d) PROVE status'[r] = status[r]
  BY <1>7 DEF RecoverExpiredLeases
<1>8. ASSUME NEW d \in Daemons, ClaimPending(d) PROVE status'[r] = status[r]
  BY <1>8 DEF ClaimPending
<1>9. ASSUME NEW d \in Daemons, RunOnce(d) PROVE status'[r] = status[r]
  BY <1>9 DEF RunOnce
<1>10. ASSUME NEW d \in Daemons, RunReplyLost(d) PROVE status'[r] = status[r]
  BY <1>10 DEF RunReplyLost
<1>11. ASSUME NEW d \in Daemons, NEW e \in Events, ExecuteCommand(d, e) PROVE status'[r] = status[r]
  BY <1>11 DEF ExecuteCommand, CommitRows, CommandFence
<1>12. ASSUME NEW d \in Daemons, NEW e \in Events, FailCommand(d, e) PROVE status'[r] = status[r]
  BY <1>12 DEF FailCommand
<1>13. ASSUME NEW d \in Daemons, NEW e \in Events, CommitReplyLost(d, e) PROVE status'[r] = status[r]
  BY <1>13 DEF CommitReplyLost, CommitRows, CommandFence
<1>14. ASSUME NEW d \in Daemons, NEW e \in Events, PublishCommandError(d, e) PROVE status'[r] = status[r]
  BY <1>14 DEF PublishCommandError, ErrorApplies
<1>15. ASSUME NEW d \in Daemons, NEW e \in Events, ReportFails(d, e) PROVE status'[r] = status[r]
  BY <1>15 DEF ReportFails
<1>16. CASE UNCHANGED vars
  BY <1>16 DEF vars
<1>17. ASSUME NEW H \in SUBSET Withheld, Withhold(H) PROVE status'[r] = status[r]
  BY <1>17 DEF Withhold
<1> QED
  BY <1>1, <1>2, <1>3, <1>4, <1>5, <1>6, <1>7, <1>8, <1>9, <1>10, <1>11, <1>12, <1>13, <1>14, <1>15, <1>16, <1>17 DEF Next, DaemonStep

\* Whatever is retried, reclaimed or reported late, no client is told two different
\* outcomes of one request: lost replies included.
THEOREM AnswersFinal == Spec => ResultsAreFinal
<1>1. TypeOK /\ [Next]_vars =>
        [\A e \in Events : status[e] \in {"SUCCEEDED", "FAILED"} => status'[e] = status[e]]_vars
  BY FinalStep
<1> QED
  BY <1>1, TypeCorrect, PTL DEF Spec, ResultsAreFinal

-----------------------------------------------------------------------------
(* Effects, whether or not the commits are acknowledged. *)

\* Beside the statuses st a world w shows at most one effect of a request, and none of
\* one that has not succeeded.
Sound(w, st) == \A e \in Events : w.applied[e] \in {0, 1} /\ (w.applied[e] = 1 => st[e] = "SUCCEEDED")

\* The inductive invariant: a flush may be based on any daemon's memory, however old,
\* so every memory is as sound as the durable world.
SoundInv == TypeOK /\ Sound(durable, status) /\ \A d \in Daemons : Sound(memory[d], status)

\* No effect anywhere at first.
LEMMA SoundInit == Init => SoundInv
  BY TypeInit DEF Init, SoundInv, Sound, EmptyWorld

\* A sound world stays sound in every step that leaves it alone: a success is final.
LEMMA SoundKept ==
    ASSUME TypeOK, [Next]_vars, NEW w, Sound(w, status)
    PROVE  Sound(w, status')
  BY FinalStep DEF Sound

\* A turn run keeps a sound world sound.
LEMMA SoundTurn ==
    ASSUME NEW w \in Worlds, NEW st, Sound(w, st)
    PROVE  Sound(TurnRun(w), st)
  BY TurnRunMeans DEF Sound

\* A command that is still being processed has no effect in a sound world, so applying
\* it there while its row becomes SUCCEEDED shows it once.
LEMMA SoundApply ==
    ASSUME TypeOK, NEW w \in Worlds, Sound(w, status), NEW e \in Events,
           status[e] = "PROCESSING", status' = [status EXCEPT ![e] = "SUCCEEDED"]
    PROVE  Sound(Applied(w, e), status')
<1>1. w.applied \in [Events -> Nat] /\ w.applied[e] = 0
  BY DEF Worlds, Sound
<1>2. Applied(w, e).applied = [w.applied EXCEPT ![e] = @ + 1]
  BY AppliedMeans
<1>3. status'[e] = "SUCCEEDED" /\ \A f \in Events \ {e} : status'[f] = status[f]
  BY DEF TypeOK
<1> SUFFICES ASSUME NEW f \in Events
             PROVE  /\ Applied(w, e).applied[f] \in {0, 1}
                    /\ Applied(w, e).applied[f] = 1 => status'[f] = "SUCCEEDED"
  BY DEF Sound
<1>4. CASE f = e
  BY <1>1, <1>2, <1>3, <1>4
<1>5. CASE f # e
  BY <1>1, <1>2, <1>3, <1>5 DEF Sound
<1> QED
  BY <1>4, <1>5

\* What a flush starts from is sound and well typed.
LEMMA SoundBases ==
    ASSUME SoundInv, NEW d \in Daemons, NEW w \in Bases(d)
    PROVE  w \in Worlds /\ Sound(w, status)
  BY DEF SoundInv, TypeOK, Bases

\* A command's commit leaves every world sound, the daemon's memory too.
LEMMA SoundCommit ==
    ASSUME SoundInv, [Next]_vars, NEW d \in Daemons, NEW e \in Events,
           CommandFence(d, e), CommitRows(e), \E w \in Bases(d) : durable' = Applied(w, e)
    PROVE  Sound(durable', status') /\ Sound(Applied(memory[d], e), status')
<1>1. status[e] = "PROCESSING" /\ status' = [status EXCEPT ![e] = "SUCCEEDED"]
  BY DEF CommandFence, CommitRows
<1>2. PICK w \in Bases(d) : durable' = Applied(w, e)
  OBVIOUS
<1>3. w \in Worlds /\ Sound(w, status)
  BY SoundBases
<1>4. memory[d] \in Worlds /\ Sound(memory[d], status) /\ TypeOK
  BY DEF SoundInv, TypeOK
<1> QED
  BY <1>1, <1>2, <1>3, <1>4, SoundApply

\* Every step keeps the durable world and every memory sound.
LEMMA SoundStep == SoundInv /\ [Next]_vars => SoundInv'
<1> SUFFICES ASSUME SoundInv, [Next]_vars PROVE SoundInv'
  OBVIOUS
<1>t. TypeOK /\ TypeOK'
  BY TypeStep DEF SoundInv
<1>k. Sound(durable, status') /\ \A d \in Daemons : Sound(memory[d], status')
  BY <1>t, SoundKept DEF SoundInv
<1>q. ASSUME durable' = durable, memory' = memory PROVE SoundInv'
  BY <1>q, <1>t, <1>k DEF SoundInv
<1>1. ASSUME NEW e \in Events, SendCommand(e) \/ LeaseExpires(e) PROVE SoundInv'
  BY <1>1, <1>q DEF SendCommand, LeaseExpires
<1>2. ASSUME NEW d \in Daemons, Start(d) PROVE SoundInv'
  <2>1. \A c \in Daemons : memory'[c] \in {durable, memory[c]}
    BY <1>2, <1>t DEF Start, TypeOK
  <2> QED
    BY <1>2, <1>t, <1>k, <2>1 DEF Start, SoundInv
<1>3. ASSUME NEW d \in Daemons,
             NoticeLoss(d) \/ Exit(d) \/ Crash(d) \/ RecoverExpiredLeases(d) \/ ClaimPending(d)
      PROVE  SoundInv'
  BY <1>3, <1>q DEF NoticeLoss, Exit, Crash, RecoverExpiredLeases, ClaimPending
<1>4. ASSUME NEW d \in Daemons, RunOnce(d) \/ RunReplyLost(d) PROVE SoundInv'
  <2>1. PICK w \in Bases(d) : durable' = TurnRun(w)
    BY <1>4 DEF RunOnce, RunReplyLost
  <2>2. w \in Worlds /\ Sound(w, status')
    BY <1>t, SoundBases, SoundKept
  <2>3. Sound(durable', status')
    BY <2>1, <2>2, SoundTurn
  <2>4. memory[d] \in Worlds /\ Sound(TurnRun(memory[d]), status')
    BY <1>t, <1>k, SoundTurn DEF TypeOK
  <2>5. \A c \in Daemons : memory'[c] = memory[c] \/ (c = d /\ memory'[c] = TurnRun(memory[d]))
    BY <1>4, <1>t DEF RunOnce, RunReplyLost, TypeOK
  <2> QED
    BY <1>t, <1>k, <2>3, <2>4, <2>5 DEF SoundInv
<1>5. ASSUME NEW d \in Daemons, NEW e \in Events, ExecuteCommand(d, e) \/ CommitReplyLost(d, e)
      PROVE  SoundInv'
  <2>1. Sound(durable', status') /\ Sound(Applied(memory[d], e), status')
    BY <1>5, SoundCommit DEF ExecuteCommand, CommitReplyLost
  <2>2. \A c \in Daemons : memory'[c] = memory[c] \/ (c = d /\ memory'[c] = Applied(memory[d], e))
    BY <1>5, <1>t DEF ExecuteCommand, CommitReplyLost, TypeOK
  <2> QED
    BY <1>t, <1>k, <2>1, <2>2 DEF SoundInv
<1>6. ASSUME NEW d \in Daemons, NEW e \in Events,
             FailCommand(d, e) \/ PublishCommandError(d, e) \/ ReportFails(d, e)
      PROVE  SoundInv'
  BY <1>6, <1>q DEF FailCommand, PublishCommandError, ReportFails
<1>7. CASE UNCHANGED vars
  BY <1>7, <1>q DEF vars
<1>8. ASSUME NEW H \in SUBSET Withheld, Withhold(H) PROVE SoundInv'
  BY <1>8, <1>q DEF Withhold
<1> QED
  BY <1>1, <1>2, <1>3, <1>4, <1>5, <1>6, <1>7, <1>8 DEF Next, DaemonStep

\* Whatever replies are lost, no effect of a command is durable twice, or durable
\* beside a row that does not say SUCCEEDED.
THEOREM AppliedNeverTwice == Spec => []NeverTwice
<1>1. SoundInv => NeverTwice
  BY DEF SoundInv, Sound, NeverTwice
<1> QED
  BY <1>1, SoundInit, SoundStep, PTL DEF Spec

-----------------------------------------------------------------------------
(* Effects, when every commit is acknowledged. *)

\* The inductive invariant: the owner's memory is what its next flush is based on,
\* so the counts of effects survive the flush.
EffectsInv == ~LostReplies /\ TypeOK /\ MemoryIsDurable /\ SucceededIffApplied

\* No request has run and nobody owns the lease: the invariant holds initially.
LEMMA EffectsInit == ~LostReplies /\ Init => EffectsInv
<1> SUFFICES ASSUME ~LostReplies, Init PROVE EffectsInv
  OBVIOUS
<1>1. TypeOK
  BY TypeInit
<1>2. MemoryIsDurable
  BY NoDaemonAssumption DEF Init, MemoryIsDurable
<1>3. SucceededIffApplied
  BY DEF Init, SucceededIffApplied, EmptyWorld
<1> QED
  BY <1>1, <1>2, <1>3 DEF EffectsInv

\* An owner that runs flushes over the durable world itself.
LEMMA OwnerBase ==
    ASSUME MemoryIsDurable, NEW d \in Daemons, owner = d, proc[d] = "run"
    PROVE  Bases(d) = {durable} /\ memory[d] = durable
  BY DEF MemoryIsDurable, Bases

\* Every step keeps the owner's memory and the durable world together.
LEMMA MemoryStep == EffectsInv /\ [Next]_vars => MemoryIsDurable'
<1> SUFFICES ASSUME EffectsInv, [Next]_vars PROVE MemoryIsDurable'
  OBVIOUS
<1> USE DEF EffectsInv, TypeOK, MemoryIsDurable, rowVars
<1>1. ASSUME NEW e \in Events, SendCommand(e) PROVE MemoryIsDurable'
  BY <1>1 DEF SendCommand
<1>2. ASSUME NEW e \in Events, LeaseExpires(e) PROVE MemoryIsDurable'
  BY <1>2 DEF LeaseExpires
<1>3. ASSUME NEW d \in Daemons, Start(d) PROVE MemoryIsDurable'
  BY <1>3 DEF Start
<1>4. ASSUME NEW d \in Daemons, NoticeLoss(d) PROVE MemoryIsDurable'
  BY <1>4 DEF NoticeLoss
<1>5. ASSUME NEW d \in Daemons, Exit(d) PROVE MemoryIsDurable'
  BY <1>5 DEF Exit
<1>6. ASSUME NEW d \in Daemons, Crash(d) PROVE MemoryIsDurable'
  BY <1>6 DEF Crash
<1>7. ASSUME NEW d \in Daemons, RecoverExpiredLeases(d) PROVE MemoryIsDurable'
  BY <1>7 DEF RecoverExpiredLeases
<1>8. ASSUME NEW d \in Daemons, ClaimPending(d) PROVE MemoryIsDurable'
  BY <1>8 DEF ClaimPending
<1>9. ASSUME NEW d \in Daemons, RunOnce(d) PROVE MemoryIsDurable'
  <2>1. Bases(d) = {durable} /\ memory[d] = durable
    BY <1>9, OwnerBase DEF RunOnce
  <2>2. durable' = TurnRun(durable) /\ memory'[d] = TurnRun(durable)
    BY <1>9, <2>1 DEF RunOnce
  <2> QED
    BY <1>9, <2>2 DEF RunOnce
<1>10. ASSUME NEW d \in Daemons, RunReplyLost(d) PROVE MemoryIsDurable'
  BY <1>10 DEF RunReplyLost
<1>11. ASSUME NEW d \in Daemons, NEW e \in Events, ExecuteCommand(d, e) PROVE MemoryIsDurable'
  <2>1. Bases(d) = {durable} /\ memory[d] = durable
    BY <1>11, OwnerBase DEF ExecuteCommand, CommandFence
  <2>2. durable' = Applied(durable, e) /\ memory'[d] = Applied(durable, e)
    BY <1>11, <2>1 DEF ExecuteCommand
  <2> QED
    BY <1>11, <2>2 DEF ExecuteCommand, CommandFence
<1>12. ASSUME NEW d \in Daemons, NEW e \in Events, FailCommand(d, e) PROVE MemoryIsDurable'
  BY <1>12 DEF FailCommand
<1>13. ASSUME NEW d \in Daemons, NEW e \in Events, CommitReplyLost(d, e) PROVE MemoryIsDurable'
  BY <1>13 DEF CommitReplyLost
<1>14. ASSUME NEW d \in Daemons, NEW e \in Events, PublishCommandError(d, e) PROVE MemoryIsDurable'
  BY <1>14 DEF PublishCommandError
<1>15. ASSUME NEW d \in Daemons, NEW e \in Events, ReportFails(d, e) PROVE MemoryIsDurable'
  BY <1>15 DEF ReportFails
<1>16. CASE UNCHANGED vars
  BY <1>16 DEF vars
<1>17. ASSUME NEW H \in SUBSET Withheld, Withhold(H) PROVE MemoryIsDurable'
  BY <1>17 DEF Withhold
<1> QED
  BY <1>1, <1>2, <1>3, <1>4, <1>5, <1>6, <1>7, <1>8, <1>9, <1>10, <1>11, <1>12, <1>13, <1>14, <1>15, <1>16, <1>17 DEF Next, DaemonStep

\* Every step keeps status and effect of a request together.
LEMMA AppliedStep == EffectsInv /\ [Next]_vars => SucceededIffApplied'
<1> SUFFICES ASSUME EffectsInv, [Next]_vars PROVE SucceededIffApplied'
  OBVIOUS
<1> USE DEF EffectsInv, TypeOK, SucceededIffApplied, rowVars
<1>1. ASSUME NEW e \in Events, SendCommand(e) PROVE SucceededIffApplied'
  BY <1>1 DEF SendCommand
<1>2. ASSUME NEW e \in Events, LeaseExpires(e) PROVE SucceededIffApplied'
  BY <1>2 DEF LeaseExpires
<1>3. ASSUME NEW d \in Daemons, Start(d) PROVE SucceededIffApplied'
  BY <1>3 DEF Start
<1>4. ASSUME NEW d \in Daemons, NoticeLoss(d) PROVE SucceededIffApplied'
  BY <1>4 DEF NoticeLoss
<1>5. ASSUME NEW d \in Daemons, Exit(d) PROVE SucceededIffApplied'
  BY <1>5 DEF Exit
<1>6. ASSUME NEW d \in Daemons, Crash(d) PROVE SucceededIffApplied'
  BY <1>6 DEF Crash
<1>7. ASSUME NEW d \in Daemons, RecoverExpiredLeases(d) PROVE SucceededIffApplied'
  BY <1>7 DEF RecoverExpiredLeases
<1>8. ASSUME NEW d \in Daemons, ClaimPending(d) PROVE SucceededIffApplied'
  BY <1>8 DEF ClaimPending
<1>9. ASSUME NEW d \in Daemons, RunOnce(d) PROVE SucceededIffApplied'
  <2>1. durable'.applied = durable.applied
    BY <1>9, OwnerBase, TurnRunMeans DEF RunOnce
  <2> QED
    BY <1>9, <2>1 DEF RunOnce
<1>10. ASSUME NEW d \in Daemons, RunReplyLost(d) PROVE SucceededIffApplied'
  BY <1>10 DEF RunReplyLost
<1>11. ASSUME NEW d \in Daemons, NEW e \in Events, ExecuteCommand(d, e) PROVE SucceededIffApplied'
  <2>1. durable' = Applied(durable, e)
    BY <1>11, OwnerBase DEF ExecuteCommand, CommandFence
  <2>2. durable'.applied = [durable.applied EXCEPT ![e] = @ + 1]
    BY <2>1, AppliedMeans
  <2>3. status[e] = "PROCESSING" /\ status' = [status EXCEPT ![e] = "SUCCEEDED"]
    BY <1>11 DEF ExecuteCommand, CommandFence, CommitRows
  <2>4. durable.applied \in [Events -> Nat]
    BY DEF Worlds
  <2> QED
    BY <2>2, <2>3, <2>4
<1>12. ASSUME NEW d \in Daemons, NEW e \in Events, FailCommand(d, e) PROVE SucceededIffApplied'
  BY <1>12 DEF FailCommand
<1>13. ASSUME NEW d \in Daemons, NEW e \in Events, CommitReplyLost(d, e) PROVE SucceededIffApplied'
  BY <1>13 DEF CommitReplyLost
<1>14. ASSUME NEW d \in Daemons, NEW e \in Events, PublishCommandError(d, e) PROVE SucceededIffApplied'
  BY <1>14 DEF PublishCommandError, ErrorApplies
<1>15. ASSUME NEW d \in Daemons, NEW e \in Events, ReportFails(d, e) PROVE SucceededIffApplied'
  BY <1>15 DEF ReportFails
<1>16. CASE UNCHANGED vars
  BY <1>16 DEF vars
<1>17. ASSUME NEW H \in SUBSET Withheld, Withhold(H) PROVE SucceededIffApplied'
  BY <1>17 DEF Withhold
<1> QED
  BY <1>1, <1>2, <1>3, <1>4, <1>5, <1>6, <1>7, <1>8, <1>9, <1>10, <1>11, <1>12, <1>13, <1>14, <1>15, <1>16, <1>17 DEF Next, DaemonStep

\* The three parts together are inductive.
LEMMA EffectsStep == EffectsInv /\ [Next]_vars => EffectsInv'
  BY TypeStep, MemoryStep, AppliedStep DEF EffectsInv

\* As long as every commit is acknowledged, a request has succeeded exactly when its
\* effect is in the durable world once: for any number of daemons, takeovers,
\* crashes, expiries and retries.
THEOREM SucceededOnce == ~LostReplies /\ Spec => []SucceededIffApplied
<1>1. EffectsInv => SucceededIffApplied
  BY DEF EffectsInv
<1> QED
  BY <1>1, EffectsInit, EffectsStep, PTL DEF Spec

\* Under the same assumption the savepoint of EngineStateManager does what it is
\* for: the owner's memory is the durable world between any two commands.
THEOREM MemoryAgrees == ~LostReplies /\ Spec => []MemoryIsDurable
<1>1. EffectsInv => MemoryIsDurable
  BY DEF EffectsInv
<1> QED
  BY <1>1, EffectsInit, EffectsStep, PTL DEF Spec

-----------------------------------------------------------------------------
(* The queue implements ExactlyOnce. *)

\* The empty queue is the promise's initial state.
LEMMA PromiseInit == Init => Promise!Init
  BY DEF Init, Promise!Init, outcomeBar, EmptyWorld

\* A step that keeps statuses and effects is a stutter of the promise.
LEMMA PromiseStutter ==
    ASSUME status' = status, durable'.applied = durable.applied
    PROVE  UNCHANGED Promise!vars
  BY DEF Promise!vars, outcomeBar

\* What the promise sees of a request.
LEMMA OutcomeOf ==
    ASSUME TypeOK, NEW e \in Events
    PROVE  /\ status[e] = "ABSENT" => outcomeBar[e] = "unknown"
           /\ status[e] \in {"PENDING", "PROCESSING"} => outcomeBar[e] = "accepted"
           /\ status[e] = "SUCCEEDED" => outcomeBar[e] = "succeeded"
           /\ status[e] = "FAILED" => outcomeBar[e] = "failed"
  BY DEF outcomeBar, TypeOK, Statuses

\* Every step of the queue is a step of the promise or changes nothing it shows.
LEMMA PromiseStep == EffectsInv /\ EffectsInv' /\ [Next]_vars => [Promise!Next]_(Promise!vars)
<1> SUFFICES ASSUME EffectsInv, EffectsInv', [Next]_vars PROVE [Promise!Next]_(Promise!vars)
  OBVIOUS
<1>t. TypeOK /\ TypeOK'
  BY DEF EffectsInv
<1>1. ASSUME NEW e \in Events, SendCommand(e) PROVE [Promise!Next]_(Promise!vars)
  <2>1. outcomeBar[e] = "unknown" /\ outcomeBar' = [outcomeBar EXCEPT ![e] = "accepted"]
    BY <1>1, <1>t DEF SendCommand, outcomeBar, TypeOK, Statuses
  <2>2. Promise!Accept(e)
    BY <1>1, <2>1 DEF SendCommand, Promise!Accept
  <2> QED
    BY <2>2 DEF Promise!Next
<1>2. ASSUME NEW e \in Events, LeaseExpires(e) PROVE [Promise!Next]_(Promise!vars)
  BY <1>2, PromiseStutter DEF LeaseExpires, rowVars
<1>3. ASSUME NEW d \in Daemons, Start(d) PROVE [Promise!Next]_(Promise!vars)
  BY <1>3, PromiseStutter DEF Start, rowVars
<1>4. ASSUME NEW d \in Daemons, NoticeLoss(d) PROVE [Promise!Next]_(Promise!vars)
  BY <1>4, PromiseStutter DEF NoticeLoss, rowVars
<1>5. ASSUME NEW d \in Daemons, Exit(d) PROVE [Promise!Next]_(Promise!vars)
  BY <1>5, PromiseStutter DEF Exit, rowVars
<1>6. ASSUME NEW d \in Daemons, Crash(d) PROVE [Promise!Next]_(Promise!vars)
  BY <1>6, PromiseStutter DEF Crash, rowVars
<1>7. ASSUME NEW d \in Daemons, RecoverExpiredLeases(d) PROVE [Promise!Next]_(Promise!vars)
  <2>1. outcomeBar' = outcomeBar
    BY <1>7, <1>t DEF RecoverExpiredLeases, outcomeBar, TypeOK, Statuses
  <2> QED
    BY <1>7, <2>1 DEF RecoverExpiredLeases, Promise!vars
<1>8. ASSUME NEW d \in Daemons, ClaimPending(d) PROVE [Promise!Next]_(Promise!vars)
  <2>1. PICK S \in SUBSET {e \in Events : status[e] = "PENDING"} :
          status' = [e \in Events |-> IF e \notin S THEN status[e]
                                      ELSE IF e \in Malformed THEN "FAILED" ELSE "PROCESSING"]
    BY <1>8 DEF ClaimPending
  <2> DEFINE R == S \cap Malformed
  <2>2. \A r \in R : outcomeBar[r] = "accepted"
    BY <1>t, OutcomeOf
  <2>3. outcomeBar' = [r \in Events |-> IF r \in R THEN "failed" ELSE outcomeBar[r]]
    BY <2>1, <1>t DEF outcomeBar, TypeOK, Statuses
  <2>4. Promise!Reject(R)
    BY <1>8, <2>2, <2>3 DEF ClaimPending, Promise!Reject
  <2> QED
    BY <2>4 DEF Promise!Next
<1>9. ASSUME NEW d \in Daemons, RunOnce(d) PROVE [Promise!Next]_(Promise!vars)
  <2>1. durable'.applied = durable.applied
    BY <1>9, OwnerBase, TurnRunMeans DEF RunOnce, EffectsInv, TypeOK
  <2> QED
    BY <1>9, <2>1, PromiseStutter DEF RunOnce, rowVars
<1>10. ASSUME NEW d \in Daemons, RunReplyLost(d) PROVE [Promise!Next]_(Promise!vars)
  BY <1>10 DEF RunReplyLost, EffectsInv
<1>11. ASSUME NEW d \in Daemons, NEW e \in Events, ExecuteCommand(d, e) PROVE [Promise!Next]_(Promise!vars)
  <2>1. durable' = Applied(durable, e)
    BY <1>11, OwnerBase DEF ExecuteCommand, CommandFence, EffectsInv
  <2>2. durable'.applied = [durable.applied EXCEPT ![e] = @ + 1]
    BY <1>t, <2>1, AppliedMeans DEF TypeOK
  <2>3. status[e] = "PROCESSING" /\ status' = [status EXCEPT ![e] = "SUCCEEDED"]
    BY <1>11 DEF ExecuteCommand, CommandFence, CommitRows
  <2>4. outcomeBar[e] = "accepted" /\ outcomeBar' = [outcomeBar EXCEPT ![e] = "succeeded"]
    BY <2>3, <1>t DEF outcomeBar, TypeOK, Statuses
  <2>5. Promise!Apply(e)
    BY <2>2, <2>4 DEF Promise!Apply
  <2> QED
    BY <2>5 DEF Promise!Next
<1>12. ASSUME NEW d \in Daemons, NEW e \in Events, FailCommand(d, e) PROVE [Promise!Next]_(Promise!vars)
  BY <1>12, PromiseStutter DEF FailCommand, rowVars
<1>13. ASSUME NEW d \in Daemons, NEW e \in Events, CommitReplyLost(d, e) PROVE [Promise!Next]_(Promise!vars)
  BY <1>13 DEF CommitReplyLost, EffectsInv
<1>14. ASSUME NEW d \in Daemons, NEW e \in Events, PublishCommandError(d, e) PROVE [Promise!Next]_(Promise!vars)
  <2>1. CASE ErrorApplies(d, e) /\ attempts[e] >= maxAttempts
    <3>1. outcomeBar[e] = "accepted" /\ outcomeBar' = [r \in Events |-> IF r \in {e} THEN "failed" ELSE outcomeBar[r]]
      BY <1>14, <2>1, <1>t DEF PublishCommandError, ErrorApplies, outcomeBar, TypeOK, Statuses
    <3>2. Promise!Reject({e})
      BY <1>14, <3>1 DEF PublishCommandError, Promise!Reject
    <3> QED
      BY <3>2 DEF Promise!Next
  <2>2. CASE ErrorApplies(d, e) /\ ~(attempts[e] >= maxAttempts)
    <3>1. outcomeBar' = outcomeBar
      BY <1>14, <2>2, <1>t DEF PublishCommandError, ErrorApplies, outcomeBar, TypeOK, Statuses
    <3> QED
      BY <1>14, <3>1 DEF PublishCommandError, Promise!vars
  <2>3. CASE ~ErrorApplies(d, e)
    BY <1>14, <2>3, PromiseStutter DEF PublishCommandError
  <2> QED
    BY <2>1, <2>2, <2>3
<1>15. ASSUME NEW d \in Daemons, NEW e \in Events, ReportFails(d, e) PROVE [Promise!Next]_(Promise!vars)
  BY <1>15, PromiseStutter DEF ReportFails, rowVars
<1>16. CASE UNCHANGED vars
  BY <1>16, PromiseStutter DEF vars
<1>17. ASSUME NEW H \in SUBSET Withheld, Withhold(H) PROVE [Promise!Next]_(Promise!vars)
  BY <1>17, PromiseStutter DEF Withhold, rowVars
<1> QED
  BY <1>1, <1>2, <1>3, <1>4, <1>5, <1>6, <1>7, <1>8, <1>9, <1>10, <1>11, <1>12, <1>13, <1>14, <1>15, <1>16, <1>17 DEF Next, DaemonStep

\* The database queue with its leases, fences and retries implements the abstract
\* promise: one outcome per request, success together with one effect.
THEOREM QueueImplementsPromise == ~LostReplies /\ Spec => ImplementsPromise
<1>1. Spec => Init /\ [][Next]_vars
  BY PTL DEF Spec
<1>2. ~LostReplies /\ Init /\ [][Next]_vars => []EffectsInv
  BY EffectsInit, EffectsStep, PTL
<1> QED
  BY <1>1, <1>2, PromiseInit, PromiseStep, PTL DEF Promise!Spec, ImplementsPromise

-----------------------------------------------------------------------------
(* The queue keeps what the lease provides. *)

\* A step that keeps the owner, the processes and the worlds is invisible to the writer.
LEMMA WriterStutter ==
    ASSUME UNCHANGED <<owner, proc, memory, durable>>
    PROVE  UNCHANGED Writer!vars
  BY DEF Writer!vars, pastBar, copyBar

\* So is one that moves a process between its command and the report of its error.
LEMMA WriterWorks ==
    ASSUME TypeOK, UNCHANGED <<owner, memory, durable>>, NEW d \in Daemons, proc[d] \in {"run", "report"},
           NEW p \in {"run", "report"}, proc' = [proc EXCEPT ![d] = p]
    PROVE  UNCHANGED Writer!vars
<1>1. \A e \in Daemons : /\ proc'[e] # "new" <=> proc[e] # "new"
                         /\ proc'[e] \in {"run", "report"} <=> proc[e] \in {"run", "report"}
  BY DEF TypeOK
<1> QED
  BY <1>1 DEF Writer!vars, pastBar, copyBar

\* The end of a process is invisible, or the writer's own.
LEMMA WriterEnds ==
    ASSUME TypeOK, UNCHANGED <<owner, memory, durable>>, NEW d \in Daemons, proc[d] \in {"run", "report"},
           proc' = [proc EXCEPT ![d] = "dead"]
    PROVE  [Writer!Next]_(Writer!vars)
<1>1. pastBar' = pastBar
  BY DEF TypeOK, pastBar
<1>2. CASE owner = d
  <2>1. copyBar' = {}
    BY <1>2 DEF TypeOK, copyBar
  <2> QED
    BY <1>1, <2>1 DEF Writer!Next, Writer!Forget
<1>3. CASE owner # d
  <2>1. copyBar' = copyBar
    BY <1>3 DEF TypeOK, copyBar
  <2> QED
    BY <1>1, <2>1 DEF Writer!vars
<1> QED
  BY <1>2, <1>3

\* A flush by the owner, whose memory is the durable world, is the writer's commit.
LEMMA WriterCommits ==
    ASSUME TypeOK, NEW d \in Daemons, owner = d, owner' = owner, proc[d] = "run", proc' = proc,
           memory[d] = durable, NEW w, w # durable, durable' = w, memory' = [memory EXCEPT ![d] = w]
    PROVE  Writer!Commit
<1>1. copyBar = {durable} /\ copyBar' = {durable'}
  BY DEF TypeOK, copyBar
<1>2. pastBar' = pastBar
  BY DEF pastBar
<1> QED
  BY <1>1, <1>2 DEF Writer!Commit

\* An effect or a turn more is another world.
LEMMA WorldsDiffer ==
    ASSUME NEW w \in Worlds
    PROVE  TurnRun(w) # w /\ \A e \in Events : Applied(w, e) # w
<1>1. TurnRun(w).turns = w.turns + 1 /\ w.turns \in Nat
  BY DEF TurnRun, Worlds
<1>2. ASSUME NEW e \in Events PROVE Applied(w, e) # w
  <2>0. w.applied \in [Events -> Nat]
    BY DEF Worlds
  <2>1. Applied(w, e).applied[e] = w.applied[e] + 1 /\ w.applied[e] \in Nat
    BY <2>0, AppliedMeans
  <2> QED
    BY <2>1
<1> QED
  BY <1>1, <1>2

\* Every step of the queue is one of the single writer, or invisible to it.
LEMMA WriterStep == EffectsInv /\ [Next]_vars => [Writer!Next]_(Writer!vars)
<1> SUFFICES ASSUME EffectsInv, [Next]_vars PROVE [Writer!Next]_(Writer!vars)
  OBVIOUS
<1> DEFINE Done == [Writer!Next]_(Writer!vars)
<1>t. TypeOK /\ MemoryIsDurable /\ ~LostReplies
  BY DEF EffectsInv
<1>1. ASSUME NEW e \in Events, SendCommand(e) PROVE Done
  BY <1>1, WriterStutter DEF SendCommand
<1>2. ASSUME NEW e \in Events, LeaseExpires(e) PROVE Done
  BY <1>2, WriterStutter DEF LeaseExpires
<1>3. ASSUME NEW d \in Daemons, Start(d) PROVE Done
  <2>1. d \notin pastBar /\ pastBar' = pastBar \cup {d}
    BY <1>3, <1>t DEF Start, pastBar, TypeOK
  <2>2. copyBar' = {durable}
    BY <1>3, <1>t DEF Start, copyBar, TypeOK
  <2> QED
    BY <1>3, <2>1, <2>2 DEF Start, Writer!Next, Writer!TakeOver
<1>4. ASSUME NEW d \in Daemons, NoticeLoss(d) PROVE Done
  BY <1>4, WriterStutter DEF NoticeLoss
<1>5. ASSUME NEW d \in Daemons, Exit(d) PROVE Done
  BY <1>5, <1>t, WriterEnds DEF Exit
<1>6. ASSUME NEW d \in Daemons, Crash(d) PROVE Done
  BY <1>6, <1>t, WriterEnds DEF Crash
<1>7. ASSUME NEW d \in Daemons, RecoverExpiredLeases(d) PROVE Done
  BY <1>7, WriterStutter DEF RecoverExpiredLeases
<1>8. ASSUME NEW d \in Daemons, ClaimPending(d) PROVE Done
  BY <1>8, WriterStutter DEF ClaimPending
<1>9. ASSUME NEW d \in Daemons, RunOnce(d) PROVE Done
  <2>1. memory[d] = durable /\ durable' = TurnRun(durable)
    BY <1>9, <1>t, OwnerBase DEF RunOnce
  <2>2. TurnRun(durable) # durable
    BY <1>t, WorldsDiffer DEF TypeOK
  <2>3. memory' = [memory EXCEPT ![d] = TurnRun(durable)]
    BY <1>9, <2>1, <1>t DEF RunOnce, TypeOK
  <2> QED
    BY <1>9, <1>t, <2>1, <2>2, <2>3, WriterCommits DEF RunOnce, Writer!Next
<1>10. ASSUME NEW d \in Daemons, RunReplyLost(d) PROVE Done
  BY <1>10, <1>t DEF RunReplyLost
<1>11. ASSUME NEW d \in Daemons, NEW e \in Events, ExecuteCommand(d, e) PROVE Done
  <2>1. memory[d] = durable /\ durable' = Applied(durable, e)
    BY <1>11, <1>t, OwnerBase DEF ExecuteCommand, CommandFence
  <2>2. Applied(durable, e) # durable
    BY <1>t, WorldsDiffer DEF TypeOK
  <2>3. memory' = [memory EXCEPT ![d] = Applied(durable, e)]
    BY <1>11, <2>1, <1>t DEF ExecuteCommand, TypeOK
  <2> QED
    BY <1>11, <1>t, <2>1, <2>2, <2>3, WriterCommits DEF ExecuteCommand, CommandFence, Writer!Next
<1>12. ASSUME NEW d \in Daemons, NEW e \in Events, FailCommand(d, e) PROVE Done
  BY <1>12, <1>t, WriterWorks DEF FailCommand
<1>13. ASSUME NEW d \in Daemons, NEW e \in Events, CommitReplyLost(d, e) PROVE Done
  BY <1>13, <1>t DEF CommitReplyLost
<1>14. ASSUME NEW d \in Daemons, NEW e \in Events, PublishCommandError(d, e) PROVE Done
  BY <1>14, <1>t, WriterWorks DEF PublishCommandError
<1>15. ASSUME NEW d \in Daemons, NEW e \in Events, ReportFails(d, e) PROVE Done
  BY <1>15, <1>t, WriterWorks DEF ReportFails
<1>16. CASE UNCHANGED vars
  BY <1>16, WriterStutter DEF vars
<1>17. ASSUME NEW H \in SUBSET Withheld, Withhold(H) PROVE Done
  BY <1>17, WriterStutter DEF Withhold
<1> QED
  BY <1>1, <1>2, <1>3, <1>4, <1>5, <1>6, <1>7, <1>8, <1>9, <1>10, <1>11, <1>12, <1>13, <1>14, <1>15, <1>16, <1>17 DEF Next, DaemonStep

\* Commands, turn runs, failures and takeovers together still have one writer, whose
\* memory is the world it writes to: what the lease provides reaches the game world.
THEOREM QueueHasSingleWriter == ~LostReplies /\ Spec => ImplementsSingleWriter
<1>1. Spec => Init /\ [][Next]_vars
  BY PTL DEF Spec
<1>2. ~LostReplies /\ Init /\ [][Next]_vars => []EffectsInv
  BY EffectsInit, EffectsStep, PTL
<1>3. Init => Writer!Init
  BY NoDaemonAssumption DEF Init, Writer!Init, pastBar, copyBar
<1> QED
  BY <1>1, <1>2, <1>3, WriterStep, PTL DEF Writer!Spec, ImplementsSingleWriter
=============================================================================
