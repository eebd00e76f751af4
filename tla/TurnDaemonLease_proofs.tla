----------------------- MODULE TurnDaemonLease_proofs -----------------------
(***************************************************************************)
(* Proofs about the turn-daemon lease, for any set of daemons, any lease    *)
(* duration and any bounds.                                                 *)
(***************************************************************************)
EXTENDS TurnDaemonLease, TLAPS

(* The inductive invariant, in parts. *)

\* An acquire statement in flight belongs to a daemon that waits for it, or died.
AcquireWaits ==
    \A d \in Daemons : call[d].op = "acquire" => stage[d] \in {"acquire", "dead"}

\* A running owner's memory is the durable world.
OwnerIsFresh ==
    \A d \in Daemons : Owns(d) /\ stage[d] \in {"recover", "run"} => memory[d] = world

\* The row lock is held by the owner, which is past loading.
TxnIsOwners ==
    txn # NoDaemon => Owns(txn) /\ stage[txn] \in {"recover", "run"}

FencingInv ==
    /\ TypeOK
    /\ AcquireWaits
    /\ OwnerIsFresh
    /\ TxnIsOwners
    /\ ReadyIsOwnersRecovery

\* A moment t after which nobody may rely on d's lease: it has come, or d owns the
\* row at least until then.
Covered(d, t) == t <= now \/ (Owns(d) /\ t <= row.until)

\* Nothing in flight is from the future, and a lease never reaches further than
\* one duration.
ClockInv ==
    /\ row.until <= now + LeaseDuration
    /\ \A d \in Daemons : call[d].startedAt <= now

\* A statement that lowers the lease comes from a daemon that let go of it.
UnlockClosed ==
    \A d \in Daemons : unlock[d] # Off => stage[d] \in {"closed", "dead"}

ExpiryInv ==
    \A d \in Daemons :
        /\ stage[d] \in Holding => Covered(d, deadline[d])
        /\ stage[d] \in Holding \cup {"acquire"} /\ call[d].status = "granted" =>
               Covered(d, call[d].startedAt + LeaseDuration)
        /\ stage[d] \in Holding /\ call[d].op = "renew" /\ call[d].status = "sent" /\ Owns(d) =>
               row.until <= call[d].startedAt + LeaseDuration

WatchdogInv == FencingInv /\ ClockInv /\ UnlockClosed /\ ExpiryInv

-----------------------------------------------------------------------------
(* Type correctness. *)

\* The initial lease row and process states are well typed.
LEMMA TypeInit == Init => TypeOK
  BY NoDaemonAssumption DEF Init, TypeOK, Rows, Calls, NoCall, Off

\* What the database's answer to a statement leaves of the call.
LEMMA AnswerTyped ==
    ASSUME TypeOK, NEW d \in Daemons, NEW status \in {"granted", "refused"}, Answer(d, status)
    PROVE  call' \in [Daemons -> Calls]
<1>1. [call[d] EXCEPT !.status = status] \in Calls /\ NoCall \in Calls
  BY DEF TypeOK, Calls, NoCall
<1> QED
  BY <1>1 DEF Answer, TypeOK

\* The answer touches one call: its status, or all of it if nobody waits.
LEMMA AnswerMeans ==
    ASSUME TypeOK, NEW d \in Daemons, NEW status \in {"granted", "refused"}, Answer(d, status)
    PROVE  /\ \A e \in Daemons \ {d} : call'[e] = call[e]
           /\ \/ stage[d] = "dead" /\ call'[d] = NoCall
              \/ /\ stage[d] # "dead"
                 /\ call'[d].op = call[d].op
                 /\ call'[d].startedAt = call[d].startedAt
                 /\ call'[d].status = status
  BY DEF Answer, TypeOK, Calls

\* The watchdog is armed for a moment of the clock.
LEMMA ExpiryTyped ==
    ASSUME TypeOK, NEW d \in Daemons
    PROVE  ExpiryAt(call[d].startedAt) \in Nat
  BY DurationAssumption DEF TypeOK, Calls, ExpiryAt, Later

\* Every lease operation keeps the types.
LEMMA TypeStep == TypeOK /\ [Next]_vars => TypeOK'
<1> SUFFICES ASSUME TypeOK, [Next]_vars PROVE TypeOK'
  OBVIOUS
<1> USE DurationAssumption, NoDaemonAssumption DEF TypeOK, rowVars
<1>1. CASE Tick
  BY <1>1 DEF Tick
<1>2. ASSUME NEW d \in Daemons, AcquireSend(d) PROVE TypeOK'
  BY <1>2 DEF AcquireSend, Calls
<1>3. ASSUME NEW d \in Daemons, AcquireExec(d) PROVE TypeOK'
  <2>1. PICK stamp \in call[d].startedAt .. now :
           IF Acquirable(d, stamp)
           THEN /\ row' = AcquiredRow(d, stamp)
                /\ epoch' = [epoch EXCEPT ![d] = row'.epoch]
                /\ Answer(d, "granted")
           ELSE /\ Answer(d, "refused")
                /\ UNCHANGED <<row, epoch>>
    BY <1>3 DEF AcquireExec
  <2>2. stamp \in Nat
    BY DEF Calls
  <2>3. AcquiredRow(d, stamp) \in Rows
    BY <2>2 DEF AcquiredRow, Rows
  <2>4. row' \in Rows /\ epoch' \in [Daemons -> Nat]
    BY <2>1, <2>3 DEF Rows
  <2>5. call' \in [Daemons -> Calls]
    BY <2>1, AnswerTyped
  <2> QED
    BY <1>3, <2>4, <2>5 DEF AcquireExec
<1>4. ASSUME NEW d \in Daemons, AcquireReply(d) PROVE TypeOK'
  <2>1. lost' \in [Daemons -> BOOLEAN]
    BY <1>4 DEF AcquireReply
  <2>2. deadline' \in [Daemons -> Nat \cup {Off}]
    BY <1>4, ExpiryTyped DEF AcquireReply
  <2>3. stage' \in [Daemons -> {"start", "acquire", "load", "recover", "run", "closed", "dead"}]
    BY <1>4 DEF AcquireReply
  <2>4. call' \in [Daemons -> Calls]
    BY <1>4 DEF AcquireReply, NoCall, Calls
  <2> QED
    BY <1>4, <2>1, <2>2, <2>3, <2>4 DEF AcquireReply
<1>5. ASSUME NEW d \in Daemons, RenewSend(d) PROVE TypeOK'
  BY <1>5 DEF RenewSend, Calls
<1>6. ASSUME NEW d \in Daemons, RenewExec(d) PROVE TypeOK'
  <2>1. PICK stamp \in call[d].startedAt .. now :
           IF Renewable(d, stamp)
           THEN /\ row' = [row EXCEPT !.until = stamp + LeaseDuration]
                /\ Answer(d, "granted")
           ELSE /\ Answer(d, "refused")
                /\ UNCHANGED row
    BY <1>6 DEF RenewExec
  <2>2. row' \in Rows
    BY <2>1 DEF Calls, Rows
  <2>3. call' \in [Daemons -> Calls]
    BY <2>1, AnswerTyped
  <2> QED
    BY <1>6, <2>2, <2>3 DEF RenewExec
<1>7. ASSUME NEW d \in Daemons, RenewReply(d) PROVE TypeOK'
  <2>1. lost' \in [Daemons -> BOOLEAN]
    BY <1>7 DEF RenewReply, MarkLost
  <2>2. deadline' \in [Daemons -> Nat \cup {Off}]
    BY <1>7, ExpiryTyped DEF RenewReply, MarkLost
  <2> QED
    BY <1>7, <2>1, <2>2 DEF RenewReply, NoCall, Calls
<1>8. ASSUME NEW d \in Daemons, RenewError(d) PROVE TypeOK'
  BY <1>8 DEF RenewError, MarkLost
<1>9. ASSUME NEW d \in Daemons, Watchdog(d) PROVE TypeOK'
  BY <1>9 DEF Watchdog, MarkLost
<1>10. ASSUME NEW d \in Daemons, Load(d) PROVE TypeOK'
  BY <1>10 DEF Load
<1>11. ASSUME NEW d \in Daemons, BeginFenced(d) PROVE TypeOK'
  BY <1>11 DEF BeginFenced, MarkLost
<1>12. ASSUME NEW d \in Daemons, CommitFenced(d) PROVE TypeOK'
  BY <1>12 DEF CommitFenced
<1>13. ASSUME NEW d \in Daemons, RollbackFenced(d) PROVE TypeOK'
  BY <1>13 DEF RollbackFenced
<1>14. ASSUME NEW d \in Daemons, MarkClockReady(d) PROVE TypeOK'
  <2>0. [row EXCEPT !.ready = TRUE] \in Rows
    BY DEF Rows
  <2>1. row' \in Rows
    BY <1>14, <2>0 DEF MarkClockReady
  <2>2. stage' \in [Daemons -> {"start", "acquire", "load", "recover", "run", "closed", "dead"}]
    BY <1>14 DEF MarkClockReady
  <2>3. lost' \in [Daemons -> BOOLEAN]
    BY <1>14 DEF MarkClockReady, MarkLost
  <2>4. deadline' \in [Daemons -> Nat \cup {Off}]
    BY <1>14 DEF MarkClockReady, MarkLost
  <2> QED
    BY <1>14, <2>1, <2>2, <2>3, <2>4 DEF MarkClockReady
<1>15. ASSUME NEW d \in Daemons, Release(d) PROVE TypeOK'
  BY <1>15 DEF Release
<1>16. ASSUME NEW d \in Daemons, ReleaseExec(d) PROVE TypeOK'
  <2>1. PICK stamp \in unlock[d] .. now :
           row' = IF Owns(d) THEN [row EXCEPT !.until = stamp] ELSE row
    BY <1>16 DEF ReleaseExec
  <2>2. stamp \in Nat
    BY <1>16 DEF ReleaseExec, Off
  <2> QED
    BY <1>16, <2>1, <2>2 DEF ReleaseExec, Rows
<1>17. ASSUME NEW d \in Daemons, Crash(d) PROVE TypeOK'
  BY <1>17 DEF Crash, NoCall, Calls
<1>18. CASE UNCHANGED vars
  BY <1>18 DEF vars
<1>19. QED
  BY <1>1, <1>2, <1>3, <1>4, <1>5, <1>6, <1>7, <1>8, <1>9, <1>10, <1>11, <1>12, <1>13, <1>14, <1>15, <1>16, <1>17, <1>18 DEF Next, DaemonStep

\* Each variable of the lease keeps its type in every behaviour.
THEOREM TypeCorrect == Spec => []TypeOK
  BY TypeInit, TypeStep, PTL DEF Spec

-----------------------------------------------------------------------------
(* Fencing: a transaction that passed assertActive commits on top of the world *)
(* its daemon loaded.                                                          *)

\* Nobody owns the row initially.
LEMMA FencingInit == Init => FencingInv
  BY TypeInit, NoDaemonAssumption
     DEF Init, FencingInv, AcquireWaits, OwnerIsFresh, TxnIsOwners,
         ReadyIsOwnersRecovery, Owns, NoCall

\* Each lease operation preserves the fencing invariant.
LEMMA FencingStep == FencingInv /\ [Next]_vars => FencingInv'
<1> SUFFICES ASSUME FencingInv, [Next]_vars PROVE FencingInv'
  OBVIOUS
<1> DEFINE Parts == AcquireWaits /\ OwnerIsFresh /\ TxnIsOwners /\ ReadyIsOwnersRecovery
<1>0. TypeOK'
  BY TypeStep DEF FencingInv
<1> USE NoDaemonAssumption, <1>0
    DEF FencingInv, TypeOK, AcquireWaits, OwnerIsFresh, TxnIsOwners,
        ReadyIsOwnersRecovery, Owns, rowVars
<1>1. CASE Tick
  BY <1>1 DEF Tick
<1>2. ASSUME NEW d \in Daemons, AcquireSend(d) PROVE Parts'
  BY <1>2 DEF AcquireSend, Calls
<1>3. ASSUME NEW d \in Daemons, AcquireExec(d) PROVE Parts'
  BY <1>3 DEF AcquireExec, Answer, Acquirable, AcquiredRow, NoCall, Rows
<1>4. ASSUME NEW d \in Daemons, AcquireReply(d) PROVE Parts'
  BY <1>4 DEF AcquireReply, NoCall, Calls
<1>5. ASSUME NEW d \in Daemons, RenewSend(d) PROVE Parts'
  BY <1>5 DEF RenewSend, Holding, Calls
<1>6. ASSUME NEW d \in Daemons, RenewExec(d) PROVE Parts'
  <2>1. row'.owner = row.owner /\ row'.epoch = row.epoch /\ row'.ready = row.ready
    BY <1>6 DEF RenewExec, Rows
  <2>2. \A e \in Daemons : call'[e].op \in {call[e].op, "none"}
    BY <1>6 DEF RenewExec, Answer, NoCall, Calls
  <2>3. UNCHANGED <<stage, epoch, txn, world, memory>>
    BY <1>6 DEF RenewExec
  <2> QED
    BY <2>1, <2>2, <2>3
<1>7. ASSUME NEW d \in Daemons, RenewReply(d) PROVE Parts'
  BY <1>7 DEF RenewReply, NoCall, Calls
<1>8. ASSUME NEW d \in Daemons, RenewError(d) PROVE Parts'
  BY <1>8 DEF RenewError
<1>9. ASSUME NEW d \in Daemons, Watchdog(d) PROVE Parts'
  BY <1>9 DEF Watchdog
<1>10. ASSUME NEW d \in Daemons, Load(d) PROVE Parts'
  BY <1>10 DEF Load
<1>11. ASSUME NEW d \in Daemons, BeginFenced(d) PROVE Parts'
  BY <1>11 DEF BeginFenced, Active
<1>12. ASSUME NEW d \in Daemons, CommitFenced(d) PROVE Parts'
  BY <1>12 DEF CommitFenced
<1>13. ASSUME NEW d \in Daemons, RollbackFenced(d) PROVE Parts'
  BY <1>13 DEF RollbackFenced
<1>14. ASSUME NEW d \in Daemons, MarkClockReady(d) PROVE Parts'
  BY <1>14 DEF MarkClockReady, Active, Rows
<1>15. ASSUME NEW d \in Daemons, Release(d) PROVE Parts'
  BY <1>15 DEF Release, Holding
<1>16. ASSUME NEW d \in Daemons, ReleaseExec(d) PROVE Parts'
  BY <1>16 DEF ReleaseExec, Rows
<1>17. ASSUME NEW d \in Daemons, Crash(d) PROVE Parts'
  BY <1>17 DEF Crash, NoCall, Calls
<1>18. CASE UNCHANGED vars
  BY <1>18 DEF vars
<1>19. Parts'
  BY <1>1, <1>2, <1>3, <1>4, <1>5, <1>6, <1>7, <1>8, <1>9, <1>10, <1>11, <1>12, <1>13, <1>14, <1>15, <1>16, <1>17, <1>18 DEF Next, DaemonStep
<1>20. QED
  BY <1>19

\* databaseHooks: a stale daemon never commits after another owner has advanced
\* the epoch, and what it does commit rests on the latest durable world.
THEOREM FencedCommits == Spec => []NoStaleCommit
<1>1. FencingInv => NoStaleCommit
  BY NoDaemonAssumption DEF FencingInv, TypeOK, OwnerIsFresh, TxnIsOwners, NoStaleCommit
<1> QED
  BY <1>1, FencingInit, FencingStep, PTL DEF Spec

\* clock_ready always stands for a recovery of the present owner.
THEOREM ReadyIsRecovered == Spec => []ReadyIsOwnersRecovery
<1>1. FencingInv => ReadyIsOwnersRecovery
  BY DEF FencingInv
<1> QED
  BY <1>1, FencingInit, FencingStep, PTL DEF Spec

\* Ownership passes only over an expired lease, outside any fenced transaction,
\* and with a larger epoch.
THEOREM TakeoverFenced == Spec => Takeover
<1>1. TypeOK /\ [Next]_vars =>
        [row'.owner # row.owner =>
            row.until <= now /\ txn = NoDaemon /\ row'.epoch > row.epoch]_vars
  <2> SUFFICES ASSUME TypeOK, Next, row'.owner # row.owner
               PROVE  row.until <= now /\ txn = NoDaemon /\ row'.epoch > row.epoch
    OBVIOUS
  <2>1. PICK d \in Daemons : AcquireExec(d)
    BY DEF Next, DaemonStep, Tick, AcquireSend, AcquireReply, RenewSend, RenewExec,
           RenewReply, RenewError, Watchdog, Load, BeginFenced, CommitFenced,
           RollbackFenced, MarkClockReady, Release, ReleaseExec, Crash, TypeOK, Rows
  <2>2. PICK stamp \in call[d].startedAt .. now :
           Acquirable(d, stamp) /\ row' = AcquiredRow(d, stamp)
    BY <2>1 DEF AcquireExec
  <2> QED
    BY <2>1, <2>2 DEF AcquireExec, Acquirable, AcquiredRow, TypeOK, Rows, Calls
<1> QED
  BY <1>1, TypeInit, TypeStep, PTL DEF Spec, Takeover

-----------------------------------------------------------------------------
(* The expiry watchdog. *)

\* No watchdog is armed and nothing is in flight initially.
LEMMA WatchdogInit == Init => WatchdogInv
  BY FencingInit, DurationAssumption
     DEF Init, WatchdogInv, ClockInv, UnlockClosed, ExpiryInv, Covered, Holding, NoCall

\* Each lease operation preserves the watchdog invariant.
LEMMA WatchdogStep == WatchdogInv /\ [Next]_vars => WatchdogInv'
<1> SUFFICES ASSUME WatchdogInv, [Next]_vars PROVE WatchdogInv'
  OBVIOUS
<1> DEFINE Parts == ClockInv /\ UnlockClosed /\ ExpiryInv
<1>0. FencingInv' /\ TypeOK /\ TypeOK' /\ AcquireWaits
  BY FencingStep DEF WatchdogInv, FencingInv
<1> USE DurationAssumption, <1>0
    DEF WatchdogInv, TypeOK, Rows, Calls, ClockInv, UnlockClosed, ExpiryInv, Covered,
        Holding, Owns, rowVars
<1>1. CASE Tick
  <2>1. now' = now + 1 /\ UNCHANGED <<row, stage, epoch, deadline, call, unlock>>
    BY <1>1 DEF Tick
  <2>2. ClockInv' /\ UnlockClosed'
    BY <2>1
  <2>3. ASSUME NEW e \in Daemons, NEW t \in Int, Covered(e, t) PROVE Covered(e, t)'
    BY <2>1, <2>3
  <2>4. ExpiryInv'
    BY <2>1, <2>3 DEF Off
  <2> QED
    BY <2>2, <2>4
<1>2. ASSUME NEW d \in Daemons, AcquireSend(d) PROVE Parts'
  <2>1. UNCHANGED <<now, row, epoch, deadline, unlock>>
    BY <1>2 DEF AcquireSend
  <2>2. \A e \in Daemons \ {d} : call'[e] = call[e] /\ stage'[e] = stage[e]
    BY <1>2 DEF AcquireSend
  <2>3. stage[d] = "start" /\ stage'[d] = "acquire" /\ call'[d].status = "sent" /\ call'[d].startedAt = now
    BY <1>2 DEF AcquireSend
  <2>4. unlock[d] = Off
    BY <2>3
  <2>5. ClockInv'
    <3>1. ASSUME NEW e \in Daemons PROVE call'[e].startedAt <= now
      BY <2>2, <2>3
    <3> QED
      BY <2>1, <3>1
  <2>6. UnlockClosed'
    BY <2>1, <2>2, <2>4
  <2>7. ExpiryInv'
    BY <2>1, <2>2, <2>3
  <2> QED
    BY <2>5, <2>6, <2>7
<1>3. ASSUME NEW d \in Daemons, AcquireExec(d) PROVE Parts'
  <2>1. PICK stamp \in call[d].startedAt .. now :
           IF Acquirable(d, stamp)
           THEN /\ row' = AcquiredRow(d, stamp)
                /\ epoch' = [epoch EXCEPT ![d] = row'.epoch]
                /\ Answer(d, "granted")
           ELSE /\ Answer(d, "refused")
                /\ UNCHANGED <<row, epoch>>
    BY <1>3 DEF AcquireExec
  <2>2. UNCHANGED <<now, stage, deadline, unlock>>
    BY <1>3 DEF AcquireExec
  <2>3. stage[d] \in {"acquire", "dead"}
    BY <1>3 DEF AcquireExec, AcquireWaits
  <2>4. \A e \in Daemons \ {d} : call'[e] = call[e]
    BY <2>1, AnswerMeans
  <2>5. CASE Acquirable(d, stamp)
    <3>1. row'.owner = d /\ row'.until = stamp + LeaseDuration /\ row'.epoch = epoch'[d]
      BY <2>1, <2>5 DEF AcquiredRow
    <3>2. row.owner = d \/ row.until <= now
      BY <2>5 DEF Acquirable
    <3>3. call'[d] = NoCall \/ call'[d].startedAt = call[d].startedAt
      BY <2>1, <2>5, AnswerMeans
    <3>0. NoCall.startedAt = 0
      BY DEF NoCall
    <3>4. ClockInv'
      <4>1. stamp <= now /\ stamp + LeaseDuration <= now + LeaseDuration
        OBVIOUS
      <4>2. ASSUME NEW e \in Daemons PROVE call'[e].startedAt <= now
        <5>1. 0 <= now /\ call[e].startedAt <= now
          OBVIOUS
        <5>2. call'[e].startedAt \in {0, call[e].startedAt}
          BY <2>4, <3>3, <3>0
        <5> QED
          BY <5>1, <5>2
      <4> QED
        BY <2>2, <3>1, <4>1, <4>2
    <3>5. UnlockClosed'
      BY <2>2
    <3>6. ASSUME NEW e \in Daemons \ {d}, NEW t \in Int, Covered(e, t) PROVE Covered(e, t)'
      BY <2>2, <3>2, <3>6
    <3>8. ExpiryInv'
      BY <2>2, <2>3, <2>4, <3>1, <3>3, <3>6 DEF Off, NoCall
    <3> QED
      BY <3>4, <3>5, <3>8
  <2>6. CASE ~Acquirable(d, stamp)
    <3>1. UNCHANGED <<row, epoch>> /\ call'[d].status # "granted" /\ call'[d].startedAt <= now
      BY <2>1, <2>6, AnswerMeans DEF NoCall
    <3>2. stage[d] \notin Holding
      BY <2>3
    <3>3. ClockInv' /\ UnlockClosed'
      BY <2>2, <2>4, <3>1
    <3>4. ExpiryInv'
      BY <2>2, <2>4, <3>1, <3>2
    <3> QED
      BY <3>3, <3>4
  <2> QED
    BY <2>5, <2>6
<1>4. ASSUME NEW d \in Daemons, AcquireReply(d) PROVE Parts'
  BY <1>4 DEF AcquireReply, NoCall, ExpiryAt, Later
<1>5. ASSUME NEW d \in Daemons, RenewSend(d) PROVE Parts'
  BY <1>5 DEF RenewSend
<1>6. ASSUME NEW d \in Daemons, RenewExec(d) PROVE Parts'
  <2>1. PICK stamp \in call[d].startedAt .. now :
           IF Renewable(d, stamp)
           THEN /\ row' = [row EXCEPT !.until = stamp + LeaseDuration]
                /\ Answer(d, "granted")
           ELSE /\ Answer(d, "refused")
                /\ UNCHANGED row
    BY <1>6 DEF RenewExec
  <2>2. UNCHANGED <<now, stage, epoch, deadline, unlock>>
    BY <1>6 DEF RenewExec
  <2>3. \A e \in Daemons \ {d} : call'[e] = call[e]
    BY <2>1, AnswerMeans
  <2>4. CASE Renewable(d, stamp)
    <3>1. /\ Owns(d) /\ Owns(d)'
          /\ \A e \in Daemons \ {d} : ~Owns(e) /\ ~Owns(e)'
          /\ row'.until = stamp + LeaseDuration
      BY <2>1, <2>2, <2>4 DEF Renewable
    <3>2. \/ call'[d] = NoCall /\ stage[d] = "dead"
          \/ /\ call'[d].startedAt = call[d].startedAt
             /\ call'[d].status = "granted"
      BY <2>1, <2>4, AnswerMeans
    <3>3. stage[d] \in Holding => row.until <= row'.until
      BY <1>6, <3>1 DEF RenewExec
    <3>4. ClockInv'
      BY <2>2, <2>3, <3>1, <3>2 DEF NoCall
    <3>5. UnlockClosed'
      BY <2>2
    <3>6. stage[d] \in Holding => Covered(d, deadline[d])'
      BY <2>2, <3>1, <3>3 DEF Off
    <3>8. stage[d] \in Holding \cup {"acquire"} /\ call'[d].status = "granted" =>
            Covered(d, call[d].startedAt + LeaseDuration)' /\ call'[d].startedAt = call[d].startedAt
      BY <2>2, <3>1, <3>2 DEF NoCall
    <3>7. ExpiryInv'
      BY <2>2, <2>3, <3>1, <3>2, <3>6, <3>8 DEF NoCall
    <3> QED
      BY <3>4, <3>5, <3>7
  <2>5. CASE ~Renewable(d, stamp)
    <3>1. UNCHANGED row
      BY <2>1, <2>5
    <3>2. /\ call'[d].startedAt <= now
          /\ call'[d].op = "none" \/ call'[d].status = "refused"
          /\ call'[d].status # "granted"
      BY <2>1, <2>5, AnswerMeans DEF NoCall
    <3> QED
      BY <2>2, <2>3, <3>1, <3>2
  <2> QED
    BY <2>4, <2>5
<1>7. ASSUME NEW d \in Daemons, RenewReply(d) PROVE Parts'
  BY <1>7 DEF RenewReply, NoCall, MarkLost, ExpiryAt, Later, Off
<1>8. ASSUME NEW d \in Daemons, RenewError(d) PROVE Parts'
  BY <1>8 DEF RenewError, MarkLost, Off
<1>9. ASSUME NEW d \in Daemons, Watchdog(d) PROVE Parts'
  BY <1>9 DEF Watchdog, MarkLost, Off
<1>10. ASSUME NEW d \in Daemons, Load(d) PROVE Parts'
  BY <1>10 DEF Load
<1>11. ASSUME NEW d \in Daemons, BeginFenced(d) PROVE Parts'
  BY <1>11 DEF BeginFenced, MarkLost, Off
<1>12. ASSUME NEW d \in Daemons, CommitFenced(d) PROVE Parts'
  BY <1>12 DEF CommitFenced
<1>13. ASSUME NEW d \in Daemons, RollbackFenced(d) PROVE Parts'
  BY <1>13 DEF RollbackFenced
<1>14. ASSUME NEW d \in Daemons, MarkClockReady(d) PROVE Parts'
  <2>1. UNCHANGED <<now, epoch, call, unlock>>
    BY <1>14 DEF MarkClockReady
  <2>2. row'.owner = row.owner /\ row'.until = row.until /\ row'.epoch = row.epoch
    BY <1>14 DEF MarkClockReady
  <2>3. \A e \in Daemons : stage'[e] = stage[e] \/ (stage[e] = "recover" /\ stage'[e] = "run")
    BY <1>14 DEF MarkClockReady
  <2>4. \A e \in Daemons : deadline'[e] \in {deadline[e], Off}
    BY <1>14 DEF MarkClockReady, MarkLost
  <2>5. ClockInv' /\ UnlockClosed'
    BY <2>1, <2>2, <2>3
  <2>6. ASSUME NEW e \in Daemons, NEW t \in Int, Covered(e, t) PROVE Covered(e, t)'
    BY <2>1, <2>2, <2>6
  <2>7. ExpiryInv'
    BY <2>1, <2>2, <2>3, <2>4, <2>6 DEF Off
  <2> QED
    BY <2>5, <2>7
<1>15. ASSUME NEW d \in Daemons, Release(d) PROVE Parts'
  BY <1>15 DEF Release, Off
<1>16. ASSUME NEW d \in Daemons, ReleaseExec(d) PROVE Parts'
  BY <1>16 DEF ReleaseExec
<1>17. ASSUME NEW d \in Daemons, Crash(d) PROVE Parts'
  BY <1>17 DEF Crash, NoCall
<1>18. CASE UNCHANGED vars
  BY <1>18 DEF vars
<1>19. Parts'
  BY <1>1, <1>2, <1>3, <1>4, <1>5, <1>6, <1>7, <1>8, <1>9, <1>10, <1>11, <1>12, <1>13, <1>14, <1>15, <1>16, <1>17, <1>18 DEF Next, DaemonStep
<1>20. QED
  BY <1>19

\* scheduleExpiryWatchdog: counting from the start of the request, the watchdog of
\* a live daemon never outlasts the database's lease.
THEOREM WatchdogSound == Spec => []WatchdogNotLate
<1>1. WatchdogInv => WatchdogNotLate
  BY DEF WatchdogInv, FencingInv, TypeOK, ExpiryInv, Covered, WatchdogNotLate, Off
<1> QED
  BY <1>1, WatchdogInit, WatchdogStep, PTL DEF Spec

-----------------------------------------------------------------------------
(* The lease provides a single writer. *)

\* A daemon has an epoch from the moment the row first names it, and only then.
EpochInv ==
    /\ \A d \in Daemons :
          /\ stage[d] = "start" => epoch[d] = 0 /\ call[d].op = "none"
          /\ stage[d] = "acquire" => call[d].op = "acquire"
          /\ call[d].op = "acquire" /\ call[d].status # "granted" => epoch[d] = 0
    /\ row.owner # NoDaemon => epoch[row.owner] # 0

WriterInv == FencingInv /\ EpochInv

\* Nobody has an epoch initially.
LEMMA EpochInit == Init => EpochInv
  BY NoDaemonAssumption DEF Init, EpochInv, NoCall

\* Each lease operation preserves it: an epoch is given once, with the row.
LEMMA EpochStep == TypeOK /\ EpochInv /\ [Next]_vars => EpochInv'
<1> SUFFICES ASSUME TypeOK, EpochInv, [Next]_vars PROVE EpochInv'
  OBVIOUS
<1>0. TypeOK'
  BY TypeStep
<1> USE NoDaemonAssumption, <1>0 DEF EpochInv, TypeOK, Rows, Calls, NoCall, rowVars
<1>1. CASE Tick
  BY <1>1 DEF Tick
<1>2. ASSUME NEW d \in Daemons, AcquireSend(d) PROVE EpochInv'
  BY <1>2 DEF AcquireSend
<1>3. ASSUME NEW d \in Daemons, AcquireExec(d) PROVE EpochInv'
  <2>1. PICK stamp \in call[d].startedAt .. now :
           IF Acquirable(d, stamp)
           THEN /\ row' = AcquiredRow(d, stamp)
                /\ epoch' = [epoch EXCEPT ![d] = row'.epoch]
                /\ Answer(d, "granted")
           ELSE /\ Answer(d, "refused")
                /\ UNCHANGED <<row, epoch>>
    BY <1>3 DEF AcquireExec
  <2>2. epoch[d] = 0 /\ row.owner # d /\ UNCHANGED stage
    BY <1>3 DEF AcquireExec
  <2>3. CASE Acquirable(d, stamp)
    <3>1. row'.owner = d /\ row'.epoch = row.epoch + 1 /\ epoch' = [epoch EXCEPT ![d] = row.epoch + 1]
      BY <2>1, <2>2, <2>3 DEF AcquiredRow
    <3>2. /\ \A e \in Daemons \ {d} : call'[e] = call[e]
          /\ \/ stage[d] = "dead" /\ call'[d] = NoCall
             \/ stage[d] # "dead" /\ call'[d].op = call[d].op /\ call'[d].status = "granted"
      BY <2>1, <2>3, AnswerMeans
    <3> QED
      BY <1>3, <2>2, <3>1, <3>2 DEF AcquireExec
  <2>4. CASE ~Acquirable(d, stamp)
    <3>1. /\ \A e \in Daemons \ {d} : call'[e] = call[e]
          /\ \/ stage[d] = "dead" /\ call'[d] = NoCall
             \/ stage[d] # "dead" /\ call'[d].op = call[d].op /\ call'[d].status = "refused"
      BY <2>1, <2>4, AnswerMeans
    <3> QED
      BY <1>3, <2>1, <2>2, <2>4, <3>1 DEF AcquireExec
  <2> QED
    BY <2>3, <2>4
<1>4. ASSUME NEW d \in Daemons, AcquireReply(d) PROVE EpochInv'
  BY <1>4 DEF AcquireReply
<1>5. ASSUME NEW d \in Daemons, RenewSend(d) PROVE EpochInv'
  BY <1>5 DEF RenewSend, Holding
<1>6. ASSUME NEW d \in Daemons, RenewExec(d) PROVE EpochInv'
  <2>1. row'.owner = row.owner
    BY <1>6 DEF RenewExec
  <2>2. \A e \in Daemons : \/ call'[e] = call[e]
                           \/ e = d /\ call[e].op = "renew" /\ call'[e].op \in {"renew", "none"}
                              /\ stage[e] \notin {"start", "acquire"}
    BY <1>6 DEF RenewExec, Answer
  <2>3. UNCHANGED <<stage, epoch>>
    BY <1>6 DEF RenewExec
  <2> QED
    BY <2>1, <2>2, <2>3
<1>7. ASSUME NEW d \in Daemons, RenewReply(d) PROVE EpochInv'
  BY <1>7 DEF RenewReply, Holding
<1>8. ASSUME NEW d \in Daemons, RenewError(d) PROVE EpochInv'
  BY <1>8 DEF RenewError
<1>9. ASSUME NEW d \in Daemons, Watchdog(d) PROVE EpochInv'
  BY <1>9 DEF Watchdog
<1>10. ASSUME NEW d \in Daemons, Load(d) PROVE EpochInv'
  BY <1>10 DEF Load
<1>11. ASSUME NEW d \in Daemons, BeginFenced(d) PROVE EpochInv'
  BY <1>11 DEF BeginFenced
<1>12. ASSUME NEW d \in Daemons, CommitFenced(d) PROVE EpochInv'
  BY <1>12 DEF CommitFenced
<1>13. ASSUME NEW d \in Daemons, RollbackFenced(d) PROVE EpochInv'
  BY <1>13 DEF RollbackFenced
<1>14. ASSUME NEW d \in Daemons, MarkClockReady(d) PROVE EpochInv'
  BY <1>14 DEF MarkClockReady
<1>15. ASSUME NEW d \in Daemons, Release(d) PROVE EpochInv'
  BY <1>15 DEF Release, Holding
<1>16. ASSUME NEW d \in Daemons, ReleaseExec(d) PROVE EpochInv'
  BY <1>16 DEF ReleaseExec
<1>17. ASSUME NEW d \in Daemons, Crash(d) PROVE EpochInv'
  BY <1>17 DEF Crash
<1>18. CASE UNCHANGED vars
  BY <1>18 DEF vars
<1>19. QED
  BY <1>1, <1>2, <1>3, <1>4, <1>5, <1>6, <1>7, <1>8, <1>9, <1>10, <1>11, <1>12, <1>13, <1>14, <1>15, <1>16, <1>17, <1>18 DEF Next, DaemonStep

\* Every lease operation is a step of the single writer, or invisible to it.
LEMMA WriterStep == WriterInv /\ [Next]_vars => [Writer!Next]_(Writer!vars)
<1> SUFFICES ASSUME WriterInv, [Next]_vars PROVE [Writer!Next]_(Writer!vars)
  OBVIOUS
<1> DEFINE Done == [Writer!Next]_(Writer!vars)
<1>0. TypeOK /\ TypeOK' /\ FencingInv /\ EpochInv
  BY TypeStep DEF WriterInv, FencingInv
<1> USE NoDaemonAssumption, <1>0 DEF TypeOK, Rows, Calls, rowVars
<1>a. ASSUME row'.owner = row.owner, UNCHANGED <<stage, epoch, memory, world>> PROVE Done
  BY <1>a DEF Writer!vars, pastBar, copyBar
<1>1. CASE Tick
  BY <1>1, <1>a DEF Tick
<1>2. ASSUME NEW d \in Daemons, AcquireSend(d) PROVE Done
  BY <1>2 DEF AcquireSend, Writer!vars, pastBar, copyBar
<1>3. ASSUME NEW d \in Daemons, AcquireExec(d) PROVE Done
  <2>1. PICK stamp \in call[d].startedAt .. now :
           IF Acquirable(d, stamp)
           THEN /\ row' = AcquiredRow(d, stamp)
                /\ epoch' = [epoch EXCEPT ![d] = row'.epoch]
           ELSE UNCHANGED <<row, epoch>>
    BY <1>3 DEF AcquireExec
  <2>2. UNCHANGED <<stage, memory, world>>
    BY <1>3 DEF AcquireExec
  <2>3. epoch[d] = 0 /\ row.owner # d /\ stage[d] \in {"acquire", "dead"}
    BY <1>3 DEF AcquireExec, EpochInv, FencingInv, AcquireWaits
  <2>4. CASE Acquirable(d, stamp)
    <3>1. row'.owner = d /\ epoch' = [epoch EXCEPT ![d] = row.epoch + 1]
      BY <2>1, <2>3, <2>4 DEF AcquiredRow
    <3>2. d \notin pastBar /\ pastBar' = pastBar \cup {d}
      BY <2>3, <3>1 DEF pastBar
    <3>3. copyBar' = {}
      BY <2>2, <2>3, <3>1 DEF copyBar
    <3> QED
      BY <2>2, <3>1, <3>2, <3>3 DEF Writer!Next, Writer!TakeOver
  <2> QED
    BY <2>1, <2>2, <2>4, <1>a
<1>4. ASSUME NEW d \in Daemons, AcquireReply(d) PROVE Done
  BY <1>4 DEF AcquireReply, Writer!vars, pastBar, copyBar
<1>5. ASSUME NEW d \in Daemons, RenewSend(d) PROVE Done
  BY <1>5, <1>a DEF RenewSend
<1>6. ASSUME NEW d \in Daemons, RenewExec(d) PROVE Done
  <2>1. row'.owner = row.owner
    BY <1>6 DEF RenewExec
  <2> QED
    BY <1>6, <1>a, <2>1 DEF RenewExec
<1>7. ASSUME NEW d \in Daemons, RenewReply(d) PROVE Done
  BY <1>7, <1>a DEF RenewReply
<1>8. ASSUME NEW d \in Daemons, RenewError(d) PROVE Done
  BY <1>8, <1>a DEF RenewError
<1>9. ASSUME NEW d \in Daemons, Watchdog(d) PROVE Done
  BY <1>9, <1>a DEF Watchdog
<1>10. ASSUME NEW d \in Daemons, Load(d) PROVE Done
  <2>1. row' = row /\ world' = world /\ pastBar' = pastBar
    BY <1>10 DEF Load, pastBar
  <2>2. CASE row.owner = d
    <3>1. copyBar = {} /\ copyBar' = {world}
      BY <1>10, <2>2 DEF Load, copyBar
    <3> QED
      BY <2>1, <2>2, <3>1 DEF Writer!Next, Writer!Load
  <2>3. CASE row.owner # d
    <3>1. copyBar' = copyBar
      BY <1>10, <2>3 DEF Load, copyBar
    <3> QED
      BY <2>1, <3>1 DEF Writer!vars
  <2> QED
    BY <2>2, <2>3
<1>11. ASSUME NEW d \in Daemons, BeginFenced(d) PROVE Done
  BY <1>11, <1>a DEF BeginFenced
<1>12. ASSUME NEW d \in Daemons, CommitFenced(d) PROVE Done
  <2>1. row.owner = d /\ stage[d] \in {"recover", "run"} /\ memory[d] = world
    BY <1>12 DEF CommitFenced, FencingInv, TxnIsOwners, OwnerIsFresh, Owns
  <2>2. row' = row /\ pastBar' = pastBar /\ world' # world
    BY <1>12 DEF CommitFenced, pastBar
  <2>3. copyBar = {world} /\ copyBar' = {world'}
    BY <1>12, <2>1 DEF CommitFenced, copyBar
  <2> QED
    BY <2>2, <2>3 DEF Writer!Next, Writer!Commit
<1>13. ASSUME NEW d \in Daemons, RollbackFenced(d) PROVE Done
  BY <1>13, <1>a DEF RollbackFenced
<1>14. ASSUME NEW d \in Daemons, MarkClockReady(d) PROVE Done
  <2>1. row'.owner = row.owner /\ UNCHANGED <<epoch, memory, world>>
    BY <1>14 DEF MarkClockReady
  <2>2. \A e \in Daemons : stage'[e] \in {"recover", "run"} <=> stage[e] \in {"recover", "run"}
    BY <1>14 DEF MarkClockReady
  <2> QED
    BY <2>1, <2>2 DEF Writer!vars, pastBar, copyBar
<1>b. ASSUME row' = row, UNCHANGED <<epoch, memory, world>>, NEW d \in Daemons,
             \A e \in Daemons \ {d} : stage'[e] = stage[e],
             stage'[d] \in {"closed", "dead"}
      PROVE  Done
  <2>1. CASE row.owner = d
    <3>1. copyBar' = {}
      BY <1>b, <2>1 DEF copyBar
    <3> QED
      BY <1>b, <3>1 DEF Writer!Next, Writer!Forget, pastBar
  <2>2. CASE row.owner # d
    <3>1. copyBar' = copyBar
      BY <1>b, <2>2 DEF copyBar
    <3> QED
      BY <1>b, <3>1 DEF Writer!vars, pastBar
  <2> QED
    BY <2>1, <2>2
<1>15. ASSUME NEW d \in Daemons, Release(d) PROVE Done
  BY <1>15, <1>b DEF Release
<1>16. ASSUME NEW d \in Daemons, ReleaseExec(d) PROVE Done
  BY <1>16, <1>a DEF ReleaseExec
<1>17. ASSUME NEW d \in Daemons, Crash(d) PROVE Done
  BY <1>17, <1>b DEF Crash
<1>18. CASE UNCHANGED vars
  BY <1>18, <1>a DEF vars
<1>19. QED
  BY <1>1, <1>2, <1>3, <1>4, <1>5, <1>6, <1>7, <1>8, <1>9, <1>10, <1>11, <1>12, <1>13, <1>14, <1>15, <1>16, <1>17, <1>18 DEF Next, DaemonStep

\* For any number of processes, delays and expiries, the lease makes one daemon at a
\* time the writer; it writes from the world it loaded after it became the writer.
THEOREM LeaseIsSingleWriter == Spec => ImplementsSingleWriter
<1>1. Init => Writer!Init
  BY NoDaemonAssumption DEF Init, Writer!Init, pastBar, copyBar
<1>2. Init => WriterInv
  BY FencingInit, EpochInit DEF WriterInv
<1>3. WriterInv /\ [Next]_vars => WriterInv'
  BY FencingStep, EpochStep DEF WriterInv, FencingInv
<1> QED
  BY <1>1, <1>2, <1>3, WriterStep, PTL DEF Spec, ImplementsSingleWriter, Writer!Spec
=============================================================================
