----------------------- MODULE AutomationWorkerProofs -----------------------
(***************************************************************************)
(* What holds of the automation workers for every number of jobs,          *)
(* processes, lanes and operators, every budget, and every misfortune:     *)
(* type correctness, LockIffRunning and SuccessWasEarned.                  *)
(***************************************************************************)
EXTENDS AutomationWorker, TLAPS

\* A well-formed row whose lock columns agree with its status.
GoodRow(row) ==
  /\ row \in JobRow
  /\ row.status = "running" <=> row.lockedBy # NoWorker

\* What a tick knows about itself at each of its steps.
TickInv(t) ==
  /\ pc[t] \in {"recoverClose", "open"} \cup InFlightPcs => cur[t] \in Jobs
  /\ pc[t] = "failWrite" => verdict[t] \in {"queued", "dead_letter"}
  /\ pc[t] = "succeed" => "ok" \in settled[cur[t]]

IInv ==
  /\ TypeOK
  /\ LockIffRunning
  /\ SuccessWasEarned
  /\ \A t \in Ticks : TickInv(t)

-----------------------------------------------------------------------------
(* The rows the statements write *)

LEMMA UnlockedRowGood ==
  ASSUME NEW row \in JobRow, NEW s \in RowStatuses \ {"running"}
  PROVE  GoodRow(Unlocked(row, s))
BY QueueAssumption DEF Unlocked, GoodRow, JobRow

LEMMA ClaimedRowGood ==
  ASSUME NEW row \in JobRow, NEW w \in Workers, NEW n \in Nat
  PROVE  GoodRow(ClaimedRow(row, w, n)) /\ ClaimedRow(row, w, n).status = "running"
BY QueueAssumption DEF ClaimedRow, GoodRow, JobRow, RowStatuses, JobStatuses

LEMMA RequeuedRowGood ==
  ASSUME NEW row \in JobRow
  PROVE  GoodRow(RequeuedRow(row)) /\ RequeuedRow(row).status = "queued"
BY QueueAssumption DEF RequeuedRow, Unlocked, GoodRow, JobRow, RowStatuses, JobStatuses

LEMMA FailedRowGood ==
  ASSUME NEW row \in JobRow, NEW s \in {"queued", "dead_letter"}
  PROVE  GoodRow(FailedRow(row, s)) /\ FailedRow(row, s).status = s
BY QueueAssumption DEF FailedRow, Unlocked, GoodRow, JobRow, RowStatuses, JobStatuses

LEMMA ReplayedRowGood ==
  ASSUME NEW row \in JobRow, NEW g \in Nat
  PROVE  GoodRow(ReplayedRow(row, g)) /\ ReplayedRow(row, g).status = "queued"
BY QueueAssumption DEF ReplayedRow, RequeuedRow, Unlocked, GoodRow, JobRow, RowStatuses, JobStatuses

\* The attempt tables stay sequences of attempts.
LEMMA AttemptsTyped ==
  ASSUME QueueTypeOK, NEW j \in Jobs,
         \/ \E n \in Nat : OpenAttempt(j, n)
         \/ CloseOpenAttempts(j)
         \/ \E s \in {"succeeded", "failed"} : CloseLatestAttempt(j, s)
  PROVE  attempts' \in [Jobs -> Seq(Attempt)]
<1>1. ASSUME NEW n \in Nat, OpenAttempt(j, n)
      PROVE  attempts' \in [Jobs -> Seq(Attempt)]
  BY <1>1 DEF OpenAttempt, QueueTypeOK, Attempt
<1>2. CASE CloseOpenAttempts(j)
  <2>. DEFINE f == [i \in DOMAIN attempts[j] |->
                      IF attempts[j][i].status = "running"
                      THEN [attempts[j][i] EXCEPT !.status = "failed"]
                      ELSE attempts[j][i]]
  <2>1. attempts[j] \in Seq(Attempt)
    BY DEF QueueTypeOK
  <2>2. DOMAIN attempts[j] = 1 .. Len(attempts[j]) /\ Len(attempts[j]) \in Nat
    BY <2>1
  <2>3. \A i \in 1 .. Len(attempts[j]) : attempts[j][i] \in Attempt
    BY <2>1
  <2>4. f \in [1 .. Len(attempts[j]) -> Attempt]
    BY <2>2, <2>3 DEF Attempt
  <2>5. f \in Seq(Attempt)
    BY <2>2, <2>4
  <2>6. attempts' = [attempts EXCEPT ![j] = f]
    BY <1>2 DEF CloseOpenAttempts
  <2>. QED BY <2>5, <2>6 DEF QueueTypeOK
<1>3. ASSUME NEW s \in {"succeeded", "failed"}, CloseLatestAttempt(j, s)
      PROVE  attempts' \in [Jobs -> Seq(Attempt)]
  <2>1. attempts[j] \in Seq(Attempt)
    BY DEF QueueTypeOK
  <2>2. PICK i \in DOMAIN attempts[j] : attempts' = [attempts EXCEPT ![j][i].status = s]
    BY <1>3 DEF CloseLatestAttempt, LatestAttempts
  <2>3. attempts[j][i] \in Attempt
    BY <2>1
  <2>4. [attempts[j][i] EXCEPT !.status = s] \in Attempt
    BY <2>3 DEF Attempt
  <2>5. [attempts[j] EXCEPT ![i] = [attempts[j][i] EXCEPT !.status = s]] \in Seq(Attempt)
    BY <2>1, <2>4
  <2>6. attempts' = [attempts EXCEPT ![j] =
                       [attempts[j] EXCEPT ![i] = [attempts[j][i] EXCEPT !.status = s]]]
    BY <2>2
  <2>. QED BY <2>5, <2>6 DEF QueueTypeOK
<1>. QED BY <1>1, <1>2, <1>3

-----------------------------------------------------------------------------
(* Pieces of the inductive step *)

\* Writing one good row, without inventing a success, keeps the row invariants.
LEMMA RowWritten ==
  ASSUME IInv, NEW j \in Jobs, NEW r, GoodRow(r),
         job' = [job EXCEPT ![j] = r],
         r.status = "succeeded" => "ok" \in settled[j],
         settled' = settled
  PROVE  job' \in [Jobs -> JobRow] /\ LockIffRunning' /\ SuccessWasEarned'
BY DEF IInv, TypeOK, QueueTypeOK, LockIffRunning, SuccessWasEarned, GoodRow, HasStatus

LEMMA RowsGood == IInv => \A j \in Jobs : job[j] \in JobRow /\ GoodRow(job[j])
BY DEF IInv, TypeOK, QueueTypeOK, GoodRow, LockIffRunning, HasStatus

\* The clock flags are no part of the row invariants.
LEMMA FlagRowsGood ==
  ASSUME NEW row, GoodRow(row)
  PROVE  /\ GoodRow([row EXCEPT !.due = TRUE]) /\ [row EXCEPT !.due = TRUE].status = row.status
         /\ GoodRow([row EXCEPT !.stale = TRUE]) /\ [row EXCEPT !.stale = TRUE].status = row.status
         /\ row.status = "absent" => \A d \in BOOLEAN :
              LET r == [row EXCEPT !.status = "queued", !.due = d]
              IN  GoodRow(r) /\ r.status = "queued"
BY DEF GoodRow, JobRow, RowStatuses, JobStatuses

\* Forgetting the local state of some ticks keeps the types and TickInv.
LEMMA TicksCleared ==
  ASSUME IInv, NEW S \in SUBSET Ticks, ClearTicks(S), settled' = settled
  PROVE  /\ pc' \in [Ticks -> TickPc]
         /\ toRecover' \in [Ticks -> SUBSET Jobs]
         /\ candidates' \in [Ticks -> SUBSET [job : Jobs, seen : Nat]]
         /\ batch' \in [Ticks -> SUBSET Jobs]
         /\ cur' \in [Ticks -> Jobs \cup {NoJob}]
         /\ number' \in [Ticks -> Nat]
         /\ verdict' \in [Ticks -> Verdicts]
         /\ \A t \in Ticks : TickInv(t)'
BY DEF IInv, TypeOK, ClearTicks, TickInv, TickPc, Verdicts, InFlightPcs

LEMMA CallerSteps ==
  ASSUME IInv,
         \/ \E j \in Jobs : Enqueue(j) \/ BackoffElapses(j) \/ LockExpires(j)
         \/ \E a \in Operators : ReplayWrite(a) \/ \E j \in Jobs : ReplayRead(a, j)
  PROVE  IInv'
<1>. USE DEF IInv
<1>1. ASSUME NEW j \in Jobs, Enqueue(j)
      PROVE  IInv'
  <2>1. PICK d \in BOOLEAN : job' = [job EXCEPT ![j].status = "queued", ![j].due = d]
    BY <1>1 DEF Enqueue
  <2>2. job' = [job EXCEPT ![j] = [job[j] EXCEPT !.status = "queued", !.due = d]]
    BY <2>1 DEF TypeOK, QueueTypeOK
  <2>3. job' \in [Jobs -> JobRow] /\ LockIffRunning' /\ SuccessWasEarned'
    BY <1>1, <2>2, RowsGood, FlagRowsGood, RowWritten DEF Enqueue, HasStatus
  <2>. QED
    BY <1>1, <2>3 DEF Enqueue, TypeOK, QueueTypeOK, TickInv, workerVars, tickVars, replayVars, boundVars
<1>2. ASSUME NEW j \in Jobs, BackoffElapses(j)
      PROVE  IInv'
  <2>1. job' = [job EXCEPT ![j] = [job[j] EXCEPT !.due = TRUE]]
    BY <1>2 DEF BackoffElapses, TypeOK, QueueTypeOK
  <2>2. job' \in [Jobs -> JobRow] /\ LockIffRunning' /\ SuccessWasEarned'
    BY <1>2, <2>1, RowsGood, FlagRowsGood, RowWritten DEF BackoffElapses, HasStatus
  <2>. QED
    BY <1>2, <2>2 DEF BackoffElapses, TypeOK, QueueTypeOK, TickInv, workerVars, tickVars, replayVars, boundVars
<1>3. ASSUME NEW j \in Jobs, LockExpires(j)
      PROVE  IInv'
  <2>1. job' = [job EXCEPT ![j] = [job[j] EXCEPT !.stale = TRUE]]
    BY <1>3 DEF LockExpires, TypeOK, QueueTypeOK
  <2>2. job' \in [Jobs -> JobRow] /\ LockIffRunning' /\ SuccessWasEarned'
    BY <1>3, <2>1, RowsGood, FlagRowsGood, RowWritten DEF LockExpires, HasStatus
  <2>. QED
    BY <1>3, <2>2 DEF LockExpires, TypeOK, QueueTypeOK, TickInv, workerVars, tickVars, replayVars
<1>4. ASSUME NEW a \in Operators, NEW j \in Jobs, ReplayRead(a, j)
      PROVE  IInv'
  BY <1>4 DEF ReplayRead, TypeOK, QueueTypeOK, JobRow, HasStatus, queueVars,
     LockIffRunning, SuccessWasEarned, TickInv, workerVars, tickVars, replayVars, boundVars
<1>5. ASSUME NEW a \in Operators, ReplayWrite(a)
      PROVE  IInv'
  <2>1. replaying[a] \in Jobs /\ generation[a] \in Nat
    BY <1>5 DEF ReplayWrite, TypeOK
  <2>2. job' \in [Jobs -> JobRow] /\ LockIffRunning' /\ SuccessWasEarned'
    BY <1>5, <2>1, RowsGood, ReplayedRowGood, RowWritten DEF ReplayWrite
  <2>. QED
    BY <1>5, <2>1, <2>2 DEF ReplayWrite, TypeOK, QueueTypeOK, TickInv, workerVars, tickVars, boundVars
<1>. QED BY <1>1, <1>2, <1>3, <1>4, <1>5

LEMMA TickSteps ==
  ASSUME IInv, NEW t \in Ticks, TickStep(t) \/ StatementFails(t)
  PROVE  IInv'
<1>. USE DEF IInv
<1>0. t[1] \in Workers
  BY DEF Ticks
<1>1. CASE TickStart(t)
  BY <1>1 DEF TickStart, StaleJobs, Goto, TypeOK, QueueTypeOK, TickPc, TickInv, InFlightPcs,
     LockIffRunning, SuccessWasEarned, HasStatus, queueVars, workerVars, replayVars, boundVars
<1>2. CASE RecoverClose(t)
  <2>1. cur[t] \in Jobs
    BY <1>2 DEF RecoverClose, TickInv
  <2>2. attempts' \in [Jobs -> Seq(Attempt)]
    BY <1>2, <2>1, AttemptsTyped DEF RecoverClose, TypeOK
  <2>. QED
    BY <1>2, <2>2 DEF RecoverClose, Goto, TypeOK, QueueTypeOK, TickPc, TickInv, InFlightPcs,
       LockIffRunning, SuccessWasEarned, HasStatus, workerVars, replayVars, boundVars
<1>3. CASE ClaimRead(t)
  <2>1. PICK S \in SUBSET DueJobs :
          candidates' = [candidates EXCEPT ![t] =
                           {[job |-> j, seen |-> job[j].attemptCount] : j \in S}]
    BY <1>3 DEF ClaimRead
  <2>2. {[job |-> j, seen |-> job[j].attemptCount] : j \in S} \in SUBSET [job : Jobs, seen : Nat]
    BY DEF DueJobs, TypeOK, QueueTypeOK, JobRow
  <2>3. candidates' \in [Ticks -> SUBSET [job : Jobs, seen : Nat]]
    BY <2>1, <2>2 DEF TypeOK
  <2>. QED
    BY <1>3, <2>3 DEF ClaimRead, Goto, TypeOK, QueueTypeOK, TickPc, TickInv, InFlightPcs,
       LockIffRunning, SuccessWasEarned, HasStatus, queueVars, workerVars, replayVars, boundVars
<1>4. CASE OpenClaimed(t)
  <2>1. cur[t] \in Jobs /\ number[t] \in Nat
    BY <1>4 DEF OpenClaimed, TickInv, TypeOK
  <2>2. attempts' \in [Jobs -> Seq(Attempt)]
    BY <1>4, <2>1, AttemptsTyped DEF OpenClaimed, TypeOK
  <2>. QED
    BY <1>4, <2>1, <2>2 DEF OpenClaimed, Goto, TypeOK, QueueTypeOK, TickPc, TickInv, InFlightPcs,
       LockIffRunning, SuccessWasEarned, HasStatus, workerVars, replayVars, boundVars
<1>5. CASE HandlerSettles(t)
  <2>1. PICK v \in {"ok", "retryable", "fatal"} :
          /\ verdict' = [verdict EXCEPT ![t] = v]
          /\ settled' = [settled EXCEPT ![cur[t]] = @ \cup {v}]
          /\ pc' = [pc EXCEPT ![t] = IF v = "ok" THEN "succeed" ELSE "failRead"]
    BY <1>5 DEF HandlerSettles, Goto, AfterHandler
  <2>2. cur[t] \in Jobs
    BY <1>5 DEF HandlerSettles, TickInv, InFlightPcs
  <2>3. /\ settled' \in [Jobs -> SUBSET {"ok", "retryable", "fatal"}]
        /\ \A j \in Jobs : settled[j] \subseteq settled'[j]
        /\ v = "ok" => "ok" \in settled'[cur[t]]
    BY <2>1, <2>2 DEF TypeOK
  <2>4. \A u \in Ticks : TickInv(u)'
    BY <1>5, <2>1, <2>2, <2>3 DEF HandlerSettles, TypeOK, TickInv, InFlightPcs
  <2>5. SuccessWasEarned'
    BY <1>5, <2>3 DEF HandlerSettles, SuccessWasEarned, HasStatus, queueVars
  <2>. QED
    BY <1>5, <2>1, <2>3, <2>4, <2>5 DEF HandlerSettles, TypeOK, QueueTypeOK, TickPc, Verdicts,
       LockIffRunning, HasStatus, queueVars, workerVars, replayVars, boundVars
<1>6. CASE MarkSucceeded(t)
  <2>1. cur[t] \in Jobs /\ "ok" \in settled[cur[t]]
    BY <1>6 DEF MarkSucceeded, TickInv, InFlightPcs
  <2>2. CASE HasStatus(cur[t], "running")
    <3>. DEFINE r == Unlocked(job[cur[t]], "succeeded")
    <3>1. /\ job' = [job EXCEPT ![cur[t]] = r]
          /\ pc' = [pc EXCEPT ![t] = "closeSucceeded"]
          /\ UNCHANGED <<verdict, settled>>
      BY <1>6, <2>2 DEF MarkSucceeded, Goto
    <3>2. "succeeded" \in RowStatuses \ {"running"}
      BY DEF RowStatuses, JobStatuses
    <3>3. GoodRow(r)
      BY <2>1, <3>2, RowsGood, UnlockedRowGood
    <3>. HIDE DEF r
    <3>4. job' \in [Jobs -> JobRow] /\ LockIffRunning' /\ SuccessWasEarned'
      BY <2>1, <3>1, <3>3, RowWritten
    <3>. QED
      BY <1>6, <2>1, <3>1, <3>4 DEF MarkSucceeded, TypeOK, QueueTypeOK, TickPc, TickInv,
         InFlightPcs, workerVars, replayVars, boundVars
  <2>3. CASE ~HasStatus(cur[t], "running")
    <3>1. /\ verdict' = [verdict EXCEPT ![t] = "retryable"]
          /\ pc' = [pc EXCEPT ![t] = "failRead"]
          /\ UNCHANGED job
      BY <1>6, <2>3 DEF MarkSucceeded, Goto
    <3>. QED
      BY <1>6, <2>1, <3>1 DEF MarkSucceeded, TypeOK, QueueTypeOK, TickPc, Verdicts, TickInv,
         InFlightPcs, LockIffRunning, SuccessWasEarned, HasStatus, workerVars, replayVars, boundVars
  <2>. QED BY <2>2, <2>3
<1>7. CASE FailRead(t)
  <2>1. CASE ClearTicks({t})
    <3>. HIDE DEF IInv
    <3>1. UNCHANGED <<queueVars, workerVars, replayVars, settled, boundVars>>
      BY <1>7 DEF FailRead
    <3>. QED
      BY <2>1, <3>1, TicksCleared DEF IInv, TypeOK, QueueTypeOK, LockIffRunning, SuccessWasEarned,
         HasStatus, queueVars, workerVars, replayVars, boundVars
  <2>2. CASE Goto(t, "failWrite")
    <3>1. PICK d \in {"queued", "dead_letter"} : verdict' = [verdict EXCEPT ![t] = d]
      BY <1>7, <2>2 DEF FailRead, Goto, ClearTicks, DecideFailure, TypeOK
    <3>2. /\ cur[t] \in Jobs
          /\ pc' = [pc EXCEPT ![t] = "failWrite"]
          /\ UNCHANGED <<queueVars, workerVars, replayVars, settled, boundVars>>
      BY <1>7, <2>2 DEF FailRead, Goto, TickInv, InFlightPcs
    <3>3. UNCHANGED <<toRecover, candidates, batch, cur, number>>
      BY <1>7, <2>2, <3>2 DEF FailRead, Goto, ClearTicks, TypeOK
    <3>4. \A u \in Ticks : TickInv(u)'
      BY <3>1, <3>2, <3>3 DEF TypeOK, TickInv, InFlightPcs
    <3>5. pc' \in [Ticks -> TickPc] /\ verdict' \in [Ticks -> Verdicts]
      BY <3>1, <3>2 DEF TypeOK, TickPc, Verdicts
    <3>. QED
      BY <3>2, <3>3, <3>4, <3>5 DEF TypeOK, QueueTypeOK, LockIffRunning, SuccessWasEarned, HasStatus,
         queueVars, workerVars, replayVars, boundVars
  <2>. QED BY <1>7, <2>1, <2>2 DEF FailRead
<1>8. CASE FailWrite(t)
  <2>1. cur[t] \in Jobs /\ verdict[t] \in {"queued", "dead_letter"}
    BY <1>8 DEF FailWrite, TickInv, InFlightPcs
  <2>2. job' \in [Jobs -> JobRow] /\ LockIffRunning' /\ SuccessWasEarned'
    BY <1>8, <2>1, RowsGood, FailedRowGood, RowWritten DEF FailWrite
  <2>. QED
    BY <1>8, <2>1, <2>2 DEF FailWrite, Goto, TypeOK, QueueTypeOK, TickPc, TickInv, InFlightPcs,
       workerVars, replayVars, boundVars
<1>9. CASE FinishJob(t)
  <2>1. cur[t] \in Jobs
    BY <1>9 DEF FinishJob, TickInv, InFlightPcs
  <2>2. attempts' \in [Jobs -> Seq(Attempt)]
    BY <1>9, <2>1, AttemptsTyped DEF FinishJob, TypeOK
  <2>. QED
    BY <1>9, <2>2 DEF FinishJob, Goto, TypeOK, QueueTypeOK, TickPc, Verdicts, TickInv, InFlightPcs,
       LockIffRunning, SuccessWasEarned, HasStatus, workerVars, replayVars, boundVars
<1>10. CASE TickEnd(t)
  <2>. HIDE DEF IInv
  <2>1. ClearTicks({t}) /\ UNCHANGED <<queueVars, workerVars, replayVars, settled, boundVars>>
    BY <1>10 DEF TickEnd
  <2>. QED
    BY <2>1, TicksCleared DEF IInv, TypeOK, QueueTypeOK, LockIffRunning, SuccessWasEarned,
       HasStatus, queueVars, workerVars, replayVars, boundVars
<1>11. ASSUME NEW j \in Jobs, RecoverOne(t, j)
       PROVE  IInv'
  <2>1. job' \in [Jobs -> JobRow] /\ LockIffRunning' /\ SuccessWasEarned'
    BY <1>11, RowsGood, RequeuedRowGood, RowWritten DEF RecoverOne
  <2>. QED
    BY <1>11, <2>1 DEF RecoverOne, Goto, TypeOK, QueueTypeOK, TickPc, TickInv, InFlightPcs,
       workerVars, replayVars, boundVars
<1>12. ASSUME NEW j \in Jobs, StartJob(t, j)
       PROVE  IInv'
  BY <1>12 DEF StartJob, Goto, TypeOK, QueueTypeOK, TickPc, TickInv, InFlightPcs,
     LockIffRunning, SuccessWasEarned, HasStatus, queueVars, workerVars, replayVars, boundVars
<1>13. ASSUME NEW c \in candidates[t], ClaimOne(t, c)
       PROVE  IInv'
  <2>1. c.job \in Jobs /\ c.seen \in Nat /\ c.seen + 1 \in Nat
    BY DEF TypeOK
  <2>2. CASE StillQueued(c.job) /\ Goto(t, "open")
    <3>1. /\ job' = [job EXCEPT ![c.job] = ClaimedRow(@, t[1], c.seen + 1)]
          /\ cur' = [cur EXCEPT ![t] = c.job]
          /\ number' = [number EXCEPT ![t] = c.seen + 1]
      BY <1>13, <2>2 DEF ClaimOne, NextAttempt
    <3>2. job' \in [Jobs -> JobRow] /\ LockIffRunning' /\ SuccessWasEarned'
      BY <1>0, <1>13, <2>1, <3>1, RowsGood, ClaimedRowGood, RowWritten DEF ClaimOne
    <3>. QED
      BY <1>13, <2>1, <2>2, <3>1, <3>2 DEF ClaimOne, Goto, TypeOK, QueueTypeOK, TickPc, TickInv,
         InFlightPcs, workerVars, replayVars, boundVars
  <2>3. CASE UNCHANGED <<job, cur, number, pc>>
    BY <1>13, <2>3 DEF ClaimOne, TypeOK, QueueTypeOK, TickInv, LockIffRunning, SuccessWasEarned,
       HasStatus, workerVars, replayVars, boundVars
  <2>. QED BY <1>13, <2>2, <2>3 DEF ClaimOne
<1>14. CASE StatementFails(t)
  <2>1. CASE ClearTicks({t}) /\ UNCHANGED attempts
    <3>. HIDE DEF IInv
    <3>1. /\ UNCHANGED <<queueVars, workerVars, replayVars, settled, expiries>>
          /\ aborts' = aborts + 1
      BY <1>14, <2>1 DEF StatementFails, queueVars
    <3>. QED
      BY <2>1, <3>1, TicksCleared DEF IInv, TypeOK, QueueTypeOK, LockIffRunning, SuccessWasEarned,
         HasStatus, queueVars, workerVars, replayVars
  <2>2. CASE pc[t] \in {"succeed", "closeSucceeded"}
    <3>1. /\ verdict' = [verdict EXCEPT ![t] = "retryable"]
          /\ pc' = [pc EXCEPT ![t] = "failRead"]
          /\ UNCHANGED <<toRecover, candidates, batch, cur, number>>
          /\ UNCHANGED <<job, workerVars, replayVars, settled, expiries>>
          /\ aborts' = aborts + 1
      BY <1>14, <2>2 DEF StatementFails, Goto
    <3>2. cur[t] \in Jobs
      BY <2>2 DEF TickInv, InFlightPcs
    <3>3. \A u \in Ticks : TickInv(u)'
      BY <3>1, <3>2 DEF TypeOK, TickInv, InFlightPcs
    <3>4. pc' \in [Ticks -> TickPc] /\ verdict' \in [Ticks -> Verdicts]
      BY <3>1 DEF TypeOK, TickPc, Verdicts
    <3>5. attempts' \in [Jobs -> Seq(Attempt)]
      BY <1>14, <2>2, <3>2, AttemptsTyped DEF StatementFails, TypeOK, QueueTypeOK
    <3>. QED
      BY <3>1, <3>3, <3>4, <3>5 DEF TypeOK, QueueTypeOK, LockIffRunning, SuccessWasEarned, HasStatus,
         queueVars, workerVars, replayVars
  <2>. QED BY <1>14, <2>1, <2>2 DEF StatementFails
<1>. QED
  BY <1>1, <1>2, <1>3, <1>4, <1>5, <1>6, <1>7, <1>8, <1>9, <1>10, <1>11, <1>12, <1>13, <1>14
  DEF TickStep

LEMMA ProcessSteps ==
  ASSUME IInv, NEW w \in Workers,
         StartWorker(w) \/ Crash(w) \/ DrainBegin(w) \/ ShutdownStep(w)
  PROVE  IInv'
<1>1. ASSUME Vanish(w)
      PROVE  IInv'
  <2>1. {w} \X Lanes \in SUBSET Ticks
    BY DEF Ticks
  <2>2. ClearTicks({w} \X Lanes) /\ UNCHANGED <<queueVars, replayVars, settled, boundVars>>
    BY <1>1 DEF Vanish
  <2>3. /\ worker' \in [Workers -> WorkerStatus]
        /\ held' \in [Workers -> SUBSET Jobs]
        /\ releasing' \in [Workers -> Jobs \cup {NoJob}]
    BY <1>1 DEF Vanish, IInv, TypeOK, WorkerStatus
  <2>. QED
    BY <2>1, <2>2, <2>3, TicksCleared DEF IInv, TypeOK, QueueTypeOK, LockIffRunning,
       SuccessWasEarned, HasStatus, queueVars, replayVars, boundVars
<1>2. ASSUME StartWorker(w) \/ DrainBegin(w) \/ DrainDone(w) \/ DrainDeadline(w) \/ ReleaseDone(w)
      PROVE  IInv'
  <2>1. worker' \in [Workers -> WorkerStatus]
    BY <1>2 DEF StartWorker, DrainBegin, DrainDone, DrainDeadline, ReleaseDone, IInv, TypeOK, WorkerStatus
  <2>2. held' \in [Workers -> SUBSET Jobs]
    BY <1>2 DEF StartWorker, DrainBegin, DrainDone, DrainDeadline, ReleaseDone, IInv, TypeOK, HeldBy
  <2>3. UNCHANGED <<queueVars, releasing, tickVars, replayVars, settled, boundVars>>
    BY <1>2 DEF StartWorker, DrainBegin, DrainDone, DrainDeadline, ReleaseDone
  <2>. QED
    BY <2>1, <2>2, <2>3 DEF IInv, TypeOK, QueueTypeOK, TickInv, LockIffRunning, SuccessWasEarned,
       HasStatus, queueVars, tickVars, replayVars, boundVars
<1>3. ASSUME ReleaseClose(w)
      PROVE  IInv'
  <2>1. releasing[w] \in Jobs
    BY <1>3 DEF ReleaseClose, IInv, TypeOK
  <2>2. attempts' \in [Jobs -> Seq(Attempt)]
    BY <1>3, <2>1, AttemptsTyped DEF ReleaseClose, IInv, TypeOK
  <2>. QED
    BY <1>3, <2>2 DEF ReleaseClose, IInv, TypeOK, QueueTypeOK, TickInv, LockIffRunning,
       SuccessWasEarned, HasStatus, tickVars, replayVars, boundVars
<1>4. ASSUME NEW j \in Jobs, ReleaseOne(w, j)
      PROVE  IInv'
  <2>1. job' \in [Jobs -> JobRow] /\ LockIffRunning' /\ SuccessWasEarned'
    <3>1. CASE job' = [job EXCEPT ![j] = RequeuedRow(@)]
      BY <1>4, <3>1, RowsGood, RequeuedRowGood, RowWritten DEF ReleaseOne
    <3>2. CASE UNCHANGED job
      BY <1>4, <3>2 DEF ReleaseOne, IInv, TypeOK, QueueTypeOK, LockIffRunning, SuccessWasEarned, HasStatus
    <3>. QED BY <1>4, <3>1, <3>2 DEF ReleaseOne
  <2>. QED
    BY <1>4, <2>1 DEF ReleaseOne, IInv, TypeOK, QueueTypeOK, TickInv, tickVars, replayVars, boundVars
<1>. QED
  BY <1>1, <1>2, <1>3, <1>4 DEF ShutdownStep, Crash, Exit

-----------------------------------------------------------------------------
LEMMA InitInv == Init => IInv
<1>. SUFFICES ASSUME Init PROVE IInv
  OBVIOUS
<1>1. AbsentRow \in JobRow /\ AbsentRow.status = "absent" /\ AbsentRow.lockedBy = NoWorker
  BY DEF AbsentRow, JobRow, RowStatuses, JobStatuses
<1>2. QueueTypeOK /\ LockIffRunning /\ SuccessWasEarned
  BY <1>1 DEF Init, QueueInit, QueueTypeOK, LockIffRunning, SuccessWasEarned, HasStatus
<1>. QED
  BY <1>2 DEF Init, IInv, TypeOK, TickInv, WorkerStatus, TickPc, Verdicts, InFlightPcs

LEMMA NextInv == IInv /\ [Next]_vars => IInv'
<1>. SUFFICES ASSUME IInv, [Next]_vars PROVE IInv'
  OBVIOUS
<1>1. CASE UNCHANGED vars
  BY <1>1 DEF IInv, vars, TypeOK, QueueTypeOK, LockIffRunning, SuccessWasEarned, HasStatus, TickInv,
     queueVars, workerVars, tickVars, replayVars, boundVars
<1>. QED
  BY <1>1, CallerSteps, TickSteps, ProcessSteps DEF Next

THEOREM Invariance == Spec => []IInv
BY InitInv, NextInv, PTL DEF Spec

\* The row types and the local state of every tick, process and operator are as
\* declared, whatever the instance.
THEOREM TypeCorrect == Spec => []TypeOK
<1>1. IInv => TypeOK
  BY DEF IInv
<1>. QED BY <1>1, Invariance, PTL

\* A row is locked exactly while it is running, through every crash, expiry,
\* drain, replay and blind update.
THEOREM LocksAgree == Spec => []LockIffRunning
<1>1. IInv => LockIffRunning
  BY DEF IInv
<1>. QED BY <1>1, Invariance, PTL

\* No job is reported succeeded unless a handler really finished its work.
THEOREM SuccessIsReal == Spec => []SuccessWasEarned
<1>1. IInv => SuccessWasEarned
  BY DEF IInv
<1>. QED BY <1>1, Invariance, PTL
=============================================================================
