----------------------- MODULE AutomationFleetProofs -----------------------
(***************************************************************************)
(* What holds of two kinds of deployment.                                  *)
(*                                                                         *)
(* Healthy: a fleet whose locks are never lost. Any number of processes,   *)
(* overlapping polls, jobs and handler failures, but no crash, no          *)
(* shutdown, no rejected statement, no handler slower than its lock and no *)
(* replay. Such a fleet excludes a second runner, implements JobLease,     *)
(* never touches a settled job and buries one only for a cause.            *)
(*                                                                         *)
(* Solo: one process at a time with one poll chain. It may crash and be    *)
(* replaced any number of times, statements may be rejected and handlers   *)
(* outlive their locks, but there is no rolling deployment, no graceful    *)
(* shutdown, no poll on request and no replay. Such a process keeps the    *)
(* history of attempts in order and final, and within its budget.          *)
(*                                                                         *)
(* Without the hypotheses these statements are false (see the run          *)
(* AutomationDoubleRecovery).                                              *)
(***************************************************************************)
EXTENDS AutomationWorkerProofs, FiniteSetTheorems

\* Nothing goes wrong but handlers.
Healthy == Adversity \subseteq {"fatal"}

\* Where the job in `cur` is one that the tick has claimed and not yet settled.
Working == {"open", "running", "succeed", "failRead", "failWrite"}

\* Tick t has claimed job j and not yet written its outcome.
Owns(t, j) == j \in batch[t] \/ (pc[t] \in Working /\ cur[t] = j)

\* Processes only start; nobody replays; no lock is stale, so none is recovered.
Calm ==
  /\ \A w \in Workers : worker[w] \in {"new", "up"} /\ releasing[w] = NoJob
  /\ \A a \in Operators : replaying[a] = NoJob
  /\ \A j \in Jobs : ~job[j].stale
  /\ \A t \in Ticks : toRecover[t] = {} /\ pc[t] # "recoverClose"
  /\ \A t \in Ticks : pc[t] # "idle" => worker[t[1]] = "up"

\* A tick has jobs in hand only after it claimed, and each of them once.
TickOrder ==
  \A t \in Ticks :
    /\ pc[t] \in {"idle", "recover"} => batch[t] = {}
    /\ pc[t] \in Working => cur[t] \notin batch[t]

\* The running jobs are the owned ones, each owned once and by the lock's holder.
Ownership ==
  /\ \A t \in Ticks, j \in Jobs :
       Owns(t, j) => HasStatus(j, "running") /\ job[j].lockedBy = t[1]
  /\ \A t, u \in Ticks, j \in Jobs : Owns(t, j) /\ Owns(u, j) => t = u
  /\ \A j \in Jobs : HasStatus(j, "running") => \E t \in Ticks : Owns(t, j)

FleetInv == IInv /\ Calm /\ TickOrder /\ Ownership

-----------------------------------------------------------------------------
(* How a step may move ownership *)

\* Nobody claims and nobody settles.
LEMMA OwnershipSame ==
  ASSUME Ownership,
         \A u \in Ticks, i \in Jobs : Owns(u, i)' <=> Owns(u, i),
         \A i \in Jobs : HasStatus(i, "running")' <=> HasStatus(i, "running"),
         \A i \in Jobs : HasStatus(i, "running") => job'[i].lockedBy = job[i].lockedBy
  PROVE  Ownership'
BY DEF Ownership

\* Tick t claims a job that was not running.
LEMMA OwnershipGained ==
  ASSUME Ownership, NEW t \in Ticks, NEW j \in Jobs, ~HasStatus(j, "running"),
         HasStatus(j, "running")' /\ job'[j].lockedBy = t[1],
         \A u \in Ticks, i \in Jobs : Owns(u, i)' <=> Owns(u, i) \/ (u = t /\ i = j),
         \A i \in Jobs \ {j} : job'[i] = job[i]
  PROVE  Ownership'
<1>1. \A i \in Jobs \ {j} : /\ HasStatus(i, "running")' <=> HasStatus(i, "running")
                            /\ job'[i].lockedBy = job[i].lockedBy
  BY DEF HasStatus
<1>2. \A u \in Ticks : ~Owns(u, j)
  BY DEF Ownership
<1>. QED BY <1>1, <1>2 DEF Ownership

\* Tick t settles a job it owns.
LEMMA OwnershipLost ==
  ASSUME Ownership, NEW t \in Ticks, NEW j \in Jobs, Owns(t, j),
         ~HasStatus(j, "running")',
         \A u \in Ticks, i \in Jobs : Owns(u, i)' <=> Owns(u, i) /\ ~(u = t /\ i = j),
         \A i \in Jobs \ {j} : job'[i] = job[i]
  PROVE  Ownership'
<1>1. \A i \in Jobs \ {j} : /\ HasStatus(i, "running")' <=> HasStatus(i, "running")
                            /\ job'[i].lockedBy = job[i].lockedBy
  BY DEF HasStatus
<1>2. \A u \in Ticks : ~Owns(u, j)'
  BY DEF Ownership
<1>. QED BY <1>1, <1>2 DEF Ownership

-----------------------------------------------------------------------------
(* Steps of a healthy fleet *)

LEMMA FleetInit == Init => FleetInv
<1>. SUFFICES ASSUME Init PROVE FleetInv
  OBVIOUS
<1>1. IInv
  BY InitInv
<1>2. \A j \in Jobs : job[j].status = "absent" /\ ~job[j].stale
  BY DEF Init, QueueInit, AbsentRow
<1>3. Calm /\ TickOrder
  BY <1>2 DEF Init, Calm, TickOrder, Working
<1>4. Ownership
  BY <1>2 DEF Init, Ownership, Owns, Working, HasStatus
<1>. QED BY <1>1, <1>3, <1>4 DEF FleetInv

\* A lock that somebody minds does not expire.
LEMMA LocksHold ==
  ASSUME FleetInv, Healthy, NEW j \in Jobs
  PROVE  ~LockExpires(j)
<1>. SUFFICES ASSUME LockExpires(j) PROVE FALSE
  OBVIOUS
<1>. USE DEF FleetInv
<1>1. HasStatus(j, "running") /\ ~HeldAlive(j)
  BY DEF LockExpires, Healthy
<1>2. PICK t \in Ticks : Owns(t, j)
  BY <1>1 DEF Ownership
<1>3. j \in InHand(t)
  BY <1>2, WorkerAssumption DEF Owns, InHand
<1>4. pc[t] # "idle"
  BY <1>2 DEF TickOrder, Owns, Working
<1>5. Live(t[1])
  BY <1>4 DEF Calm, Live
<1>. QED BY <1>1, <1>3, <1>5 DEF HeldAlive

\* The clock and the clients.
LEMMA FleetCallers ==
  ASSUME FleetInv, Healthy,
         \/ \E j \in Jobs : Enqueue(j) \/ BackoffElapses(j) \/ LockExpires(j)
         \/ \E a \in Operators : ReplayWrite(a) \/ \E j \in Jobs : ReplayRead(a, j)
  PROVE  Calm' /\ TickOrder' /\ Ownership'
<1>. USE DEF FleetInv
<1>1. ~\E a \in Operators : ReplayWrite(a) \/ \E j \in Jobs : ReplayRead(a, j)
  BY DEF Calm, ReplayWrite, ReplayRead, Healthy
<1>2. ~\E j \in Jobs : LockExpires(j)
  BY LocksHold
<1>3. ASSUME NEW j \in Jobs, Enqueue(j) \/ BackoffElapses(j)
      PROVE  Calm' /\ TickOrder' /\ Ownership'
  <2>1. UNCHANGED <<workerVars, tickVars, replayVars>>
    BY <1>3 DEF Enqueue, BackoffElapses
  <2>2. /\ \A i \in Jobs : job'[i].stale = job[i].stale
        /\ \A i \in Jobs : job'[i].lockedBy = job[i].lockedBy
        /\ \A i \in Jobs : HasStatus(i, "running")' <=> HasStatus(i, "running")
    <3>1. \A i \in Jobs : job[i] \in JobRow
      BY RowsGood
    <3>2. CASE Enqueue(j)
      <4>1. PICK d \in BOOLEAN : job' = [job EXCEPT ![j] = [job[j] EXCEPT !.status = "queued", !.due = d]]
        BY <3>2 DEF Enqueue, IInv, TypeOK, QueueTypeOK
      <4>2. job[j].status = "absent"
        BY <3>2 DEF Enqueue, HasStatus
      <4>. QED BY <3>1, <4>1, <4>2 DEF HasStatus, JobRow
    <3>3. CASE BackoffElapses(j)
      <4>1. job' = [job EXCEPT ![j] = [job[j] EXCEPT !.due = TRUE]]
        BY <3>3 DEF BackoffElapses, IInv, TypeOK, QueueTypeOK
      <4>. QED BY <3>1, <4>1 DEF HasStatus, JobRow
    <3>. QED BY <1>3, <3>2, <3>3
  <2>3. Calm' /\ TickOrder'
    BY <2>1, <2>2 DEF Calm, TickOrder, workerVars, tickVars, replayVars
  <2>4. \A u \in Ticks, i \in Jobs : Owns(u, i)' <=> Owns(u, i)
    BY <2>1 DEF Owns, tickVars
  <2>. QED BY <2>2, <2>3, <2>4, OwnershipSame
<1>. QED BY <1>1, <1>2, <1>3

\* Processes start; nothing else happens to them.
LEMMA FleetProcesses ==
  ASSUME FleetInv, Healthy, NEW w \in Workers,
         StartWorker(w) \/ Crash(w) \/ DrainBegin(w) \/ ShutdownStep(w)
  PROVE  Calm' /\ TickOrder' /\ Ownership'
<1>. USE DEF FleetInv
<1>1. ~(Crash(w) \/ DrainBegin(w))
  BY DEF Crash, DrainBegin, Healthy
<1>2. ~ShutdownStep(w)
  BY DEF ShutdownStep, DrainDone, DrainDeadline, ReleaseClose, ReleaseDone, Exit, ReleaseOne, Calm
<1>3. StartWorker(w)
  BY <1>1, <1>2
<1>4. /\ worker' = [worker EXCEPT ![w] = "up"]
      /\ UNCHANGED <<queueVars, held, releasing, tickVars, replayVars>>
  BY <1>3 DEF StartWorker
<1>5. Calm' /\ TickOrder'
  BY <1>4 DEF Calm, TickOrder, IInv, TypeOK, queueVars, tickVars, replayVars, Ticks
<1>6. /\ \A u \in Ticks, i \in Jobs : Owns(u, i)' <=> Owns(u, i)
      /\ \A i \in Jobs : HasStatus(i, "running")' <=> HasStatus(i, "running")
      /\ \A i \in Jobs : job'[i].lockedBy = job[i].lockedBy
  BY <1>4 DEF Owns, HasStatus, tickVars, queueVars
<1>. QED BY <1>5, <1>6, OwnershipSame

-----------------------------------------------------------------------------
(* Steps of a poll *)

\* A poll's own bookkeeping, which neither claims nor settles a job.
LEMMA FleetBookkeeping ==
  ASSUME FleetInv, NEW t \in Ticks,
         TickStart(t) \/ ClaimRead(t) \/ OpenClaimed(t) \/ HandlerSettles(t)
           \/ FinishJob(t) \/ TickEnd(t)
  PROVE  Calm' /\ TickOrder' /\ Ownership'
<1>. USE DEF FleetInv
<1>1. /\ UNCHANGED <<job, workerVars, replayVars>>
      /\ toRecover' \in [Ticks -> SUBSET Jobs]
      /\ \A u \in Ticks : toRecover'[u] = {}
  <2>1. StaleJobs = {}
    BY DEF StaleJobs, Calm
  <2>. QED
    BY <2>1 DEF TickStart, ClaimRead, OpenClaimed, HandlerSettles, FinishJob, TickEnd, ClearTicks,
       queueVars, IInv, TypeOK, Calm
<1>2. /\ \A u \in Ticks \ {t} : pc'[u] = pc[u] /\ batch'[u] = batch[u] /\ cur'[u] = cur[u]
      /\ pc'[t] # "recoverClose"
      /\ pc'[t] # "idle" => worker[t[1]] = "up"
  BY DEF TickStart, ClaimRead, OpenClaimed, HandlerSettles, FinishJob, TickEnd, ClearTicks, Goto,
     AfterHandler, IInv, TypeOK, Calm
<1>3. Calm'
  BY <1>1, <1>2 DEF Calm, workerVars, replayVars
<1>4. TickOrder'
  BY <1>2 DEF TickOrder, Working, TickStart, ClaimRead, OpenClaimed, HandlerSettles, FinishJob,
     TickEnd, ClearTicks, Goto, AfterHandler, IInv, TypeOK
<1>5. \A i \in Jobs : Owns(t, i)' <=> Owns(t, i)
  <2>1. CASE OpenClaimed(t)
    BY <2>1 DEF OpenClaimed, Goto, Owns, Working, IInv, TypeOK
  <2>2. CASE TickStart(t) \/ ClaimRead(t) \/ HandlerSettles(t) \/ FinishJob(t) \/ TickEnd(t)
    BY <2>2 DEF TickStart, ClaimRead, HandlerSettles, FinishJob, TickEnd, ClearTicks,
       Goto, AfterHandler, Owns, Working, IInv, TypeOK
  <2>. QED BY <2>1, <2>2
<1>6. \A u \in Ticks, i \in Jobs : Owns(u, i)' <=> Owns(u, i)
  BY <1>2, <1>5 DEF Owns
<1>7. \A i \in Jobs : /\ HasStatus(i, "running")' <=> HasStatus(i, "running")
                      /\ job'[i].lockedBy = job[i].lockedBy
  BY <1>1 DEF HasStatus
<1>. QED BY <1>3, <1>4, <1>6, <1>7, OwnershipSame

\* The compare-and-swap claims a job that nobody owns, or skips it.
LEMMA FleetClaim ==
  ASSUME FleetInv, NEW t \in Ticks, NEW c \in candidates[t], ClaimOne(t, c)
  PROVE  Calm' /\ TickOrder' /\ Ownership'
<1>. USE DEF FleetInv
<1>1. c \in [job : Jobs, seen : Nat] /\ c.job \in Jobs /\ NextAttempt(c.seen) \in Nat
  BY DEF IInv, TypeOK, NextAttempt
<1>2. t[1] \in Workers /\ t[1] # NoWorker
  BY QueueAssumption DEF Ticks
<1>3. /\ UNCHANGED <<workerVars, replayVars, toRecover, batch>>
      /\ pc[t] = "claim"
  BY DEF ClaimOne
<1>4. CASE ~StillQueued(c.job)
  <2>1. UNCHANGED <<job, cur, pc>>
    BY <1>4 DEF ClaimOne
  <2>2. \A u \in Ticks, i \in Jobs : Owns(u, i)' <=> Owns(u, i)
    BY <1>3, <2>1 DEF Owns
  <2>3. Calm' /\ TickOrder'
    BY <1>3, <2>1 DEF Calm, TickOrder, workerVars, replayVars
  <2>. QED BY <2>1, <2>2, <2>3, OwnershipSame DEF HasStatus
<1>5. CASE StillQueued(c.job)
  <2>. DEFINE j == c.job
              r == ClaimedRow(job[j], t[1], NextAttempt(c.seen))
  <2>1. /\ job' = [job EXCEPT ![j] = r]
        /\ cur' = [cur EXCEPT ![t] = j]
        /\ pc' = [pc EXCEPT ![t] = "open"]
    BY <1>4, <1>5 DEF ClaimOne, Goto
  <2>2. r.status = "running" /\ r.lockedBy = t[1] /\ ~r.stale
    BY <1>1, <1>2, RowsGood DEF ClaimedRow, JobRow
  <2>3. ~HasStatus(j, "running")
    BY <1>5 DEF StillQueued, HasStatus
  <2>4. j \notin batch[t]
    BY <1>1, <2>3 DEF Ownership, Owns
  <2>. HIDE DEF r
  <2>5. /\ job'[j] = r
        /\ \A i \in Jobs \ {j} : job'[i] = job[i]
    BY <1>1, <2>1 DEF IInv, TypeOK, QueueTypeOK
  <2>6. /\ cur'[t] = j /\ pc'[t] = "open"
        /\ \A u \in Ticks \ {t} : cur'[u] = cur[u] /\ pc'[u] = pc[u]
    BY <2>1 DEF IInv, TypeOK
  <2>. HIDE DEF j
  <2>7. Calm' /\ TickOrder'
    BY <1>3, <2>2, <2>4, <2>5, <2>6 DEF Calm, TickOrder, Working, workerVars, replayVars
  <2>8. \A u \in Ticks, i \in Jobs : Owns(u, i)' <=> Owns(u, i) \/ (u = t /\ i = j)
    BY <1>3, <2>6 DEF Owns, Working
  <2>9. j \in Jobs
    BY <1>1 DEF j
  <2>. QED
    <3>1. HasStatus(j, "running")' /\ job'[j].lockedBy = t[1]
      BY <2>2, <2>5 DEF HasStatus
    <3>2. Ownership /\ \A i \in Jobs \ {j} : job'[i] = job[i]
      BY <2>5
    <3>. HIDE DEF FleetInv
    <3>3. Ownership'
      BY <2>3, <2>8, <2>9, <3>1, <3>2, OwnershipGained
    <3>. QED BY <2>7, <3>3
<1>. QED BY <1>4, <1>5

\* The tick turns to the next job of its batch.
LEMMA FleetStartJob ==
  ASSUME FleetInv, NEW t \in Ticks, NEW j \in Jobs, StartJob(t, j)
  PROVE  Calm' /\ TickOrder' /\ Ownership'
<1>. USE DEF FleetInv
<1>1. /\ UNCHANGED <<job, workerVars, replayVars, toRecover>>
      /\ pc[t] = "claim" /\ j \in batch[t]
      /\ cur'[t] = j /\ batch'[t] = batch[t] \ {j} /\ pc'[t] = "running"
      /\ \A u \in Ticks \ {t} : pc'[u] = pc[u] /\ batch'[u] = batch[u] /\ cur'[u] = cur[u]
  BY DEF StartJob, Goto, queueVars, IInv, TypeOK
<1>2. Calm' /\ TickOrder'
  BY <1>1 DEF Calm, TickOrder, Working, workerVars, replayVars
<1>3. \A u \in Ticks, i \in Jobs : Owns(u, i)' <=> Owns(u, i)
  BY <1>1 DEF Owns, Working
<1>. QED BY <1>1, <1>2, <1>3, OwnershipSame DEF HasStatus

\* The outcome is written while the tick owns the job, and ends its ownership.
LEMMA FleetSettles ==
  ASSUME FleetInv, NEW t \in Ticks, MarkSucceeded(t) \/ FailRead(t) \/ FailWrite(t)
  PROVE  Calm' /\ TickOrder' /\ Ownership'
<1>. USE DEF FleetInv
<1>. DEFINE j == cur[t]
<1>1. j \in Jobs /\ Owns(t, j) /\ pc[t] \in Working
  BY DEF MarkSucceeded, FailRead, FailWrite, Owns, Working, IInv, TickInv, InFlightPcs
<1>2. HasStatus(j, "running") /\ j \notin batch[t]
  BY <1>1 DEF Ownership, TickOrder
<1>3. MayFail(j)
  BY <1>2 DEF MayFail, IsTerminal, HasStatus, TerminalJobStatuses
<1>4. UNCHANGED <<workerVars, replayVars, toRecover, batch, cur>>
  BY <1>2, <1>3 DEF MarkSucceeded, FailRead, FailWrite
<1>5. CASE FailRead(t)
  <2>1. UNCHANGED job /\ pc' = [pc EXCEPT ![t] = "failWrite"] /\ pc[t] = "failRead"
    BY <1>3, <1>5 DEF FailRead, Goto, queueVars
  <2>2. Calm' /\ TickOrder'
    BY <1>4, <2>1 DEF Calm, TickOrder, Working, workerVars, replayVars, IInv, TypeOK
  <2>3. \A u \in Ticks, i \in Jobs : Owns(u, i)' <=> Owns(u, i)
    BY <1>4, <2>1 DEF Owns, Working, IInv, TypeOK
  <2>. QED BY <2>1, <2>2, <2>3, OwnershipSame DEF HasStatus
<1>6. CASE MarkSucceeded(t) \/ FailWrite(t)
  <2>1. PICK l \in {"closeSucceeded", "closeFailed"} : \E r :
           /\ job' = [job EXCEPT ![j] = r]
           /\ r.status # "running" /\ ~r.stale
           /\ pc' = [pc EXCEPT ![t] = l]
    <3>1. job[j] \in JobRow /\ ~job[j].stale
      BY <1>1, RowsGood DEF Calm
    <3>2. CASE MarkSucceeded(t)
      <4>1. /\ job' = [job EXCEPT ![j] = Unlocked(job[j], "succeeded")]
            /\ pc' = [pc EXCEPT ![t] = "closeSucceeded"]
        BY <1>2, <3>2 DEF MarkSucceeded, Goto
      <4>2. LET r == Unlocked(job[j], "succeeded")
            IN  r.status # "running" /\ ~r.stale
        BY <3>1 DEF Unlocked, JobRow
      <4>. QED BY <4>1, <4>2
    <3>3. CASE FailWrite(t)
      <4>1. /\ job' = [job EXCEPT ![j] = FailedRow(job[j], verdict[t])]
            /\ pc' = [pc EXCEPT ![t] = "closeFailed"]
            /\ verdict[t] \in {"queued", "dead_letter"}
        BY <3>3 DEF FailWrite, Goto, IInv, TickInv
      <4>2. LET r == FailedRow(job[j], verdict[t])
            IN  r.status # "running" /\ ~r.stale
        BY <3>1, <4>1 DEF FailedRow, Unlocked, JobRow
      <4>. QED BY <4>1, <4>2
    <3>. QED BY <1>6, <3>2, <3>3
  <2>2. /\ job'[j].status # "running" /\ ~job'[j].stale
        /\ \A i \in Jobs \ {j} : job'[i] = job[i]
    BY <1>1, <2>1 DEF IInv, TypeOK, QueueTypeOK
  <2>3. /\ pc'[t] = l
        /\ \A u \in Ticks \ {t} : pc'[u] = pc[u]
    BY <2>1 DEF IInv, TypeOK
  <2>4. worker[t[1]] = "up"
    BY <1>1 DEF Calm, Working
  <2>5. Calm' /\ TickOrder'
    BY <1>4, <2>2, <2>3, <2>4 DEF Calm, TickOrder, Working, workerVars, replayVars
  <2>6. \A u \in Ticks, i \in Jobs : Owns(u, i)' <=> Owns(u, i) /\ ~(u = t /\ i = j)
    BY <1>1, <1>2, <1>4, <2>3 DEF Owns, Working
  <2>. QED
    BY <1>1, <2>2, <2>5, <2>6, OwnershipLost DEF HasStatus
<1>. QED BY <1>5, <1>6

LEMMA FleetNext == FleetInv /\ Healthy /\ [Next]_vars => FleetInv'
<1>. SUFFICES ASSUME FleetInv, Healthy, [Next]_vars PROVE FleetInv'
  OBVIOUS
<1>1. IInv'
  BY NextInv DEF FleetInv
<1>2. CASE UNCHANGED vars
  <2>1. Calm' /\ TickOrder'
    BY <1>2 DEF FleetInv, Calm, TickOrder, vars, queueVars, workerVars, tickVars, replayVars
  <2>2. /\ \A u \in Ticks, i \in Jobs : Owns(u, i)' <=> Owns(u, i)
        /\ UNCHANGED job
    BY <1>2 DEF Owns, vars, queueVars, tickVars
  <2>3. Ownership'
    BY <2>2, OwnershipSame DEF FleetInv, HasStatus
  <2>. QED BY <1>1, <2>1, <2>3 DEF FleetInv
<1>3. ASSUME NEW t \in Ticks, TickStep(t) \/ StatementFails(t)
      PROVE  FleetInv'
  <2>1. ~StatementFails(t)
    BY DEF StatementFails, Healthy
  <2>2. ~RecoverClose(t) /\ ~\E j \in Jobs : RecoverOne(t, j)
    BY DEF FleetInv, Calm, RecoverClose, RecoverOne
  <2>. QED
    BY <1>1, <1>3, <2>1, <2>2, FleetBookkeeping, FleetClaim, FleetStartJob, FleetSettles
    DEF TickStep, FleetInv
<1>. QED
  BY <1>1, <1>2, <1>3, FleetCallers, FleetProcesses DEF Next, FleetInv

-----------------------------------------------------------------------------
\* In a healthy fleet of any size no two polls ever run the handler of one job
\* at the same time: the claim of claimDue alone excludes them.
THEOREM Exclusive == Healthy => (Spec => []SingleRunner)
<1>. SUFFICES ASSUME Healthy PROVE Spec => []SingleRunner
  OBVIOUS
<1>1. FleetInv => SingleRunner
  <2>. SUFFICES ASSUME FleetInv, NEW j \in Jobs
                PROVE  Cardinality(Runners(j)) <= 1
    BY DEF SingleRunner
  <2>1. \A t \in Runners(j) : t \in Ticks /\ Owns(t, j)
    BY DEF Runners, Owns, Working
  <2>2. \A t, u \in Runners(j) : t = u
    BY <2>1 DEF FleetInv, Ownership
  <2>3. Cardinality({}) = 0
    BY FS_EmptySet
  <2>4. ASSUME NEW t PROVE Cardinality({t}) = 1
    BY FS_Singleton
  <2>5. CASE Runners(j) = {}
    BY <2>3, <2>5
  <2>6. ASSUME NEW t \in Runners(j)
        PROVE  Cardinality(Runners(j)) <= 1
    <3>1. Runners(j) = {t}
      BY <2>2, <2>6
    <3>. QED BY <2>4, <3>1
  <2>. QED BY <2>5, <2>6
<1>2. Init => FleetInv
  BY FleetInit
<1>3. FleetInv /\ [Next]_vars => FleetInv'
  BY FleetNext
<1>. QED BY <1>1, <1>2, <1>3, PTL DEF Spec

\* In a healthy fleet a handler runs only while its own process has the lock.
THEOREM OwnLock == Healthy => (Spec => []RunsUnderOwnLock)
<1>. SUFFICES ASSUME Healthy PROVE Spec => []RunsUnderOwnLock
  OBVIOUS
<1>1. FleetInv => RunsUnderOwnLock
  BY DEF FleetInv, Ownership, RunsUnderOwnLock, Runners, Owns, Working
<1>2. Init => FleetInv
  BY FleetInit
<1>3. FleetInv /\ [Next]_vars => FleetInv'
  BY FleetNext
<1>. QED BY <1>1, <1>2, <1>3, PTL DEF Spec

-----------------------------------------------------------------------------
(* Every step of a healthy fleet is a step of the lease *)

\* Tick t executes the handler of j.
Runs(t, j) == pc[t] = "running" /\ cur[t] = j

\* Nothing the lease can see of job i changes.
SameLease(i) ==
  /\ job'[i].status = job[i].status
  /\ job'[i].lockedBy = job[i].lockedBy
  /\ \A t \in Ticks : Runs(t, i)' <=> Runs(t, i)

\* The steps of JobLease but Kill and Reopen, which no healthy fleet takes.
LeaseMove ==
  \/ UNCHANGED Lease!leaseVars
  \/ \E j \in Jobs : Lease!Submit(j) \/ Lease!End(j) \/ Lease!Finish(j)
  \/ \E j \in Jobs, w \in Workers : Lease!Grant(j, w)
  \/ \E j \in Jobs, t \in Workers \X Lanes : Lease!Begin(j, t)

LEMMA RunnersCalm ==
  ASSUME Calm, NEW j \in Jobs
  PROVE  Runners(j) = {t \in Ticks : Runs(t, j)}
BY DEF Calm, Runners, Runs, Live

LEMMA NothingMoves ==
  ASSUME Calm, Calm', \A i \in Jobs : SameLease(i)
  PROVE  LeaseMove
<1>1. \A i \in Jobs : Runners(i)' = Runners(i)
  <2>1. \A i \in Jobs : Runners(i) = {t \in Ticks : Runs(t, i)}
    BY RunnersCalm
  <2>2. \A i \in Jobs : Runners(i)' = {t \in Ticks : Runs(t, i)'}
    BY DEF Calm, Runners, Runs, Live
  <2>. QED BY <2>1, <2>2 DEF SameLease
<1>. QED BY <1>1 DEF LeaseMove, SameLease, Lease!leaseVars

\* One job moves: the mapped variables change at that job only, if at all.
LEMMA OneMoves ==
  ASSUME Calm, Calm', NEW j \in Jobs, \A i \in Jobs \ {j} : SameLease(i)
  PROVE  LET status == [i \in Jobs |-> job[i].status]
             holder == [i \in Jobs |-> job[i].lockedBy]
             active == [i \in Jobs |-> Runners(i)]
             now    == {t \in Ticks : Runs(t, j)'}
         IN  /\ status' = [status EXCEPT ![j] = job'[j].status]
             /\ holder' = [holder EXCEPT ![j] = job'[j].lockedBy]
             /\ active' = [active EXCEPT ![j] = now]
             /\ status[j] = job[j].status /\ holder[j] = job[j].lockedBy
             /\ active[j] = {t \in Ticks : Runs(t, j)}
             /\ job'[j].status = job[j].status => UNCHANGED status
             /\ job'[j].lockedBy = job[j].lockedBy => UNCHANGED holder
             /\ now = active[j] => UNCHANGED active
<1>1. \A i \in Jobs : Runners(i) = {t \in Ticks : Runs(t, i)}
  BY RunnersCalm
<1>2. \A i \in Jobs : Runners(i)' = {t \in Ticks : Runs(t, i)'}
  BY DEF Calm, Runners, Runs, Live
<1>3. \A i \in Jobs \ {j} : Runners(i)' = Runners(i)
  BY <1>1, <1>2 DEF SameLease
<1>. QED BY <1>1, <1>2, <1>3 DEF SameLease

\* Enqueue submits; the clock, and a process that starts, are invisible.
LEMMA CallersMove ==
  ASSUME FleetInv, Calm',
         \/ \E j \in Jobs : Enqueue(j) \/ BackoffElapses(j)
         \/ \E w \in Workers : StartWorker(w)
  PROVE  LeaseMove
<1>. USE DEF FleetInv
<1>1. UNCHANGED tickVars
  BY DEF Enqueue, BackoffElapses, StartWorker
<1>2. \A i \in Jobs, t \in Ticks : Runs(t, i)' <=> Runs(t, i)
  BY <1>1 DEF Runs, tickVars
<1>3. CASE \E w \in Workers : StartWorker(w)
  BY <1>2, <1>3, NothingMoves DEF StartWorker, queueVars, SameLease
<1>4. ASSUME NEW j \in Jobs, BackoffElapses(j) PROVE LeaseMove
  <2>1. /\ job' = [job EXCEPT ![j] = [job[j] EXCEPT !.due = TRUE]]
        /\ \A i \in Jobs : job[i] \in JobRow
    BY <1>4, RowsGood DEF BackoffElapses, IInv, TypeOK, QueueTypeOK
  <2>2. \A i \in Jobs : SameLease(i)
    BY <1>2, <2>1 DEF SameLease, JobRow, IInv, TypeOK, QueueTypeOK
  <2>. QED BY <2>2, NothingMoves
<1>5. ASSUME NEW j \in Jobs, Enqueue(j) PROVE LeaseMove
  <2>1. PICK d \in BOOLEAN :
           job' = [job EXCEPT ![j] = [job[j] EXCEPT !.status = "queued", !.due = d]]
    BY <1>5 DEF Enqueue, IInv, TypeOK, QueueTypeOK
  <2>2. job[j] \in JobRow /\ job[j].status = "absent"
    BY <1>5, RowsGood DEF Enqueue, HasStatus
  <2>3. job'[j].status = "queued" /\ job'[j].lockedBy = job[j].lockedBy
    BY <2>1, <2>2 DEF JobRow, IInv, TypeOK, QueueTypeOK
  <2>4. \A i \in Jobs \ {j} : SameLease(i)
    BY <1>2, <2>1 DEF SameLease, IInv, TypeOK, QueueTypeOK
  <2>5. {t \in Ticks : Runs(t, j)'} = {t \in Ticks : Runs(t, j)}
    BY <1>2
  <2>6. Lease!Submit(j)
    BY <2>2, <2>3, <2>4, <2>5, OneMoves DEF Lease!Submit
  <2>. QED BY <2>6 DEF LeaseMove
<1>. QED BY <1>3, <1>4, <1>5

\* The lease is granted by the claim.
LEMMA ClaimMoves ==
  ASSUME FleetInv, Calm', NEW t \in Ticks, NEW c \in candidates[t], ClaimOne(t, c)
  PROVE  LeaseMove
<1>. USE DEF FleetInv
<1>1. c \in [job : Jobs, seen : Nat] /\ c.job \in Jobs /\ NextAttempt(c.seen) \in Nat
  BY DEF IInv, TypeOK, NextAttempt
<1>2. t[1] \in Workers
  BY DEF Ticks
<1>3. \A i \in Jobs, u \in Ticks : Runs(u, i)' <=> Runs(u, i)
  BY DEF ClaimOne, Goto, Runs, IInv, TypeOK
<1>4. CASE ~StillQueued(c.job)
  BY <1>3, <1>4, NothingMoves DEF ClaimOne, SameLease
<1>5. CASE StillQueued(c.job)
  <2>. PICK j \in Jobs : j = c.job
    BY <1>1
  <2>. DEFINE r == ClaimedRow(job[j], t[1], NextAttempt(c.seen))
  <2>1. job' = [job EXCEPT ![j] = r] /\ job[j].status = "queued"
    BY <1>5 DEF ClaimOne, StillQueued, HasStatus
  <2>2. r.status = "running" /\ r.lockedBy = t[1]
    BY <1>1, <1>2, RowsGood DEF ClaimedRow, JobRow
  <2>3. \A u \in Ticks : ~Runs(u, j)
    BY <1>1, <2>1 DEF Ownership, Owns, Runs, Working, HasStatus
  <2>. HIDE DEF r
  <2>4. job'[j] = r /\ \A i \in Jobs \ {j} : SameLease(i)
    BY <1>1, <1>3, <2>1 DEF SameLease, IInv, TypeOK, QueueTypeOK
  <2>5. {u \in Ticks : Runs(u, j)} = {} /\ {u \in Ticks : Runs(u, j)'} = {}
    BY <1>3, <2>3
  <2>6. /\ job[j].status = "queued" /\ job'[j].status = "running"
        /\ job'[j].lockedBy = t[1]
        /\ \A i \in Jobs \ {j} : SameLease(i)
    BY <2>1, <2>2, <2>4
  <2>. HIDE DEF FleetInv
  <2>7. \A w : w = t[1] => Lease!Grant(j, w)
    BY <2>5, <2>6, OneMoves DEF Lease!Grant, FleetInv
  <2>. QED BY <1>2, <2>7 DEF LeaseMove
<1>. QED BY <1>4, <1>5

\* The work begins under the lease of the tick's own process.
LEMMA StartMoves ==
  ASSUME FleetInv, Calm', NEW t \in Ticks, NEW j \in Jobs, StartJob(t, j)
  PROVE  LeaseMove
<1>. USE DEF FleetInv
<1>1. /\ UNCHANGED job
      /\ pc[t] = "claim" /\ j \in batch[t]
      /\ cur'[t] = j /\ pc'[t] = "running"
      /\ \A u \in Ticks \ {t} : pc'[u] = pc[u] /\ cur'[u] = cur[u]
  BY DEF StartJob, Goto, queueVars, IInv, TypeOK
<1>2. job[j].status = "running" /\ job[j].lockedBy = t[1]
  BY <1>1 DEF Ownership, Owns, HasStatus
<1>3. \A u \in Ticks : ~Runs(u, j)
  BY <1>1 DEF Ownership, Owns, Runs, Working
<1>4. \A i \in Jobs \ {j} : SameLease(i)
  BY <1>1 DEF SameLease, Runs
<1>5. {u \in Ticks : Runs(u, j)} = {} /\ {u \in Ticks : Runs(u, j)'} = {t}
  BY <1>1, <1>3 DEF Runs
<1>6. Lease!Begin(j, t)
  BY <1>1, <1>2, <1>4, <1>5, OneMoves DEF Lease!Begin
<1>. QED BY <1>6 DEF LeaseMove, Ticks

\* The work ends when the handler settles.
LEMMA HandlerMoves ==
  ASSUME FleetInv, Calm', NEW t \in Ticks, HandlerSettles(t)
  PROVE  LeaseMove
<1>. USE DEF FleetInv
<1>1. /\ UNCHANGED <<job, cur>>
      /\ pc[t] = "running" /\ pc'[t] # "running"
      /\ \A u \in Ticks \ {t} : pc'[u] = pc[u]
  BY DEF HandlerSettles, Goto, AfterHandler, queueVars, IInv, TypeOK
<1>2. PICK j \in Jobs : j = cur[t]
  BY <1>1 DEF IInv, TickInv, InFlightPcs
<1>3. \A u \in Ticks : Runs(u, j) <=> u = t
  BY <1>1, <1>2 DEF Ownership, Owns, Runs, Working
<1>4. \A i \in Jobs \ {j} : SameLease(i)
  BY <1>1, <1>2 DEF SameLease, Runs
<1>5. \A u \in Ticks : ~Runs(u, j)'
  BY <1>1, <1>3 DEF Runs
<1>6. {u \in Ticks : Runs(u, j)} # {} /\ {u \in Ticks : Runs(u, j)'} = {}
  BY <1>3, <1>5
<1>7. Lease!End(j)
  BY <1>1, <1>2, <1>4, <1>6, OneMoves DEF Lease!End
<1>. QED BY <1>2, <1>7 DEF LeaseMove

\* The lease ends with the update that writes the outcome.
LEMMA OutcomeMoves ==
  ASSUME FleetInv, Calm', NEW t \in Ticks, MarkSucceeded(t) \/ FailRead(t) \/ FailWrite(t)
  PROVE  LeaseMove
<1>. USE DEF FleetInv
<1>1. PICK j \in Jobs : j = cur[t] /\ Owns(t, j)
  BY DEF MarkSucceeded, FailRead, FailWrite, Owns, Working, IInv, TickInv, InFlightPcs
<1>2. HasStatus(j, "running") /\ MayFail(j) /\ \A u \in Ticks : ~Runs(u, j)
  <2>1. \A u \in Ticks : Runs(u, j) => u = t
    BY <1>1 DEF Ownership, Owns, Runs, Working
  <2>2. HasStatus(j, "running") /\ ~Runs(t, j)
    BY <1>1 DEF Ownership, MarkSucceeded, FailRead, FailWrite, Runs
  <2>. QED BY <2>1, <2>2 DEF MayFail, IsTerminal, HasStatus, TerminalJobStatuses
<1>3. UNCHANGED cur
  BY <1>1, <1>2 DEF MarkSucceeded, FailRead, FailWrite
<1>4. /\ pc[t] # "running" /\ pc'[t] # "running"
      /\ \A u \in Ticks \ {t} : pc'[u] = pc[u]
  BY <1>1, <1>2 DEF MarkSucceeded, FailRead, FailWrite, Goto, IInv, TypeOK
<1>5. \A i \in Jobs, u \in Ticks : Runs(u, i)' <=> Runs(u, i)
  BY <1>3, <1>4 DEF Runs
<1>6. CASE FailRead(t)
  BY <1>5, <1>6, NothingMoves DEF FailRead, queueVars, SameLease
<1>7. CASE MarkSucceeded(t) \/ FailWrite(t)
  <2>1. PICK s \in {"succeeded", "dead_letter", "queued"} : \E r :
           /\ job' = [job EXCEPT ![j] = r]
           /\ r.status = s /\ r.lockedBy = NoWorker
    <3>1. job[j] \in JobRow
      BY RowsGood
    <3>2. CASE MarkSucceeded(t)
      <4>1. job' = [job EXCEPT ![j] = Unlocked(job[j], "succeeded")]
        BY <1>1, <1>2, <3>2 DEF MarkSucceeded
      <4>2. LET r == Unlocked(job[j], "succeeded")
            IN  r.status = "succeeded" /\ r.lockedBy = NoWorker
        BY <3>1 DEF Unlocked, JobRow
      <4>. QED BY <4>1, <4>2
    <3>3. CASE FailWrite(t)
      <4>1. /\ job' = [job EXCEPT ![j] = FailedRow(job[j], verdict[t])]
            /\ verdict[t] \in {"queued", "dead_letter"}
        BY <1>1, <3>3 DEF FailWrite, IInv, TickInv
      <4>2. LET r == FailedRow(job[j], verdict[t])
            IN  r.status = verdict[t] /\ r.lockedBy = NoWorker
        BY <3>1, <4>1 DEF FailedRow, Unlocked, JobRow
      <4>. QED BY <4>1, <4>2
    <3>. QED BY <1>7, <3>2, <3>3
  <2>2. /\ job'[j].status = s /\ job'[j].lockedBy = NoWorker
        /\ \A i \in Jobs \ {j} : SameLease(i)
    BY <1>5, <2>1 DEF SameLease, IInv, TypeOK, QueueTypeOK
  <2>3. {u \in Ticks : Runs(u, j)} = {} /\ {u \in Ticks : Runs(u, j)'} = {}
    BY <1>2, <1>5
  <2>4. job[j].status = "running"
    BY <1>2 DEF HasStatus
  <2>. HIDE DEF FleetInv
  <2>5. Lease!Finish(j)
    BY <2>2, <2>3, <2>4, OneMoves DEF Lease!Finish, FleetInv
  <2>. QED BY <2>5 DEF LeaseMove
<1>. QED BY <1>6, <1>7

LEMMA FleetMoves ==
  FleetInv /\ Healthy /\ [Next]_vars => LeaseMove
<1>. SUFFICES ASSUME FleetInv, Healthy, [Next]_vars PROVE LeaseMove
  OBVIOUS
<1>1. Calm'
  BY FleetNext DEF FleetInv
<1>2. CASE UNCHANGED vars
  <2>1. \A i \in Jobs : SameLease(i)
    BY <1>2 DEF SameLease, Runs, vars, queueVars, tickVars
  <2>. QED BY <1>1, <2>1, NothingMoves DEF FleetInv
<1>3. ASSUME NEW t \in Ticks, TickStep(t) \/ StatementFails(t)
      PROVE  LeaseMove
  <2>1. ~StatementFails(t)
    BY DEF StatementFails, Healthy
  <2>2. ~RecoverClose(t) /\ ~\E j \in Jobs : RecoverOne(t, j)
    BY DEF FleetInv, Calm, RecoverClose, RecoverOne
  <2>3. ASSUME TickStart(t) \/ ClaimRead(t) \/ OpenClaimed(t) \/ FinishJob(t) \/ TickEnd(t)
        PROVE  LeaseMove
    <3>1. UNCHANGED job
      BY <2>3 DEF TickStart, ClaimRead, OpenClaimed, FinishJob, TickEnd, queueVars
    <3>2. /\ pc[t] # "running" /\ pc'[t] # "running"
          /\ \A u \in Ticks \ {t} : pc'[u] = pc[u] /\ cur'[u] = cur[u]
      BY <2>3 DEF TickStart, ClaimRead, OpenClaimed, FinishJob, TickEnd, ClearTicks, Goto,
         FleetInv, IInv, TypeOK
    <3>3. \A i \in Jobs : SameLease(i)
      BY <3>1, <3>2 DEF SameLease, Runs
    <3>. QED BY <1>1, <3>3, NothingMoves DEF FleetInv
  <2>. QED
    BY <1>1, <1>3, <2>1, <2>2, <2>3, ClaimMoves, StartMoves, HandlerMoves, OutcomeMoves
    DEF TickStep
<1>4. ASSUME NEW w \in Workers, Crash(w) \/ DrainBegin(w) \/ ShutdownStep(w)
      PROVE  FALSE
  <2>1. ~(Crash(w) \/ DrainBegin(w))
    BY DEF Crash, DrainBegin, Healthy
  <2>2. ~ShutdownStep(w)
    BY DEF ShutdownStep, DrainDone, DrainDeadline, ReleaseClose, ReleaseDone, Exit, ReleaseOne,
       FleetInv, Calm
  <2>. QED BY <1>4, <2>1, <2>2
<1>5. ASSUME NEW j \in Jobs, LockExpires(j) PROVE FALSE
  BY <1>5, LocksHold
<1>6. ASSUME NEW a \in Operators, ReplayWrite(a) \/ \E j \in Jobs : ReplayRead(a, j)
      PROVE  FALSE
  BY <1>6 DEF FleetInv, Calm, ReplayWrite, ReplayRead, Healthy
<1>. QED
  BY <1>1, <1>2, <1>3, <1>4, <1>5, <1>6, CallersMove DEF Next

-----------------------------------------------------------------------------
\* In a healthy fleet of any size the queue and its workers implement the lease:
\* jobs are granted to one process, worked on by one of its polls, and settled
\* while nobody works on them.
THEOREM Refinement == Healthy => (Spec => ImplementsLease)
<1>. SUFFICES ASSUME Healthy PROVE Spec => ImplementsLease
  OBVIOUS
<1>1. Init => Lease!Init
  <2>. SUFFICES ASSUME Init PROVE Lease!Init
    OBVIOUS
  <2>1. \A j \in Jobs : job[j].status = "absent" /\ job[j].lockedBy = NoWorker
    BY DEF Init, QueueInit, AbsentRow
  <2>2. \A j \in Jobs : Runners(j) = {}
    BY DEF Init, Runners
  <2>. QED BY <2>1, <2>2 DEF Lease!Init
<1>2. LeaseMove => [Lease!Next]_(Lease!leaseVars)
  BY DEF LeaseMove, Lease!Next
<1>3. Init => FleetInv
  BY FleetInit
<1>4. FleetInv /\ [Next]_vars => FleetInv'
  BY FleetNext
<1>5. FleetInv /\ [Next]_vars => [Lease!Next]_(Lease!leaseVars)
  BY <1>2, FleetMoves
<1>. QED BY <1>1, <1>3, <1>4, <1>5, PTL DEF Spec, ImplementsLease, Lease!Spec

\* In a healthy fleet of any size no poll changes a job that is settled.
THEOREM Final == Healthy => (Spec => TerminalIsFinal)
<1>. SUFFICES ASSUME Healthy PROVE Spec => TerminalIsFinal
  OBVIOUS
<1>1. ASSUME LeaseMove, NEW j \in Jobs, IsTerminal(j)
      PROVE  job'[j].status = job[j].status
  BY <1>1 DEF LeaseMove, IsTerminal, TerminalJobStatuses, Lease!leaseVars, Lease!Submit, Lease!End,
     Lease!Finish, Lease!Grant, Lease!Begin
<1>2. FleetInv /\ [Next]_vars =>
        [\A j \in Jobs :
           IsTerminal(j) => \/ job'[j].status = job[j].status
                            \/ HasStatus(j, "dead_letter") /\ (\E a \in Operators : ReplayWrite(a))]_vars
  BY <1>1, FleetMoves
<1>3. Init => FleetInv
  BY FleetInit
<1>4. FleetInv /\ [Next]_vars => FleetInv'
  BY FleetNext
<1>. QED BY <1>2, <1>3, <1>4, PTL DEF Spec, TerminalIsFinal
-----------------------------------------------------------------------------
(* Why a healthy fleet buries a job *)

\* A verdict against the job has its reason, until it is written.
VerdictHasCause(t) ==
  /\ pc[t] = "failRead" /\ verdict[t] # "retryable" => "fatal" \in settled[cur[t]]
  /\ pc[t] = "failWrite" /\ verdict[t] = "dead_letter" =>
       "fatal" \in settled[cur[t]] \/ job[cur[t]].attemptCount >= MaxAttempts

\* A running job has been claimed, and its attempt counted.
RunningIsCounted == \A j \in Jobs : HasStatus(j, "running") => job[j].attemptCount >= 1

CauseInv ==
  /\ BuriedForCause
  /\ RunningIsCounted
  /\ \A t \in Ticks : VerdictHasCause(t)

\* A failed attempt is buried when the handler refused the job, or when it was
\* the last of the budget.
LEMMA BuriedAttempt ==
  ASSUME NEW n \in Nat, n >= 1, NEW b \in BOOLEAN,
         DecideFailure(n, MaxAttempts, b).nextStatus = "dead_letter"
  PROVE  ~b \/ n >= MaxAttempts
<1>1. AtLeast(1, n) = n /\ AtLeast(1, MaxAttempts) = MaxAttempts /\ MaxAttempts \in Nat
  BY QueueAssumption DEF AtLeast
<1>2. b /\ n < MaxAttempts => DecideFailure(n, MaxAttempts, b).nextStatus = "queued"
  BY <1>1 DEF DecideFailure
<1>. QED BY <1>1, <1>2

\* Steps that neither claim nor judge.
LEMMA CauseSame ==
  ASSUME FleetInv, CauseInv,
         \A j \in Jobs : /\ job'[j].attemptCount = job[j].attemptCount
                         /\ job'[j].status = job[j].status \/ job'[j].status \notin {"running", "dead_letter"},
         \A j \in Jobs : settled[j] \subseteq settled'[j],
         \A t \in Ticks : pc'[t] \in {"failRead", "failWrite"} =>
           \/ pc'[t] = pc[t] /\ cur'[t] = cur[t] /\ verdict'[t] = verdict[t]
           \/ VerdictHasCause(t)'
  PROVE  CauseInv'
<1>1. BuriedForCause' /\ RunningIsCounted'
  BY DEF CauseInv, BuriedForCause, RunningIsCounted, HasStatus
<1>2. ASSUME NEW t \in Ticks
      PROVE  VerdictHasCause(t)'
  <2>1. CASE pc'[t] = pc[t] /\ cur'[t] = cur[t] /\ verdict'[t] = verdict[t]
                /\ pc[t] \in {"failRead", "failWrite"}
    <3>1. cur[t] \in Jobs
      BY <2>1 DEF FleetInv, IInv, TickInv, InFlightPcs
    <3>. QED BY <2>1, <3>1 DEF CauseInv, VerdictHasCause
  <2>2. CASE pc'[t] \notin {"failRead", "failWrite"}
    BY <2>2 DEF VerdictHasCause
  <2>. QED BY <2>1, <2>2
<1>. QED BY <1>1, <1>2 DEF CauseInv

\* Steps on no row and no verdict.
LEMMA CauseQuiet ==
  ASSUME FleetInv, CauseInv, NEW t \in Ticks,
         \/ TickStart(t) \/ ClaimRead(t) \/ OpenClaimed(t) \/ FinishJob(t) \/ TickEnd(t)
         \/ \E j \in Jobs : StartJob(t, j)
  PROVE  CauseInv'
<1>1. UNCHANGED <<job, settled>>
  BY DEF TickStart, ClaimRead, OpenClaimed, FinishJob, TickEnd, StartJob, queueVars
<1>2. \A u \in Ticks : pc'[u] \in {"failRead", "failWrite"} =>
           pc'[u] = pc[u] /\ cur'[u] = cur[u] /\ verdict'[u] = verdict[u]
  BY DEF TickStart, ClaimRead, OpenClaimed, FinishJob, TickEnd, StartJob, ClearTicks, Goto,
         FleetInv, IInv, TypeOK
<1>. QED BY <1>1, <1>2, CauseSame

\* A claim counts the attempt, of a job that no verdict is about.
LEMMA CauseClaim ==
  ASSUME FleetInv, CauseInv, NEW t \in Ticks, NEW c \in candidates[t], ClaimOne(t, c)
  PROVE  CauseInv'
<1>1. c \in [job : Jobs, seen : Nat] /\ NextAttempt(c.seen) \in Nat /\ NextAttempt(c.seen) >= 1
  BY DEF FleetInv, IInv, TypeOK, NextAttempt
<1>2. \A u \in Ticks : pc'[u] \in {"failRead", "failWrite"} =>
           pc'[u] = pc[u] /\ cur'[u] = cur[u] /\ verdict'[u] = verdict[u]
  BY DEF ClaimOne, Goto, FleetInv, IInv, TypeOK
<1>3. settled' = settled
  BY DEF ClaimOne
<1>4. CASE UNCHANGED job
  BY <1>2, <1>3, <1>4, CauseSame
<1>5. CASE StillQueued(c.job) /\ job' = [job EXCEPT ![c.job] = ClaimedRow(@, t[1], NextAttempt(c.seen))]
  <2>. DEFINE i == c.job
              r == ClaimedRow(job[i], t[1], NextAttempt(c.seen))
  <2>1. i \in Jobs /\ job[i] \in JobRow
    BY <1>1, RowsGood DEF FleetInv
  <2>2. r.status = "running" /\ r.attemptCount >= 1
    BY <1>1, <2>1 DEF ClaimedRow, JobRow
  <2>3. ~HasStatus(i, "running")
    BY <1>5 DEF StillQueued, HasStatus
  <2>. HIDE DEF r
  <2>4. job'[i] = r /\ \A j \in Jobs \ {i} : job'[j] = job[j]
    BY <1>5, <2>1 DEF r, FleetInv, IInv, TypeOK, QueueTypeOK
  <2>. HIDE DEF i
  <2>5. BuriedForCause' /\ RunningIsCounted'
    BY <1>3, <2>2, <2>4 DEF CauseInv, BuriedForCause, RunningIsCounted, HasStatus
  <2>6. ASSUME NEW u \in Ticks
        PROVE  VerdictHasCause(u)'
    <3>1. CASE pc'[u] \notin {"failRead", "failWrite"}
      BY <3>1 DEF VerdictHasCause
    <3>2. CASE pc'[u] \in {"failRead", "failWrite"}
      <4>1. pc'[u] = pc[u] /\ cur'[u] = cur[u] /\ verdict'[u] = verdict[u]
        BY <1>2, <3>2
      <4>2. Owns(u, cur[u]) /\ cur[u] \in Jobs
        BY <3>2, <4>1 DEF Owns, Working, FleetInv, IInv, TickInv, InFlightPcs
      <4>3. cur[u] # i
        BY <2>3, <4>2 DEF FleetInv, Ownership
      <4>. QED BY <1>3, <2>4, <4>1, <4>2, <4>3 DEF CauseInv, VerdictHasCause
    <3>. QED BY <3>1, <3>2
  <2>. QED BY <2>5, <2>6 DEF CauseInv
<1>. QED BY <1>4, <1>5 DEF ClaimOne

\* The handler's end, the verdict and its execution.
LEMMA CauseVerdict ==
  ASSUME FleetInv, CauseInv, NEW t \in Ticks,
         HandlerSettles(t) \/ MarkSucceeded(t) \/ FailRead(t) \/ FailWrite(t)
  PROVE  CauseInv'
<1>. USE DEF FleetInv
<1>0. PICK j \in Jobs : j = cur[t] /\ Owns(t, j)
  BY DEF HandlerSettles, MarkSucceeded, FailRead, FailWrite, IInv, TickInv, InFlightPcs, Owns, Working
<1>1. HasStatus(j, "running") /\ job[j] \in JobRow /\ job[j].attemptCount \in Nat
  BY <1>0, RowsGood DEF Ownership, JobRow
<1>2. MayFail(j) /\ job[j].attemptCount >= 1
  BY <1>1 DEF MayFail, IsTerminal, HasStatus, TerminalJobStatuses, CauseInv, RunningIsCounted
<1>3. CASE HandlerSettles(t)
  <2>1. PICK v \in {"ok", "retryable", "fatal"} :
           /\ verdict' = [verdict EXCEPT ![t] = v]
           /\ settled' = [settled EXCEPT ![j] = @ \cup {v}]
           /\ pc' = [pc EXCEPT ![t] = AfterHandler(v)]
    BY <1>0, <1>3 DEF HandlerSettles, Goto
  <2>2. UNCHANGED job /\ cur' = cur
    BY <1>3 DEF HandlerSettles, queueVars
  <2>3. v \in settled'[j] /\ \A i \in Jobs : settled[i] \subseteq settled'[i]
    BY <2>1 DEF IInv, TypeOK
  <2>4. VerdictHasCause(t)'
    BY <1>0, <2>1, <2>2, <2>3 DEF VerdictHasCause, AfterHandler, IInv, TypeOK
  <2>5. \A u \in Ticks \ {t} : pc'[u] = pc[u] /\ cur'[u] = cur[u] /\ verdict'[u] = verdict[u]
    BY <2>1, <2>2 DEF IInv, TypeOK
  <2>. QED BY <2>2, <2>3, <2>4, <2>5, CauseSame
<1>4. CASE MarkSucceeded(t)
  <2>1. /\ job' = [job EXCEPT ![j] = Unlocked(job[j], "succeeded")]
        /\ pc' = [pc EXCEPT ![t] = "closeSucceeded"]
        /\ UNCHANGED <<verdict, cur, settled>>
    BY <1>0, <1>1, <1>4 DEF MarkSucceeded, Goto
  <2>2. /\ Unlocked(job[j], "succeeded").status = "succeeded"
        /\ Unlocked(job[j], "succeeded").attemptCount = job[j].attemptCount
    BY <1>1 DEF Unlocked, JobRow
  <2>3. \A i \in Jobs : /\ job'[i].attemptCount = job[i].attemptCount
                        /\ job'[i].status = job[i].status \/ job'[i].status = "succeeded"
    BY <2>1, <2>2 DEF IInv, TypeOK, QueueTypeOK
  <2>4. \A u \in Ticks : pc'[u] \in {"failRead", "failWrite"} =>
           pc'[u] = pc[u] /\ cur'[u] = cur[u] /\ verdict'[u] = verdict[u]
    BY <2>1 DEF IInv, TypeOK
  <2>. QED BY <2>1, <2>3, <2>4, CauseSame
<1>5. CASE FailRead(t)
  <2>. DEFINE x == DecideFailure(job[j].attemptCount, MaxAttempts, verdict[t] = "retryable").nextStatus
  <2>1. /\ verdict' = [verdict EXCEPT ![t] = x] /\ pc' = [pc EXCEPT ![t] = "failWrite"]
        /\ UNCHANGED <<job, settled, cur>> /\ pc[t] = "failRead"
    BY <1>0, <1>2, <1>5 DEF FailRead, Goto, queueVars
  <2>2. x = "dead_letter" => "fatal" \in settled[j] \/ job[j].attemptCount >= MaxAttempts
    BY <1>0, <1>1, <1>2, <2>1, BuriedAttempt DEF CauseInv, VerdictHasCause
  <2>. HIDE DEF x
  <2>3. VerdictHasCause(t)'
    BY <1>0, <2>1, <2>2 DEF VerdictHasCause, IInv, TypeOK
  <2>4. \A u \in Ticks \ {t} : pc'[u] = pc[u] /\ cur'[u] = cur[u] /\ verdict'[u] = verdict[u]
    BY <2>1 DEF IInv, TypeOK
  <2>. QED BY <2>1, <2>3, <2>4, CauseSame
<1>6. CASE FailWrite(t)
  <2>1. /\ job' = [job EXCEPT ![j] = FailedRow(job[j], verdict[t])]
        /\ pc' = [pc EXCEPT ![t] = "closeFailed"]
        /\ UNCHANGED <<verdict, cur, settled>>
        /\ pc[t] = "failWrite" /\ verdict[t] \in {"queued", "dead_letter"}
    BY <1>0, <1>6 DEF FailWrite, Goto, IInv, TickInv
  <2>. DEFINE r == FailedRow(job[j], verdict[t])
  <2>2. r.status = verdict[t] /\ r.attemptCount = job[j].attemptCount
    BY <1>1, <2>1 DEF FailedRow, Unlocked, JobRow
  <2>3. verdict[t] = "dead_letter" => "fatal" \in settled[j] \/ job[j].attemptCount >= MaxAttempts
    BY <1>0, <2>1 DEF CauseInv, VerdictHasCause
  <2>. HIDE DEF r
  <2>4. job'[j] = r /\ \A i \in Jobs \ {j} : job'[i] = job[i]
    BY <2>1 DEF r, IInv, TypeOK, QueueTypeOK
  <2>5. BuriedForCause' /\ RunningIsCounted'
    BY <2>1, <2>2, <2>3, <2>4 DEF CauseInv, BuriedForCause, RunningIsCounted, HasStatus
  <2>6. ASSUME NEW u \in Ticks
        PROVE  VerdictHasCause(u)'
    <3>1. \/ pc'[u] \notin {"failRead", "failWrite"}
          \/ pc'[u] = pc[u] /\ pc[u] \in {"failRead", "failWrite"}
      BY <2>1 DEF IInv, TypeOK
    <3>2. pc[u] \in {"failRead", "failWrite"} => cur[u] \in Jobs
      BY DEF IInv, TickInv, InFlightPcs
    <3>3. \A i \in Jobs : job'[i].attemptCount = job[i].attemptCount
      BY <2>2, <2>4
    <3>. QED BY <2>1, <3>1, <3>2, <3>3 DEF CauseInv, VerdictHasCause
  <2>. QED BY <2>5, <2>6 DEF CauseInv
<1>. QED BY <1>3, <1>4, <1>5, <1>6

LEMMA CauseNext ==
  ASSUME FleetInv, Healthy, CauseInv, [Next]_vars
  PROVE  CauseInv'
<1>1. CASE UNCHANGED vars
  BY <1>1, CauseSame DEF vars, queueVars, tickVars
<1>2. ASSUME NEW t \in Ticks, TickStep(t) \/ StatementFails(t)
      PROVE  CauseInv'
  <2>1. ~StatementFails(t) /\ ~RecoverClose(t) /\ ~\E j \in Jobs : RecoverOne(t, j)
    BY DEF StatementFails, Healthy, FleetInv, Calm, RecoverClose, RecoverOne
  <2>. QED BY <1>2, <2>1, CauseQuiet, CauseClaim, CauseVerdict DEF TickStep
<1>3. ASSUME NEW j \in Jobs, Enqueue(j) \/ BackoffElapses(j)
      PROVE  CauseInv'
  <2>1. UNCHANGED <<tickVars, settled>>
    BY <1>3 DEF Enqueue, BackoffElapses
  <2>2. \A i \in Jobs : /\ job'[i].attemptCount = job[i].attemptCount
                        /\ job'[i].status = job[i].status \/ job'[i].status = "queued"
    <3>1. \A i \in Jobs : job[i] \in JobRow
      BY RowsGood DEF FleetInv
    <3>2. CASE Enqueue(j)
      <4>1. PICK d \in BOOLEAN : job' = [job EXCEPT ![j] = [job[j] EXCEPT !.status = "queued", !.due = d]]
        BY <3>2 DEF Enqueue, FleetInv, IInv, TypeOK, QueueTypeOK
      <4>. QED BY <3>1, <4>1 DEF JobRow
    <3>3. CASE BackoffElapses(j)
      <4>1. job' = [job EXCEPT ![j] = [job[j] EXCEPT !.due = TRUE]]
        BY <3>3 DEF BackoffElapses, FleetInv, IInv, TypeOK, QueueTypeOK
      <4>. QED BY <3>1, <4>1 DEF JobRow
    <3>. QED BY <1>3, <3>2, <3>3
  <2>. QED BY <2>1, <2>2, CauseSame DEF tickVars
<1>4. ASSUME NEW w \in Workers, StartWorker(w) \/ Crash(w) \/ DrainBegin(w) \/ ShutdownStep(w)
      PROVE  CauseInv'
  <2>1. ~(Crash(w) \/ DrainBegin(w) \/ ShutdownStep(w))
    BY DEF Crash, DrainBegin, Healthy, FleetInv, Calm,
           ShutdownStep, DrainDone, DrainDeadline, ReleaseClose, ReleaseDone, Exit, ReleaseOne
  <2>2. UNCHANGED <<queueVars, tickVars, settled>>
    BY <1>4, <2>1 DEF StartWorker
  <2>. QED BY <2>2, CauseSame DEF queueVars, tickVars
<1>5. ~\E j \in Jobs : LockExpires(j)
  BY LocksHold
<1>6. ~\E a \in Operators : ReplayWrite(a) \/ \E j \in Jobs : ReplayRead(a, j)
  BY DEF FleetInv, Calm, ReplayWrite, ReplayRead, Healthy
<1>. QED BY <1>1, <1>2, <1>3, <1>4, <1>5, <1>6 DEF Next

\* A healthy fleet of any size buries a job only because its handler refused it
\* for good or because its attempts were used up.
THEOREM Buried == Healthy => (Spec => []BuriedForCause)
<1>. SUFFICES ASSUME Healthy PROVE Spec => []BuriedForCause
  OBVIOUS
<1>1. Init => FleetInv
  BY FleetInit
<1>2. FleetInv /\ [Next]_vars => FleetInv'
  BY FleetNext
<1>3. Init => CauseInv
  BY DEF Init, QueueInit, AbsentRow, CauseInv, BuriedForCause, RunningIsCounted, VerdictHasCause, HasStatus
<1>4. FleetInv /\ CauseInv /\ [Next]_vars => CauseInv'
  BY CauseNext
<1>5. CauseInv => BuriedForCause
  BY DEF CauseInv
<1>. QED BY <1>1, <1>2, <1>3, <1>4, <1>5, PTL DEF Spec
-----------------------------------------------------------------------------
(* One process at a time *)

\* One process polls; it may crash and be replaced, statements may be rejected
\* and handlers be slower than their locks. No rolling deployment, no graceful
\* shutdown, no request to poll beside the chain, no replay.
Solo ==
  /\ MaxUp <= 1
  /\ \A l, m \in Lanes : l = m
  /\ "drain" \notin Adversity /\ "replay" \notin Adversity

\* Processes that have ended; none is left draining or releasing.
Dead == {w \in Workers : worker[w] = "dead"}

OneProcess ==
  /\ \A w \in Workers : worker[w] \in {"new", "up", "dead"} /\ releasing[w] = NoJob
  /\ \A a \in Operators : replaying[a] = NoJob
  /\ \A v, w \in Workers : worker[v] = "up" /\ worker[w] = "up" => v = w
  /\ \A t \in Ticks : pc[t] # "idle" => worker[t[1]] = "up"

\* What the poll read is still so when it acts on it.
PollInv(t) ==
  /\ pc[t] \notin {"recover", "recoverClose"} => toRecover[t] = {}
  /\ pc[t] \notin {"claim", "open"} => candidates[t] = {}
  /\ pc[t] \in {"idle", "recover", "recoverClose"} => batch[t] = {}
  /\ pc[t] \in {"open"} \cup InFlightPcs => cur[t] \notin batch[t]
  /\ \A j \in toRecover[t] : HasStatus(j, "running")
  /\ \A j \in batch[t] : HasStatus(j, "running")
  /\ \A c \in candidates[t] :
       StillQueued(c.job) /\ job[c.job].due /\ job[c.job].attemptCount = c.seen
  /\ pc[t] \in Working => HasStatus(cur[t], "running") \/ (pc[t] = "failRead" /\ IsTerminal(cur[t]))
  /\ pc[t] = "closeSucceeded" => IsTerminal(cur[t])
  /\ pc[t] = "failWrite" /\ verdict[t] = "queued" => job[cur[t]].attemptCount < MaxAttempts

\* Attempts are numbered in order, up to the count of the job.
AttemptsCounted(j) ==
  /\ \A i, k \in DOMAIN attempts[j] : i < k => attempts[j][i].number < attempts[j][k].number
  /\ \A i \in DOMAIN attempts[j] : attempts[j][i].number <= job[j].attemptCount
  /\ Len(attempts[j]) <= job[j].attemptCount

\* The job is claimed for an attempt that has no row yet.
Unopened(t) ==
  pc[t] = "open" =>
    /\ number[t] = job[cur[t]].attemptCount
    /\ \A i \in DOMAIN attempts[cur[t]] : attempts[cur[t]][i].number < number[t]
    /\ Len(attempts[cur[t]]) < number[t]

\* Poll t has an attempt of job j under way, whose outcome it will record.
Settles(t, j) ==
  \/ j \in batch[t]
  \/ /\ cur[t] = j
     /\ \/ pc[t] \in {"running", "succeed", "closeSucceeded", "failWrite", "closeFailed"}
        \/ pc[t] = "failRead" /\ ~IsTerminal(j)

LastIsOpen(j) ==
  attempts[j] # << >> /\ attempts[j][Len(attempts[j])].status = "running"

\* Attempts that ended without an outcome: with their process, or with a
\* statement.
Losses == aborts + Cardinality(Dead)

InBudget(j)   == job[j].attemptCount <= MaxAttempts + Losses
RoomToTry(j)  == job[j].attemptCount < MaxAttempts + Losses

\* A job that may be claimed, or that will be found orphaned, has an attempt left.
BudgetInv ==
  /\ IsFiniteSet(Dead)
  /\ \A j \in Jobs :
       /\ InBudget(j)
       /\ HasStatus(j, "absent") \/ HasStatus(j, "queued") => RoomToTry(j)
       /\ HasStatus(j, "running") /\ (\A t \in Ticks : ~Owns(t, j)) => RoomToTry(j)
  /\ \A t \in Ticks : pc[t] = "failRead" /\ IsTerminal(cur[t]) => \A j \in batch[t] : RoomToTry(j)

SoloInv ==
  /\ IInv
  /\ OneProcess
  /\ \A t \in Ticks : PollInv(t) /\ Unopened(t)
  /\ \A j \in Jobs : AttemptsCounted(j)
  /\ \A t \in Ticks, j \in Jobs : Settles(t, j) => LastIsOpen(j)
  /\ BudgetInv

-----------------------------------------------------------------------------
(* One poll at a time *)

\* Poll u has nothing in hand.
Resting(u) == pc[u] = "idle" /\ toRecover[u] = {} /\ candidates[u] = {} /\ batch[u] = {}

LEMMA OthersRest ==
  ASSUME SoloInv, Solo, NEW t \in Ticks, worker[t[1]] = "up", NEW u \in Ticks \ {t}
  PROVE  Resting(u)
<1>1. ASSUME pc[u] # "idle" PROVE FALSE
  <2>1. worker[u[1]] = "up" /\ t[1] \in Workers /\ u[1] \in Workers
    BY <1>1 DEF SoloInv, OneProcess, Ticks
  <2>2. u[1] = t[1]
    BY <2>1 DEF SoloInv, OneProcess
  <2>3. u[2] = t[2]
    BY DEF Solo, Ticks
  <2>. QED BY <2>2, <2>3 DEF Ticks
<1>. QED BY <1>1 DEF Resting, SoloInv, PollInv

\* A resting poll keeps its share of the invariant.
LEMMA RestingKeeps ==
  ASSUME NEW u \in Ticks, Resting(u)'
  PROVE  /\ PollInv(u)' /\ Unopened(u)'
         /\ \A j \in Jobs : ~Settles(u, j)' /\ ~Owns(u, j)'
BY DEF Resting, PollInv, Unopened, Settles, Owns, Working, InFlightPcs

\* What a step of poll t has to show.
LEMMA Assembled ==
  ASSUME IInv', OneProcess', NEW t \in Ticks,
         \A u \in Ticks \ {t} : Resting(u)',
         PollInv(t)', Unopened(t)',
         \A j \in Jobs : AttemptsCounted(j)' /\ (Settles(t, j)' => LastIsOpen(j)'),
         BudgetInv'
  PROVE  SoloInv'
BY RestingKeeps DEF SoloInv

LEMMA SoloTypes ==
  ASSUME SoloInv
  PROVE  /\ \A j \in Jobs : job[j] \in JobRow /\ attempts[j] \in Seq(Attempt)
         /\ \A j \in Jobs : job[j].attemptCount \in Nat
         /\ Losses \in Nat /\ MaxAttempts \in Nat /\ aborts \in Nat
<1>1. \A j \in Jobs : job[j] \in JobRow /\ attempts[j] \in Seq(Attempt) /\ job[j].attemptCount \in Nat
  BY DEF SoloInv, IInv, TypeOK, QueueTypeOK, JobRow
<1>2. Cardinality(Dead) \in Nat
  BY FS_CardinalityType DEF SoloInv, BudgetInv
<1>3. aborts \in Nat /\ MaxAttempts \in Nat
  BY QueueAssumption DEF SoloInv, IInv, TypeOK
<1>. QED BY <1>1, <1>2, <1>3 DEF Losses

\* A poll steps alone, in the process that is up.
LEMMA PollAlone ==
  ASSUME SoloInv, Solo, NEW t \in Ticks, TickStep(t) \/ StatementFails(t)
  PROVE  /\ OneProcess' /\ worker' = worker
         /\ \A u \in Ticks \ {t} : Resting(u) /\ Resting(u)'
<1>1. UNCHANGED <<workerVars, replayVars>>
  BY DEF TickStep, TickStart, RecoverOne, RecoverClose, ClaimRead, ClaimOne, OpenClaimed, StartJob,
         HandlerSettles, MarkSucceeded, FailRead, FailWrite, FinishJob, TickEnd, StatementFails
<1>2. worker[t[1]] = "up"
  <2>1. CASE TickStart(t)
    BY <2>1 DEF TickStart
  <2>2. CASE ~TickStart(t)
    <3>1. pc[t] # "idle"
      BY <2>2 DEF TickStep, RecoverOne, RecoverClose, ClaimRead, ClaimOne, OpenClaimed, StartJob,
         HandlerSettles, MarkSucceeded, FailRead, FailWrite, FinishJob, TickEnd, StatementFails
    <3>. QED BY <3>1 DEF SoloInv, OneProcess
  <2>. QED BY <2>1, <2>2
<1>3. \A u \in Ticks \ {t} : Resting(u)
  BY <1>2, OthersRest
<1>4. \A u \in Ticks \ {t} : Resting(u)'
  <2>. USE DEF Resting, Goto, ClearTicks, SoloInv, IInv, TypeOK
  <2>1. CASE TickStart(t) \/ RecoverClose(t) \/ ClaimRead(t) \/ OpenClaimed(t) \/ HandlerSettles(t)
    BY <1>3, <2>1 DEF TickStart, RecoverClose, ClaimRead, OpenClaimed, HandlerSettles
  <2>2. CASE MarkSucceeded(t) \/ FailRead(t) \/ FailWrite(t) \/ FinishJob(t) \/ TickEnd(t)
    BY <1>3, <2>2 DEF MarkSucceeded, FailRead, FailWrite, FinishJob, TickEnd
  <2>3. ASSUME NEW j \in Jobs, RecoverOne(t, j) \/ StartJob(t, j)
        PROVE  \A u \in Ticks \ {t} : Resting(u)'
    BY <1>3, <2>3 DEF RecoverOne, StartJob
  <2>4. ASSUME NEW c \in candidates[t], ClaimOne(t, c)
        PROVE  \A u \in Ticks \ {t} : Resting(u)'
    BY <1>3, <2>4 DEF ClaimOne
  <2>5. CASE StatementFails(t)
    BY <1>3, <2>5 DEF StatementFails
  <2>. QED BY <2>1, <2>2, <2>3, <2>4, <2>5 DEF TickStep
<1>5. OneProcess'
  <2>1. \A u \in Ticks : pc'[u] # "idle" => worker[u[1]] = "up"
    BY <1>2, <1>4 DEF Resting
  <2>. QED BY <1>1, <2>1 DEF SoloInv, OneProcess, workerVars, replayVars
<1>. QED BY <1>1, <1>3, <1>4, <1>5 DEF workerVars

-----------------------------------------------------------------------------
(* Attempt rows *)

\* The attempts keep their numbers.
SameNumbers ==
  \A j \in Jobs :
    /\ DOMAIN attempts'[j] = DOMAIN attempts[j] /\ Len(attempts'[j]) = Len(attempts[j])
    /\ \A i \in DOMAIN attempts[j] : attempts'[j][i].number = attempts[j][i].number

LEMMA CountedKept ==
  ASSUME SoloInv, SameNumbers,
         \A j \in Jobs : job'[j].attemptCount \in Nat /\ job'[j].attemptCount >= job[j].attemptCount
  PROVE  \A j \in Jobs : AttemptsCounted(j)'
<1>1. ASSUME NEW j \in Jobs
      PROVE  AttemptsCounted(j)'
  <2>1. AttemptsCounted(j) /\ attempts[j] \in Seq(Attempt) /\ job[j].attemptCount \in Nat
    BY SoloTypes DEF SoloInv
  <2>2. Len(attempts[j]) \in Nat /\ \A i \in DOMAIN attempts[j] : attempts[j][i] \in Attempt
    BY <2>1
  <2>3. \A i \in DOMAIN attempts[j] : attempts[j][i].number \in Nat
    BY <2>2 DEF Attempt
  <2>4. /\ job'[j].attemptCount \in Nat /\ job'[j].attemptCount >= job[j].attemptCount
        /\ DOMAIN attempts'[j] = DOMAIN attempts[j] /\ Len(attempts'[j]) = Len(attempts[j])
        /\ \A i \in DOMAIN attempts[j] : attempts'[j][i].number = attempts[j][i].number
    BY DEF SameNumbers
  <2>. QED BY <2>1, <2>2, <2>3, <2>4 DEF AttemptsCounted
<1>. QED BY <1>1

\* Closing attempts writes outcomes of attempts of one job, and nothing else.
LEMMA AttemptsClosed ==
  ASSUME SoloInv, NEW j \in Jobs,
         CloseOpenAttempts(j) \/ \E s \in {"succeeded", "failed"} : CloseLatestAttempt(j, s)
  PROVE  SameNumbers /\ \A i \in Jobs \ {j} : attempts'[i] = attempts[i]
<1>. DEFINE A == attempts[j]
<1>1. A \in Seq(Attempt)
  BY SoloTypes
<1>2. PICK f : /\ attempts' = [attempts EXCEPT ![j] = f]
               /\ DOMAIN f = DOMAIN A /\ f \in Seq(Attempt)
               /\ \A i \in DOMAIN A : f[i].number = A[i].number
  <2>1. DOMAIN A = 1 .. Len(A) /\ Len(A) \in Nat /\ \A i \in 1 .. Len(A) : A[i] \in Attempt
    BY <1>1
  <2>2. CASE CloseOpenAttempts(j)
    <3>. DEFINE f == [i \in DOMAIN A |-> IF A[i].status = "running"
                                         THEN [A[i] EXCEPT !.status = "failed"] ELSE A[i]]
    <3>1. f \in [1 .. Len(A) -> Attempt]
      BY <2>1 DEF Attempt
    <3>2. f \in Seq(Attempt) /\ DOMAIN f = DOMAIN A
      BY <2>1, <3>1
    <3>3. \A i \in DOMAIN A : f[i].number = A[i].number
      BY <2>1 DEF Attempt
    <3>4. attempts' = [attempts EXCEPT ![j] = f]
      BY <2>2 DEF CloseOpenAttempts
    <3>. HIDE DEF f
    <3>. QED BY <3>2, <3>3, <3>4
  <2>3. ASSUME NEW s \in {"succeeded", "failed"}, CloseLatestAttempt(j, s)
        PROVE  \E f : /\ attempts' = [attempts EXCEPT ![j] = f]
                      /\ DOMAIN f = DOMAIN A /\ f \in Seq(Attempt)
                      /\ \A i \in DOMAIN A : f[i].number = A[i].number
    <3>1. PICK k \in DOMAIN A : attempts' = [attempts EXCEPT ![j][k].status = s]
      BY <2>3 DEF CloseLatestAttempt, LatestAttempts
    <3>. DEFINE v == [A[k] EXCEPT !.status = s]
                f == [A EXCEPT ![k] = v]
    <3>2. v \in Attempt /\ v.number = A[k].number
      BY <2>1, <3>1 DEF Attempt
    <3>3. f \in [1 .. Len(A) -> Attempt] /\ \A i \in DOMAIN A : f[i].number = A[i].number
      BY <2>1, <3>2
    <3>4. f \in Seq(Attempt) /\ DOMAIN f = DOMAIN A
      BY <2>1, <3>3
    <3>5. attempts' = [attempts EXCEPT ![j] = f]
      BY <3>1
    <3>. HIDE DEF f
    <3>. QED BY <3>3, <3>4, <3>5
  <2>. QED BY <2>2, <2>3
<1>3. attempts'[j] = f /\ \A i \in Jobs \ {j} : attempts'[i] = attempts[i]
  BY <1>2 DEF SoloInv, IInv, TypeOK, QueueTypeOK
<1>4. Len(f) = Len(A)
  BY <1>1, <1>2
<1>. HIDE DEF A
<1>5. \A i \in Jobs : i = j \/ attempts'[i] = attempts[i]
  BY <1>3
<1>. QED BY <1>2, <1>3, <1>4, <1>5 DEF SameNumbers, A

-----------------------------------------------------------------------------
(* The budget *)

\* Steps without a loss that count no attempt.
LEMMA BudgetSame ==
  ASSUME SoloInv, IInv', UNCHANGED <<worker, aborts>>,
         \A j \in Jobs : job'[j].attemptCount = job[j].attemptCount,
         \A j \in Jobs : job'[j].status \in {"absent", "queued"} => RoomToTry(j),
         \A j \in Jobs : job'[j].status = "running" /\ (\A u \in Ticks : ~Owns(u, j)') => RoomToTry(j),
         \A u \in Ticks : pc'[u] = "failRead" /\ IsTerminal(cur[u])' => \A j \in batch'[u] : RoomToTry(j)
  PROVE  BudgetInv'
<1>1. Dead' = Dead /\ Losses' = Losses
  BY DEF Dead, Losses
<1>2. \A j \in Jobs : /\ InBudget(j)' <=> InBudget(j)
                      /\ RoomToTry(j)' <=> RoomToTry(j)
  BY <1>1 DEF InBudget, RoomToTry
<1>3. \A u \in Ticks : batch'[u] \subseteq Jobs
  BY DEF IInv, TypeOK
<1>. QED BY <1>1, <1>2, <1>3 DEF SoloInv, BudgetInv, HasStatus

\* Steps with a loss: whoever is claimable or orphaned has an attempt more.
LEMMA BudgetLoss ==
  ASSUME SoloInv, IInv', IsFiniteSet(Dead)', Losses' \in Nat, Losses' > Losses,
         \A j \in Jobs : job'[j].attemptCount = job[j].attemptCount
  PROVE  BudgetInv'
<1>1. \A j \in Jobs : InBudget(j)' /\ RoomToTry(j)'
  BY SoloTypes DEF SoloInv, BudgetInv, InBudget, RoomToTry
<1>2. \A u \in Ticks : batch'[u] \subseteq Jobs
  BY DEF IInv, TypeOK
<1>. QED BY <1>1, <1>2 DEF BudgetInv

-----------------------------------------------------------------------------
(* The steps of the poll *)

LEMMA SameAttempts ==
  ASSUME SoloInv, UNCHANGED <<attempts, job>>
  PROVE  \A j \in Jobs : AttemptsCounted(j)' /\ (LastIsOpen(j)' <=> LastIsOpen(j))
BY DEF SoloInv, AttemptsCounted, LastIsOpen

\* Steps on no row of the database.
LEMMA QuietPoll ==
  ASSUME SoloInv, IInv', Solo, NEW t \in Ticks, TickStep(t), UNCHANGED <<job, attempts, aborts>>,
         PollInv(t)', pc'[t] # "open",
         \A j \in Jobs : Settles(t, j)' => Settles(t, j),
         \A j \in Jobs : HasStatus(j, "running") /\ Owns(t, j) => Owns(t, j)' \/ RoomToTry(j),
         pc'[t] = "failRead" /\ IsTerminal(cur[t])' => \A j \in batch'[t] : RoomToTry(j)
  PROVE  SoloInv'
<1>1. OneProcess' /\ worker' = worker /\ \A u \in Ticks \ {t} : Resting(u) /\ Resting(u)'
  BY PollAlone
<1>2. \A u \in Ticks \ {t}, j \in Jobs : ~Owns(u, j)
  BY <1>1 DEF Resting, Owns, Working
<1>3. \A j \in Jobs : job[j].status \in {"absent", "queued"} => RoomToTry(j)
  BY DEF SoloInv, BudgetInv, HasStatus
<1>4. \A j \in Jobs : job[j].status = "running" /\ (\A u \in Ticks : ~Owns(u, j)') => RoomToTry(j)
  BY <1>2 DEF SoloInv, BudgetInv, HasStatus
<1>5. \A u \in Ticks : pc'[u] = "failRead" /\ IsTerminal(cur[u])' => \A j \in batch'[u] : RoomToTry(j)
  BY <1>1 DEF Resting
<1>6. BudgetInv'
  BY <1>1, <1>3, <1>4, <1>5, BudgetSame
<1>7. Unopened(t)'
  BY DEF Unopened
<1>8. \A j \in Jobs : AttemptsCounted(j)' /\ (Settles(t, j)' => LastIsOpen(j)')
  BY SameAttempts DEF SoloInv
<1>. QED BY <1>1, <1>6, <1>7, <1>8, Assembled

LEMMA SoloReads ==
  ASSUME SoloInv, IInv', Solo, NEW t \in Ticks, TickStart(t) \/ ClaimRead(t) \/ TickEnd(t)
  PROVE  SoloInv'
<1>1. TickStep(t) /\ UNCHANGED <<job, attempts, aborts>> /\ PollInv(t)
  BY DEF TickStep, TickStart, ClaimRead, TickEnd, queueVars, boundVars, SoloInv
<1>2. CASE TickStart(t)
  <2>1. /\ pc[t] = "idle" /\ pc'[t] = "recover" /\ toRecover'[t] = StaleJobs
        /\ UNCHANGED <<candidates, batch, cur>>
    BY <1>2 DEF TickStart, Goto, SoloInv, IInv, TypeOK
  <2>2. PollInv(t)'
    BY <1>1, <2>1 DEF PollInv, StaleJobs, HasStatus, Working, InFlightPcs
  <2>3. \A j \in Jobs : ~Settles(t, j)' /\ ~Owns(t, j)
    BY <1>1, <2>1 DEF Settles, Owns, PollInv, Working
  <2>. QED BY <1>1, <2>1, <2>2, <2>3, QuietPoll
<1>3. CASE ClaimRead(t)
  <2>1. PICK S \in SUBSET DueJobs :
          candidates' = [candidates EXCEPT ![t] = {[job |-> j, seen |-> job[j].attemptCount] : j \in S}]
    BY <1>3 DEF ClaimRead
  <2>2. /\ pc[t] = "recover" /\ pc'[t] = "claim" /\ toRecover'[t] = {} /\ batch'[t] = {}
        /\ candidates'[t] = {[job |-> j, seen |-> job[j].attemptCount] : j \in S}
    BY <1>1, <1>3, <2>1 DEF ClaimRead, Goto, SoloInv, IInv, TypeOK, PollInv
  <2>3. \A c \in candidates'[t] : StillQueued(c.job) /\ job[c.job].due /\ job[c.job].attemptCount = c.seen
    BY <2>2 DEF DueJobs, StillQueued
  <2>4. PollInv(t)'
    BY <1>1, <2>2, <2>3 DEF PollInv, StillQueued, HasStatus, Working, InFlightPcs
  <2>5. \A j \in Jobs : ~Settles(t, j)' /\ ~Owns(t, j)
    BY <1>1, <2>2 DEF Settles, Owns, PollInv, Working
  <2>. QED BY <1>1, <2>2, <2>4, <2>5, QuietPoll
<1>4. CASE TickEnd(t)
  <2>1. Resting(t)' /\ pc[t] = "claim" /\ batch[t] = {}
    BY <1>4 DEF TickEnd, ClearTicks, Resting, SoloInv, IInv, TypeOK
  <2>2. PollInv(t)' /\ \A j \in Jobs : ~Settles(t, j)'
    BY <2>1, RestingKeeps
  <2>3. \A j \in Jobs : ~Owns(t, j)
    BY <2>1 DEF Owns, Working
  <2>. QED BY <1>1, <2>1, <2>2, <2>3, QuietPoll DEF Resting
<1>. QED BY <1>2, <1>3, <1>4

\* The job in `cur` is being worked on.
LEMMA CurTyped ==
  ASSUME SoloInv, NEW t \in Ticks, pc[t] \in {"recoverClose", "open"} \cup InFlightPcs
  PROVE  cur[t] \in Jobs
BY DEF SoloInv, IInv, TickInv

LEMMA SoloHandles ==
  ASSUME SoloInv, IInv', Solo, NEW t \in Ticks,
         HandlerSettles(t) \/ FailRead(t) \/ \E j \in Jobs : StartJob(t, j)
  PROVE  SoloInv'
<1>1. TickStep(t) /\ UNCHANGED <<job, attempts, aborts>> /\ PollInv(t)
  BY DEF TickStep, HandlerSettles, FailRead, StartJob, queueVars, boundVars, SoloInv
<1>2. ASSUME NEW j \in Jobs, StartJob(t, j)
      PROVE  SoloInv'
  <2>1. /\ pc[t] = "claim" /\ candidates[t] = {} /\ j \in batch[t]
        /\ pc'[t] = "running" /\ cur'[t] = j /\ batch'[t] = batch[t] \ {j}
        /\ UNCHANGED <<toRecover, candidates>>
    BY <1>2 DEF StartJob, Goto, SoloInv, IInv, TypeOK
  <2>2. PollInv(t)'
    BY <1>1, <2>1 DEF PollInv, HasStatus, Working, InFlightPcs
  <2>3. \A i \in Jobs : (Settles(t, i)' => Settles(t, i)) /\ (Owns(t, i) => Owns(t, i)')
    BY <2>1 DEF Settles, Owns, Working
  <2>. QED BY <1>1, <2>1, <2>2, <2>3, QuietPoll
<1>3. CASE HandlerSettles(t)
  <2>1. /\ pc[t] = "running" /\ pc'[t] \in {"succeed", "failRead"}
        /\ UNCHANGED <<cur, batch, toRecover, candidates>>
    BY <1>3 DEF HandlerSettles, AfterHandler, Goto, SoloInv, IInv, TypeOK
  <2>2. cur[t] \in Jobs /\ HasStatus(cur[t], "running") /\ ~IsTerminal(cur[t])
    BY <1>1, <2>1, CurTyped DEF PollInv, Working, InFlightPcs, HasStatus, IsTerminal, TerminalJobStatuses
  <2>3. PollInv(t)'
    BY <1>1, <2>1, <2>2 DEF PollInv, HasStatus, Working, InFlightPcs
  <2>4. \A i \in Jobs : (Settles(t, i)' => Settles(t, i)) /\ (Owns(t, i) => Owns(t, i)')
    BY <2>1 DEF Settles, Owns, Working
  <2>5. ~IsTerminal(cur[t])'
    BY <1>1, <2>1, <2>2 DEF IsTerminal
  <2>. QED BY <1>1, <2>1, <2>3, <2>4, <2>5, QuietPoll
<1>4. CASE FailRead(t) /\ MayFail(cur[t])
  <2>. DEFINE n == job[cur[t]].attemptCount
              x == DecideFailure(n, MaxAttempts, verdict[t] = "retryable").nextStatus
  <2>1. /\ pc[t] = "failRead" /\ pc'[t] = "failWrite" /\ verdict'[t] = x
        /\ UNCHANGED <<cur, batch, toRecover, candidates>>
    BY <1>4 DEF FailRead, Goto, SoloInv, IInv, TypeOK
  <2>2. cur[t] \in Jobs /\ n \in Nat /\ HasStatus(cur[t], "running")
    BY <1>1, <1>4, <2>1, CurTyped, SoloTypes DEF PollInv, MayFail, Working, InFlightPcs
  <2>3. x = "queued" => n < MaxAttempts
    BY <2>2, QueueAssumption DEF DecideFailure, AtLeast
  <2>. HIDE DEF x
  <2>4. PollInv(t)'
    BY <1>1, <2>1, <2>2, <2>3 DEF PollInv, HasStatus, Working, InFlightPcs
  <2>5. \A i \in Jobs : (Settles(t, i)' => Settles(t, i)) /\ (Owns(t, i) => Owns(t, i)')
    BY <1>4, <2>1 DEF Settles, Owns, Working, MayFail
  <2>. QED BY <1>1, <2>1, <2>4, <2>5, QuietPoll
<1>5. CASE FailRead(t) /\ ~MayFail(cur[t])
  <2>1. Resting(t)' /\ pc[t] = "failRead" /\ IsTerminal(cur[t])
    BY <1>5 DEF FailRead, ClearTicks, Resting, MayFail, SoloInv, IInv, TypeOK
  <2>2. PollInv(t)' /\ \A j \in Jobs : ~Settles(t, j)'
    BY <2>1, RestingKeeps
  <2>3. \A j \in Jobs : HasStatus(j, "running") /\ Owns(t, j) => RoomToTry(j)
    BY <2>1 DEF Owns, HasStatus, IsTerminal, TerminalJobStatuses, SoloInv, BudgetInv
  <2>. QED BY <1>1, <2>1, <2>2, <2>3, QuietPoll DEF Resting
<1>. QED BY <1>2, <1>3, <1>4, <1>5

-----------------------------------------------------------------------------
(* Claims *)

\* The compare-and-swap never misses, and it counts the attempt it claims.
LEMMA SoloClaims ==
  ASSUME SoloInv, IInv', Solo, NEW t \in Ticks, NEW c \in candidates[t], ClaimOne(t, c)
  PROVE  SoloInv'
<1>. DEFINE j == c.job
            r == ClaimedRow(job[j], t[1], NextAttempt(c.seen))
            n == job[j].attemptCount + 1
<1>1. PollInv(t) /\ Unopened(t) /\ TickStep(t) /\ pc[t] = "claim"
  BY DEF SoloInv, TickStep, ClaimOne
<1>2. c \in [job : Jobs, seen : Nat] /\ j \in Jobs
  BY DEF SoloInv, IInv, TypeOK
<1>3. StillQueued(j) /\ c.seen = job[j].attemptCount
  BY <1>1 DEF PollInv
<1>4. /\ job' = [job EXCEPT ![j] = r]
      /\ cur' = [cur EXCEPT ![t] = j]
      /\ number' = [number EXCEPT ![t] = n]
      /\ pc' = [pc EXCEPT ![t] = "open"]
      /\ candidates' = [candidates EXCEPT ![t] = @ \ {c}]
      /\ UNCHANGED <<attempts, workerVars, toRecover, batch, aborts>>
  BY <1>3 DEF ClaimOne, Goto, NextAttempt, boundVars
<1>5. /\ job'[j] = r /\ r.status = "running" /\ r.attemptCount = n
      /\ \A i \in Jobs \ {j} : job'[i] = job[i]
  BY <1>2, <1>3, <1>4, SoloTypes DEF ClaimedRow, NextAttempt, JobRow, SoloInv, IInv, TypeOK, QueueTypeOK
<1>6. /\ cur'[t] = j /\ number'[t] = n /\ pc'[t] = "open" /\ candidates'[t] = candidates[t] \ {c}
      /\ toRecover'[t] = toRecover[t] /\ batch'[t] = batch[t]
  BY <1>4 DEF SoloInv, IInv, TypeOK
<1>7. job[j].attemptCount \in Nat /\ n \in Nat /\ HasStatus(j, "queued")
  BY <1>2, <1>3, SoloTypes DEF StillQueued
<1>8. OneProcess' /\ worker' = worker /\ \A u \in Ticks \ {t} : Resting(u) /\ Resting(u)'
  BY <1>1, PollAlone
<1>9. PollInv(t)'
  <2>1. \A d \in candidates[t] \ {c} : d.job # j
    <3>1. ASSUME NEW d \in candidates[t], d.job = j PROVE d = c
      <4>1. d \in [job : Jobs, seen : Nat] /\ d.seen = c.seen
        BY <1>1, <1>3, <3>1 DEF PollInv, SoloInv, IInv, TypeOK
      <4>. QED BY <1>2, <3>1, <4>1
    <3>. QED BY <3>1
  <2>2. \A d \in candidates[t] \ {c} : d.job \in Jobs \ {j}
    BY <2>1 DEF SoloInv, IInv, TypeOK
  <2>3. \A d \in candidates'[t] :
          StillQueued(d.job)' /\ job'[d.job].due /\ job'[d.job].attemptCount = d.seen
    BY <1>1, <1>5, <1>6, <2>2 DEF PollInv, StillQueued, HasStatus
  <2>4. j \notin batch[t]
    BY <1>1, <1>7 DEF PollInv, HasStatus
  <2>5. \A i \in batch'[t] : HasStatus(i, "running")'
    <3>1. batch'[t] \subseteq Jobs \ {j}
      BY <1>6, <2>4 DEF SoloInv, IInv, TypeOK
    <3>. QED BY <1>1, <1>5, <1>6, <3>1 DEF PollInv, HasStatus
  <2>6. HasStatus(j, "running")' /\ toRecover'[t] = {}
    BY <1>1, <1>5, <1>6 DEF HasStatus, PollInv
  <2>. HIDE DEF j
  <2>. QED BY <1>6, <2>3, <2>4, <2>5, <2>6 DEF PollInv, InFlightPcs
<1>. HIDE DEF r
<1>10. \A i \in Jobs : job'[i].attemptCount \in Nat /\ job'[i].attemptCount >= job[i].attemptCount
  BY <1>5, <1>7, SoloTypes
<1>11. \A i \in Jobs : AttemptsCounted(i)'
  BY <1>4, <1>10, CountedKept DEF SameNumbers
<1>12. Unopened(t)'
  <2>1. AttemptsCounted(j) /\ attempts[j] \in Seq(Attempt)
    BY <1>2, SoloTypes DEF SoloInv
  <2>2. Len(attempts[j]) \in Nat /\ \A i \in DOMAIN attempts[j] : attempts[j][i].number \in Nat
    <3>1. Len(attempts[j]) \in Nat /\ \A i \in DOMAIN attempts[j] : attempts[j][i] \in Attempt
      BY <2>1
    <3>. QED BY <3>1 DEF Attempt
  <2>3. /\ \A i \in DOMAIN attempts[j] : attempts[j][i].number < n
        /\ Len(attempts[j]) < n
    BY <1>7, <2>1, <2>2 DEF AttemptsCounted
  <2>. QED BY <1>4, <1>5, <1>6, <2>3 DEF Unopened
<1>13. \A i \in Jobs : Settles(t, i)' => LastIsOpen(i)'
  BY <1>1, <1>4, <1>6 DEF Settles, LastIsOpen, SoloInv
<1>14. BudgetInv'
  <2>1. Dead' = Dead /\ Losses' = Losses
    BY <1>4, <1>8 DEF Dead, Losses
  <2>2. RoomToTry(j)
    BY <1>2, <1>7 DEF SoloInv, BudgetInv
  <2>3. n <= MaxAttempts + Losses
    BY <1>7, <2>2, SoloTypes DEF RoomToTry
  <2>4. Owns(t, j)'
    BY <1>6 DEF Owns, Working
  <2>5. \A i \in Jobs : (\A u \in Ticks : ~Owns(u, i)') => i # j /\ (\A u \in Ticks : ~Owns(u, i))
    <3>1. \A u \in Ticks \ {t}, i \in Jobs : ~Owns(u, i)
      BY <1>8 DEF Resting, Owns, Working
    <3>2. \A i \in Jobs : Owns(t, i) => Owns(t, i)'
      BY <1>1, <1>6 DEF Owns, Working
    <3>. QED BY <2>4, <3>1, <3>2
  <2>6. \A i \in Jobs \ {j} : /\ InBudget(i)' <=> InBudget(i)
                              /\ RoomToTry(i)' <=> RoomToTry(i)
                              /\ \A s \in {"absent", "queued", "running"} : HasStatus(i, s)' <=> HasStatus(i, s)
    BY <1>5, <2>1 DEF InBudget, RoomToTry, HasStatus
  <2>7. InBudget(j)' /\ HasStatus(j, "running")' /\ ~HasStatus(j, "absent")' /\ ~HasStatus(j, "queued")'
    BY <1>5, <2>1, <2>3 DEF InBudget, HasStatus
  <2>8. \A u \in Ticks : pc'[u] # "failRead"
    BY <1>6, <1>8 DEF Resting
  <2>. HIDE DEF j
  <2>. QED BY <1>2, <2>1, <2>4, <2>5, <2>6, <2>7, <2>8 DEF SoloInv, BudgetInv
<1>. QED BY <1>8, <1>9, <1>11, <1>12, <1>13, <1>14, Assembled

\* The row of the attempt that was claimed is opened under a fresh number.
LEMMA SoloOpens ==
  ASSUME SoloInv, IInv', Solo, NEW t \in Ticks, OpenClaimed(t)
  PROVE  SoloInv'
<1>1. PollInv(t) /\ Unopened(t) /\ TickStep(t) /\ pc[t] = "open"
  BY DEF SoloInv, TickStep, OpenClaimed
<1>2. PICK j \in Jobs : j = cur[t]
  BY <1>1, CurTyped
<1>. DEFINE A == attempts[j]
            e == [number |-> number[t], status |-> "running"]
<1>3. /\ attempts' = [attempts EXCEPT ![j] = Append(A, e)]
      /\ batch'[t] = batch[t] \cup {j} /\ pc'[t] = "claim"
      /\ UNCHANGED <<job, workerVars, toRecover, candidates, aborts>>
  BY <1>2 DEF OpenClaimed, OpenAttempt, Goto, boundVars, SoloInv, IInv, TypeOK, QueueTypeOK
<1>4. /\ A \in Seq(Attempt) /\ Len(A) \in Nat /\ DOMAIN A = 1 .. Len(A)
      /\ \A i \in 1 .. Len(A) : A[i] \in Attempt
  BY <1>2, SoloTypes
<1>5. attempts'[j] = Append(A, e) /\ \A i \in Jobs \ {j} : attempts'[i] = attempts[i]
  BY <1>2, <1>3 DEF SoloInv, IInv, TypeOK, QueueTypeOK
<1>6. /\ number[t] = job[j].attemptCount /\ number[t] \in Nat
      /\ \A i \in 1 .. Len(A) : A[i].number < number[t] /\ A[i].number \in Nat
      /\ Len(A) < number[t]
  BY <1>1, <1>2, <1>4, SoloTypes DEF Unopened, Attempt
<1>7. OneProcess' /\ worker' = worker /\ \A u \in Ticks \ {t} : Resting(u) /\ Resting(u)'
  BY <1>1, PollAlone
<1>8. HasStatus(j, "running") /\ HasStatus(j, "running")'
  BY <1>1, <1>2, <1>3 DEF PollInv, Working, HasStatus, IsTerminal
<1>9. PollInv(t)'
  BY <1>1, <1>3, <1>8 DEF PollInv, Working, InFlightPcs, HasStatus, StillQueued
<1>10. Unopened(t)'
  BY <1>3 DEF Unopened
<1>11. /\ Len(attempts'[j]) = Len(A) + 1 /\ DOMAIN attempts'[j] = 1 .. Len(A) + 1
       /\ attempts'[j][Len(A) + 1] = e /\ \A i \in 1 .. Len(A) : attempts'[j][i] = A[i]
  BY <1>4, <1>5
<1>12. AttemptsCounted(j) /\ \A i \in Jobs \ {j} : AttemptsCounted(i)'
  BY <1>2, <1>3, <1>5 DEF SoloInv, AttemptsCounted
<1>. HIDE DEF A
<1>13. AttemptsCounted(j)'
  <2>1. \A i, k \in 1 .. Len(A) : i < k => A[i].number < A[k].number
    BY <1>4, <1>12 DEF AttemptsCounted, A
  <2>2. e.number = number[t]
    OBVIOUS
  <2>. HIDE DEF e
  <2>3. \A i, k \in 1 .. Len(A) + 1 : i < k => attempts'[j][i].number < attempts'[j][k].number
    <3>1. ASSUME NEW i \in 1 .. Len(A) + 1, NEW k \in 1 .. Len(A) + 1, i < k
          PROVE  attempts'[j][i].number < attempts'[j][k].number
      <4>1. i \in 1 .. Len(A)
        BY <1>4, <3>1
      <4>2. CASE k = Len(A) + 1
        BY <1>6, <1>11, <2>2, <4>1, <4>2
      <4>3. CASE k # Len(A) + 1
        <5>1. k \in 1 .. Len(A)
          BY <1>4, <4>3
        <5>. QED BY <1>11, <2>1, <3>1, <4>1, <5>1
      <4>. QED BY <4>2, <4>3
    <3>. QED BY <3>1
  <2>4. \A i \in 1 .. Len(A) + 1 : attempts'[j][i].number <= number[t]
    <3>1. ASSUME NEW i \in 1 .. Len(A) + 1
          PROVE  attempts'[j][i].number <= number[t]
      <4>1. CASE i = Len(A) + 1
        BY <1>6, <1>11, <2>2, <4>1
      <4>2. CASE i # Len(A) + 1
        <5>1. i \in 1 .. Len(A)
          BY <1>4, <4>2
        <5>. QED BY <1>6, <1>11, <5>1
      <4>. QED BY <4>1, <4>2
    <3>. QED BY <3>1
  <2>5. Len(A) + 1 <= number[t]
    BY <1>4, <1>6
  <2>. QED BY <1>3, <1>6, <1>11, <2>3, <2>4, <2>5 DEF AttemptsCounted
<1>14. LastIsOpen(j)'
  <2>1. attempts'[j] # << >>
    BY <1>4, <1>11
  <2>. QED BY <1>11, <2>1 DEF LastIsOpen
<1>15. \A i \in Jobs : Settles(t, i)' => LastIsOpen(i)'
  <2>1. \A i \in Jobs \ {j} : Settles(t, i)' => Settles(t, i)
    BY <1>3 DEF Settles
  <2>2. \A i \in Jobs \ {j} : LastIsOpen(i) => LastIsOpen(i)'
    BY <1>5 DEF LastIsOpen
  <2>. QED BY <1>14, <2>1, <2>2 DEF SoloInv
<1>16. BudgetInv'
  <2>1. \A i \in Jobs : job[i].status \in {"absent", "queued"} => RoomToTry(i)
    BY DEF SoloInv, BudgetInv, HasStatus
  <2>2. \A i \in Jobs : Owns(t, i) => Owns(t, i)'
    BY <1>1, <1>2, <1>3 DEF Owns, Working
  <2>3. \A i \in Jobs : job[i].status = "running" /\ (\A u \in Ticks : ~Owns(u, i)') => RoomToTry(i)
    <3>1. \A u \in Ticks \ {t}, i \in Jobs : ~Owns(u, i)
      BY <1>7 DEF Resting, Owns, Working
    <3>. QED BY <2>2, <3>1 DEF SoloInv, BudgetInv, HasStatus
  <2>4. \A u \in Ticks : pc'[u] # "failRead"
    BY <1>3, <1>7 DEF Resting
  <2>. QED BY <1>3, <1>7, <2>1, <2>3, <2>4, BudgetSame
<1>. QED BY <1>7, <1>9, <1>10, <1>12, <1>13, <1>15, <1>16, Assembled

-----------------------------------------------------------------------------
(* Outcomes *)

\* One row is written: the job is settled, or queued again with an attempt left.
LEMMA RowSettled ==
  ASSUME SoloInv, IInv', Solo, NEW t \in Ticks, TickStep(t), NEW j \in Jobs, NEW r,
         job' = [job EXCEPT ![j] = r], r.attemptCount = job[j].attemptCount,
         r.status \in {"queued", "succeeded", "dead_letter"},
         r.status = "queued" => RoomToTry(j),
         UNCHANGED <<attempts, aborts>>,
         PollInv(t)', pc'[t] \notin {"open", "failRead"},
         \A i \in Jobs : Settles(t, i)' => Settles(t, i),
         \A i \in Jobs \ {j} : Owns(t, i) => Owns(t, i)'
  PROVE  SoloInv'
<1>1. job'[j] = r /\ \A i \in Jobs \ {j} : job'[i] = job[i]
  BY DEF SoloInv, IInv, TypeOK, QueueTypeOK
<1>2. OneProcess' /\ worker' = worker /\ \A u \in Ticks \ {t} : Resting(u) /\ Resting(u)'
  BY PollAlone
<1>3. \A i \in Jobs : job'[i].attemptCount = job[i].attemptCount
  BY <1>1
<1>4. \A i \in Jobs : job'[i].status \in {"absent", "queued"} => RoomToTry(i)
  BY <1>1 DEF SoloInv, BudgetInv, HasStatus
<1>5. \A i \in Jobs : job'[i].status = "running" /\ (\A u \in Ticks : ~Owns(u, i)') => RoomToTry(i)
  <2>1. \A u \in Ticks \ {t}, i \in Jobs : ~Owns(u, i)
    BY <1>2 DEF Resting, Owns, Working
  <2>. QED BY <1>1, <2>1 DEF SoloInv, BudgetInv, HasStatus
<1>6. \A u \in Ticks : pc'[u] # "failRead"
  BY <1>2 DEF Resting
<1>7. BudgetInv'
  BY <1>2, <1>3, <1>4, <1>5, <1>6, BudgetSame
<1>8. \A i \in Jobs : AttemptsCounted(i)'
  BY <1>3 DEF SoloInv, AttemptsCounted
<1>9. \A i \in Jobs : Settles(t, i)' => LastIsOpen(i)'
  BY DEF SoloInv, LastIsOpen
<1>10. Unopened(t)'
  BY DEF Unopened
<1>. QED BY <1>2, <1>7, <1>8, <1>9, <1>10, Assembled

\* Attempts of one job, which the poll has done with, are closed.
LEMMA RowsClosed ==
  ASSUME SoloInv, IInv', Solo, NEW t \in Ticks, TickStep(t), NEW j \in Jobs,
         CloseOpenAttempts(j) \/ \E s \in {"succeeded", "failed"} : CloseLatestAttempt(j, s),
         UNCHANGED <<job, aborts>>,
         PollInv(t)', pc'[t] \notin {"open", "failRead"},
         \A i \in Jobs : Settles(t, i)' => Settles(t, i) /\ i # j,
         \A i \in Jobs : Owns(t, i) => Owns(t, i)'
  PROVE  SoloInv'
<1>1. SameNumbers /\ \A i \in Jobs \ {j} : attempts'[i] = attempts[i]
  BY AttemptsClosed
<1>2. OneProcess' /\ worker' = worker /\ \A u \in Ticks \ {t} : Resting(u) /\ Resting(u)'
  BY PollAlone
<1>3. \A i \in Jobs : job'[i].attemptCount \in Nat /\ job'[i].attemptCount >= job[i].attemptCount
  BY SoloTypes
<1>4. \A i \in Jobs : AttemptsCounted(i)'
  BY <1>1, <1>3, CountedKept
<1>5. \A i \in Jobs : Settles(t, i)' => LastIsOpen(i)'
  BY <1>1 DEF SoloInv, LastIsOpen
<1>6. \A i \in Jobs : job'[i].status \in {"absent", "queued"} => RoomToTry(i)
  BY DEF SoloInv, BudgetInv, HasStatus
<1>7. \A i \in Jobs : job'[i].status = "running" /\ (\A u \in Ticks : ~Owns(u, i)') => RoomToTry(i)
  <2>1. \A u \in Ticks \ {t}, i \in Jobs : ~Owns(u, i)
    BY <1>2 DEF Resting, Owns, Working
  <2>. QED BY <2>1 DEF SoloInv, BudgetInv, HasStatus
<1>8. \A u \in Ticks : pc'[u] # "failRead"
  BY <1>2 DEF Resting
<1>9. BudgetInv'
  BY <1>2, <1>6, <1>7, <1>8, BudgetSame
<1>10. Unopened(t)'
  BY DEF Unopened
<1>. QED BY <1>2, <1>4, <1>5, <1>9, <1>10, Assembled

LEMMA SoloSettles ==
  ASSUME SoloInv, IInv', Solo, NEW t \in Ticks, MarkSucceeded(t) \/ FailWrite(t)
  PROVE  SoloInv'
<1>1. TickStep(t) /\ PollInv(t) /\ pc[t] \in {"succeed", "failWrite"}
  BY DEF TickStep, MarkSucceeded, FailWrite, SoloInv
<1>2. PICK j \in Jobs : j = cur[t]
  BY <1>1, CurTyped DEF InFlightPcs
<1>3. HasStatus(j, "running") /\ j \notin batch[t] /\ job[j] \in JobRow
  BY <1>1, <1>2, SoloTypes DEF PollInv, Working, InFlightPcs
<1>4. PICK r : /\ job' = [job EXCEPT ![j] = r]
               /\ r.attemptCount = job[j].attemptCount
               /\ \/ pc'[t] = "closeSucceeded" /\ r.status = "succeeded"
                  \/ pc'[t] = "closeFailed" /\ r.status \in {"queued", "dead_letter"}
               /\ r.status = "queued" => job[j].attemptCount < MaxAttempts
  <2>1. CASE MarkSucceeded(t)
    <3>1. /\ job' = [job EXCEPT ![j] = Unlocked(job[j], "succeeded")]
          /\ pc'[t] = "closeSucceeded"
      BY <1>2, <1>3, <2>1 DEF MarkSucceeded, Goto, SoloInv, IInv, TypeOK, QueueTypeOK
    <3>2. LET r == Unlocked(job[j], "succeeded")
          IN  r.status = "succeeded" /\ r.attemptCount = job[j].attemptCount
      BY <1>3 DEF Unlocked, JobRow
    <3>. QED BY <3>1, <3>2
  <2>2. CASE FailWrite(t)
    <3>1. /\ job' = [job EXCEPT ![j] = FailedRow(job[j], verdict[t])]
          /\ pc'[t] = "closeFailed" /\ verdict[t] \in {"queued", "dead_letter"}
      BY <1>2, <2>2 DEF FailWrite, Goto, SoloInv, IInv, TypeOK, QueueTypeOK, TickInv
    <3>2. LET r == FailedRow(job[j], verdict[t])
          IN  r.status = verdict[t] /\ r.attemptCount = job[j].attemptCount
      BY <1>3 DEF FailedRow, Unlocked, JobRow
    <3>3. verdict[t] = "queued" => job[j].attemptCount < MaxAttempts
      BY <1>1, <1>2, <2>2 DEF PollInv, FailWrite
    <3>. QED BY <3>1, <3>2, <3>3
  <2>. QED BY <2>1, <2>2
<1>5. /\ UNCHANGED <<attempts, aborts, toRecover, candidates, batch, cur>>
      /\ job'[j] = r /\ \A i \in Jobs \ {j} : job'[i] = job[i]
  BY <1>2, <1>3, <1>4 DEF MarkSucceeded, FailWrite, boundVars, SoloInv, IInv, TypeOK, QueueTypeOK
<1>6. PollInv(t)'
  <2>1. batch[t] \subseteq Jobs \ {j}
    BY <1>3 DEF SoloInv, IInv, TypeOK
  <2>. QED BY <1>1, <1>2, <1>3, <1>4, <1>5, <2>1 DEF PollInv, Working, InFlightPcs, HasStatus, IsTerminal,
        TerminalJobStatuses
<1>7. \A i \in Jobs : Settles(t, i)' => Settles(t, i)
  BY <1>1, <1>4, <1>5 DEF Settles
<1>8. \A i \in Jobs \ {j} : Owns(t, i) => Owns(t, i)'
  BY <1>1, <1>2, <1>5 DEF Owns
<1>9. r.status = "queued" => RoomToTry(j)
  BY <1>4, SoloTypes DEF RoomToTry
<1>. QED BY <1>1, <1>4, <1>5, <1>6, <1>7, <1>8, <1>9, RowSettled

LEMMA SoloRecovers ==
  ASSUME SoloInv, IInv', Solo, NEW t \in Ticks, NEW j \in Jobs, RecoverOne(t, j)
  PROVE  SoloInv'
<1>. DEFINE r == RequeuedRow(job[j])
<1>1. TickStep(t) /\ PollInv(t) /\ pc[t] = "recover" /\ j \in toRecover[t]
  BY DEF TickStep, RecoverOne, SoloInv
<1>2. HasStatus(j, "running") /\ job[j] \in JobRow /\ batch[t] = {}
  BY <1>1, SoloTypes DEF PollInv
<1>3. /\ job' = [job EXCEPT ![j] = r] /\ pc'[t] = "recoverClose" /\ toRecover'[t] = toRecover[t] \ {j}
      /\ UNCHANGED <<attempts, aborts, candidates, batch>>
      /\ job'[j] = r /\ \A i \in Jobs \ {j} : job'[i] = job[i]
  BY DEF RecoverOne, Goto, boundVars, SoloInv, IInv, TypeOK, QueueTypeOK
<1>4. r.status = "queued" /\ r.attemptCount = job[j].attemptCount
  BY <1>2 DEF RequeuedRow, Unlocked, JobRow
<1>. HIDE DEF r
<1>5. PollInv(t)'
  <2>1. toRecover[t] \subseteq Jobs
    BY DEF SoloInv, IInv, TypeOK
  <2>. QED BY <1>1, <1>2, <1>3, <2>1 DEF PollInv, Working, InFlightPcs, HasStatus
<1>6. \A i \in Jobs : ~Settles(t, i)' /\ ~Owns(t, i)
  BY <1>1, <1>2, <1>3 DEF Settles, Owns, Working
<1>7. RoomToTry(j)
  <2>1. \A u \in Ticks \ {t} : Resting(u)
    BY <1>1, PollAlone
  <2>2. \A u \in Ticks : ~Owns(u, j)
    BY <1>6, <2>1 DEF Resting, Owns, Working
  <2>. QED BY <1>2, <2>2 DEF SoloInv, BudgetInv
<1>. QED BY <1>1, <1>3, <1>4, <1>5, <1>6, <1>7, RowSettled

LEMMA SoloCloses ==
  ASSUME SoloInv, IInv', Solo, NEW t \in Ticks, RecoverClose(t) \/ FinishJob(t)
  PROVE  SoloInv'
<1>1. TickStep(t) /\ PollInv(t) /\ pc[t] \in {"recoverClose", "closeSucceeded", "closeFailed"}
  BY DEF TickStep, RecoverClose, FinishJob, SoloInv
<1>2. PICK j \in Jobs : j = cur[t]
  BY <1>1, CurTyped DEF InFlightPcs
<1>3. /\ CloseOpenAttempts(j) \/ \E s \in {"succeeded", "failed"} : CloseLatestAttempt(j, s)
      /\ UNCHANGED <<job, aborts, toRecover, candidates, batch>>
      /\ pc'[t] = IF pc[t] = "recoverClose" THEN "recover" ELSE "claim"
  BY <1>2 DEF RecoverClose, FinishJob, Goto, boundVars, SoloInv, IInv, TypeOK
<1>4. PollInv(t)'
  BY <1>1, <1>3 DEF PollInv, Working, InFlightPcs, HasStatus, StillQueued
<1>5. \A i \in Jobs : Settles(t, i)' => Settles(t, i) /\ i # j
  BY <1>1, <1>2, <1>3 DEF Settles, PollInv, InFlightPcs
<1>6. \A i \in Jobs : Owns(t, i) => Owns(t, i)'
  BY <1>1, <1>3 DEF Owns, Working
<1>. QED BY <1>1, <1>3, <1>4, <1>5, <1>6, RowsClosed

\* A statement is rejected: an attempt more is granted for the one it spoils.
LEMMA SoloFails ==
  ASSUME SoloInv, IInv', Solo, NEW t \in Ticks, StatementFails(t)
  PROVE  SoloInv'
<1>1. OneProcess' /\ worker' = worker /\ \A u \in Ticks \ {t} : Resting(u) /\ Resting(u)'
  BY PollAlone
<1>2. aborts' = aborts + 1 /\ UNCHANGED job /\ PollInv(t)
  BY DEF StatementFails, SoloInv
<1>3. BudgetInv'
  <2>1. Dead' = Dead /\ IsFiniteSet(Dead)' /\ Cardinality(Dead) \in Nat
    BY <1>1, FS_CardinalityType DEF Dead, SoloInv, BudgetInv
  <2>2. Losses' \in Nat /\ Losses' > Losses
    BY <1>2, <2>1, SoloTypes DEF Losses
  <2>. QED BY <1>2, <2>1, <2>2, BudgetLoss
<1>4. CASE pc[t] \in {"succeed", "closeSucceeded"}
  <2>1. PICK j \in Jobs : j = cur[t]
    BY <1>4, CurTyped DEF InFlightPcs
  <2>2. /\ UNCHANGED attempts \/ (pc[t] = "closeSucceeded" /\ CloseLatestAttempt(j, "succeeded"))
        /\ pc'[t] = "failRead" /\ UNCHANGED <<toRecover, candidates, batch, cur>>
    BY <1>4, <2>1 DEF StatementFails, Goto, SoloInv, IInv, TypeOK
  <2>3. PollInv(t)'
    BY <1>2, <1>4, <2>2 DEF PollInv, Working, InFlightPcs, HasStatus, IsTerminal
  <2>4. \A i \in Jobs : AttemptsCounted(i)' /\ (Settles(t, i)' => LastIsOpen(i)')
    <3>1. CASE UNCHANGED attempts
      <4>1. \A i \in Jobs : Settles(t, i)' => Settles(t, i)
        BY <1>4, <2>2 DEF Settles
      <4>. QED BY <1>2, <3>1, <4>1, SameAttempts DEF SoloInv
    <3>2. CASE pc[t] = "closeSucceeded" /\ CloseLatestAttempt(j, "succeeded")
      <4>1. SameNumbers /\ \A i \in Jobs \ {j} : attempts'[i] = attempts[i]
        BY <3>2, AttemptsClosed
      <4>2. \A i \in Jobs : job'[i].attemptCount \in Nat /\ job'[i].attemptCount >= job[i].attemptCount
        BY <1>2, SoloTypes
      <4>3. \A i \in Jobs : AttemptsCounted(i)'
        BY <4>1, <4>2, CountedKept
      <4>4. \A i \in Jobs : Settles(t, i)' => i \in batch[t] /\ i # j
        BY <1>2, <2>1, <2>2, <3>2 DEF Settles, PollInv, InFlightPcs, IsTerminal
      <4>5. \A i \in Jobs : i \in batch[t] /\ i # j => LastIsOpen(i)'
        BY <4>1 DEF SoloInv, Settles, LastIsOpen
      <4>. QED BY <4>3, <4>4, <4>5
    <3>. QED BY <2>2, <3>1, <3>2
  <2>5. Unopened(t)'
    BY <2>2 DEF Unopened
  <2>. QED BY <1>1, <1>3, <2>3, <2>4, <2>5, Assembled
<1>5. CASE pc[t] \notin {"succeed", "closeSucceeded"}
  <2>1. UNCHANGED attempts /\ Resting(t)'
    BY <1>5 DEF StatementFails, ClearTicks, Resting, SoloInv, IInv, TypeOK
  <2>. QED BY <1>1, <1>2, <1>3, <2>1, RestingKeeps, SameAttempts, Assembled
<1>. QED BY <1>4, <1>5

-----------------------------------------------------------------------------
(* Everything else *)

\* Callers and the clock, which write no count, no lock and no attempt.
LEMMA SoloCallers ==
  ASSUME SoloInv, IInv', Solo, NEW j \in Jobs, Enqueue(j) \/ BackoffElapses(j) \/ LockExpires(j)
  PROVE  SoloInv'
<1>1. UNCHANGED <<attempts, workerVars, tickVars, replayVars, aborts>>
  BY DEF Enqueue, BackoffElapses, LockExpires, boundVars
<1>2. PICK r : /\ job' = [job EXCEPT ![j] = r]
               /\ r.attemptCount = job[j].attemptCount
               /\ \/ HasStatus(j, "absent") /\ r.status = "queued"
                  \/ r.status = job[j].status /\ (job[j].due => r.due)
  <2>1. job[j] \in JobRow
    BY SoloTypes
  <2>2. CASE Enqueue(j)
    <3>1. PICK d \in BOOLEAN : job' = [job EXCEPT ![j] = [job[j] EXCEPT !.status = "queued", !.due = d]]
      BY <2>2 DEF Enqueue, SoloInv, IInv, TypeOK, QueueTypeOK
    <3>2. LET r == [job[j] EXCEPT !.status = "queued", !.due = d]
          IN  r.status = "queued" /\ r.attemptCount = job[j].attemptCount
      BY <2>1 DEF JobRow
    <3>. QED BY <2>2, <3>1, <3>2 DEF Enqueue
  <2>3. CASE BackoffElapses(j)
    <3>1. job' = [job EXCEPT ![j] = [job[j] EXCEPT !.due = TRUE]]
      BY <2>3 DEF BackoffElapses, SoloInv, IInv, TypeOK, QueueTypeOK
    <3>2. LET r == [job[j] EXCEPT !.due = TRUE]
          IN  r.status = job[j].status /\ r.attemptCount = job[j].attemptCount /\ r.due
      BY <2>1 DEF JobRow
    <3>. QED BY <3>1, <3>2
  <2>4. CASE LockExpires(j)
    <3>1. job' = [job EXCEPT ![j] = [job[j] EXCEPT !.stale = TRUE]]
      BY <2>4 DEF LockExpires, SoloInv, IInv, TypeOK, QueueTypeOK
    <3>2. LET r == [job[j] EXCEPT !.stale = TRUE]
          IN  r.status = job[j].status /\ r.attemptCount = job[j].attemptCount /\ r.due = job[j].due
      BY <2>1 DEF JobRow
    <3>. QED BY <3>1, <3>2
  <2>. QED BY <2>2, <2>3, <2>4
<1>3. /\ job'[j] = r /\ \A i \in Jobs \ {j} : job'[i] = job[i]
      /\ \A i \in Jobs : job'[i].attemptCount = job[i].attemptCount
  BY <1>2 DEF SoloInv, IInv, TypeOK, QueueTypeOK
<1>4. OneProcess'
  BY <1>1 DEF SoloInv, OneProcess, workerVars, tickVars, replayVars
<1>5. \A i \in Jobs : \A s \in {"running", "succeeded", "dead_letter", "queued"} :
        HasStatus(i, s) => HasStatus(i, s)' /\ (job[i].due => job'[i].due)
  BY <1>2, <1>3 DEF HasStatus
<1>6. \A i \in Jobs : HasStatus(i, "running")' => HasStatus(i, "running")
  BY <1>2, <1>3 DEF HasStatus
<1>7. \A i \in Jobs : IsTerminal(i)' <=> IsTerminal(i)
  BY <1>2, <1>3 DEF IsTerminal, HasStatus, TerminalJobStatuses
<1>8. \A t \in Ticks : PollInv(t)'
  <2>1. ASSUME NEW t \in Ticks PROVE PollInv(t)'
    <3>1. /\ PollInv(t) /\ toRecover[t] \subseteq Jobs /\ batch[t] \subseteq Jobs
          /\ \A c \in candidates[t] : c.job \in Jobs
          /\ pc[t] \in {"open"} \cup InFlightPcs => cur[t] \in Jobs
      BY CurTyped DEF SoloInv, IInv, TypeOK
    <3>2. \A c \in candidates[t] : StillQueued(c.job)' /\ job'[c.job].due /\ job'[c.job].attemptCount = c.seen
      BY <1>3, <1>5, <3>1 DEF PollInv, StillQueued
    <3>3. \A i \in toRecover[t] \cup batch[t] : HasStatus(i, "running")'
      BY <1>5, <3>1 DEF PollInv
    <3>4. pc[t] \in Working =>
            HasStatus(cur[t], "running")' \/ (pc[t] = "failRead" /\ job'[cur[t]].status \in TerminalJobStatuses)
      BY <1>1, <1>5, <1>7, <3>1 DEF PollInv, Working, InFlightPcs, IsTerminal, tickVars
    <3>5. pc[t] = "closeSucceeded" => job'[cur[t]].status \in TerminalJobStatuses
      BY <1>1, <1>7, <3>1 DEF PollInv, InFlightPcs, IsTerminal, tickVars
    <3>6. pc[t] = "failWrite" /\ verdict[t] = "queued" => job'[cur[t]].attemptCount < MaxAttempts
      BY <1>3, <3>1 DEF PollInv, InFlightPcs
    <3>. QED BY <1>1, <3>1, <3>2, <3>3, <3>4, <3>5, <3>6 DEF PollInv, IsTerminal, HasStatus, tickVars
  <2>. QED BY <2>1
<1>9. \A t \in Ticks : Unopened(t)'
  <2>1. ASSUME NEW t \in Ticks, pc[t] = "open"
        PROVE  cur[t] \in Jobs /\ job'[cur[t]].attemptCount = job[cur[t]].attemptCount
    BY <1>3, <2>1, CurTyped
  <2>. QED BY <1>1, <2>1 DEF SoloInv, Unopened, tickVars
<1>10. \A i \in Jobs : AttemptsCounted(i)'
  BY <1>1, <1>3 DEF SoloInv, AttemptsCounted
<1>11. \A t \in Ticks, i \in Jobs : Settles(t, i)' => LastIsOpen(i)'
  <2>1. \A t \in Ticks, i \in Jobs : Settles(t, i)' => Settles(t, i)
    BY <1>1, <1>7 DEF Settles, tickVars
  <2>. QED BY <1>1, <2>1 DEF SoloInv, LastIsOpen
<1>12. BudgetInv'
  <2>1. \A i \in Jobs : job'[i].status \in {"absent", "queued"} => RoomToTry(i)
    BY <1>2, <1>3 DEF SoloInv, BudgetInv, HasStatus
  <2>2. \A i \in Jobs : job'[i].status = "running" /\ (\A u \in Ticks : ~Owns(u, i)') => RoomToTry(i)
    BY <1>1, <1>6 DEF SoloInv, BudgetInv, HasStatus, Owns, tickVars
  <2>3. \A u \in Ticks : pc'[u] = "failRead" /\ IsTerminal(cur[u])' => \A i \in batch'[u] : RoomToTry(i)
    <3>1. \A u \in Ticks : pc[u] = "failRead" => cur[u] \in Jobs /\ cur'[u] = cur[u]
      BY <1>1, CurTyped DEF InFlightPcs, tickVars
    <3>2. \A u \in Ticks : pc'[u] = "failRead" /\ IsTerminal(cur[u])' => pc[u] = "failRead" /\ IsTerminal(cur[u])
      <4>1. ASSUME NEW u \in Ticks, pc'[u] = "failRead", job'[cur'[u]].status \in TerminalJobStatuses
            PROVE  pc[u] = "failRead" /\ IsTerminal(cur[u])
        BY <1>1, <1>7, <3>1, <4>1 DEF tickVars, IsTerminal
      <4>. QED BY <4>1 DEF IsTerminal
    <3>. QED BY <1>1, <3>2 DEF SoloInv, BudgetInv, tickVars
  <2>. QED BY <1>1, <1>3, <2>1, <2>2, <2>3, BudgetSame DEF workerVars
<1>. QED BY <1>4, <1>8, <1>9, <1>10, <1>11, <1>12 DEF SoloInv

\* At most one process is up, and it leaves the table when it crashes.
LEMMA SoloStarts ==
  ASSUME SoloInv, IInv', Solo, NEW w \in Workers, StartWorker(w)
  PROVE  SoloInv'
<1>1. /\ worker' = [worker EXCEPT ![w] = "up"] /\ worker[w] = "new"
      /\ UNCHANGED <<queueVars, held, releasing, tickVars, replayVars, settled, boundVars>>
      /\ Cardinality(LiveWorkers) < MaxUp
  BY DEF StartWorker
<1>2. \A v \in Workers : worker[v] # "up"
  <2>1. ASSUME NEW v \in Workers, worker[v] = "up" PROVE FALSE
    <3>1. LiveWorkers = {v}
      BY <2>1 DEF LiveWorkers, Live, SoloInv, OneProcess
    <3>2. Cardinality(LiveWorkers) = 1
      BY <3>1, FS_Singleton
    <3>. QED BY <1>1, <3>2, WorkerAssumption DEF Solo
  <2>. QED BY <2>1
<1>3. OneProcess'
  BY <1>1, <1>2 DEF SoloInv, OneProcess, IInv, TypeOK, tickVars, replayVars, Ticks
<1>4. Dead' = Dead
  BY <1>1 DEF Dead, SoloInv, IInv, TypeOK
<1>. QED
  BY <1>1, <1>3, <1>4 DEF SoloInv, PollInv, Unopened, AttemptsCounted, Settles, LastIsOpen,
     BudgetInv, InBudget, RoomToTry, Losses, Owns, HasStatus, StillQueued, IsTerminal,
     queueVars, tickVars, boundVars

LEMMA SoloCrashes ==
  ASSUME SoloInv, IInv', Solo, NEW w \in Workers, Crash(w)
  PROVE  SoloInv'
<1>1. /\ worker' = [worker EXCEPT ![w] = "dead"] /\ releasing' = [releasing EXCEPT ![w] = NoJob]
      /\ ClearTicks({w} \X Lanes) /\ UNCHANGED <<queueVars, replayVars, settled, boundVars>>
      /\ Live(w)
  BY DEF Crash, Vanish
<1>2. worker[w] = "up" /\ \A v \in Workers \ {w} : worker[v] \in {"new", "dead"}
  BY <1>1 DEF Live, SoloInv, OneProcess
<1>3. \A t \in Ticks : Resting(t)'
  <2>1. ASSUME NEW t \in {w} \X Lanes, t \in Ticks PROVE Resting(t)'
    BY <1>1, <2>1 DEF ClearTicks, Resting
  <2>2. ASSUME NEW t \in Ticks, t \notin {w} \X Lanes PROVE Resting(t)'
    <3>1. t[1] # w /\ t[1] \in Workers
      BY <2>2 DEF Ticks
    <3>2. pc[t] = "idle"
      BY <1>2, <3>1 DEF SoloInv, OneProcess
    <3>3. Resting(t)
      BY <3>2 DEF Resting, SoloInv, PollInv
    <3>. QED BY <1>1, <2>2, <3>3 DEF ClearTicks, Resting
  <2>. QED BY <2>1, <2>2
<1>4. OneProcess'
  <2>1. \A v \in Workers : worker'[v] \in {"new", "dead"} /\ releasing'[v] = NoJob
    BY <1>1, <1>2 DEF SoloInv, OneProcess, IInv, TypeOK
  <2>. QED BY <1>1, <1>3, <2>1 DEF OneProcess, SoloInv, Resting, replayVars
<1>5. BudgetInv'
  <2>1. Dead' = Dead \cup {w} /\ w \notin Dead
    BY <1>1, <1>2 DEF Dead, SoloInv, IInv, TypeOK
  <2>2. IsFiniteSet(Dead)' /\ Cardinality(Dead') = Cardinality(Dead) + 1
    BY <2>1, FS_AddElement DEF SoloInv, BudgetInv
  <2>3. Cardinality(Dead) \in Nat /\ aborts' = aborts
    BY <1>1, FS_CardinalityType DEF SoloInv, BudgetInv, boundVars
  <2>4. Losses' \in Nat /\ Losses' > Losses
    BY <2>2, <2>3, SoloTypes DEF Losses
  <2>. QED BY <1>1, <2>2, <2>4, BudgetLoss DEF queueVars
<1>6. \A j \in Jobs : AttemptsCounted(j)'
  BY <1>1 DEF SoloInv, AttemptsCounted, queueVars
<1>. QED BY <1>3, <1>4, <1>5, <1>6, RestingKeeps DEF SoloInv

LEMMA SoloInit == Init => SoloInv
<1>. SUFFICES ASSUME Init PROVE SoloInv
  OBVIOUS
<1>1. IInv
  BY InitInv
<1>2. \A j \in Jobs : job[j].status = "absent" /\ job[j].attemptCount = 0 /\ attempts[j] = << >>
  BY DEF Init, QueueInit, AbsentRow
<1>3. OneProcess /\ \A t \in Ticks : PollInv(t) /\ Unopened(t)
  BY DEF Init, OneProcess, PollInv, Unopened, Working, InFlightPcs, Ticks
<1>4. \A j \in Jobs : AttemptsCounted(j)
  BY <1>2 DEF AttemptsCounted
<1>5. \A t \in Ticks, j \in Jobs : ~Settles(t, j)
  BY DEF Init, Settles
<1>6. BudgetInv
  <2>1. Dead = {}
    BY DEF Init, Dead
  <2>2. IsFiniteSet(Dead) /\ Cardinality(Dead) = 0
    BY <2>1, FS_EmptySet
  <2>3. Losses = 0
    BY <2>2 DEF Losses, Init
  <2>4. \A j \in Jobs : InBudget(j) /\ RoomToTry(j)
    BY <1>2, <2>3, QueueAssumption DEF InBudget, RoomToTry
  <2>. QED BY <2>2, <2>4 DEF BudgetInv, Init
<1>. QED BY <1>1, <1>3, <1>4, <1>5, <1>6 DEF SoloInv

LEMMA SoloNext == SoloInv /\ Solo /\ [Next]_vars => SoloInv'
<1>. SUFFICES ASSUME SoloInv, Solo, [Next]_vars PROVE SoloInv'
  OBVIOUS
<1>1. IInv'
  BY NextInv DEF SoloInv
<1>2. CASE UNCHANGED vars
  BY <1>2 DEF vars, queueVars, tickVars, workerVars, replayVars, boundVars, SoloInv, IInv, TypeOK,
     QueueTypeOK, LockIffRunning, SuccessWasEarned, TickInv,
     OneProcess, PollInv, Unopened, AttemptsCounted, Settles, LastIsOpen, BudgetInv, InBudget, RoomToTry,
     Losses, Dead, Owns, HasStatus, StillQueued, IsTerminal
<1>3. ASSUME NEW j \in Jobs, Enqueue(j) \/ BackoffElapses(j) \/ LockExpires(j)
      PROVE  SoloInv'
  BY <1>1, <1>3, SoloCallers
<1>4. ~\E a \in Operators : ReplayWrite(a) \/ \E j \in Jobs : ReplayRead(a, j)
  BY DEF SoloInv, OneProcess, Solo, ReplayWrite, ReplayRead
<1>5. ASSUME NEW t \in Ticks, TickStep(t) PROVE SoloInv'
  BY <1>1, <1>5, SoloReads, SoloClaims, SoloOpens, SoloHandles, SoloSettles, SoloRecovers, SoloCloses
     DEF TickStep
<1>6. ASSUME NEW t \in Ticks, StatementFails(t) PROVE SoloInv'
  BY <1>1, <1>6, SoloFails
<1>7. ASSUME NEW w \in Workers, StartWorker(w) \/ Crash(w) PROVE SoloInv'
  BY <1>1, <1>7, SoloStarts, SoloCrashes
<1>8. ASSUME NEW w \in Workers PROVE ~(DrainBegin(w) \/ ShutdownStep(w))
  BY <1>8 DEF Solo, SoloInv, OneProcess, DrainBegin, ShutdownStep, DrainDone, DrainDeadline, ReleaseClose,
     ReleaseDone, Exit, ReleaseOne
<1>. QED BY <1>2, <1>3, <1>4, <1>5, <1>6, <1>7, <1>8 DEF Next

\* The invariant of a deployment with one process at a time.
THEOREM OneAtATime == Solo => (Spec => []SoloInv)
<1>1. ASSUME Solo PROVE Init /\ [][Next]_vars => []SoloInv
  <2>1. SoloInv /\ [Next]_vars => SoloInv'
    BY <1>1, SoloNext
  <2>. QED BY <2>1, SoloInit, PTL
<1>. QED BY <1>1 DEF Spec

-----------------------------------------------------------------------------
(* What one process at a time guarantees *)

\* The attempt rows of a job are numbered in the order they were opened, through
\* crashes, rejected statements and recoveries: claimDue's attempt number, read
\* before the row is written, is never used twice.
THEOREM Ordered == Solo => (Spec => []AttemptsInOrder)
<1>1. SoloInv => AttemptsInOrder
  BY DEF SoloInv, AttemptsCounted, AttemptsInOrder
<1>. QED BY <1>1, OneAtATime, PTL

\* A job is tried at most maxAttempts times, and once more for each crash and
\* each rejected statement: recovery does not hand out attempts without end.
THEOREM Bounded == Solo => (Spec => []AttemptBudget)
<1>1. ASSUME SoloInv PROVE AttemptBudget
  <2>1. ASSUME NEW j \in Jobs PROVE Len(attempts[j]) <= MaxAttempts + Losses
    <3>1. Len(attempts[j]) <= job[j].attemptCount /\ job[j].attemptCount <= MaxAttempts + Losses
      BY <1>1 DEF SoloInv, AttemptsCounted, BudgetInv, InBudget
    <3>2. attempts[j] \in Seq(Attempt) /\ job[j].attemptCount \in Nat /\ Losses \in Nat /\ MaxAttempts \in Nat
      BY <1>1, SoloTypes
    <3>3. Len(attempts[j]) \in Nat
      BY <3>2
    <3>. HIDE DEF Losses
    <3>. QED BY <3>1, <3>2, <3>3
  <2>2. aborts \in Nat /\ Cardinality(Dead) \in Nat /\ MaxAttempts \in Nat
    BY <1>1, SoloTypes, FS_CardinalityType DEF SoloInv, BudgetInv
  <2>. QED BY <2>1, <2>2 DEF AttemptBudget, Losses, Dead
<1>. QED BY <1>1, OneAtATime, PTL

\* Only the claim makes a queued job running, and its candidate was read as due.
LEMMA ClaimsAreDue ==
  ASSUME SoloInv, Solo, Next, NEW j \in Jobs, HasStatus(j, "queued"), job'[j].status = "running"
  PROVE  job[j].due
<1>. USE DEF HasStatus
<1>1. job \in [Jobs -> JobRow] /\ \A i \in Jobs : job[i] \in JobRow
  BY SoloTypes DEF SoloInv, IInv, TypeOK, QueueTypeOK
<1>2. ASSUME UNCHANGED job PROVE FALSE
  BY <1>2
<1>3. ASSUME NEW i \in Jobs, Enqueue(i) \/ BackoffElapses(i) \/ LockExpires(i)
      PROVE  FALSE
  BY <1>1, <1>3 DEF Enqueue, BackoffElapses, LockExpires, JobRow
<1>4. ~\E a \in Operators : ReplayWrite(a) \/ \E i \in Jobs : ReplayRead(a, i)
  BY DEF SoloInv, OneProcess, Solo, ReplayWrite, ReplayRead
<1>5. ASSUME NEW w \in Workers, StartWorker(w) \/ Crash(w) PROVE FALSE
  BY <1>2, <1>5 DEF StartWorker, Crash, Vanish, queueVars
<1>6. ASSUME NEW w \in Workers PROVE ~(DrainBegin(w) \/ ShutdownStep(w))
  BY <1>6 DEF Solo, SoloInv, OneProcess, DrainBegin, ShutdownStep, DrainDone, DrainDeadline, ReleaseClose,
     ReleaseDone, Exit, ReleaseOne
<1>7. ASSUME NEW t \in Ticks, TickStep(t) \/ StatementFails(t)
      PROVE  job[j].due
  <2>1. CASE \E c \in candidates[t] : ClaimOne(t, c)
    <3>1. PICK c \in candidates[t] : ClaimOne(t, c)
      BY <2>1
    <3>2. c.job \in Jobs /\ job[c.job].due
      BY DEF SoloInv, IInv, TypeOK, PollInv
    <3>3. c.job # j => job'[j] = job[j]
      BY <1>1, <3>1 DEF ClaimOne
    <3>. QED BY <1>2, <3>2, <3>3
  <2>2. CASE \E i \in Jobs : RecoverOne(t, i)
    BY <1>1, <2>2 DEF RecoverOne, RequeuedRow, Unlocked, JobRow
  <2>3. CASE MarkSucceeded(t)
    <3>1. cur[t] \in Jobs
      BY <2>3, CurTyped DEF MarkSucceeded, InFlightPcs
    <3>. QED BY <1>1, <2>3, <3>1 DEF MarkSucceeded, Unlocked, JobRow
  <2>4. CASE FailWrite(t)
    <3>1. cur[t] \in Jobs /\ verdict[t] \in {"queued", "dead_letter"}
      BY <2>4 DEF FailWrite, SoloInv, IInv, TickInv, InFlightPcs
    <3>2. FailedRow(job[cur[t]], verdict[t]).status = verdict[t]
      BY <1>1, <3>1, FailedRowGood
    <3>. QED BY <1>1, <2>4, <3>1, <3>2 DEF FailWrite
  <2>5. CASE TickStart(t) \/ RecoverClose(t) \/ ClaimRead(t) \/ OpenClaimed(t) \/ HandlerSettles(t)
             \/ FailRead(t) \/ FinishJob(t) \/ TickEnd(t) \/ StatementFails(t)
             \/ \E i \in Jobs : StartJob(t, i)
    BY <1>2, <2>5 DEF TickStart, RecoverClose, ClaimRead, OpenClaimed, HandlerSettles, FailRead, FinishJob,
       TickEnd, StatementFails, StartJob, queueVars
  <2>. QED BY <1>7, <2>1, <2>2, <2>3, <2>4, <2>5 DEF TickStep
<1>. QED BY <1>3, <1>4, <1>5, <1>6, <1>7 DEF Next

\* A job waiting for its backoff is not claimed: what claimDue read of it when
\* it looked is still so when the claim is written.
THEOREM ClaimsDue == Solo => (Spec => ClaimedOnlyWhenDue)
<1>1. ASSUME Solo PROVE Init /\ [][Next]_vars => ClaimedOnlyWhenDue
  <2>. DEFINE A == \A j \in Jobs : HasStatus(j, "queued") /\ job'[j].status = "running" => job[j].due
  <2>1. SoloInv /\ [Next]_vars => [A]_vars
    BY <1>1, ClaimsAreDue
  <2>2. SoloInv /\ [Next]_vars => SoloInv'
    BY <1>1, SoloNext
  <2>3. Init /\ [][Next]_vars => [][A]_vars
    BY <2>1, <2>2, SoloInit, PTL
  <2>. QED BY <2>3 DEF ClaimedOnlyWhenDue
<1>. QED BY <1>1 DEF Spec

\* Outcomes that are written stay written.
OutcomesKept ==
  \A j \in Jobs : \A i \in DOMAIN attempts[j] :
    attempts[j][i].status # "running" => attempts'[j][i].status = attempts[j][i].status

\* closeAttempt picks the attempt that is still open.
LEMMA LatestIsOpen ==
  ASSUME SoloInv, NEW j \in Jobs, LastIsOpen(j), NEW s \in {"succeeded", "failed"},
         CloseLatestAttempt(j, s)
  PROVE  OutcomesKept
<1>. DEFINE A == attempts[j]
<1>1. /\ A \in Seq(Attempt) /\ A # << >> /\ A[Len(A)].status = "running"
      /\ \A i, k \in DOMAIN A : i < k => A[i].number < A[k].number
  BY SoloTypes DEF LastIsOpen, SoloInv, AttemptsCounted
<1>2. Len(A) \in Nat \ {0} /\ DOMAIN A = 1 .. Len(A) /\ \A i \in 1 .. Len(A) : A[i].number \in Nat
  <2>1. Len(A) \in Nat \ {0} /\ DOMAIN A = 1 .. Len(A) /\ \A i \in 1 .. Len(A) : A[i] \in Attempt
    BY <1>1
  <2>. QED BY <2>1 DEF Attempt
<1>3. PICK k \in DOMAIN A : /\ attempts' = [attempts EXCEPT ![j][k].status = s]
                            /\ \A i \in DOMAIN A : A[i].number <= A[k].number
  BY DEF CloseLatestAttempt, LatestAttempts
<1>4. k = Len(A)
  <2>1. k # Len(A) => k < Len(A) /\ A[k].number < A[Len(A)].number
    BY <1>1, <1>2
  <2>. QED BY <1>2, <1>3, <2>1
<1>5. \A i \in DOMAIN A : A[i].status # "running" => i # k
  BY <1>1, <1>4
<1>6. /\ \A i \in Jobs \ {j} : attempts'[i] = attempts[i]
      /\ \A i \in DOMAIN A : i # k => attempts'[j][i] = A[i]
  BY <1>3 DEF SoloInv, IInv, TypeOK, QueueTypeOK
<1>. QED BY <1>5, <1>6 DEF OutcomesKept

LEMMA OutcomesStay ==
  ASSUME SoloInv, Solo, Next
  PROVE  OutcomesKept
<1>0. \A j \in Jobs : attempts[j] \in Seq(Attempt)
  BY SoloTypes
<1>1. ASSUME UNCHANGED attempts PROVE OutcomesKept
  BY <1>1 DEF OutcomesKept
<1>2. ASSUME NEW j \in Jobs, Enqueue(j) \/ BackoffElapses(j) \/ LockExpires(j)
      PROVE  OutcomesKept
  BY <1>1, <1>2 DEF Enqueue, BackoffElapses, LockExpires
<1>3. ~\E a \in Operators : ReplayWrite(a) \/ \E j \in Jobs : ReplayRead(a, j)
  BY DEF SoloInv, OneProcess, Solo, ReplayWrite, ReplayRead
<1>4. ASSUME NEW w \in Workers, StartWorker(w) \/ Crash(w) PROVE OutcomesKept
  BY <1>1, <1>4 DEF StartWorker, Crash, Vanish, queueVars
<1>5. ASSUME NEW w \in Workers PROVE ~(DrainBegin(w) \/ ShutdownStep(w))
  BY <1>5 DEF Solo, SoloInv, OneProcess, DrainBegin, ShutdownStep, DrainDone, DrainDeadline, ReleaseClose,
     ReleaseDone, Exit, ReleaseOne
<1>6. ASSUME NEW t \in Ticks, TickStep(t) \/ StatementFails(t)
      PROVE  OutcomesKept
  <2>1. CASE OpenClaimed(t)
    <3>1. PICK j \in Jobs : j = cur[t]
      BY <2>1, CurTyped DEF OpenClaimed
    <3>2. PICK e : attempts' = [attempts EXCEPT ![j] = Append(attempts[j], e)]
      BY <2>1, <3>1 DEF OpenClaimed, OpenAttempt, SoloInv, IInv, TypeOK, QueueTypeOK
    <3>3. attempts'[j] = Append(attempts[j], e) /\ \A i \in Jobs \ {j} : attempts'[i] = attempts[i]
      BY <3>2 DEF SoloInv, IInv, TypeOK, QueueTypeOK
    <3>4. \A i \in DOMAIN attempts[j] : attempts'[j][i] = attempts[j][i]
      BY <1>0, <3>3
    <3>. QED BY <3>3, <3>4 DEF OutcomesKept
  <2>2. CASE RecoverClose(t)
    <3>1. PICK j \in Jobs : j = cur[t]
      BY <2>2, CurTyped DEF RecoverClose
    <3>2. CloseOpenAttempts(j)
      BY <2>2, <3>1 DEF RecoverClose
    <3>. QED BY <3>2 DEF CloseOpenAttempts, OutcomesKept, SoloInv, IInv, TypeOK, QueueTypeOK
  <2>3. CASE FinishJob(t)
    <3>1. PICK j \in Jobs : j = cur[t]
      BY <2>3, CurTyped DEF FinishJob, InFlightPcs
    <3>2. LastIsOpen(j)
      BY <2>3, <3>1 DEF FinishJob, SoloInv, Settles
    <3>3. CloseLatestAttempt(j, "succeeded") \/ CloseLatestAttempt(j, "failed")
      BY <2>3, <3>1 DEF FinishJob
    <3>. QED BY <3>2, <3>3, LatestIsOpen
  <2>4. CASE StatementFails(t)
    <3>1. ASSUME pc[t] = "closeSucceeded", CloseLatestAttempt(cur[t], "succeeded")
          PROVE  OutcomesKept
      <4>1. PICK j \in Jobs : j = cur[t]
        BY <3>1, CurTyped DEF InFlightPcs
      <4>2. LastIsOpen(j)
        BY <3>1, <4>1 DEF SoloInv, Settles
      <4>. QED BY <3>1, <4>1, <4>2, LatestIsOpen
    <3>. QED BY <1>1, <2>4, <3>1 DEF StatementFails
  <2>5. CASE \E c \in candidates[t] : ClaimOne(t, c)
    BY <1>1, <2>5 DEF ClaimOne
  <2>6. CASE TickStart(t) \/ ClaimRead(t) \/ HandlerSettles(t) \/ MarkSucceeded(t) \/ FailRead(t)
             \/ FailWrite(t) \/ TickEnd(t) \/ \E j \in Jobs : RecoverOne(t, j) \/ StartJob(t, j)
    BY <1>1, <2>6 DEF TickStart, ClaimRead, HandlerSettles, MarkSucceeded, FailRead, FailWrite, TickEnd,
       RecoverOne, StartJob, queueVars
  <2>. QED BY <1>6, <2>1, <2>2, <2>3, <2>4, <2>5, <2>6 DEF TickStep
<1>. QED BY <1>2, <1>3, <1>4, <1>5, <1>6 DEF Next

\* The outcome recorded for an attempt is never rewritten: closeAttempt, which
\* picks its row by the highest number, always finds the one still running.
THEOREM OutcomesFinal == Solo => (Spec => AttemptOutcomeFinal)
<1>1. ASSUME Solo PROVE Init /\ [][Next]_vars => AttemptOutcomeFinal
  <2>1. SoloInv /\ [Next]_vars => [OutcomesKept]_vars
    BY <1>1, OutcomesStay
  <2>2. SoloInv /\ [Next]_vars => SoloInv'
    BY <1>1, SoloNext
  <2>3. Init /\ [][Next]_vars => [][OutcomesKept]_vars
    BY <2>1, <2>2, SoloInit, PTL
  <2>. QED BY <2>3 DEF AttemptOutcomeFinal, OutcomesKept
<1>. QED BY <1>1 DEF Spec

\* Recovery, claim and markFailed write a row that has not settled: what each of
\* them read of it is still so, a rejected statement before it or not.
LEMMA SettledStay ==
  ASSUME SoloInv, Solo, Next, NEW j \in Jobs, IsTerminal(j)
  PROVE  job'[j].status = job[j].status
<1>. USE DEF HasStatus, IsTerminal, TerminalJobStatuses
<1>1. job \in [Jobs -> JobRow]
  BY SoloTypes DEF SoloInv, IInv, TypeOK, QueueTypeOK
<1>2. ASSUME UNCHANGED job PROVE job'[j].status = job[j].status
  BY <1>2
<1>3. ASSUME NEW i \in Jobs, Enqueue(i) \/ BackoffElapses(i) \/ LockExpires(i)
      PROVE  job'[j].status = job[j].status
  BY <1>1, <1>3 DEF Enqueue, BackoffElapses, LockExpires, JobRow
<1>4. ~\E a \in Operators : ReplayWrite(a) \/ \E i \in Jobs : ReplayRead(a, i)
  BY DEF SoloInv, OneProcess, Solo, ReplayWrite, ReplayRead
<1>5. ASSUME NEW w \in Workers, StartWorker(w) \/ Crash(w)
      PROVE  job'[j].status = job[j].status
  BY <1>2, <1>5 DEF StartWorker, Crash, Vanish, queueVars
<1>6. ASSUME NEW w \in Workers PROVE ~(DrainBegin(w) \/ ShutdownStep(w))
  BY <1>6 DEF Solo, SoloInv, OneProcess, DrainBegin, ShutdownStep, DrainDone, DrainDeadline, ReleaseClose,
     ReleaseDone, Exit, ReleaseOne
<1>7. ASSUME NEW t \in Ticks, TickStep(t) \/ StatementFails(t)
      PROVE  job'[j].status = job[j].status
  <2>1. CASE \E c \in candidates[t] : ClaimOne(t, c)
    <3>1. PICK c \in candidates[t] : ClaimOne(t, c)
      BY <2>1
    <3>2. StillQueued(c.job)
      BY DEF SoloInv, PollInv
    <3>3. c.job # j => job'[j] = job[j]
      BY <1>1, <3>1 DEF ClaimOne
    <3>. QED BY <3>2, <3>3 DEF StillQueued
  <2>2. CASE \E i \in Jobs : RecoverOne(t, i)
    <3>1. PICK i \in Jobs : RecoverOne(t, i)
      BY <2>2
    <3>2. HasStatus(i, "running") /\ (i # j => job'[j] = job[j])
      BY <1>1, <3>1 DEF RecoverOne, SoloInv, PollInv
    <3>. QED BY <3>2
  <2>3. CASE MarkSucceeded(t)
    <3>1. job' = job \/ (HasStatus(cur[t], "running")
                         /\ job' = [job EXCEPT ![cur[t]] = Unlocked(@, "succeeded")])
      BY <2>3 DEF MarkSucceeded
    <3>. QED BY <1>1, <3>1
  <2>4. CASE FailWrite(t)
    <3>1. HasStatus(cur[t], "running")
      BY <2>4 DEF FailWrite, SoloInv, PollInv, Working
    <3>2. cur[t] # j => job'[j] = job[j]
      BY <1>1, <2>4 DEF FailWrite
    <3>. QED BY <3>1, <3>2
  <2>5. CASE TickStart(t) \/ RecoverClose(t) \/ ClaimRead(t) \/ OpenClaimed(t) \/ HandlerSettles(t)
             \/ FailRead(t) \/ FinishJob(t) \/ TickEnd(t) \/ StatementFails(t)
             \/ \E i \in Jobs : StartJob(t, i)
    BY <1>2, <2>5 DEF TickStart, RecoverClose, ClaimRead, OpenClaimed, HandlerSettles, FailRead, FinishJob,
       TickEnd, StatementFails, StartJob, queueVars
  <2>. QED BY <1>7, <2>1, <2>2, <2>3, <2>4, <2>5 DEF TickStep
<1>. QED BY <1>3, <1>4, <1>5, <1>6, <1>7 DEF Next

\* One process after another leaves a settled job alone: a stale lock it read is
\* not taken from a job that has ended since, and markFailed, entered after a
\* rejected statement, throws rather than rewrite a succeeded row.
THEOREM FinalAlone == Solo => (Spec => TerminalIsFinal)
<1>1. ASSUME Solo PROVE Init /\ [][Next]_vars => TerminalIsFinal
  <2>. DEFINE A == \A j \in Jobs :
                IsTerminal(j) => \/ job'[j].status = job[j].status
                                 \/ HasStatus(j, "dead_letter") /\ (\E a \in Operators : ReplayWrite(a))
  <2>1. SoloInv /\ [Next]_vars => [A]_vars
    BY <1>1, SettledStay
  <2>2. SoloInv /\ [Next]_vars => SoloInv'
    BY <1>1, SoloNext
  <2>3. Init /\ [][Next]_vars => [][A]_vars
    BY <2>1, <2>2, SoloInit, PTL
  <2>. QED BY <2>3 DEF TerminalIsFinal
<1>. QED BY <1>1 DEF Spec
=============================================================================
