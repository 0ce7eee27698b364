-------------------------- MODULE AutomationWorker --------------------------
(***************************************************************************)
(* The workers that consume the queue (automation/automation-worker.       *)
(* service.ts) and the people who replay dead letters, interleaved one SQL *)
(* statement at a time.                                                    *)
(*                                                                         *)
(* A worker is one process. It runs a chain of polls ("poll") and, when    *)
(* POST /automation/worker/run-once is called, further polls beside it     *)
(* ("once"): every such lane is a sequential thread of tick()s. Each       *)
(* action below is one statement with the synchronous code around it.      *)
(***************************************************************************)
EXTENDS AutomationQueue, FiniteSets

CONSTANTS Lanes,        \* concurrent tick() threads of one process
          Operators,    \* people who may replay a dead letter
          NoJob,
          Batch,        \* AUTOMATION_BATCH_SIZE
          MaxUp,        \* processes of a deployment running at the same time
          Adversity,    \* what may go wrong, a subset of Misfortunes
          MaxAborts,    \* bound: statements rejected by the database
          MaxExpiries,  \* bound: locks that expire under a live handler
          MaxReplays    \* bound: replays of one job

Misfortunes == {"crash", "abort", "slow", "drain", "replay", "fatal"}

ASSUME WorkerAssumption ==
  /\ NoJob \notin Jobs
  /\ Batch \in Nat \ {0}
  /\ MaxUp \in Nat
  /\ Adversity \subseteq Misfortunes
  /\ MaxAborts \in Nat /\ MaxExpiries \in Nat /\ MaxReplays \in Nat

VARIABLES worker,     \* life of each process
          held,       \* releaseWorkerLocks: running rows it read
          releasing,  \* releaseWorkerLocks: the row whose attempts it closes
          pc,         \* where each tick() is
          toRecover,  \* recoverStaleLocks: stale rows it read
          candidates, \* claimDue: due rows it read, with the count it read
          batch,      \* jobs claimed by this tick and not yet finished
          cur,        \* the job the tick is working on
          number,     \* attempt number written by the last claim
          verdict,    \* how the handler or the failure policy decided
          replaying,  \* replayDeadLetter: the row each operator read
          generation, \* replayDeadLetter: the replay count it will write
          settled,    \* history: how handlers of the job have ended so far
          aborts, expiries

tickVars    == <<pc, toRecover, candidates, batch, cur, number, verdict>>
workerVars  == <<worker, held, releasing>>
replayVars  == <<replaying, generation>>
boundVars   == <<aborts, expiries>>
vars == <<queueVars, workerVars, tickVars, replayVars, settled, boundVars>>

Ticks == Workers \X Lanes

WorkerStatus == {"new", "up", "draining", "releasing", "stopped", "dead"}

TickPc == {"idle", "recover", "recoverClose", "claim", "open", "running",
           "succeed", "closeSucceeded", "failRead", "failWrite", "closeFailed"}

Verdicts == {"none", "ok", "retryable", "fatal", "queued", "dead_letter"}

TypeOK ==
  /\ QueueTypeOK
  /\ worker \in [Workers -> WorkerStatus]
  /\ held \in [Workers -> SUBSET Jobs]
  /\ releasing \in [Workers -> Jobs \cup {NoJob}]
  /\ pc \in [Ticks -> TickPc]
  /\ toRecover \in [Ticks -> SUBSET Jobs]
  /\ candidates \in [Ticks -> SUBSET [job : Jobs, seen : Nat]]
  /\ batch \in [Ticks -> SUBSET Jobs]
  /\ cur \in [Ticks -> Jobs \cup {NoJob}]
  /\ number \in [Ticks -> Nat]
  /\ verdict \in [Ticks -> Verdicts]
  /\ replaying \in [Operators -> Jobs \cup {NoJob}]
  /\ generation \in [Operators -> Nat]
  /\ settled \in [Jobs -> SUBSET {"ok", "retryable", "fatal"}]
  /\ aborts \in Nat /\ expiries \in Nat

Init ==
  /\ QueueInit
  /\ worker = [w \in Workers |-> "new"]
  /\ held = [w \in Workers |-> {}]
  /\ releasing = [w \in Workers |-> NoJob]
  /\ pc = [t \in Ticks |-> "idle"]
  /\ toRecover = [t \in Ticks |-> {}]
  /\ candidates = [t \in Ticks |-> {}]
  /\ batch = [t \in Ticks |-> {}]
  /\ cur = [t \in Ticks |-> NoJob]
  /\ number = [t \in Ticks |-> 0]
  /\ verdict = [t \in Ticks |-> "none"]
  /\ replaying = [a \in Operators |-> NoJob]
  /\ generation = [a \in Operators |-> 0]
  /\ settled = [j \in Jobs |-> {}]
  /\ aborts = 0 /\ expiries = 0

-----------------------------------------------------------------------------
(* Helpers *)

Live(w) == worker[w] \in {"up", "draining", "releasing", "stopped"}

LiveWorkers == {w \in Workers : Live(w)}

\* Jobs a live tick has claimed and not finished with.
InHand(t) == batch[t] \cup ({cur[t]} \ {NoJob})

HeldAlive(j) == \E t \in Ticks : Live(t[1]) /\ j \in InHand(t)

\* runJob is between its `inFlight += 1` and its `inFlight -= 1`.
InFlightPcs == {"running", "succeed", "closeSucceeded", "failRead",
                "failWrite", "closeFailed"}

InFlight(w) == \E l \in Lanes : pc[<<w, l>>] \in InFlightPcs

\* Lanes executing the handler of j.
Runners(j) == {t \in Ticks : Live(t[1]) /\ pc[t] = "running" /\ cur[t] = j}

Goto(t, l) == pc' = [pc EXCEPT ![t] = l]

\* The local variables of a tick that is over or was killed.
ClearTicks(S) ==
  /\ pc' = [t \in Ticks |-> IF t \in S THEN "idle" ELSE pc[t]]
  /\ toRecover' = [t \in Ticks |-> IF t \in S THEN {} ELSE toRecover[t]]
  /\ candidates' = [t \in Ticks |-> IF t \in S THEN {} ELSE candidates[t]]
  /\ batch' = [t \in Ticks |-> IF t \in S THEN {} ELSE batch[t]]
  /\ cur' = [t \in Ticks |-> IF t \in S THEN NoJob ELSE cur[t]]
  /\ number' = [t \in Ticks |-> IF t \in S THEN 0 ELSE number[t]]
  /\ verdict' = [t \in Ticks |-> IF t \in S THEN "none" ELSE verdict[t]]

\* A process is replaced when it dies: something is left to start.
Replaceable == \E w \in Workers : worker[w] = "new"

-----------------------------------------------------------------------------
(* Callers of the queue *)

\* enqueue: the insert. The row may be scheduled for later (runAt).
Enqueue(j) ==
  /\ HasStatus(j, "absent")
  /\ \E due \in BOOLEAN :
       job' = [job EXCEPT ![j].status = "queued", ![j].due = due]
  /\ UNCHANGED <<attempts, workerVars, tickVars, replayVars, settled, boundVars>>

\* replayDeadLetter reads the row and refuses anything but a dead letter ...
ReplayRead(a, j) ==
  /\ "replay" \in Adversity
  /\ replaying[a] = NoJob
  /\ HasStatus(j, "dead_letter")
  /\ job[j].replayCount < MaxReplays
  /\ replaying' = [replaying EXCEPT ![a] = j]
  /\ generation' = [generation EXCEPT ![a] = job[j].replayCount + 1]
  /\ UNCHANGED <<queueVars, workerVars, tickVars, settled, boundVars>>

\* ... and then updates it whatever it has become.
ReplayWrite(a) ==
  /\ replaying[a] # NoJob
  /\ job' = [job EXCEPT ![replaying[a]] = ReplayedRow(@, generation[a])]
  /\ replaying' = [replaying EXCEPT ![a] = NoJob]
  /\ generation' = [generation EXCEPT ![a] = 0]
  /\ UNCHANGED <<attempts, workerVars, tickVars, settled, boundVars>>

-----------------------------------------------------------------------------
(* One poll: tick() *)

\* tick returns at once when draining; recoverStaleLocks reads.
TickStart(t) ==
  /\ pc[t] = "idle"
  /\ worker[t[1]] = "up"
  /\ toRecover' = [toRecover EXCEPT ![t] = StaleJobs]
  /\ Goto(t, "recover")
  /\ UNCHANGED <<queueVars, workerVars, candidates, batch, cur, number, verdict,
                 replayVars, settled, boundVars>>

\* The update of one stale row: its `where` names the id only.
RecoverOne(t, j) ==
  /\ pc[t] = "recover"
  /\ j \in toRecover[t]
  /\ job' = [job EXCEPT ![j] = RequeuedRow(@)]
  /\ toRecover' = [toRecover EXCEPT ![t] = @ \ {j}]
  /\ cur' = [cur EXCEPT ![t] = j]
  /\ Goto(t, "recoverClose")
  /\ UNCHANGED <<attempts, workerVars, candidates, batch, number, verdict,
                 replayVars, settled, boundVars>>

RecoverClose(t) ==
  /\ pc[t] = "recoverClose"
  /\ CloseOpenAttempts(cur[t])
  /\ cur' = [cur EXCEPT ![t] = NoJob]
  /\ Goto(t, "recover")
  /\ UNCHANGED <<job, workerVars, toRecover, candidates, batch, number, verdict,
                 replayVars, settled, boundVars>>

\* claimDue reads the due rows, at most Batch of them.
ClaimRead(t) ==
  /\ pc[t] = "recover"
  /\ toRecover[t] = {}
  /\ \E S \in SUBSET DueJobs :
       /\ Cardinality(S) = AtMost(Batch, Cardinality(DueJobs))
       /\ candidates' = [candidates EXCEPT ![t] =
                           {[job |-> j, seen |-> job[j].attemptCount] : j \in S}]
  /\ Goto(t, "claim")
  /\ UNCHANGED <<queueVars, workerVars, toRecover, batch, cur, number, verdict,
                 replayVars, settled, boundVars>>

\* The compare-and-swap on status = "queued"; a lost race skips the candidate.
ClaimOne(t, c) ==
  /\ pc[t] = "claim"
  /\ c \in candidates[t]
  /\ candidates' = [candidates EXCEPT ![t] = @ \ {c}]
  /\ \/ /\ StillQueued(c.job)
        /\ job' = [job EXCEPT ![c.job] = ClaimedRow(@, t[1], NextAttempt(c.seen))]
        /\ cur' = [cur EXCEPT ![t] = c.job]
        /\ number' = [number EXCEPT ![t] = NextAttempt(c.seen)]
        /\ Goto(t, "open")
     \/ /\ ~StillQueued(c.job)
        /\ UNCHANGED <<job, cur, number, pc>>
  /\ UNCHANGED <<attempts, workerVars, toRecover, batch, verdict, replayVars,
                 settled, boundVars>>

OpenClaimed(t) ==
  /\ pc[t] = "open"
  /\ OpenAttempt(cur[t], number[t])
  /\ batch' = [batch EXCEPT ![t] = @ \cup {cur[t]}]
  /\ cur' = [cur EXCEPT ![t] = NoJob]
  /\ number' = [number EXCEPT ![t] = 0]
  /\ Goto(t, "claim")
  /\ UNCHANGED <<job, workerVars, toRecover, candidates, verdict, replayVars,
                 settled, boundVars>>

\* The loop over the claimed jobs; `draining` is not looked at again.
StartJob(t, j) ==
  /\ pc[t] = "claim"
  /\ candidates[t] = {}
  /\ j \in batch[t]
  /\ cur' = [cur EXCEPT ![t] = j]
  /\ batch' = [batch EXCEPT ![t] = @ \ {j}]
  /\ Goto(t, "running")
  /\ UNCHANGED <<queueVars, workerVars, toRecover, candidates, number, verdict,
                 replayVars, settled, boundVars>>

\* (fault) An error of the handler is swallowed.
AlwaysSucceed(v) == "succeed"

\* runJob: a handler that returned is marked succeeded, one that threw failed.
AfterHandler(v) == IF v = "ok" THEN "succeed" ELSE "failRead"

\* The handler returns, throws, or refuses with NonRetryableJobError.
HandlerSettles(t) ==
  /\ pc[t] = "running"
  /\ \E v \in {"ok", "retryable"} \cup ({"fatal"} \cap Adversity) :
       /\ verdict' = [verdict EXCEPT ![t] = v]
       /\ settled' = [settled EXCEPT ![cur[t]] = @ \cup {v}]
       /\ Goto(t, AfterHandler(v))
  /\ UNCHANGED <<queueVars, workerVars, toRecover, candidates, batch, cur, number,
                 replayVars, boundVars>>

\* markSucceeded: compare-and-swap on "running"; a miss throws NotFound, which
\* runJob treats as a retryable failure of the job.
MarkSucceeded(t) ==
  /\ pc[t] = "succeed"
  /\ \/ /\ HasStatus(cur[t], "running")
        /\ job' = [job EXCEPT ![cur[t]] = Unlocked(@, "succeeded")]
        /\ Goto(t, "closeSucceeded")
        /\ UNCHANGED verdict
     \/ /\ ~HasStatus(cur[t], "running")
        /\ verdict' = [verdict EXCEPT ![t] = "retryable"]
        /\ Goto(t, "failRead")
        /\ UNCHANGED job
  /\ UNCHANGED <<attempts, workerVars, toRecover, candidates, batch, cur, number,
                 replayVars, settled, boundVars>>

\* markFailed reads the row and decides; a terminal row makes it throw, and the
\* exception ends the whole tick with the rest of its batch still claimed.
FailRead(t) ==
  /\ pc[t] = "failRead"
  /\ \/ /\ ~MayFail(cur[t])
        /\ ClearTicks({t})
     \/ /\ MayFail(cur[t])
        /\ verdict' = [verdict EXCEPT ![t] =
             DecideFailure(job[cur[t]].attemptCount, MaxAttempts,
                           verdict[t] = "retryable").nextStatus]
        /\ Goto(t, "failWrite")
        /\ UNCHANGED <<toRecover, candidates, batch, cur, number>>
  /\ UNCHANGED <<queueVars, workerVars, replayVars, settled, boundVars>>

\* The update of markFailed: its `where` names the id only.
FailWrite(t) ==
  /\ pc[t] = "failWrite"
  /\ job' = [job EXCEPT ![cur[t]] = FailedRow(@, verdict[t])]
  /\ Goto(t, "closeFailed")
  /\ UNCHANGED <<attempts, workerVars, toRecover, candidates, batch, cur, number,
                 verdict, replayVars, settled, boundVars>>

FinishJob(t) ==
  /\ \/ /\ pc[t] = "closeSucceeded"
        /\ CloseLatestAttempt(cur[t], "succeeded")
     \/ /\ pc[t] = "closeFailed"
        /\ CloseLatestAttempt(cur[t], "failed")
  /\ cur' = [cur EXCEPT ![t] = NoJob]
  /\ verdict' = [verdict EXCEPT ![t] = "none"]
  /\ Goto(t, "claim")
  /\ UNCHANGED <<job, workerVars, toRecover, candidates, batch, number, replayVars,
                 settled, boundVars>>

TickEnd(t) ==
  /\ pc[t] = "claim"
  /\ candidates[t] = {} /\ batch[t] = {}
  /\ ClearTicks({t})
  /\ UNCHANGED <<queueVars, workerVars, replayVars, settled, boundVars>>

\* A statement is rejected. Inside runJob an error of markSucceeded, which may
\* have closed the attempt already and fail at its audit row, goes to
\* markFailed; anywhere else the exception ends the tick.
StatementFails(t) ==
  /\ "abort" \in Adversity
  /\ aborts < MaxAborts
  /\ pc[t] \notin {"idle", "running"}
  /\ aborts' = aborts + 1
  /\ \/ /\ pc[t] \in {"succeed", "closeSucceeded"}
        /\ \/ UNCHANGED attempts
           \/ pc[t] = "closeSucceeded" /\ CloseLatestAttempt(cur[t], "succeeded")
        /\ verdict' = [verdict EXCEPT ![t] = "retryable"]
        /\ Goto(t, "failRead")
        /\ UNCHANGED <<toRecover, candidates, batch, cur, number>>
     \/ /\ pc[t] \notin {"succeed", "closeSucceeded"}
        /\ ClearTicks({t})
        /\ UNCHANGED attempts
  /\ UNCHANGED <<job, workerVars, replayVars, settled, expiries>>

TickStep(t) ==
  \/ TickStart(t) \/ RecoverClose(t) \/ ClaimRead(t) \/ OpenClaimed(t)
  \/ HandlerSettles(t) \/ MarkSucceeded(t) \/ FailRead(t) \/ FailWrite(t)
  \/ FinishJob(t) \/ TickEnd(t)
  \/ \E j \in Jobs : RecoverOne(t, j) \/ StartJob(t, j)
  \/ \E c \in candidates[t] : ClaimOne(t, c)

-----------------------------------------------------------------------------
(* The life of a process *)

StartWorker(w) ==
  /\ worker[w] = "new"
  /\ Cardinality(LiveWorkers) < MaxUp
  /\ worker' = [worker EXCEPT ![w] = "up"]
  /\ UNCHANGED <<queueVars, held, releasing, tickVars, replayVars, settled, boundVars>>

\* The process disappears with everything its ticks held in memory.
Vanish(w) ==
  /\ worker' = [worker EXCEPT ![w] = "dead"]
  /\ held' = [held EXCEPT ![w] = {}]
  /\ releasing' = [releasing EXCEPT ![w] = NoJob]
  /\ ClearTicks({w} \X Lanes)
  /\ UNCHANGED <<queueVars, replayVars, settled, boundVars>>

Crash(w) ==
  /\ "crash" \in Adversity
  /\ Live(w) /\ Replaceable
  /\ Vanish(w)

\* onApplicationShutdown
DrainBegin(w) ==
  /\ "drain" \in Adversity
  /\ worker[w] = "up" /\ Replaceable
  /\ worker' = [worker EXCEPT ![w] = "draining"]
  /\ UNCHANGED <<queueVars, held, releasing, tickVars, replayVars, settled, boundVars>>

\* inFlight = 0: the shutdown is over, whatever a tick is still doing.
DrainDone(w) ==
  /\ worker[w] = "draining"
  /\ ~InFlight(w)
  /\ worker' = [worker EXCEPT ![w] = "stopped"]
  /\ UNCHANGED <<queueVars, held, releasing, tickVars, replayVars, settled, boundVars>>

\* The deadline passed with a handler in flight: releaseWorkerLocks reads.
DrainDeadline(w) ==
  /\ worker[w] = "draining"
  /\ InFlight(w)
  /\ worker' = [worker EXCEPT ![w] = "releasing"]
  /\ held' = [held EXCEPT ![w] = HeldBy(w)]
  /\ UNCHANGED <<queueVars, releasing, tickVars, replayVars, settled, boundVars>>

\* Compare-and-swap on (running, lockedBy): a job taken over is left alone.
ReleaseOne(w, j) ==
  /\ worker[w] = "releasing" /\ releasing[w] = NoJob
  /\ j \in held[w]
  /\ held' = [held EXCEPT ![w] = @ \ {j}]
  /\ \/ /\ j \in HeldBy(w)
        /\ job' = [job EXCEPT ![j] = RequeuedRow(@)]
        /\ releasing' = [releasing EXCEPT ![w] = j]
     \/ /\ j \notin HeldBy(w)
        /\ UNCHANGED <<job, releasing>>
  /\ UNCHANGED <<attempts, worker, tickVars, replayVars, settled, boundVars>>

ReleaseClose(w) ==
  /\ releasing[w] # NoJob
  /\ CloseOpenAttempts(releasing[w])
  /\ releasing' = [releasing EXCEPT ![w] = NoJob]
  /\ UNCHANGED <<job, worker, held, tickVars, replayVars, settled, boundVars>>

ReleaseDone(w) ==
  /\ worker[w] = "releasing" /\ releasing[w] = NoJob /\ held[w] = {}
  /\ worker' = [worker EXCEPT ![w] = "stopped"]
  /\ UNCHANGED <<queueVars, held, releasing, tickVars, replayVars, settled, boundVars>>

Exit(w) ==
  /\ worker[w] = "stopped"
  /\ Vanish(w)

ShutdownStep(w) ==
  \/ DrainDone(w) \/ DrainDeadline(w) \/ ReleaseClose(w) \/ ReleaseDone(w)
  \/ Exit(w)
  \/ \E j \in Jobs : ReleaseOne(w, j)

-----------------------------------------------------------------------------
(* Time *)

BackoffElapses(j) ==
  /\ HasStatus(j, "queued") /\ ~job[j].due
  /\ job' = [job EXCEPT ![j].due = TRUE]
  /\ UNCHANGED <<attempts, workerVars, tickVars, replayVars, settled, boundVars>>

\* LOCK_TIMEOUT_MS passes. While a live tick has the job in hand this takes a
\* handler, or a batch in front of it, slower than five minutes.
LockExpires(j) ==
  /\ HasStatus(j, "running") /\ ~job[j].stale
  /\ \/ /\ ~HeldAlive(j)
        /\ UNCHANGED expiries
     \/ /\ HeldAlive(j)
        /\ "slow" \in Adversity
        /\ expiries < MaxExpiries
        /\ expiries' = expiries + 1
  /\ job' = [job EXCEPT ![j].stale = TRUE]
  /\ UNCHANGED <<attempts, workerVars, tickVars, replayVars, settled, aborts>>

-----------------------------------------------------------------------------
Next ==
  \/ \E j \in Jobs : Enqueue(j) \/ BackoffElapses(j) \/ LockExpires(j)
  \/ \E a \in Operators : ReplayWrite(a) \/ \E j \in Jobs : ReplayRead(a, j)
  \/ \E t \in Ticks : TickStep(t) \/ StatementFails(t)
  \/ \E w \in Workers : StartWorker(w) \/ Crash(w) \/ DrainBegin(w) \/ ShutdownStep(w)

Spec == Init /\ [][Next]_vars

(***************************************************************************)
(* A poll chain reschedules itself in a `finally`, so a tick keeps taking  *)
(* steps; handlers return; time passes; a process that ends is replaced.   *)
(***************************************************************************)
Fairness ==
  /\ \A t \in Ticks : WF_vars(TickStep(t))
  /\ \A w \in Workers : WF_vars(StartWorker(w)) /\ WF_vars(ShutdownStep(w))
  /\ \A j \in Jobs : WF_vars(BackoffElapses(j)) /\ WF_vars(LockExpires(j))

FairSpec == Spec /\ Fairness
-----------------------------------------------------------------------------
(* Properties that hold whatever goes wrong *)

\* A row is locked exactly while it is "running": recoverStaleLocks and
\* releaseWorkerLocks find orphans by status alone and trust the lock columns,
\* so every one of the seven statements that write a row must keep them in step.
LockIffRunning ==
  \A j \in Jobs : HasStatus(j, "running") <=> job[j].lockedBy # NoWorker

\* A job is reported "succeeded" only if some handler really finished its work,
\* also when locks were lost, rows were requeued under a running handler and
\* markSucceeded acted on the claim of another worker.
SuccessWasEarned ==
  \A j \in Jobs : HasStatus(j, "succeeded") => "ok" \in settled[j]

\* A queued job is eventually settled, through crashes, failed statements and
\* shutdowns, as long as processes are replaced: no orphan stays "running".
EventuallySettled ==
  \A j \in Jobs : HasStatus(j, "queued") ~> IsTerminal(j)

-----------------------------------------------------------------------------
(* Properties of a deployment whose locks are never lost *)

\* Two polls never execute the handler of one job at the same time.
SingleRunner ==
  \A j \in Jobs : Cardinality(Runners(j)) <= 1

\* A handler runs only while the row says that its own process holds the job.
RunsUnderOwnLock ==
  \A j \in Jobs : \A t \in Runners(j) :
    HasStatus(j, "running") /\ job[j].lockedBy = t[1]

\* "States a job can never leave" (automation-policy.ts:24), with the one
\* documented exit: a person replays a dead letter.
TerminalIsFinal ==
  [][\A j \in Jobs :
       IsTerminal(j) => \/ job'[j].status = job[j].status
                        \/ HasStatus(j, "dead_letter") /\ (\E a \in Operators : ReplayWrite(a))]_vars

\* A job is buried only for a reason: a handler refused it for good, or its
\* attempts were used up.
BuriedForCause ==
  \A j \in Jobs : HasStatus(j, "dead_letter") =>
    "fatal" \in settled[j] \/ job[j].attemptCount >= MaxAttempts

\* A job that waits for its backoff is not started: "only claimed when it is
\* queued AND its runAt has passed" (automation.service.ts:320-321).
ClaimedOnlyWhenDue ==
  [][\A j \in Jobs :
       HasStatus(j, "queued") /\ job'[j].status = "running" => job[j].due]_vars

\* Attempt rows are numbered in the order they were opened, so that the row
\* closeAttempt picks is the attempt that has just ended.
AttemptsInOrder ==
  \A j \in Jobs : \A i, k \in DOMAIN attempts[j] :
    i < k => attempts[j][i].number < attempts[j][k].number

\* A job gets at most its budget of attempts, plus one for each attempt that
\* ended without an outcome: with its process, or with a failed statement.
AttemptBudget ==
  \A j \in Jobs :
    Len(attempts[j]) <= MaxAttempts + aborts + Cardinality({w \in Workers : worker[w] = "dead"})

\* The outcome recorded for an attempt is never rewritten: "the retry history -
\* and the reason a job ended up dead-lettered - stays auditable"
\* (schema.prisma:653-654).
AttemptOutcomeFinal ==
  [][\A j \in Jobs : \A i \in DOMAIN attempts[j] :
       attempts[j][i].status # "running" => attempts'[j][i].status = attempts[j][i].status]_vars

-----------------------------------------------------------------------------
(* What the queue promises its callers *)

Lease == INSTANCE JobLease
           WITH Threads <- Lanes,
                status  <- [j \in Jobs |-> job[j].status],
                holder  <- [j \in Jobs |-> job[j].lockedBy],
                active  <- [j \in Jobs |-> Runners(j)]

\* Every step of the workers is a step of a lease, or invisible to it.
ImplementsLease == Lease!Spec
=============================================================================
