-------------------------- MODULE AutomationQueue ---------------------------
(***************************************************************************)
(* The durable job store (automation/automation.service.ts): the rows of   *)
(* automation_jobs and automation_attempts, and what each SQL statement of *)
(* the service writes. The processes that issue the statements are in      *)
(* AutomationWorker.                                                       *)
(*                                                                         *)
(* Data kept of a row: what the statements test or write. The clock is     *)
(* abstracted to two flags, `due` (runAt has passed) and `stale` (lockedAt *)
(* is older than LOCK_TIMEOUT_MS).                                         *)
(***************************************************************************)
EXTENDS AutomationPolicy, Sequences

CONSTANTS Jobs,         \* identifiers a job row may have
          Workers,      \* worker processes; a restart is a new one (randomUUID)
          NoWorker,     \* lockedBy = null
          MaxAttempts   \* the attempt budget of every job (maxAttempts)

ASSUME QueueAssumption ==
  /\ NoWorker \notin Workers
  /\ MaxAttempts \in Nat \ {0}

VARIABLES job,          \* automation_jobs, "absent" before the insert
          attempts      \* automation_attempts of each job, in insertion order

queueVars == <<job, attempts>>

RowStatuses == JobStatuses \cup {"absent"}

JobRow == [status       : RowStatuses,
           attemptCount : Nat,
           lockedBy     : Workers \cup {NoWorker},
           stale        : BOOLEAN,
           due          : BOOLEAN,
           replayCount  : Nat]

Attempt == [number : Nat, status : {"running", "succeeded", "failed"}]

QueueTypeOK ==
  /\ job \in [Jobs -> JobRow]
  /\ attempts \in [Jobs -> Seq(Attempt)]

AbsentRow == [status |-> "absent", attemptCount |-> 0, lockedBy |-> NoWorker,
              stale |-> FALSE, due |-> FALSE, replayCount |-> 0]

QueueInit ==
  /\ job = [j \in Jobs |-> AbsentRow]
  /\ attempts = [j \in Jobs |-> << >>]

-----------------------------------------------------------------------------
(* Reads *)

HasStatus(j, s) == job[j].status = s

\* (fault) The runAt test is forgotten.
QueuedJobs == {j \in Jobs : HasStatus(j, "queued")}

\* findMany(status = queued) with runAt <= now: what one poll may claim.
DueJobs == {j \in Jobs : HasStatus(j, "queued") /\ job[j].due}

\* (fault) Every lock is taken for stale.
RunningJobs == {j \in Jobs : HasStatus(j, "running")}

\* (fault) Only a lock without lockedAt is taken for stale.
UnlockedJobs == {j \in Jobs : HasStatus(j, "running") /\ job[j].lockedBy = NoWorker}

\* findMany(status = running) filtered by isLockStale.
StaleJobs == {j \in Jobs : HasStatus(j, "running") /\ job[j].stale}

\* findMany(status = running) filtered by lockedBy.
HeldBy(w) == {j \in Jobs : HasStatus(j, "running") /\ job[j].lockedBy = w}

IsTerminal(j) == job[j].status \in TerminalJobStatuses

\* (fault) The claim updates by id alone.
StillThere(j) == job[j].status # "absent"

\* The where clause of the claim: id and status = queued.
StillQueued(j) == HasStatus(j, "queued")

\* (fault) markFailed writes whatever the row has become.
AnyRow(j) == TRUE

\* markFailed refuses a row that is already terminal.
MayFail(j) == ~IsTerminal(j)

-----------------------------------------------------------------------------
(* Rows after an update *)

Unlocked(row, s) ==
  [row EXCEPT !.status = s, !.lockedBy = NoWorker, !.stale = FALSE]

\* (fault) The attempt number is not advanced.
SameAttempt(seen) == seen

\* claimDue computes the attempt number from the row it has read.
NextAttempt(seen) == seen + 1

ClaimedRow(row, w, n) ==
  [row EXCEPT !.status = "running", !.lockedBy = w, !.stale = FALSE,
              !.attemptCount = n]

\* recoverStaleLocks and releaseWorkerLocks: runAt = now, attempt count kept.
RequeuedRow(row) == [Unlocked(row, "queued") EXCEPT !.due = TRUE]

\* (fault) The lock columns are cleared on a retry only.
FailedRowKeepsLock(row, next) ==
  IF next = "queued" THEN [Unlocked(row, next) EXCEPT !.due = FALSE]
                     ELSE [row EXCEPT !.status = next]

\* markFailed: a retry waits for its backoff.
FailedRow(row, next) ==
  [Unlocked(row, next) EXCEPT !.due = (next # "queued" /\ @)]

\* replayDeadLetter: fresh budget, and a replay count read earlier plus one.
ReplayedRow(row, generation) ==
  [RequeuedRow(row) EXCEPT !.attemptCount = 0, !.replayCount = generation]

-----------------------------------------------------------------------------
(* Updates of automation_attempts *)

OpenAttempt(j, n) ==
  attempts' = [attempts EXCEPT ![j] = Append(@, [number |-> n, status |-> "running"])]

\* Every attempt still "running" is closed as failed.
CloseOpenAttempts(j) ==
  attempts' = [attempts EXCEPT ![j] =
                 [i \in DOMAIN @ |-> IF @[i].status = "running"
                                     THEN [@[i] EXCEPT !.status = "failed"]
                                     ELSE @[i]]]

\* The rows closeAttempt may pick: ORDER BY attempt DESC LIMIT 1, with no order
\* among rows of the same attempt number.
LatestAttempts(j) ==
  {i \in DOMAIN attempts[j] :
     \A k \in DOMAIN attempts[j] : attempts[j][k].number <= attempts[j][i].number}

\* closeAttempt: the outcome overwrites whatever that row held. A job that was
\* run has at least one attempt row, so the early return is never taken.
CloseLatestAttempt(j, outcome) ==
  \E i \in LatestAttempts(j) :
    attempts' = [attempts EXCEPT ![j][i].status = outcome]
=============================================================================
