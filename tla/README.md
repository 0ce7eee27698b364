# A TLA+ model of the affiliate platform's back end

This directory models the parts of `src/apps/api` (a NestJS service on PostgreSQL) whose
correctness depends on interleaving, failure and order: the durable automation queue with its
workers, idempotent enqueueing, the boundary through which the "AI CEO" (Boss) executes actions
under the Owner's approval, the ledgers of revenue and of a seller, affiliate links, the
publication of content, the reports read from them, and the way of a request through the guards to
the AI gateway and to Boss commands. `PROJECT.json` maps every definition to the lines it
translates. Paths below are relative to `src/apps/api/src` unless they start with `src/`.

Contents: 1 inventory of the system, 2 modules and how they correspond to the code, 3 runs,
4 bounds and fairness, 5 proofs, 6 where documentation and code part, 7 what is left out,
8 plan.

## 1. Inventory

One API process (or several replicas of it) serves HTTP requests and, in the same process, runs
the automation worker. All shared state is in PostgreSQL and is reached through Prisma: one call
is one statement in a transaction of its own, and `$transaction` is used in the revenue and the
seller ledger only. Between two statements of a handler anything can happen.

| Component | State it keeps | Operations | Interacts with |
|---|---|---|---|
| Retry policy `automation/automation-policy.ts` | none | `backoffDelayMs`, `decideFailure`, `isLockStale`, `isTerminalJobStatus` | queue, worker |
| Job queue `automation/automation.service.ts`, `cas.ts` | `automation_jobs`, `automation_attempts` | `enqueue`, `claimDue`, `markSucceeded`, `markFailed`, `closeAttempt`, `replayDeadLetter`, `recoverStaleLocks`, `releaseWorkerLocks` | worker, HTTP clients, operators |
| Worker `automation/automation-worker.service.ts` | in memory: `workerId`, `draining`, `inFlight`, timer | poll chain, `tick`, `runJob`, `execute`, `onApplicationShutdown`, run-once | queue, handlers |
| Execution policy `boss/boss-execution-policy.ts`, tool registry | none | `evaluateExecutionPolicy` | executor, approvals |
| Executor `boss/boss-executor.service.ts` | `boss_actions.status`, `boss_tool_calls` | `executeAction`, `cancelAction`, `ensureApproval` | approvals, tools, queue (a handler may execute an action) |
| Approvals `boss/boss-approval.service.ts` | `boss_approvals`, `boss_actions.status` | `requestForAction`, `decide` | executor |
| Commands and plans `boss/boss.service.ts`, `boss-plan-generator.ts` | `boss_commands`, `boss_plans`, `boss_tasks`, `boss_actions` | `create`, `update`, `remove` | autonomy, executor |
| Memory `boss/boss-memory*.ts` | `boss_decisions`, `boss_lessons`, `boss_memory` | `recordDecision`, `recordOutcome`, `remember`, readers | commands |
| Autonomy and roles `security/autonomy.ts`, `principal.ts` | the environment | `resolveEffectiveAutonomy` | commands, gateway |
| Guards `security/*.guard.ts` | `WINDOWS`, in the memory of one process | `canActivate` | every route |
| AI gateway `ai/` | `ai_invocations` | `invoke`: resolve, refuse, call with timer, retry, record; `usageTotals` | providers, autonomy |
| Revenue ledger `revenue/revenue.service.ts` | `revenue_events`, `profit_records` | `record`, `reconcile`, `reject` | links, reports |
| Seller ledger `seller/` | `seller_inventories`, `seller_orders`, `seller_returns`, `seller_settlements` with lines, `seller_listings` with versions | `adjustInventory`, `ingestOrder`, `recordReturn`, `recordSettlement`, `createListingDraft`, `updateListingStatus` | reports |
| Affiliate links `affiliates/` | `affiliate_links`, `affiliate_link_clicks` | `createLink`, `recordClick`, `remove` | assets and events refer to them |
| Content, QA, publish approval `content-assets/`, `content-qa/` | `content_assets`, `publish_approvals` | `create`, `update` with its gates, `remove`, `grant` | links, reports |
| Reports `analytics/`, `campaign-analytics/` | none | several queries each | all ledgers |
| Dashboards, opportunities, research, marketplace adapters, observability, web | none of their own, or single rows | reads, single inserts and static tables | — |

**Hard behaviours.** Several processes poll one table; run-once ticks overlap the poll chain of
their own process *under the same worker id*; rows are read, decided upon and then updated by id
alone; a handler may outlive its lock; processes die between two statements; shutdown releases
locks under handlers that still settle; operators replay dead letters while workers run; clients
retry requests whose answer was lost; two requests execute one action while the Owner decides its
approval, someone cancels it and the approval lapses; a statement after an irreversible effect
fails. In the ledgers, a status or a key is looked up in one statement and relied on in a later
one, sometimes with a unique index behind it and sometimes without; stock is written as absolute
numbers computed from a read; a verdict on a text is followed by a write by id; a report is several
snapshots. In the control plane, a timer races an answer that is paid for either way, counters die
with their process, and a command is written before the reduction of its authority is audited.

**What makes each component correct.**

- Queue and worker: a job is run by one handler at a time under its process's lock; a terminal
  job stays terminal; a retry waits for its backoff; attempts are numbered in order, within
  budget, and their outcomes are kept; the lock columns agree with the status; "succeeded" is
  never reported unearned; an orphaned job is found again and settled.
- Enqueue: retries and races make one job for a key, and a client is never handed another key's
  job.
- Executor: one holder of an action, none after it ended; no tool call without autonomy and
  consent; "executed" means that the tool returned.
- Revenue: a reported event is one row; a reconciled one has its profit record; a decision is
  final unless two requests overlapped; a booked amount is never rewritten.
- Seller: no stock row is ever negative; stock is the sum of the movements, and an order, a return
  or a settlement is booked once — the last two, and stock, only while no two requests cross.
- Content: what is published is disclosed and dated, passed the gate or was approved, and leads to a
  host the gate lists.
- Reports: the figures of a report that no write crossed agree with each other.
- Authority: no stored level and no granted action passes the deployment's ceiling, and no
  reduction is silent.
- Gateway: a total is given only if it is what was charged, verification rests on a real answer,
  and every call is answered in the end.
- Guards: the limit holds across the end of a window, and memory holds only windows that run.

`PROJECT.json` lists the hazards at their lines, with the properties that would fail if the code's
protection were lost. Where there is no protection, and the hazard is what the code does, its note
says so; section 6 has what the documentation says instead.

## 2. Modules

| Module | What it is |
|---|---|
| `AutomationPolicy` | the pure retry policy: statuses, backoff, `DecideFailure` |
| `AutomationQueue` | rows of jobs and attempts, and what each statement of the service reads and writes |
| `AutomationWorker` | processes, ticks, shutdown, operators and time over that queue; its properties |
| `JobLease` | the abstract promise of queue and workers |
| `AutomationEnqueue` | `enqueue` and the replay's renaming of keys, with clients that retry |
| `BossExecution` | executor, approvals and policy, one statement at a time; its properties |
| `ActionClaim` | the abstract promise of the executor's compare-and-swap |
| `ApiRequests` | the request slots and identifiers that the ledgers share |
| `RevenueLedger` | revenue events and profit records |
| `SellerLedger` | stock, orders, returns, settlements, listing drafts |
| `AffiliateLinks` | links and clicks |
| `ContentAssets` | assets, the QA gate and publish approvals, over `AffiliateLinks` |
| `CommerceReports` | the composition of these ledgers, with the cascades between them and the queries of reports |
| `ReportFigures` | what a report makes of its answers: figures, breakdowns, totals; the properties of reports |
| `Autonomy` | roles, ceiling and the level in force, as operators |
| `ApiGuards` | the rate limiter of one process |
| `AiGateway` | a completion from refusal to the stored row |
| `BossPlans` | the pure plan generator: intent of a text, tools of the plan, autonomy they require |
| `BossCommands` | commands with their plans, decisions and outcomes |
| `ControlPlane` | the composition: a request through the guards to gateway or Boss, in a process that may be replaced |
| `MC…` | model values, functions and symmetry sets for the runs |
| `…Proofs` | theorems and their proofs, one module per part (`LedgerProofs` has both ledgers) |
| `FiniteSums` | lemmas on sums over finite sets, for the proofs about reports and the limiter |

`AutomationWorker` EXTENDS `AutomationQueue`, which EXTENDS `AutomationPolicy`. `AutomationWorker`
and `BossExecution` instantiate `JobLease` and `ActionClaim` under a refinement mapping
(`Lease`, `Claim`). `AutomationEnqueue` stands alone: it shares the table with the queue, but
the rest of a job's life reaches it only as "dead-lettered" and "replayed". Each ledger and each
part of the control plane has a specification of its own (`RevenueSpec`, `SellerSpec`,
`PublishingSpec`, `GuardsSpec`, `GatewaySpec`, `BossSpec`); the two compositions are shown to
implement every one of them (section 5), so what is proved of a part holds of the whole.

Definitions marked `(fault)` are plausible bugs of the definition that follows them. No
specification uses them; they are substituted for it to show that a property can fail.

### Automation: state

`job[j]` is the row: `status`, `attemptCount`, `lockedBy`, `replayCount` as in the schema; the
columns `runAt` and `lockedAt` become the flags `due` (runAt has passed) and `stale` (lockedAt is
older than `LOCK_TIMEOUT_MS`), which the actions `BackoffElapses` and `LockExpires` set whenever
time could have passed. `attempts[j]` is the sequence of attempt rows. A worker is one process
(`worker`: new, up, draining, releasing, stopped, dead); the worker id is a fresh UUID, so a
restart is a new worker. A *lane* is one sequential thread of `tick()`s in it — the poll chain,
or run-once requests — and `pc`, `toRecover`, `candidates`, `batch`, `cur`, `number`, `verdict`
are the local variables of its tick in progress. `settled` is a history variable.

### Automation: actions

| Code | Actions |
|---|---|
| `enqueue` (insert) | `Enqueue` |
| `tick`, `recoverStaleLocks` | `TickStart` (reads the running rows), `RecoverOne` (update by id), `RecoverClose` (closes attempts) |
| `claimDue` | `ClaimRead`, `ClaimOne` (compare-and-swap), `OpenClaimed` (attempt row) |
| `runJob`, `execute` | `StartJob`, `HandlerSettles` |
| `markSucceeded` | `MarkSucceeded`, then `FinishJob` |
| `markFailed` | `FailRead`, `FailWrite`, then `FinishJob` |
| end of a tick, exceptions | `TickEnd`, `StatementFails` |
| `replayDeadLetter` | `ReplayRead`, `ReplayWrite` |
| `onApplicationShutdown`, `releaseWorkerLocks` | `DrainBegin`, `DrainDone`, `DrainDeadline`, `ReleaseOne`, `ReleaseClose`, `ReleaseDone`, `Exit` |
| process life | `StartWorker`, `Crash` |

Where the code reads a row and updates it in a later statement, the read is one action and the
update another, and the update uses what was read. Two reads are merged with the update that
follows: `closeAttempt`'s and recovery's selection of attempt rows. The row picked is of the same
job either way and only its attempts are written.

### Enqueue

A request is `Find` (read), `Create` (insert against the unique index on handler and key), and
for the loser of the race `CreateLoses`, `Refind`. `CreateUnanswered` is an insert whose answer
never arrives. `DeadLetter` stands for the whole life of the job, and `Replay` renames the row
(`${id}#replay:${n}`). The two statements of the replay are one step here, two in
`AutomationWorker`. `made` and `answers` are history variables.

### Boss: state and actions

`status`, `tool`, `approvals`, `calls` are the rows, `pc`, `target`, `seen`, `next`, `row` the
locals of a request (a slot of `Requests`, reused when idle); `outcomes`, `granted`, `ended` are
history. A tool is one of four kinds, by what the policy asks of it: internal and implemented;
external and not implemented; above the granted autonomy; not in the registry.

| Code | Actions |
|---|---|
| `executeAction` | `ExecuteLoad`, `ExecuteDecide`, `ExecuteRefuse` or `ExecuteClaim`, `ExecuteCreateCall`, `ExecuteSkip` or `ExecuteTool`, `ExecuteRecordCall`, `ExecuteMark`, `ExecuteAnswer` |
| `ensureApproval`, `requestForAction` | `RequestStart`, `EnsureRead`, `CreateApproval` |
| `cancelAction` | `CancelLoad`, `CancelClaim`, `CancelRead`, `CancelApproval` |
| `decide` | `DecideRead`, `DecideApproval`, `DecideAction` |
| `expiresAt` passes | `ApprovalLapses` |
| exception, process death | `StatementFails` (the catch block of `executeAction` where it applies), `Crash` |

`Crash(r)` ends one request: replicas die one at a time and requests of one process that die
together are a sequence of such steps. An action whose request died while executing stays
"executing" for ever, as it does in the code.

### Ledgers: state and actions

A client slot of `Clients` is one request in each component at a time. One action is one statement,
or the statements of a transaction up to its commit, which PostgreSQL applies together; the reads a
transaction makes (READ COMMITTED) are not protected by it. The next statement of a request and
what it holds are `revPc`/`revKey`/`revEvent`, `sellerReq`, `linkPc`/`linkOf`,
`editPc`/`editOf`/`editRead`/`edit`, `reading`. A failed statement, an index that refuses a row and
a death of the process are one action per component that ends the request and leaves what was
committed (`RevenueRequestFails`, `SellerRequestFails`, `LinkRequestFails`, `EditFails`).

| Code | Actions |
|---|---|
| `RevenueService.record` | `FindEvent`, `InsertEvent` |
| `reconcile`, `reject` | `LoadEvent`, then `Reconcile` or `Reject` |
| `adjustInventory` | `ReadStock` (snapshot, `applyInventoryAdjustment`), `FindStockRow`, `SaveStock` |
| `ingestOrder`, `recordReturn`, `recordSettlement` | `FindOrder`, `InsertOrder`; `FindReturn`, `InsertReturn`; `FindSettlement`, `InsertSettlement` |
| `createListingDraft`, `updateListingStatus` | `InsertListing`, `InsertVersion`; `SetListingStatus` |
| `createLink`, `recordClick`, `remove` | `CreateLink`; `LoadForClick`, `RecordClick`; `LoadForDelete`, `DeleteLink` |
| `ContentAssetService.create`, `remove`; `grant` | `CreateAsset`, `RemoveAsset`; `GrantApproval` |
| `ContentAssetService.update` | `LoadForUpdate`, `AskApproval`, `AskGate`, `WriteAsset` |
| foreign keys of a removed link | `UnlinkEvents`, `CascadeToAssets` in the step that deletes it |
| a report | `BeginReport`, one `AnswerQuery` per query |

History variables say where two requests met: `overlapped` (two decisions had loaded an event as
pending), `crossed` (two movements in progress on a sku), `raced` (two requests between lookup and
insert of a key), `contended` (an asset written over a row other than the one read), and `quiet` (no
row has changed since a report began). The properties of these components are stated relative to
them: they say that *only* such a meeting can break what the component promises. That is what the
code achieves, and what would be lost if a guard, an index or a recheck went missing.

A report is the set of its queries; the queries of one `Promise.all` are answered in any order,
those of `channels` and `campaigns` one after the other (`Awaits`), and rows may change between any
two. Reports only read, so one is followed at a time, among any writes. What a query returns is
`Answer`; what is made of it is in `ReportFigures`: the overviews (`AffiliateFigures`,
`CampaignFigures`, `SellerFigures`), the rows per channel and per campaign, and the campaign
outcomes with their totals. `shown` holds the report that the last step answered and is empty after
any other step: what was shown is judged in the state in which it was.

### Control plane: state and actions

| Code | Actions |
|---|---|
| `RateLimitGuard.canActivate` | `Admit` (`OpenWindow` or `CountIn`), `TurnAway`; `Tick` is the clock |
| `ApiKeyGuard.canActivate` | `RoleOf`: nobody without a key comes in; a key is the Owner's |
| `AiService.invoke` | `Refuse`, `RejectRequest`, `FirstCall` |
| one call: answer, error, timer | `Completes`, `ProviderFails`, `TimesOut` |
| backoff, `record` | `CallAgain`; `StoreRow`, `LoseRow` |
| `BossService.create` | `CreateCommand`, `NoteClamp`, `PlanAction` (one per action), `FinishPlan` |
| `BossService.update`, `remove` | `LoadForUpdate`, `AuditUpdate`, `WriteUpdate`; `LoadForArchive`, `Archive` |
| `recordDecision`, `recordOutcome` | `RecordDecision`; `LoadDecision`, `WriteOutcome`, `AddLesson` |
| the process is replaced | `Restart` (`ForgetWindows`, `GatewayDies`, `BossDies`) |

`Arrive` is the guards and what the handler does up to its first wait, as one step: nothing else
runs in a Node process in between. A provider may charge for a call whose answer is too late or
malformed; `due` counts what was charged, less what a request tried again after or a row that was
lost, and `booked` is the table as its totals see it. The rate limiter's windows and every request
die with the process, the tables do not.

## 3. Runs

| Run | Circumstances | What it shows |
|---|---|---|
| AutomationFleet | 2 processes, each with a poll chain and run-once; 1 job | `SingleRunner`, `RunsUnderOwnLock`, `BuriedForCause`, `TerminalIsFinal`, and every step is a step of `JobLease` |
| AutomationSolo | one process at a time; crash and replacement, a rejected statement, an expired lock under a live handler; 2 jobs, batches of 2 | attempts in order and within budget, outcomes final, settled jobs stay settled (also when the statement after the success is rejected), jobs start only when due |
| AutomationStorm | 2 overlapping processes; crash, drain, expired lock, replay; 1 job | `LockIffRunning`, `SuccessWasEarned`: what survives everything |
| AutomationSettles | 2 processes; crash, drain, rejected statement | liveness: a queued job is settled |
| AutomationReplays | 3 clients, 2 keys, 3 rows, 2 replays | a second job for a key only after a replay; clients get jobs of their key |
| BossExclusive | 3 requests execute and cancel, processes die, nobody decides | the compare-and-swap gives `ActionClaim`; no cancelled action is held; an executed one has a succeeded call |
| BossConsent | 2 requests do everything, approvals lapse, a statement fails | `ToolReallyRan`, `CallsArePermitted` |
| Commerce | 2 clients, 3 requests across all ledgers, links, assets and reports, failing statements | the promises of each ledger, of publication (disclosure, text, destination) and of a report no write crosses |
| Control | 2 clients, 3 requests through the guards, late and failing providers, a restart | authority, audit, spend, verification, the limiter's budget and memory; liveness: a call is answered |
| AutomationDoubleRecovery, BossTwoHolders, CommerceCogs | minimal | a documented claim fails: section 6 |

The passing automation properties are split by what they survive. Mutual exclusion and the lease
hold for healthy processes (Fleet); they do *not* hold for two processes when locks go stale, which
is finding one below. Storm is the residue that holds in all circumstances. Both ends are proved
(section 5). The same holds for Boss: exclusivity is the executor's own, and is lost when `decide`
writes the status it protects.

Commerce and Control are compositions rather than one run per ledger: the cascades of a removed
link, the foreign keys and the reports relate several ledgers, and the guards, the process and its
restart are common to gateway and Boss. What one unique index or one transaction gives by itself
(`OneOrderPerKey`, `ReconciledHasProfit`) is part of the inductive invariants and proved, but is no
question of a run.

## 4. Bounds and fairness

- `MaxAttempts = 2`: first attempt, last attempt and the boundary between them. `Batch = 2` with
  two jobs in Solo: one job waits claimed while the other runs.
- `MaxUp` processes run at a time; `Workers` is how many ever start. `MaxAborts`, `MaxExpiries`,
  `MaxReplays` bound how often a misfortune strikes; `Adversity` / `Circumstances` says which may.
  Processes that crash or drain do so only while a replacement is left, so a run does not end
  with nobody to do the work.
- Boss: `MaxCalls`, `MaxApprovals` bound the rows of one action. A request starts only when there
  is room for those under way, so a bound never cuts one off half-way. One action: actions share
  no row. Two or three requests are what a lost race, a stale read and a late write take.
- Enqueue: three clients (a winner, a loser of the race and a late retry), two keys (so that an
  answer can be wrong), three rows.
- Commerce: `MaxRequests = 3` over all components, of which at most `MaxRevenue = 3`,
  `MaxSeller = 2`, `MaxContentRequests = 3`, `MaxLinkRequests = 1`, `MaxReports = 1`. Three
  requests are a record, a decision and one that crosses it; or two writes and a report. Only two
  of them are under way at a time. One event exists from the start, so that a decision needs no
  request to record it; three identifiers leave room for the double a missing index would make. One
  sku and one key: neither table relates two of them. Two links, one of which exists from the start,
  so that one can be created while a report is read and one removed. Two statements: one with every component
  known, one without its cost of goods. Two texts, one that the rules refuse. Three
  requests on assets, so that a publication, its re-affirmation and its withdrawal can cross. Links
  lead to a host that both host checks accept, to one that only links and redirects accept, or
  (rows older than the checks) elsewhere.
- Control: three requests, one restart; a window of two ticks with a clock to two, so that a window
  ends and is followed by another; limits of one and two; `MaxWindows = 1`, below the number of
  methods, so that the map outgrows it. The ceiling is 4 without the opt-in: level 5 is asked for
  and refused. One text, of two intents ("revenue" wins over "asset"): its plan has an action the default
  level is enough for and one it is not. One real provider and the mock; one retry, so that a call is
  tried again and then
  given up.
- Symmetry over processes, jobs, requests, clients, keys and row identifiers is used in safety runs
  only; the two runs with a liveness property have none.
- Deadlock checking is on in the automation and Boss execution runs. In Commerce, CommerceCogs and
  Control it is off: the number of requests is bounded, and a server whose clients have
  all been answered rests.

*Fairness* (`AutomationWorker!Fairness`): weak fairness of each tick, because the poll chain
reschedules itself in a `finally`; of shutdown, because its loop has a deadline and ends in
`releaseWorkerLocks`; of starting a process, because a deployment replaces what ended; of time.
It includes that handlers return: the code gives them no timeout, and the implemented ones are
database reads and the Boss executor. Nothing is assumed about misfortunes or operators.

(`ControlPlane!Fairness`): weak fairness of each client's `OwnStep`: its timer fires (`setTimeout` in
`withTimeout`), its backoff ends, its insert is answered. Nothing is assumed about providers: one
that never answers is what the timer is for. A request cut off by a restart ends with its process.

## 5. Proofs

Checked by tlapm, for every value of the constants that satisfies the modules' assumptions
(`QueueAssumption`, `WorkerAssumption`, `EnqueueAssumption`, `BossAssumption`,
`RequestsAssumption`, `RevenueAssumption`, `SellerAssumption`, `LinksAssumption`,
`ContentAssumption`, `ReportsAssumption`, `RowsAssumption`, `AutonomyAssumption`, `TextsAssumption`,
`GuardsAssumption`, `GatewayAssumption`, `ControlAssumption`: null values are no values, inputs have
their types, bounds are numbers). Three of them are there because a proof failed without them, and
each is what code or schema enforces: the evidence of a reconciliation is not negative
(`isFiniteNonNegative`), an event that was there before names a link that exists (the foreign key),
and identifiers, being strings of bounded length, form finite sets.

Every safety invariant and action property of a passing run, and both refinements, are stated by a
theorem. Some hold in all circumstances. The others have a hypothesis on the constants, which is the
setting of the run that checks them, and which section 6 shows to be needed:

| Hypothesis | It allows | It excludes, and why |
|---|---|---|
| `Healthy` (`AutomationFleetProofs`) | any number of processes, lanes, jobs; handlers that fail in every way | crash, shutdown, rejected statement, replay, slow handler: a stale lock is recovered by id, by two processes |
| `Solo` (`AutomationFleetProofs`) | crashes and replacement, slow handlers, rejected statements | a second live process or lane (recovery by id again); shutdown (the abandoned handler settles a released row); replays (they restart the numbers) |
| `Undisturbed` (`BossExecutionProofs`) | any number of executions, cancellations, lapses and deaths | decisions (`decide` writes the status of an action by id, also while it runs) and rejected statements (the catch block reopens an action that was already marked executed) |
| no `"abort"` (`BossExecutionProofs`) | all of these, and decisions | rejected statements: when the audit row after the success is refused, the catch block closes the succeeded call as failed |

The invariants were checked by TLC on the instance of the run in question before they were proved.

### Automation

- `AutomationWorkerProofs`, in all circumstances. The inductive invariant joins `TypeOK`, the
  agreement of lock and status, and what each program counter implies: a tick past "running" has a
  job in `cur` and a claim; one about to write success has seen its handler return; the verdict is a
  status exactly where it is written. `LockIffRunning` alone is not inductive because `FailWrite`
  and `ReplayWrite` write what was decided earlier; `SuccessWasEarned` needs that "succeed" is
  reached only after "ok" was put into `settled`. `Invariance`, `TypeCorrect`, `LocksAgree`,
  `SuccessIsReal`.
- `AutomationFleetProofs`, for `Healthy`. The invariant adds to the one above that no lock is ever
  stale (`Calm`), that a tick has jobs in hand only after its claim (`TickOrder`), and `Ownership`:
  the running jobs are exactly those some tick has claimed and not settled, each has one such tick,
  and it belongs to the lock's holder. `SingleRunner` alone is not inductive: a claim preserves it
  only because a queued job has no owner, and an outcome ends a job's running status only for the
  tick that owns it. `Exclusive`, `OwnLock`; from the same invariant each step is matched with a
  step of `JobLease` (`FleetMoves`), which gives `Refinement` and, as the lease takes no step from a
  settled job without a replay, `Final`. `Buried` needs `CauseInv` besides: a verdict waiting to be
  written has its cause in the handler's outcome or in the count of the row, and nobody else writes
  that row meanwhile.
- `AutomationFleetProofs`, for `Solo`. `SoloInv` says that at most one poll has anything in hand
  (`OneProcess`) and that what it read is still so (`PollInv`); that a job's attempts are numbered
  in ascending order up to its count, and below the number of a claim whose row is yet to be
  inserted (`AttemptsCounted`, `Unopened`); that the attempt whose outcome a tick will record is
  the last and open (`LastIsOpen`); and that a job that may be claimed has room left in its budget
  (`BudgetInv`). The budget is `MaxAttempts` and one attempt per crash or rejected statement,
  because recovery keeps the count and does not compare it with the budget; the invariant
  therefore counts what was lost so far (`Losses`) and gives room for one more attempt to a running
  job that no tick owns. `Ordered`, `Bounded`, `ClaimsDue`, `OutcomesFinal`, and
  `FinalAlone`: recovery, claim and `markFailed` write a row that is still what they read, or throw.
- `AutomationEnqueueProofs`. The invariant says that a row with a sent key has the key it was
  made with, that rows are made on insert, and that answers name existing rows of their key.
  `TypeCorrect` and `OwnJobOnly` follow; `Idempotent` adds that at most one row still carries each
  sent key, which the unique index preserves through every race.

### Boss's executor

- `BossExecutionProofs`, in all circumstances. `TypeOK` with what each counter implies: "callDone"
  is reached only after "ok", and "claim" only after a policy that permits, so that an external
  tool's consent was granted at some time (`ApprovedMeansGranted`: an approval row reads "approved"
  only if the Owner approved). A refusal may write back an "executed" that was loaded earlier; the
  invariant carries that such a tool had returned. `Invariance`, `TypeCorrect`, `SuccessIsReal`,
  `OnlyPermittedCalls`.
- For `Undisturbed`. `ExclusionInv` says that the action of a holder is executing and has not ended, and
  that it is the only one (`HoldsAlone`); and that what others may still write back is harmless
  (`EndKnown`, `EndIsFinal`): of a tool that may be called, a stale refusal writes "executing" or a
  status the action has ended in, and nobody claims from either. `Exclusion`, `OneHolder`,
  `NoCancelledRun`; and each statement is a step of `ActionClaim` or a stutter (`ClaimImplemented`).
- Without aborts. `CallInv` says that an open tool call belongs to one request (`OwnsCall`), so that
  nobody else closes it, and that whoever marks the action executed, or writes back an "executed"
  it has read, has a succeeded call behind it (`SuccessKnown`).
  `ExecutedIsRecorded` follows, also while decisions give an action two holders.

### Ledgers, publication and reports

- `LedgerProofs`, revenue. `FinalUnlessOverlapped` is not inductive: it needs that a request holds
  an event exactly between its read and its commit (`HoldsWhileDeciding`), that two who hold one
  event are recorded as overlapping (`SharedIsOverlapped`), and hence that what one alone has
  loaded is still pending when it writes (`HeldIsPending`). `ReportedOnce`, `ReconciledIsBooked`,
  `DecidedOnceUnlessOverlapped`; `BookingIsFinal` is the action property that a profit record
  keeps its amounts, because its event is unique in the table.
- `LedgerProofs`, seller. For stock, `AloneIsCurrent`: on a sku that was never crossed, the only
  movement in progress holds the sum of the present snapshot and its own delta, and the row it
  will write is still the newest. For keys, `LateIsRaced`: whoever is about to insert a key that
  is there by now has raced on it. `NoNegativeStock` holds even where movements cross, because
  every written row was checked when it was computed. `NoMovementLostAlone`, `OneOrderEach`,
  `NoReplayWithoutRace`.
- `CommerceProofs`, publication. An update under way passed the disclosure guards on the row it
  read (`EditIsGuarded`), and one about to publish holds an approval or the verdict
  (`WriteIsCleared`); on a row that is as it was read, this is what is written.
  `PublishedComplete`, `LiveTextCleared`. `PublishedListed` needs no such exception, but an invariant
  over links and assets (`DestinationInv`): a row keeps its link, a link its destination, and
  approvals are never withdrawn (`MayLeadKept`), so that what was asked of the destination when an
  asset was read or gated is still so when it is written, and an update that re-affirms a
  publication, which is not gated (`content-asset.service.ts:108-111`), had read a row that was.
- `CommerceProofs`, composition. Every step of `CommerceReports` is a step of the revenue ledger, of
  the seller ledger and of publication, or changes nothing of it (`RefinesRevenue`, `RefinesSeller`,
  `RefinesPublishing`), from which `CommerceTypeSafety` and `RevenueIsSound` follow without another
  induction.
- `CommerceProofs`, reports: `FiguresBacked`. Two invariants carry it. `SnapshotInv`: the answers of
  a report no write has crossed are what its queries would answer now, so each figure may be
  computed from one state. `FiguresInv`: in every state, a profit record belongs to a reconciled
  event, an event that was recorded has an amount, the link an event names is there, and a
  settlement's net is that of its lines; each holds across every ledger's requests and the cascades
  of a removed link. Then the figures are compared as sums: a sum over the rows is the sum over the
  labels (channel, campaign, outcome) of the sums over the rows with that label (`SumByLabel`), for
  whatever labels the rows have.

### Control plane

- `ControlProofs`. Autonomy: `EffectiveIsWithin`, a lemma on the operator for every ceiling, opt-in,
  level and role. Gateway: `Balance`, that as long as no row is of unknown cost what is due is what
  is booked and what is yet to be written; a row that states a cost states the charge
  (`RowsAreTrue`). Boss: every level a request holds is within the ceiling (`LevelsAreWithin`), a
  reduced command without its audit row has not been answered for and nobody plans on it
  (`UnnotedIsUnanswered`), and a second outcome comes only from requests that met
  (`LateIsCrossing`). `AuthorityCapped`, `ClampsAudited`, `OutcomesOnce`, `SpendAccounted`,
  `VerifiedByEvidence`, `MemoryStaysRecent`, `ControlTypeSafety` are then properties of the
  composition through `RefinesGuards`, `RefinesGateway` and `RefinesBoss`.
- The limiter: `WindowsBound`, that any stretch as long as a window admits at most twice the limit
  less one. By itself this is not inductive, since a tick moves the stretch. `WindowInv` splits it
  at the opening of the running window: what was admitted since then is at most the window's count
  and the limit, it includes the opening request, and what came before, in the same stretch, is at
  most the limit less one, because the opening request of the *earlier* window has left the stretch
  by the time this one could open. Where no window runs, the whole stretch is that remainder.

### Sums

`FiniteSums`. The library's induction theorems take the predicate as an operator, which the
provers cannot instantiate. Here the predicate is a *set* of numbers or of subsets, and the
induction is the existence of a least element of its complement (`WFMin`, with `NatLessThanWellFounded`):
`EveryNatural`, `EverySubset`. With it the recursion behind the community modules' `MapThenSumSet`
is shown to have a solution, and the lemmas the proofs cite follow: a sum is a number, it changes
by what one element changes, a split set is summed in parts, a shifted one alike, and `SumByLabel`.

*Model-checked only*: `EventuallySettled` and `EventuallyAnswered` (fairness and ENABLED are beyond
the prover), and the counterexamples of section 6.

## 6. Where documentation and code part

With a run (each is a counterexample of a few steps, listed under "findings"):

1. *AutomationDoubleRecovery* — `recoverStaleLocks` updates by id; two live processes recover the
   lock of a dead one, and the slower update requeues the job under the faster one's handler.
2. *BossTwoHolders* — `decide` writes the action's status by id; an approval granted while the
   action is executing lets a second request claim it.
3. *CommerceCogs* — every settlement has a cogs line, stated or NULL, so the check that "EVERY
   settlement in the window stated a cogs line" (`analytics.service.ts:329-339`) never fails, and a
   partial sum is reported as the total.

Stated as a definition, which a run of a few seconds refutes when it is named in a configuration of
its module's MC module:

- `AutomationWorker!AttemptOutcomeFinal` with replays: a replay restarts attempt numbers,
  `closeAttempt` picks the latest *number* and rewrites the outcome of an older generation, which
  `src/packages/database/prisma/schema.prisma:653-654` keeps "auditable"
  (`automation.service.ts:469`, `:520`). Without a replay it holds, and AutomationSolo checks it.
- `AutomationEnqueue!OneJobPerKey`: a replay frees the original idempotency key
  (`automation.service.ts:526`); a late client retry creates the work a second time, which the text
  at `:9-11` rules out. What holds is `SecondJobOnlyAfterReplay`.
- `BossExecution!ExecutingIsHeld`: a refused execute writes back the "executing" it has read after
  the holder has finished (`boss-executor.service.ts:169`); the action is executing for ever, and
  its result is hidden.
- `ContentAssets!DuplicatesAreNoticed`: the count of duplicates is tested for more than one although
  it does not include the asset itself when its text is about to change
  (`content-qa/content-qa.service.ts:31-51`): one duplicate passes.

Met on the way, in the automation and the executor; each has its root in a write by id that a run
above already shows:

- a lock that expires under a live handler is recovered after the job succeeded: a terminal job
  goes back to the queue (`automation.service.ts:592`; `automation-policy.ts:24`);
- a candidate read before another process ran, failed and requeued it is claimed before its
  backoff has passed (`automation.service.ts:340`, text at 320);
- a process told to shut down during a tick still claims (`automation-worker.service.ts:156`,
  text at 7 and 101);
- the handler abandoned by a shutdown puts the released row back into backoff or buries it
  (`automation.service.ts:430`; `automation-worker.service.spec.ts:452`);
- of two operators who replay one dead letter, the slower sets `replayCount` back
  (`automation.service.ts:515`; `src/packages/database/prisma/schema.prisma:628`);
- a decision on a pending approval of an executed or cancelled action makes it executable again
  (`boss-approval.service.ts:187`; `boss-execution-policy.ts:15`);
- an audit row that fails after the action was marked executed turns it into a failed, repeatable
  one (`boss-executor.service.ts:278`);
- after such a decision a running action can be cancelled (`boss-execution.controller.ts:55`);
- two decisions that both read "pending" are both written (`boss-approval.service.ts:175`), also
  when the action was cancelled meanwhile (`03_DEVELOPMENT_STATUS.md:735`);
- whoever asks for a fresh approval is answered with the lapsed one (`boss-approval.service.ts:67`).

In the ledgers; the properties say exactly when they happen:

- "exactly one insert survives the unique constraint" on a settlement (`seller.service.ts:521-524`):
  there is no such constraint on `seller_settlements`; two submissions that cross are two rows
  (`TwiceOnlyWhenRaced`). Likewise "a replayed marketplace webhook cannot double-count a refund"
  (`:385-387`): the lookup is inside the transaction, but nothing makes two transactions see each
  other;
- "a reconciled/rejected event is final" (`revenue.service.ts:123`): two requests that both read it
  as pending both decide it; a rejected event may be left with a profit record, or become
  reconciled (`FinalUnlessOverlapped`);
- stock movements that cross are lost (`seller.service.ts:215`), and two first movements of a sku
  may each insert a row (`StockExactUnlessCrossed`);
- two updates of one asset may leave it published without its disclosure or its date, or published
  with a text the gate has not seen (`content-asset.service.ts:112`); "re-affirming publish on an
  already-live asset is a no-op" (`:108-109`) is decided on the row read, so that one published, by
  another request withdrawn and by this one re-affirmed is public again, ungated. Its destination is
  a listed one all the same (`PublishedLinkIsListed`);
- "so the two can never disagree" (`analytics.service.ts:179-180`): the overview's figures are
  separate queries and disagree when a write falls between them (`ReportIsBacked` is about reports
  no write crosses);
- a listing whose request dies after its first insert has no version (`seller.service.ts:136`), and
  any listing status replaces any other (`:171-178`).

In the control plane:

- "Every call, successful or not, leaves one redacted row" (`ai.service.ts:492`): a request that
  `assertRequest` rejects leaves none, and one whose insert fails is answered without one (`:543`);
- a total of spend counts the last call of each request: calls that timed out or failed and were
  tried again may have been charged for (`SpendIsAccounted` names these exceptions);
- "Rejects a second outcome" (`boss-memory.service.ts:122-123`): two recorders that both read the
  decision open both write (`OutcomeOnceUnlessCrossed`), and one that dies after the outcome leaves
  a decision without lesson which no retry can give it;
- the plan of a command ends with an unconditional "planned": a command archived meanwhile is
  brought back (`boss.service.ts:178`); the level an action was planned at outlives a lowered level
  of its command (`boss-executor.service.ts:153`);
- the limiter's map may outgrow `MAX_WINDOWS` while its windows run, its counters are per process
  and are lost with it, and a window's end admits up to a window's worth less one beyond the limit
  (`WindowBudget`, `MemoryIsRecent`).

## 7. What is left out of the modelled parts

- Jitter of the backoff, validation of requests: they change a delay or refuse a request before
  anything is written.
- Audit rows: only their failure matters, and that is a failing statement. The one exception is
  the row of a clamped level, which is a promise of its own (`clampNoted`).
- Staleness of an approval by action version or input hash: no code changes tool, input or version
  of an action after it is created.
- The stored approval status "expired": no route reaches a write of it; a lapsed approval is
  pending with `expiresAt` in the past.
- Ties of `createdAt`, and clock skew between replicas.
- What tools and handlers do: they return or throw.
- The clock between two statements of a tick: the code takes `now` once, at the start of the tick,
  the model tests the flags `due` and `stale` at each read. A tick may thus see slightly more than
  the code does, which a tick that started later would see as well.
- A replay that changes `maxAttempts`: the budget is one constant.
- A process whose worker is disabled: it serves run-once and never drains. In the model it is a
  process that ends by crash.
- A failed statement in the middle of a loop that closes several attempts of one job: the loop is
  one step. A failed statement of the shutdown is a crash while releasing.
- Amounts are integers, so a sum has no rounding: the rounding of a figure to cents is left out, and
  currency is one.
- Texts: whether the rules of wording and length let one pass, and whether two are equal; URLs:
  which of the two host checks accept a destination; a command's text: the intents
  whose keywords occur in it; prompts and completions: whether a completion was one and stated its usage.
- The settlements, orders and returns of several sellers, listings and versions beyond their number:
  no statement relates two of them.
- Time windows of reports, and with them local time: reports are taken over all time. The
  concentration figure of the revenue service and the dashboard's and opportunities' scores are
  arithmetic on the same rows. A figure's unit, source and note are left out; that it is a value, a
  reason for none, or a count without a transport is kept.
- `remember` (one upsert), the cautions and the learning report of the Boss's memory.
- A response that the client never receives, in the ledgers: the client asks again, which is a
  request like another.

The components that are not modelled at all are listed with the reason in `PROJECT.json`. They are
single inserts (seller accounts and products, opportunities), static tables (providers, marketplace
adapters, automation routes), formatting and logging (observability), or pages that read the API
(`src/apps/web`): none has a step between two of its statements that another request could enter.

## 8. Plan

1. (done) Queue, workers and lease; enqueue; executor, approvals and claim; first proofs.
2. (done) Ledgers of revenue and seller, links, publication, reports and their composition; autonomy,
   guards, gateway, Boss commands and their composition; inductive invariants and refinements.
3. Composition of worker and executor: a job that is run again executes an action again.
4. (done) Proofs of every safety invariant and action property of the passing runs, and of the
   refinements `ImplementsLease` and `ImplementsClaim`.
5. An abstract ledger in which crossing requests are serial, and the conditions under which
   `SellerLedger` implements it.
6. Abstract specification of a plan (a command and its actions appear at once) against
   `BossCommands`.
