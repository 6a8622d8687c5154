# A formal model of big-banana

This directory models the trading pipeline of this repository in TLA+: from a
TradingView alert, through the job queue and the Hermes worker, to trade plans,
risk verdicts, paper orders, fills and positions. TLC checks the modules on
small instances; TLAPS proves every invariant and every action property that a
passing run checks, for all values of the constants: any number of jobs, workers,
attempts, versions, bars and fixtures, any prices and policies. What it cannot
prove is liveness.

Contents: [the system](#the-system) · [hard behaviours](#hard-behaviours) ·
[modules](#modules) · [runs](#runs) · [findings](#findings) ·
[fairness](#fairness) · [proofs](#proofs) · [not modelled](#what-is-not-modelled)
· [plan](#plan)

## The system

| Component | Code | State | Operations |
|---|---|---|---|
| Webhook intake | `apps/api/src/webhooks/tradingview`, `domain/webhook-events` | `webhook_events` | receive (upsert by payload hash), skip a processed duplicate, project, enqueue, write status |
| Market state | `domain/market-state`, `db/market-state` | `market_states_current`, `market_states_history` | upsert the newest bar; append a bar |
| Job queue | `db/agent-jobs`, `domain/agent-jobs` | `agent_jobs` | enqueue, claim, complete, report failure, requeue expired locks, cancel |
| Hermes worker | `apps/hermes/src/worker/agent-job-worker.ts`, `main.ts` | a process: the job it runs | poll: requeue, claim, run the handler, settle |
| Planning | `domain/planner`, `domain/plans`, `domain/pipeline`, the `generate_plan` handler | `trade_plan_versions`, `plan_transitions`, `agent_runs` | build the input from the last bars and the active plan, generate, record version, transition and run, place the entry |
| Risk gate | `domain/risk`, `domain/execution/build-execution-intent-*` | `risk_verdicts`, `execution_intents` | evaluate, build an opening intent |
| Order desk | `apps/api/src/orders`, `apps/api/src/interventions`, `domain/orders` | `execution_intents`, `orders` | submit, reconcile (filled, canceled), cancel entry, flatten |
| Fills and positions | `domain/positions`, `db/fills`, `db/positions` | `fills`, `positions_current`, `positions_history` | record a fill, apply it to the position |
| Market read model | `db/read-models` | none | the latest version, verdict, intent and order of a market |
| Revision, review, memory | `domain/revisions`, `domain/reviews`, `domain/memory` and their handlers | `plan_revision_suggestions`, `post_plan_reviews`, `memory_lesson_candidates`, `agent_runs` | read the input, generate, record a run and what it found |
| Agent locks | `db/agent-locks` | `agent_locks` | acquire, renew, release; no caller yet |
| Replay | `apps/hermes/src/replay`, the `replay_planner` handler | `agent_jobs`, `agent_runs`, report and comparison files | enqueue the fixtures, poll with a worker of its own, report, compare with the report before |
| Web app, health probe, contracts, prompts | `apps/web`, `apps/api/src/supabase`, `packages/contracts`, `packages/agent` | none | reads, rendering, validation |

API and worker share nothing but the Postgres database. An API request is a
serverless function: several statements, no transaction, and it may die between
any two of them. The worker polls `agent_jobs`; a job reaches it only through
that table, and it answers through `webhook_events`, the plan and order tables.
Only two operations of the queue are transactions of several statements
(`claimNextJob`, `requeueTimedOutJobs`).

What makes each part correct:

- **Queue.** A job runs at most `max_attempts` times and under one lease at a
  time; a stale worker cannot settle it; a settled job stays settled; every job
  is settled in the end.
- **Intake.** What was answered 200 is queued; what is skipped as a duplicate
  was finished; a settled job has told its event how it ended, unless an attempt was
  cut off; a status is not written before the bar is in both market state
  tables, and no older bar takes it out again.
- **Planning.** Versions of a plan are numbered without gaps; every change of
  state is a legal transition that is written down; every attempt leaves an
  agent run; a market has one open plan unless two attempts plan side by side;
  what a retry repeats is paid for with an attempt.
- **Planner input.** The planner sees the newest bars, once each and in order, and
  a summary that agrees with them; planner and reviser do not contradict each
  other about one signal.
- **Agent locks.** Two owners never hold a key at once.
- **Replay.** A report stays true of the tables whatever late workers do; every
  result names the run it came from; a comparison loses no result.
- **Review.** A completed revision, review or curation has stored all it found;
  one that stored a part shows that it failed; one job stores no more sets of
  rows than it is charged attempts.
- **Risk.** An opening intent stays within the risk, the limits and the kill
  switch of its policy, with its stop on the losing side of its price unless the
  entry zone is a cent wide or less; a tradable signal opens unless something
  forbids it.
- **Orders.** One order per intent, one exit per order, one fill per filled
  order; terminal orders stay; the position is the sum of the fills.

## Hard behaviours

`PROJECT.json` lists each hazard at its line. They fall into five groups.

1. *Leases without a heartbeat.* A lock lives 60 s (`HERMES_LOCK_TTL_SECONDS`);
   a handler that takes longer is joined by a second one. The only fence is
   `locked_by`, a name, so it fails when two processes share a name
   (`HERMES_WORKER_ID` in `.env.example`, equal pids in containers).
2. *Statements without a transaction.* Read, decide, write: the version number
   of a plan, the position, the status of an order, the existing order of an
   intent. Some are saved by a unique index, others are not.
3. *Crashes and retries between statements.* A version without its transition,
   a filled order without its fill, a close intent without its order.
4. *Two writers of one column.* The webhook handler and the worker both write
   `process_status`; the close of an order and its entry share the "latest
   intent" of a verdict.
5. *Numbers and times from outside.* Bars that come late or twice, prices and
   quantities that are rounded in three places, lock times that the caller sends,
   polls that are counted while a job waits for its backoff.

## Modules

| Module | Extends | Models |
|---|---|---|
| `AgentJob` | | The abstract life of a job: status, attempts, holder |
| `JobQueue` | | `agent_jobs` and the worker loop, with clock, locks, backoff, crashes. Implements `AgentJob` |
| `SignalIntake` | `AgentJob` | Webhook request, market state, status write-back |
| `PlanLedger` | `AgentJob` | A `generate_plan` attempt, from the active plan to the entry order, beside other attempts |
| `PlanReview` | `AgentJob` | Revision, review and memory jobs |
| `ReplayBatch` | `AgentJob` | The replay batch, its worker, reports and comparisons, beside a Hermes worker |
| `OrderDesk` | | Orders, fills, positions; API requests beside the worker |
| `AgentLocks` | | Leases on keys: statements that run later than the times in them |
| `PlannerInput` | | The bars of a market, the window and its summary; the deterministic planner and reviser |
| `RiskGate` | `PlannerInput` | Verdict and opening intent as arithmetic, from the plan of a signal |
| `JobQueueProofs`, `AgentLocksProofs`, `SignalIntakeProofs`, `PlanLedgerProofs`, `PlanReviewProofs`, `RiskGateProofs`, `OrderDeskProofs`, `ReplayBatchProofs` | the module named | Its theorems; those of `PlannerInput` are in `RiskGateProofs` |
| `MC*` | the module named | Instances for TLC |

`SignalIntake`, `PlanLedger`, `PlanReview` and `ReplayBatch` use the queue
through `AgentJob`, conjoining its actions with their own steps (`Start` with the
start of a handler, `FailAttempts` with the expiry of a lock).
`ImplementsLifecycle` — a run, and the theorem `Refinement` — is what justifies
this: the real queue does nothing that `AgentJob` does not allow.

### JobQueue

`job` is the table, `worker[w]` the local variables of process `w`: its phase
(`requeue`, `claim`, `handle`, `read`, `write`, ...), the `now` it read, the
job it runs. `token`, `until` and `claims` are history variables: which claim
the worker holds, until when, and how often a job was claimed. `clock` moves by
`Tick`, which stops at the latest deadline in the tables (`Deadlines`): later
instants enable nothing new. `now` is read once per poll (`StartPoll`), so that
the requeue and the claim work with an old time, as in `runOnce`.

- `reportJobFailure` is two actions, the read of the row and the guarded write;
  the lock can expire and be claimed again between them.
- A completion that commits and whose answer is lost is `CompletionAnswerLost`:
  the worker goes on to `reportJobFailure`, whose fence then throws, and the
  process ends (`main.ts` has no other handler).
- Backoff is `min(max, base * 2^(n-1))`, tabulated; the base is one tick.
- `FOR UPDATE SKIP LOCKED` and the two transactions are modelled as serial
  executions. A row skipped because it is locked is a row the other transaction
  takes, so skipping only means that a poll finds less than it could.
- The order of claims (priority, `run_after`, `created_at`) is `Before`; ties
  are left open.

### SignalIntake

A payload is known by its hash (`delivery_key`); the job of a bar by its key.
Each statement of the handler is an action; `RequestFails` may end a request at
any of them. A worker's handler writes the outcome (`WriteOutcome`) or `failed`,
then reports to the queue; both may come after its lock was lost. It can also
fail with nothing written (`FailUnwritten`): the handler throws before its `try`,
or the update in the catch block throws. `unshown` is a history variable: the
jobs that can no longer be said to tell their outcome, because an attempt was
cut off, or failed with nothing written, or because a request wrote `queued`
over what the worker had written. `SettledIsShown` says that every other settled
job has `completed`, `skipped` or `failed` in the event of the payload it
carries. A second payload of a bar joins the job of the first, and its own event
stays `queued`. Requests whose payload is not valid change no state and are left
out.

### PlanLedger

An attempt is `readActive`, `generate`, `readLatest`, `recordVersion`,
`recordTransition`, `recordRun`, then the rest of the pipeline. Any of them may
throw (`AttemptThrows`), which records a failed run and fails the attempt.
A crash stands also for a database that is lost for the rest of the attempt,
including the statement that records the failed run. The rest of the handler is
`recordVerdict`, `submit`, `updateStatus`: an open candidate may get an intent
(the verdict is `RiskGate`'s matter), and the entry order carries a
`client_order_id` made of symbol, side and version number, unique in the table.
`overlapped` remembers whether two attempts ever planned side by side. `clock` orders the
`created_at` values, which are drawn before the insert as in
`recordGeneratedTradePlan`; equal milliseconds are not modelled. `Planner`
selects what may be answered: the deterministic generator's function of signal
and active plan, or anything the JSON schema of the OpenAI answer allows.

### PlanReview

The three handlers have one form, so one module models them: `read`,
`recordRun`, `store`, and `recordFailedRun` for the catch block. `Kind` tells
them apart: a revision needs an active plan, a review a plan, a curation a
stored review; a curation stores any number of candidates, the others one row.
`rows[r]` counts the rows that carry `agent_run_id` r. `InsertRecord` is the
database doing an insert of run `r`, and needs no live attempt: `Promise.all`
rejects at the first failure and leaves the other inserts on their way, so that
they may land during the retry. The attempt a run belongs to is told by its
`started_at`, which is the `locked_at` of the job. `lost` holds the attempts
that end where nothing records them: before the `try`, in the catch block, or
with the process. No table has a unique key, so a retry writes its own rows
beside those of the attempt before it; `DuplicatesCharged` says that each such set
of rows is paid for. The code enqueues none of these jobs yet (only the `build*JobInput` functions
exist), so `EnqueueJob` is any caller's.

### OrderDesk

One account, one symbol. `plans`, `intents`, `orders`, `fills`, `history` are
the tables as sequences, `actor[a]` the local snapshot of a request or of the
worker. `ReadIntent` reads version, verdict and intent in one step (a verdict
belongs to one version); the order is read later. In the code these are separate
queries, so that a version may come without a verdict that is recorded between
two of them; no property tells this from a verdict that comes later. Prices are
left out. Two reconciles of one order in the same millisecond would collide on
`exchange_fill_id` and the second would fail, which is a crash here.
The guard `already_intervening` of flatten needs an order that is both filled
and not terminal, so it never applies and is left out.

### AgentLocks

`locks` is the table; `lease[c][k]` is until when client `c` takes itself for the
holder; `call[c]` the statement under way, with the time `at` that the caller put
into it. `Execute` runs it, at any later time; `Receive` takes the answer;
`CallFails` loses it, before or after it ran. A statement that was given up is
therefore never still on its way: one that a dead process sent, and that lands
after its owner has started again under the same id, is excluded, because a late
`release` could then delete the lock that the new process holds. Nothing in the repository calls
these functions yet, so the discipline of the callers is an assumption of the
module, not a fact of the code: one clock, one `Ttl`, one statement at a time,
and a lease that is given up before the release is sent. Clients that pass the
same owner id share a lock; `Unshared` names those that do not.

### ReplayBatch

A batch enqueues its fixtures one by one (`enqueue`), then polls: requeue, claim,
run, settle, as many times as `MaxRuns` allows, or until `MaxIdleRuns` polls have
found nothing due. Then it writes its report, and, as `replay:baseline` does,
compares it with the latest one before. Batches follow one another; the Hermes
worker runs beside them and takes the jobs of the markets it accepts, with its
own model. `runs[j]` are the agent runs of job `j` in the order of their
insertion and `result[j]` is `result_ref_json`. Rates are integers over
`RateUnit`, which every total divides, so that no rounding is hidden. What a run
answers is any pair of `Answers`.

### PlannerInput and RiskGate

`history` maps the times of the recorded bars to their contexts: an alert may
come late, twice or out of order, and the context of the first
of a bar stays (`on conflict do update set webhook_event_id`). The job reads the last `WindowSize` of them when it
runs, not when the signal came. `Summarize` is `summarizeRecentSnapshots` on
integers, without the averages of ranges and the extensions in ATR, which only
reach the prompt; the one extension that decides something, `overExtended` in
the reviser, is any Boolean. `DeterministicPlans` is the deterministic planner
with its zone rounded to cents; `DeterministicRevision` the deterministic
reviser.

Prices are even integers in ticks, `Cent` ticks to 0.01; quantities are rounded
to grains as `toFixed(6)` does; the intent's price is rounded to a whole cent
as `toFixed(2)` does, ties either way. One behaviour is one signal, or one plan of
the model, and its evaluation. What `recordGeneratedTradePlan` may refuse between
plan and verdict is `PlanLedger`'s matter and left out here: a refusal only ends the
behaviour earlier. The notional is compared before the code's rounding of the
product to six decimals, which can only decide whether the verdict warns.

## Runs

A passing run finishes with no error. The "violation" runs are findings, below.

| Run | Instance | Distinct states | Question |
|---|---|---|---|
| `JobQueueFair` | 2 jobs (2 attempts; 1 attempt, no handler), 2 workers | 161 k | Is the queue safe, does it implement `AgentJob`, is every job settled? |
| `SignalIntakeSafety` | 3 payloads of 2 bars, 2 requests, 2 workers | 2.7 M | Is nothing accepted and lost? Does a settled job tell? |
| `PlanLedgerRace` | 2 signals, 3 attempts in all, 2 workers, 1 crash, 2 answers | 2.3 M | Does the ledger survive races and retries? Is every repeat paid for? |
| `PlanReviewAgents` | a review, its curation (2 attempts, 2 candidates) and a revision, 2 workers | 2.5 M | Is a completed job whole, and a partial one shown? Is every duplicate charged? |
| `ReplayBatch` | 2 batches with 2 and 1 fixtures, 2 workers, 1 crash | 1.6 M | Do reports and comparisons stay true of the tables? |
| `AgentLocks` | 1 key, 3 clients, leases of 2 instants in 5 | 561 k | Do two hold a key at once? |
| `OrderDeskSerial` | 1 request at a time, 2 versions, quantities 1 and 2, 2 crashes | 2.1 M | Is an order filled once, a terminal one final? Does the position follow the fills? |
| `OrderDeskRace` | 2 requests, 1 version, 1 crash | 1.2 M | One order per intent, one exit per order? |
| `RiskGateVerdict` | 4 bar times, 3 contexts, 5 signals; every plan over 4 prices; every limit on and off | 1.2 M | Does an opening intent respect its policy? Does the planner see the newest bars? |

The violation runs are `OrderDeskTerminal` (two reconciles of one order),
`PlanLedgerStates` (one worker, two signals) and `OrderDeskClientIds` (one worker,
two plans).

Bounds, and why they are enough:

- *Jobs and workers.* The properties speak of one job or of two workers at one
  job; the second job is there for the claim order and for a worker with
  narrower types. The proofs remove the bound.
- *`LockTtl = 1`, backoff 1 to 2.* The clock only has to tell apart before, at
  and after a deadline: a lock is alive at its first instant and over at the
  next. Attempts are bounded by the code (`max_attempts`); with two of them the
  cap of the backoff is not reached. The safety properties are proved for every
  lifetime, backoff and number of attempts; the run is small because it also
  checks liveness.
- *`MaxDeliveries = 1` in the guard of `Deliver`.* Two requests can both have
  passed it before either is counted, so that a payload is delivered twice, at
  any distance from each other. Each bar has one job.
- *`MaxPlans`, `MaxCrashes`.* Every new plan version adds an entry, its close,
  and the close of that; two versions are enough for a version to hide an older
  order. A crash in each of two actors is the most a two-actor property can
  need.
- *`MaxPlans = 1`, `MaxItems = 2` in `PlanReview`.* A version appears before,
  after or never, open or not; two candidates are the fewest of which one can be
  stored and one not.
- *Two answers in `PlanLedgerRace`.* One arms a plan and one ends it: enough for
  a legal change, an unchanged state, a new plan after the end of one, and, when
  two attempts race, an illegal change. The weak answer on an armed plan is the
  subject of `PlanLedgerStates`.
- *Three clients and one key in `AgentLocks`.* A key is never read with another;
  the third client is the one that waits for a lock which a second has just
  taken over. The proof removes the bounds.
- *`MaxBatches = 2`, two fixtures.* A comparison needs two reports, with a fixture
  that both have and one that only one has.
- *Four times and a window of three in `RiskGateVerdict`.* One bar falls out of
  the window, and any of the four may be the late one. The contexts put every
  test of the summary, and the signals every test of planner and reviser, on
  both sides; with `Cent = 4` a zone may be narrower than a cent.
- Requests are interchangeable in `OrderDeskRace`, requests among themselves and
  workers among themselves in `SignalIntakeSafety`, workers in
  `PlanReviewAgents` and `PlanLedgerRace`, clients in `AgentLocks`. These runs check no liveness, and no property tells the
  members of a symmetric set apart, so symmetry is sound there.
- `CHECK_DEADLOCK FALSE` where the instance runs out of signals, versions or
  deliveries. The queue never stops: it is checked for deadlock.

`PositionFollowsFills` and `EventsTellHistory` claim nothing once a process has
died: a fill may then stay unapplied for good. `TerminalOrdersStay` holds for one
request at a time and fails for two; it has a passing run and a violation run.
`OneThesis` claims nothing once two attempts have planned side by side.

## Findings

Three disagreements between the code and what it says of itself have a run:

| Run | What the code does |
|---|---|
| `OrderDeskTerminal` | Of two concurrent reconciles, one overwrites the other's terminal status |
| `PlanLedgerStates` | A refused state is stored first, and the retry then passes |
| `OrderDeskClientIds` | The first entries of two plans of a symbol ask for one `client_order_id` |

`PROJECT.json` quotes the document or code line that each one contradicts.

Others were met while modelling. The models have the behaviour; no run is
devoted to it, because one reading of the code settles it:

- An order is `filled` before, or without, a fill
  (`reconcile-paper-order-and-record-fill.ts:28`; `mvp-freeze.md:232` says that
  only the fill ledger makes it `filled`).
- Two requests that fill the orders of two plan versions at once both read the
  position before either writes it: the position keeps one of the two fills
  (`apply-fill-to-position.ts:19`, `:25`; `mvp-work-tracker.md:133` calls
  `positions_current` the truth of the position).
- Flatten takes quantity and side of the latest order and never reads the
  position, so it can open or grow one (`build-operator-execution-intent.ts:34`;
  `mvp-freeze.md:156` asks for `reduce_only`).
- The close of a close of one plan version asks for a client order id already in
  use, and its intent is left without an order
  (`build-operator-execution-intent.ts:92`; `mvp-freeze.md:183`).
- A skip becomes the active plan of the next signal
  (`build-planner-input.ts:140`; `mvp-freeze.md:205`).
- A terminate that leaves the state as it was writes no transition
  (`record-generated-trade-plan.ts:50`; `mvp-freeze.md:207`).
- `queued` is written over the outcome of a faster worker
  (`handle-tradingview-webhook-request.ts:106`; `mvp-work-tracker.md:308`).
- A notional over the limit warns and reduces nothing
  (`evaluate-deterministic-risk-verdict.ts:117`; `mvp-freeze.md:155`).
- Two workers that plan side by side open two plans of one market; `agent_locks`
  has no caller (`record-generated-trade-plan.ts:29`; `mvp-freeze.md:206`,
  `mvp-architecture.md:309`).
- In a zone of a cent or less the order price, rounded, may meet or pass its stop
  (`build-execution-intent-from-risk-verdict.ts:125`;
  `evaluate-deterministic-risk-verdict.ts:59` asks for a non-zero stop distance).
- In a market with small prices the zone of the deterministic planner is rounded
  to a point, and every plan is rejected for want of a stop
  (`generate-deterministic-trade-plan.ts:193`).
- Planner and reviser look for open orders and positions under the tickerid,
  while the rows carry the symbol, so they never see an exposure
  (`build-planner-input.ts:130`; `mvp-work-tracker.md:275`,
  `mvp-architecture.md:168`).
- The reviser's `upgrade` needs a watched plan with a bias, and those of the
  deterministic planner are neutral; and a short that is extended downwards is
  never tightened by its extension (`generate-deterministic-plan-revision.ts:23`,
  `:77`).
- A replay fixture that failed waits for its backoff while idle polls run out, so
  its own batch hardly ever retries it; a replay reads the plan and the window of
  the day it runs (`replay-planner-batch.ts:90`, `replay-planner-handler.ts:66`;
  `mvp-validation-and-dashboard.md:158` asks for fixed scenarios).

## Fairness

Only `EventuallySettled` in `JobQueueFair` needs it. `FairSpec` assumes that a running process takes
its next step (`runUntilStopped` polls for ever, and a handler returns or throws
because its calls end), that a process that ended is started again (the
supervisor, outside the repository), that time passes, and that crashes stop at
last. All are weak. Nothing is assumed of enqueueing, cancelling or of the
outcome of a handler. Without `Restart` or without the end of the crashes a job
can stay `running` for ever, since only a poll finds an expired lock.

## Proofs

Each module's theorems hold for every value of the constants that its named
assumptions allow.

| Theorem | Statement | Assumes |
|---|---|---|
| `TypeCorrect` | `JobQueue`: `Spec => []TypeOK` | the four assumptions of `JobQueue` |
| `QueueInvariant` | `Spec => []QueueInv` | also `DistinctIds` |
| `RowsConsistent`, `EveryAttemptAccounted`, `StaleWorkersFenced`, `LeasesExclusive` | `Spec => []P` for `LockConsistent`, `AttemptsAccounted`, `FencedOwnership`, `LeaseExclusive` | the same |
| `SettledJobsStay`, `Refinement` | `Spec => SettledIsFinal`, `Spec => Lifecycle!JSpec` | the same |
| `LocksTyped`, `LocksExclude` | `AgentLocks`: `Spec => []TypeOK`, `Spec => []MutualExclusion` | `LocksAssumption`, `NoneApart` |
| `SignalsQueued`, `ProgressTold`, `OutcomesShown` | `SignalIntake`: `Spec => []P` for `AcceptedIsQueued`, `StatusTellsProgress`, `SettledIsShown` | `IntakeAssumption` |
| `LedgerTyped`, `VersionsStayContiguous`, `SuccessStaysExplained`, `AuditStaysComplete`, `RepeatsAreCharged`, `OneThesisHolds` | `PlanLedger`: `Spec => []P` for `TypeOK`, `VersionsContiguous`, `SuccessExplained`, `AuditComplete`, `RepeatsCharged`, `OneThesis` | `LedgerAssumption` |
| `CompletedStaysWhole`, `AttemptsStayTraced`, `HalfDoneStaysShown`, `DuplicatesStayCharged` | `PlanReview`: `Spec => []P` for `CompletedIsWhole`, `AttemptsTraced`, `HalfDoneIsShown`, `DuplicatesCharged` | `ReviewAssumption` |
| `WindowStaysRecent`, `SummaryStaysTrue`, `PlannersAgree` | `PlannerInput`, in the steps of `RiskGate`: `Spec => []P` for `WindowIsRecent`, `SummaryTellsWindow`, `RevisionAgrees` | `InputAssumption`, `GateAssumption`, `PlansAssumption`, `PoliciesAssumption` |
| `GateSafe`, `GateTyped` | `RiskGate`: `Spec => []GateInv`, `Spec => []TypeOK` | the same |
| `RiskStaysWithinPolicy`, `OnlySetupsOpen`, `TradableIsNotLost` | `Spec => []P` for `RiskWithinPolicy`, `OpensOnlySetups`, `TradableOpens` | the same |
| `DeskTyped`, `IntentsPlacedOnce`, `ExitsPlacedOnce` | `OrderDesk`: `Spec => []P` for `TypeOK`, `OneOrderPerIntent`, `OneExitPerOrder` | `DeskAssumption`, `WorkerAssumption` |
| `OrdersFilledOnce`, `PositionIsTheFills`, `HistoryTells` | `Spec => []P` for `FilledOnce`, `PositionFollowsFills`, `EventsTellHistory` | also `OneAtATime` |
| `TerminalStays` | `Spec => TerminalOrdersStay` | the same |
| `ReplayTyped`, `ReportsStayTrue`, `ResultsStayTraced`, `ComparisonsLoseNothing` | `ReplayBatch`: `Spec => []P` for `TypeOK`, `ReportHolds`, `ResultsTraced`, `ComparisonWhole` | `ReplayAssumption` |
| `UntriedGetAllPolls` | `Spec => UntriedOnlyAfterAllPolls` | the same |

What the assumptions ask for beyond types:

- `DistinctIds`: no two processes share a worker id. The mutant
  `LockIdFromSharedEnv` shows that it is needed.
- `OneAtATime`: there is one request, repeated as often as it likes, beside the
  worker. The run `OrderDeskTerminal` shows that two break `TerminalOrdersStay`.
  Any number of crashes is allowed; `PositionFollowsFills` and
  `EventsTellHistory` themselves speak of the time before the first.
- `LedgerAssumption`: finitely many workers; an answer that skips is a watch, as
  `trade-plan.schema.json:154` has it.
- `InputAssumption`: a bar's close lies between its low and its high; prices are
  not negative; the unit of risk is a multiple of 400, so that the risk steps of
  the planner are integers.
- `GateAssumption`, `PlansAssumption`: a cent is an even number of ticks and the
  prices of a plan are even, so that the middle of a zone is an integer;
  `riskPct` is not negative (the schema). `PoliciesAssumption`: equity and
  limits are not negative, and may be zero.
- `ReplayAssumption`: finite fixture lists, none empty, and a unit of rates that
  every total divides.

**The queue.** The properties are not inductive: that a stale worker is fenced
depends on what it remembers of its claim. `QueueInv` adds it: a busy worker's
token is at most the number of claims; if the row still names it, its token is
the latest, its `until` is the row's `locked_until`, and after the read of
`reportJobFailure` its attempt count is the row's; while its lease has not run
out it is still named, or the job was completed or cancelled; and two busy
workers at one job hold different tokens. Claims and requeues compare
`locked_until` with a `now` read earlier, so `now <= clock` is part of it. There
is one lemma per action, and one for the steps that only change a worker's
phase; the temporal steps combine them. The refinement maps a row to its status,
attempt count and `locked_by`; each action maps to one of `AgentJob` or to a
stutter, and the requeue of several rows to one `FailAttempts` of a set.

**The agent locks.** Mutual exclusion follows from `LeaseBacked`: a lease is
covered by the row. It is kept by what is on its way: a granted answer must be
covered too (`AnswerBacked`), a statement under way must not reach back behind
the lease it extends nor a release run under one (`CallsInOrder`), and no lease
reaches beyond `Ttl` from now (`LeasesBounded`), so that a row which an old
statement finds expired really is.

**The order desk.** That an intent has one order rests on the unique
`client_order_id`, and that an order has one exit on the unique
`idempotency_key`; but only because an order keeps the client id of its intent
(`OrdersCarryClientIds`), because a key tells an entry from a close
(`KeysNameActions`), and because what an actor remembers between two
statements refers to rows that exist, with the plan, order and quantity that it
read (`RowsRefer`, `ActorsRefer`). `DeskInv` is the conjunction. The lemma
`LatestIn` finds the row that "latest" names, by well-founded induction.

**The order desk, one request at a time.** `SerialInv` adds to `DeskInv` what
nobody can spoil then. The worker only submits (`WorkerSubmits`), so that the
order which the request is about to update is as it read it, and the one it is
about to fill has no fill (`SnapshotsHold`). Until the first crash each fill but
the one under way has its row of `positions_history`, which starts from the
quantity that the row before left (`HistoryFollows`); `positions_current` holds
the last of these (`AppliesLastFill`). A fill that is recorded opens the gap of
one, its application closes it, and no other step touches the three tables.

**The intake.** `IntakeInv` says how far a request has come at each of its steps
(`RequestsProgress`), that a job carries a signal of its own bar that is
projected (`JobsCarryPayloads`), and that a handler whose job is not in `unshown`
holds it and has written what it is about to report (`HandlersHold`).

**The plan ledger.** `LedgerInv` has four layers. What an attempt remembers is in
the tables (`AttemptsRefer`), which with the unique index of (`plan_id`,
`version`) keeps the versions contiguous. A version that is being recorded has
one worker (`RowsApart`), and its transition is the one the state machine allows
from the version before (`RecordingExplained`), which gives `SuccessExplained`
and, with a count of the failed runs, `AuditComplete`. Attempts are counted in
`AttemptsCharged`: the versions of a signal and the attempts still on their way
to one are no more than the attempts that were started; a late worker was
started too, and a failed job has used its last attempt. `OneByOne` is the
argument for `OneThesis`: while nobody plans beside another, `created_at` orders
the versions as they were inserted, so the open plan that an attempt finds is
the only one.

**Revision, review and memory jobs.** `ReviewInv`: an attempt is known by job and
`locked_at`, no two workers have the same one (`AttemptsInOrder`), it has no run
before its worker records one and then that one successful run; and a run has no
more rows than it counts (`RunsInOrder`), whenever its late inserts land.
`ChargeInv` adds what `DuplicatesCharged` needs: every claim is charged once
(`ClaimsCharged`), late worker or not, and an attempt has one successful run at
most (`OneSuccess`), so that the successful runs of a job map one to one into its
attempts.

**The risk gate.** `GateInv` says that window and summary are those of what was
read, that the plan is one of the model's or the deterministic planner's answer
to it, and verdict and intent are what the code makes of them. It is simple; the
work is in the arithmetic, which is that of the code with its roundings.
`RiskWithinPolicy` follows from the two factors of the quantity: the risk is the
plan's or the policy's, whichever is less, and the quotient by the stop distance
is rounded to the nearest grain, so that it exceeds the exact one by half a grain
at most (`RatioBounds`); the notional limit reduces nothing. `OpensOnlySetups` and `TradableOpens` bound what rounding to
cents can do to the zone, hence the cases of a zone of a cent or less and of an
ATR of two. `RevisionAgrees` compares the decision tables of planner and
reviser. That a window holds the newest bars, once each and in order, is a fact
about ranks: each number of older bars belongs to exactly one bar (`Ranks`).

**The replay.** `ReplayInv` has a layer for the jobs, whose settled rows no later
step changes; one for the workers, who complete only what they have recorded
(`WorkRecorded`); one for the batch, which polls only what is queued and no
more than `MaxRuns` times (`BatchInOrder`); and one for the files
(`ReportsInOrder`). A report with nothing pending is made of settled rows, hence
stays true. For the comparisons, `ComparisonsInOrder` says that each was made
from its own report and the latest before it, which nobody rewrites. That its
changes add up is the lemma `DeltasAddUp`: the sum over the keys of a record is
a fold, the number of results with a key in a set satisfies its equation, and no
other function does.

TLC checked each of these invariants on the instances of the runs before they
were proved.

Only model-checked: `EventuallySettled`, since the prover has no ENABLED and so
no fairness.

## What is not modelled

- Rendering, read-only dashboards, health probe, prompt text, the OpenAI call,
  JSON schema validation: no state, or I/O.
- Payloads that are refused before anything is stored.
- Two events with one millisecond's timestamp, except where noted.
- What a suggestion, a review or a lesson says. The curation reads the latest
  plan of the market for its prompt, not the version that was reviewed; its rows
  name the reviewed one, which is what the model keeps.
- Of the planner: confidence, evidence, key levels and wording; average ranges,
  extensions in ATR, sequences of regimes and the states of other timeframes,
  which only the prompt shows. Of a replay: the printed output, the contents of
  the fixtures, and `replay:default`, which is the same batch without the
  comparison.
- The hand-off as liveness (an accepted signal is shown an outcome in the end):
  it does not hold, since a mute attempt or a late `queued` leaves the event as
  it is for good. `SettledIsShown` says which events these are.
- Every open order can be reached from the read model: a newer version without
  an order hides it, the model shows it, and nothing in the repository promises
  otherwise.
- `cancelJob` is modelled although only tests call it: it is part of the
  repository's interface.

## Plan

1. **Done.** Queue and worker; intake; plan ledger with its entry orders; order
   desk; planner input, planner, reviser and risk gate; revision, review and
   memory jobs; replay; agent locks. Theorems on the queue, the locks, the desk
   and the intake.
2. **Done.** Theorems on the plan ledger, the review jobs, the planner input, the
   risk gate, the replay and the serial order desk.
3. **When the code grows.** `PlanLedger` under a market lock of `AgentLocks`, as
   soon as a handler takes one: `OneThesis` should then hold without its
   condition.
