---------------------------- MODULE ReplayBatch -----------------------------
(***************************************************************************)
(* The replay of a fixture list through the planner (replay:baseline): a   *)
(* batch process enqueues one replay_planner job for each fixture, polls   *)
(* the queue with a worker of its own until its jobs are settled or it     *)
(* gives up, writes a report, and compares it with the report before it.   *)
(*                                                                         *)
(* The jobs stand on AgentJob.  Batches run one after the other; a live    *)
(* Hermes worker that accepts replay jobs takes them too, and locks may    *)
(* expire under both.  A job is <<batch, fixture>>: the idempotency prefix *)
(* holds the time the batch was started.                                   *)
(***************************************************************************)
EXTENDS AgentJob, Sequences, FiniteSetsExt

CONSTANTS
  MaxBatches,   \* bound: batches started
  FixturesOf,   \* the fixture list of each batch
  MarketOf,     \* market of each fixture
  TimeframeOf,  \* timeframe of each fixture
  Model,        \* the model each holder's generator is configured with
  Accepts,      \* the markets each holder claims jobs of
  Answers,      \* bound: the [action, state] pairs the planner answers
  MaxIdleRuns,  \* idle polls after which a batch gives up
  RateUnit,     \* the unit of a rate
  MaxCrashes    \* bound: processes that die half way

Batches == 1..MaxBatches
BatchWorker == "batch"
JobsOf(b) == {<<b, f>> : f \in FixturesOf[b]}

(* Rows of agent_runs, and the results that are derived from them. *)
Actions == {answer.action : answer \in Answers}
States == {answer.state : answer \in Answers}
Models == {Model[w] : w \in Holders}
AgentRuns ==
  [status : {"success"}, action : Actions, state : States, model : Models]
    \union [status : {"failed"}, action : {None}, state : {None}, model : Models]
ResultRefs ==
  [job : Jobs, run : Nat, market : {MarketOf[j[2]] : j \in Jobs},
   timeframe : {TimeframeOf[j[2]] : j \in Jobs}, model : Models,
   action : Actions, state : States]

ASSUME ReplayAssumption ==
  /\ MaxBatches \in Nat /\ MaxCrashes \in Nat /\ MaxIdleRuns \in Nat \ {0}
  /\ BatchWorker \in Holders
  /\ Jobs = UNION {JobsOf(b) : b \in Batches}
  /\ MaxAttempts \in [Jobs -> Nat \ {0}]
  /\ \A b \in Batches :
       /\ IsFiniteSet(FixturesOf[b]) /\ FixturesOf[b] # {}
       /\ \A n \in 1..Cardinality(FixturesOf[b]) : RateUnit % n = 0
  /\ None \notin Holders \union Nat \union ResultRefs

VARIABLES
  due,          \* due[j]: run_after has come
  result,       \* result_ref_json of each job
  runs,         \* the agent_runs of each job, in the order of their insertion
  worker,       \* worker[w]: the step of worker w, its job and agent run
  batch,        \* the batch process
  reports,      \* the report files
  comparisons,  \* the comparison files
  exit,         \* exit code of each batch
  crashes       \* how many processes died

files == <<reports, comparisons, exit>>
vars == <<jvars, due, result, runs, worker, batch, files, crashes>>

-----------------------------------------------------------------------------
(* replay-planner-quality.ts: counts and rates of a set of results *)

Actionable(r) == r.state \in {"armed", "pending_entry"}
ExecutionEligible(r) == r.action \in {"create", "patch"} /\ Actionable(r)

Counts(R) ==
  [eligible   |-> Quantify(R, ExecutionEligible),
   actionable |-> Quantify(R, Actionable),
   watch      |-> Cardinality({r \in R : r.state = "watch"}),
   skip       |-> Cardinality({r \in R : r.action = "skip"}),
   create     |-> Cardinality({r \in R : r.action = "create"}),
   patch      |-> Cardinality({r \in R : r.action = "patch"})]

Ratio(numerator, denominator) ==
  IF denominator <= 0 THEN 0 ELSE (numerator * RateUnit) \div denominator

Slice(R) ==
  LET counts == Counts(R)
  IN  [total |-> Cardinality(R), counts |-> counts,
       rates |-> [k \in DOMAIN counts |-> Ratio(counts[k], Cardinality(R))]]

By(R, field) ==
  [key \in {r[field] : r \in R} |-> Slice({r \in R : r[field] = key})]

QualityReport(R) ==
  [overall     |-> Slice(R),
   byMarket    |-> By(R, "market"),
   byTimeframe |-> By(R, "timeframe"),
   byModel     |-> By(R, "model")]

(* summarizeReplayPlannerResultRefs counts the same results a second time. *)
Tally(R, field) ==
  [value \in {r[field] : r \in R} |-> Cardinality({r \in R : r[field] = value})]

Summary(R) ==
  [totalRuns |-> Cardinality(R), eligible |-> Quantify(R, ExecutionEligible),
   counts |-> [field \in {"action", "state", "market", "timeframe", "model"} |->
                 Tally(R, field)]]

DiffSlices(baseline, candidate) ==
  [total |-> candidate.total - baseline.total,
   rates |-> [k \in DOMAIN candidate.rates |->
                candidate.rates[k] - baseline.rates[k]]]

(* A key that one of the reports lacks counts as an empty slice. *)
SliceAt(slices, key) == IF key \in DOMAIN slices THEN slices[key] ELSE Slice({})

DiffShared(baseline, candidate) == \* mutant: only the keys of both
  [key \in DOMAIN baseline \intersect DOMAIN candidate |->
     DiffSlices(SliceAt(baseline, key), SliceAt(candidate, key))]
DiffRecords(baseline, candidate) ==
  [key \in DOMAIN baseline \union DOMAIN candidate |->
     DiffSlices(SliceAt(baseline, key), SliceAt(candidate, key))]

-----------------------------------------------------------------------------
(* The tables *)

NoWork == [step |-> "idle", job |-> None, run |-> 0]

Init ==
  /\ JInit
  /\ due = [j \in Jobs |-> FALSE]
  /\ result = [j \in Jobs |-> None]
  /\ runs = [j \in Jobs |-> << >>]
  /\ worker = [w \in Holders |-> NoWork]
  /\ batch = [no |-> 0, step |-> "ended", polls |-> 0, idle |-> 0, previous |-> 0]
  /\ reports = [b \in Batches |-> None]
  /\ comparisons = [b \in Batches |-> None]
  /\ exit = [b \in Batches |-> None]
  /\ crashes = 0

Settled(j) == status[j] \in {"completed", "failed", "cancelled"}

Claimable(w) ==
  {j \in Jobs : status[j] = "pending" /\ due[j] /\ MarketOf[j[2]] \in Accepts[w]}

(* A failed attempt, or an expired lock, puts the job off (run_after). *)
FailAttempt(j) == FailAttempts({j}) /\ due' = [due EXCEPT ![j] = FALSE]

BackoffEnds(j) ==
  /\ status[j] = "pending" /\ ~due[j]
  /\ due' = [due EXCEPT ![j] = TRUE]
  /\ UNCHANGED <<jvars, result, runs, worker, batch, files, crashes>>

LockExpires(j) ==
  /\ FailAttempt(j)
  /\ UNCHANGED <<result, runs, worker, batch, files, crashes>>

-----------------------------------------------------------------------------
(* A replay attempt: createReplayPlannerHandler and the worker around it   *)

Claim(w, j) ==
  /\ worker[w].step = "idle"
  /\ j \in Claimable(w)
  /\ Start(j, w)
  /\ worker' = [worker EXCEPT ![w] = [NoWork EXCEPT !.step = "replay", !.job = j]]

(* A Hermes worker beside the batch. *)
HermesClaims(w, j) ==
  /\ w # BatchWorker
  /\ Claim(w, j)
  /\ UNCHANGED <<due, result, runs, batch, files, crashes>>

(***************************************************************************)
(* replayTradePlanWithAgentRun: the plan is generated from the live tables *)
(* and not persisted; the agent run is.                                    *)
(***************************************************************************)
SuccessRun(w, answer) ==
  [status |-> "success", action |-> answer.action, state |-> answer.state,
   model |-> Model[w]]
FailedRun(w) ==
  [status |-> "failed", action |-> None, state |-> None, model |-> Model[w]]

RecordRun(w, run, next) ==
  LET j == worker[w].job
  IN  /\ worker[w].step = "replay"
      /\ runs' = [runs EXCEPT ![j] = Append(@, run)]
      /\ worker' = [worker EXCEPT ![w] = [@ EXCEPT !.step = next, !.run = Len(runs[j]) + 1]]
      /\ UNCHANGED <<jvars, due, result, batch, files, crashes>>

ReplaySucceeds(w) == \E answer \in Answers : RecordRun(w, SuccessRun(w, answer), "complete")
ReplayFails(w) == RecordRun(w, FailedRun(w), "fail")

(* The payload, the configuration or the statement that records a run. *)
HandlerThrows(w) ==
  /\ worker[w].step = "replay"
  /\ worker' = [worker EXCEPT ![w].step = "fail"]
  /\ UNCHANGED <<jvars, due, result, runs, batch, files, crashes>>

(* The answer of the handler, with the agent run it names. *)
RunOf(ref) == runs[ref.job][ref.run]

ResultRefFirstRun(j, k) == \* mutant: the run of the first attempt
  [job |-> j, run |-> 1, market |-> MarketOf[j[2]], timeframe |-> TimeframeOf[j[2]],
   model |-> runs[j][k].model, action |-> runs[j][k].action, state |-> runs[j][k].state]
ResultRef(j, k) ==
  [job |-> j, run |-> k, market |-> MarketOf[j[2]], timeframe |-> TimeframeOf[j[2]],
   model |-> runs[j][k].model, action |-> runs[j][k].action, state |-> runs[j][k].state]

(* runOnce returns: the batch looks at its jobs, the Hermes worker polls. *)
Return(w) ==
  /\ worker' = [worker EXCEPT ![w] = NoWork]
  /\ batch' = IF w = BatchWorker THEN [batch EXCEPT !.step = "observe", !.idle = 0]
              ELSE batch
  /\ UNCHANGED <<runs, files, crashes>>

CompleteJob(w) ==
  LET j == worker[w].job
  IN  /\ worker[w].step = "complete"
      /\ Succeed(j, w)
      /\ result' = [result EXCEPT ![j] = ResultRef(j, worker[w].run)]
      /\ Return(w)
      /\ UNCHANGED due

ReportJobFailure(w) ==
  LET j == worker[w].job
  IN  /\ worker[w].step = "fail"
      /\ holder[j] = w
      /\ FailAttempt(j)
      /\ Return(w)
      /\ UNCHANGED result

(***************************************************************************)
(* A worker that lost its lock can settle nothing, and reportJobFailure    *)
(* throws: the batch rejects and exits with 1, without a report; the       *)
(* Hermes process ends and is restarted.                                   *)
(***************************************************************************)
EndProcess(w) ==
  /\ worker' = [worker EXCEPT ![w] = NoWork]
  /\ IF w = BatchWorker
     THEN /\ batch' = [batch EXCEPT !.step = "ended", !.polls = 0, !.idle = 0]
          /\ exit' = [exit EXCEPT ![batch.no] = 1]
     ELSE UNCHANGED <<batch, exit>>
  /\ UNCHANGED <<jvars, due, result, runs, reports, comparisons>>

LockLost(w) ==
  /\ worker[w].step \in {"complete", "fail"}
  /\ holder[worker[w].job] # w
  /\ EndProcess(w)
  /\ UNCHANGED crashes

(* The process dies, or a statement of the batch throws. *)
Crash(w) ==
  /\ worker[w].step # "idle" \/ (w = BatchWorker /\ batch.step # "ended")
  /\ crashes < MaxCrashes
  /\ crashes' = crashes + 1
  /\ EndProcess(w)

-----------------------------------------------------------------------------
(* The batch: run-default-replay-baseline.ts and runReplayPlannerBatch     *)

Goto(step) == batch' = [batch EXCEPT !.step = step]

Written == {b \in Batches : reports[b] # None}

StartBatch ==
  /\ batch.step = "ended"
  /\ batch.no < MaxBatches
  /\ batch' = [no |-> batch.no + 1, step |-> "enqueue", polls |-> 0, idle |-> 0,
               previous |-> IF Written = {} THEN 0 ELSE Max(Written)]
  /\ UNCHANGED <<jvars, due, result, runs, worker, files, crashes>>

(***************************************************************************)
(* The inserts of the Promise.all are on their way together; those of a    *)
(* batch that ended with one refused may still land.                       *)
(***************************************************************************)
EnqueueFixture(j) ==
  /\ j[1] <= batch.no
  /\ Create(j)
  /\ due' = [due EXCEPT ![j] = TRUE]
  /\ UNCHANGED <<result, runs, worker, batch, files, crashes>>

EnqueuedUnawaited == batch.step = "enqueue" \* mutant: the inserts are not awaited
Enqueued == batch.step = "enqueue" /\ \A j \in JobsOf(batch.no) : status[j] # "absent"

BeginPolling ==
  /\ Enqueued
  /\ Goto("poll")
  /\ UNCHANGED <<jvars, due, result, runs, worker, files, crashes>>

PollClaims(j) ==
  /\ batch.step = "poll"
  /\ Claim(BatchWorker, j)
  /\ batch' = [batch EXCEPT !.step = "run", !.polls = @ + 1]
  /\ UNCHANGED <<due, result, runs, files, crashes>>

PollIdle ==
  /\ batch.step = "poll"
  /\ Claimable(BatchWorker) = {}
  /\ batch' = [batch EXCEPT !.step = "observe", !.polls = @ + 1, !.idle = @ + 1]
  /\ UNCHANGED <<jvars, due, result, runs, worker, files, crashes>>

MaxRuns(b) == 4 * Cardinality(FixturesOf[b])

(* buildBatchRunResult and buildReplayPlannerBatchReport *)
InStatus(b, S) == {j \in JobsOf(b) : status[j] \in S}

BatchReport(b) ==
  LET results == {result[j] : j \in InStatus(b, {"completed"})}
  IN  [fixtureIds |-> FixturesOf[b],
       completed |-> Cardinality(InStatus(b, {"completed"})),
       failed    |-> Cardinality(InStatus(b, {"failed"})),
       cancelled |-> Cardinality(InStatus(b, {"cancelled"})),
       pending   |-> Cardinality(InStatus(b, {"pending", "running"})),
       summary   |-> Summary(results),
       quality   |-> QualityReport(results)]

WriteReport ==
  /\ reports' = [reports EXCEPT ![batch.no] = BatchReport(batch.no)]
  /\ batch' = [batch EXCEPT !.step = "compare", !.polls = 0, !.idle = 0]
  /\ UNCHANGED <<jvars, due, result, runs, worker, comparisons, exit, crashes>>

(***************************************************************************)
(* After a poll the jobs are read.  If all are settled the report is built *)
(* from these rows; if the batch gives up it reads them again.  The rows   *)
(* are read one by one; that a job settles between two of the reads gives  *)
(* the report of a state in which the jobs settled in another order.       *)
(***************************************************************************)
AllSettled == \A j \in JobsOf(batch.no) : Settled(j)
GivesUpWhenIdle == batch.idle >= MaxIdleRuns \* mutant: polls without bound
GivesUp == batch.idle >= MaxIdleRuns \/ batch.polls >= MaxRuns(batch.no)

ReportSettled == batch.step = "observe" /\ AllSettled /\ WriteReport

GoOnPolling ==
  /\ batch.step = "observe"
  /\ ~AllSettled
  /\ Goto(IF GivesUp THEN "final" ELSE "poll")
  /\ UNCHANGED <<jvars, due, result, runs, worker, files, crashes>>

ReportUnsettled == batch.step = "final" /\ WriteReport

(***************************************************************************)
(* The comparison with the latest report found when the batch was started, *)
(* if there was one, and the exit code.                                    *)
(***************************************************************************)
Comparison(p, b) ==
  LET baseline == reports[p]
      candidate == reports[b]
  IN  [baseline |-> p,
       shared |-> baseline.fixtureIds \intersect candidate.fixtureIds,
       baselineOnly |-> baseline.fixtureIds \ candidate.fixtureIds,
       candidateOnly |-> candidate.fixtureIds \ baseline.fixtureIds,
       overall |-> DiffSlices(baseline.quality.overall, candidate.quality.overall),
       byMarket |-> DiffRecords(baseline.quality.byMarket, candidate.quality.byMarket),
       byTimeframe |-> DiffRecords(baseline.quality.byTimeframe,
                                   candidate.quality.byTimeframe)]

ExitCode(report) == IF report.failed > 0 \/ report.pending > 0 THEN 1 ELSE 0

CompareAndExit ==
  /\ batch.step = "compare"
  /\ comparisons' = IF batch.previous = 0 THEN comparisons
                    ELSE [comparisons EXCEPT ![batch.no] =
                            Comparison(batch.previous, batch.no)]
  /\ exit' = [exit EXCEPT ![batch.no] = ExitCode(reports[batch.no])]
  /\ Goto("ended")
  /\ UNCHANGED <<jvars, due, result, runs, worker, reports, crashes>>

-----------------------------------------------------------------------------

RunBatch ==
  \/ StartBatch
  \/ BeginPolling
  \/ \E j \in Jobs : PollClaims(j)
  \/ PollIdle
  \/ ReportSettled
  \/ GoOnPolling
  \/ ReportUnsettled
  \/ CompareAndExit

RunJob(w) ==
  \/ \E j \in Jobs : HermesClaims(w, j)
  \/ ReplaySucceeds(w)
  \/ ReplayFails(w)
  \/ HandlerThrows(w)
  \/ CompleteJob(w)
  \/ ReportJobFailure(w)
  \/ LockLost(w)
  \/ Crash(w)

Next ==
  \/ RunBatch
  \/ \E w \in Holders : RunJob(w)
  \/ \E j \in Jobs : EnqueueFixture(j) \/ BackoffEnds(j) \/ LockExpires(j)

Spec == Init /\ [][Next]_vars

-----------------------------------------------------------------------------
(* Properties *)

Steps == {"ended", "enqueue", "poll", "run", "observe", "final", "compare"}
WorkerStates ==
  [step : {"idle"}, job : {None}, run : {0}]
    \union [step : {"replay", "complete", "fail"}, job : Jobs, run : Nat]

TypeOK ==
  /\ status \in [Jobs -> JobStatus] /\ attempts \in [Jobs -> Nat]
  /\ holder \in [Jobs -> Holders \union {None}]
  /\ due \in [Jobs -> BOOLEAN]
  /\ result \in [Jobs -> ResultRefs \union {None}]
  /\ \A j \in Jobs : result[j] # None <=> status[j] = "completed"
  /\ runs \in [Jobs -> Seq(AgentRuns)]
  /\ worker \in [Holders -> WorkerStates]
  /\ batch \in [no : 0..MaxBatches, step : Steps, polls : Nat, idle : 0..MaxIdleRuns,
               previous : 0..MaxBatches]
  /\ batch.previous < batch.no + 1
  /\ batch.no # 0 => batch.polls <= MaxRuns(batch.no)
  /\ DOMAIN reports = Batches
  /\ exit \in [Batches -> {None, 0, 1}]

(***************************************************************************)
(* What a batch reports of a settled fixture stays true, whatever late     *)
(* workers and later batches do to the queue: a report without pending     *)
(* jobs can be recomputed from the tables at any later time, exit code 0   *)
(* means that every fixture of the batch has a result in it, and its two   *)
(* counts of the results, by value and by slice, agree.                    *)
(***************************************************************************)
CountsAgree(report) ==
  LET Totals(slices) == [key \in DOMAIN slices |-> slices[key].total]
  IN  /\ report.summary.eligible = report.quality.overall.counts.eligible
      /\ report.summary.counts["market"] = Totals(report.quality.byMarket)
      /\ report.summary.counts["timeframe"] = Totals(report.quality.byTimeframe)
      /\ report.summary.counts["model"] = Totals(report.quality.byModel)

ReportHolds ==
  \A b \in Written :
    /\ reports[b].completed + reports[b].failed + reports[b].cancelled
         + reports[b].pending = Cardinality(FixturesOf[b])
    /\ CountsAgree(reports[b])
    /\ reports[b].pending = 0 => reports[b] = BatchReport(b)
    /\ exit[b] = 0 => reports[b].quality.overall.total = Cardinality(FixturesOf[b])

(***************************************************************************)
(* Every result, and with it every number of a report, comes from a        *)
(* successful agent run of that job that is on record, with the action,    *)
(* state and model of that run, also if a late worker ran the job beside   *)
(* the one that completed it.                                              *)
(***************************************************************************)
ResultsTraced ==
  \A j \in Jobs : result[j] # None =>
    LET run == RunOf(result[j])
    IN  /\ result[j].job = j /\ result[j].run \in DOMAIN runs[j]
        /\ run.status = "success"
        /\ <<run.action, run.state, run.model>>
             = <<result[j].action, result[j].state, result[j].model>>

(***************************************************************************)
(* A batch gives up on a fixture that nobody has tried only after it has   *)
(* used all its polls: three idle polls mean that the jobs left are being  *)
(* run elsewhere or have failed before.                                    *)
(***************************************************************************)
Untried(j) ==
  status[j] = "pending" /\ attempts[j] = 0 /\ MarketOf[j[2]] \in Accepts[BatchWorker]

UntriedOnlyAfterAllPolls ==
  [][reports' # reports =>
       \/ \A j \in JobsOf(batch.no) : ~Untried(j)
       \/ batch.polls = MaxRuns(batch.no)]_vars

(***************************************************************************)
(* A comparison is with the latest report before the batch and loses no    *)
(* result of either report: the changes in each market, and in each        *)
(* timeframe, add up to the change over all, also where the fixture lists  *)
(* differ or a report is partial.                                          *)
(***************************************************************************)
TotalOf(deltas) ==
  FoldSet(LAMBDA key, sum : deltas[key].total + sum, 0, DOMAIN deltas)

ComparisonWhole ==
  \A b \in Batches : comparisons[b] # None =>
    LET c == comparisons[b]
        Results(r) == reports[r].quality.overall.total
    IN  /\ c.baseline = Max({r \in Written : r < b})
        /\ c.shared \union c.candidateOnly = FixturesOf[b]
        /\ c.shared \union c.baselineOnly = FixturesOf[c.baseline]
        /\ c.overall.total = Results(b) - Results(c.baseline)
        /\ TotalOf(c.byMarket) = c.overall.total
        /\ TotalOf(c.byTimeframe) = c.overall.total

-----------------------------------------------------------------------------
(* The inductive invariant behind them *)

(***************************************************************************)
(* No job of these batches is cancelled, one that nobody tried is due, and *)
(* a worker about to complete its job has recorded a successful run of it. *)
(***************************************************************************)
JobsInOrder ==
  \A j \in Jobs :
    /\ status[j] # "cancelled"
    /\ status[j] = "pending" /\ attempts[j] = 0 => due[j]

WorkRecorded ==
  \A w \in Holders : worker[w].step = "complete" =>
    /\ worker[w].run \in DOMAIN runs[worker[w].job]
    /\ runs[worker[w].job][worker[w].run].status = "success"

(***************************************************************************)
(* How far the batch is: its worker runs a job only while the batch waits  *)
(* for it; nothing is polled before all jobs are in the queue, nor after   *)
(* the last poll; and an idle poll saw no untried job.                     *)
(***************************************************************************)
Polling == {"poll", "run", "observe", "final"}

BatchInOrder ==
  /\ worker[BatchWorker].step # "idle" <=> batch.step = "run"
  /\ batch.step # "ended" => batch.no # 0
  /\ batch.step = "enqueue" => batch.polls = 0 /\ batch.idle = 0
  /\ batch.step \in Polling => \A j \in JobsOf(batch.no) : status[j] # "absent"
  /\ batch.step = "poll" => ~GivesUp
  /\ batch.step = "final" => GivesUp
  /\ batch.step \in Polling /\ batch.idle # 0 =>
       \A j \in JobsOf(batch.no) : ~Untried(j)

(***************************************************************************)
(* What is in a report, and that only the batch itself writes it, before   *)
(* its exit code; a report with no pending job has only settled ones.      *)
(***************************************************************************)
ReportsInOrder ==
  \A b \in Batches :
    /\ b > batch.no => reports[b] = None /\ exit[b] = None
    /\ b = batch.no /\ batch.step # "ended" => exit[b] = None
    /\ reports[b] # None =>
         /\ {reports[b].completed, reports[b].failed, reports[b].pending} \subseteq Nat
         /\ reports[b].cancelled = 0
         /\ reports[b].quality.overall.total = reports[b].completed
         /\ reports[b].pending = 0 => \A j \in JobsOf(b) : Settled(j)
         /\ exit[b] = 0 => reports[b].failed = 0 /\ reports[b].pending = 0

(***************************************************************************)
(* A batch remembers the latest report before it, which no later step can  *)
(* change; its comparison is written last, once, and from these reports.   *)
(***************************************************************************)
Earlier(b) == {r \in Written : r < b}

ComparisonsInOrder ==
  /\ DOMAIN comparisons = Batches
  /\ batch.step # "ended" =>
       /\ batch.previous = IF Earlier(batch.no) = {} THEN 0 ELSE Max(Earlier(batch.no))
       /\ comparisons[batch.no] = None
  /\ \A b \in Batches : comparisons[b] # None =>
       /\ b <= batch.no /\ Earlier(b) # {}
       /\ comparisons[b] = Comparison(Max(Earlier(b)), b)

ReplayInv ==
  /\ TypeOK
  /\ JobsInOrder
  /\ WorkRecorded
  /\ BatchInOrder
  /\ ResultsTraced
  /\ ReportsInOrder
  /\ ReportHolds
=============================================================================
