-------------------------- MODULE ReplayBatchProofs --------------------------
(***************************************************************************)
(* Proofs about ReplayBatch: for any fixture lists, workers, answers and   *)
(* numbers of batches and crashes, a report stays true of the tables,      *)
(* every result is traced to its agent run, a batch gives up on an untried *)
(* fixture only after all its polls, and a comparison loses no result.     *)
(* First what a step does to the jobs, then the workers, the batch, the    *)
(* reports and the steps; last the comparisons.                            *)
(***************************************************************************)
EXTENDS ReplayBatch, FiniteSetTheorems, SequenceTheorems,
        WellFoundedInduction, TLAPS

LEMMA JobNames ==
  ASSUME NEW b \in Batches
  PROVE  /\ JobsOf(b) \subseteq Jobs
         /\ IsFiniteSet(JobsOf(b)) /\ Cardinality(JobsOf(b)) = Cardinality(FixturesOf[b])
         /\ Cardinality(FixturesOf[b]) \in Nat \ {0}
<1>1. JobsOf(b) \subseteq Jobs /\ IsFiniteSet(FixturesOf[b]) /\ FixturesOf[b] # {}
  BY ReplayAssumption
<1> DEFINE name == [f \in FixturesOf[b] |-> <<b, f>>]
<1>2. name \in Bijection(FixturesOf[b], JobsOf(b))
  BY DEF Bijection, Injection, Surjection, IsInjective, JobsOf
<1>3. IsFiniteSet(JobsOf(b)) /\ Cardinality(JobsOf(b)) = Cardinality(FixturesOf[b])
  BY <1>1, <1>2, FS_Bijection DEF ExistsBijection
<1>4. Cardinality(FixturesOf[b]) \in Nat /\ Cardinality(FixturesOf[b]) # 0
  BY <1>1, FS_CardinalityType, FS_EmptySet
<1> QED
  BY <1>1, <1>3, <1>4

LEMMA Polls == ASSUME NEW b \in Batches PROVE MaxRuns(b) \in Nat \ {0}
BY JobNames DEF MaxRuns

LEMMA NoneApart ==
  /\ None \notin Holders /\ None \notin Nat /\ None \notin ResultRefs
  /\ BatchWorker \in Holders
  /\ MaxBatches \in Nat /\ MaxIdleRuns \in Nat \ {0}
  /\ MaxAttempts \in [Jobs -> Nat \ {0}]
BY ReplayAssumption

-----------------------------------------------------------------------------
(* What a step does to the jobs *)

JobsTyped ==
  /\ status \in [Jobs -> JobStatus] /\ attempts \in [Jobs -> Nat]
  /\ holder \in [Jobs -> Holders \union {None}]
  /\ due \in [Jobs -> BOOLEAN]
  /\ result \in [Jobs -> ResultRefs \union {None}]
  /\ \A j \in Jobs : result[j] # None <=> status[j] = "completed"

(***************************************************************************)
(* A job stays in the queue, a settled one keeps its status and result,    *)
(* and none becomes untried again.                                         *)
(***************************************************************************)
JobsGoOn ==
  /\ JobsTyped' /\ JobsInOrder'
  /\ \A j \in Jobs :
       /\ status[j] # "absent" => status'[j] # "absent"
       /\ Settled(j) => status'[j] = status[j] /\ result'[j] = result[j]
       /\ status[j] # "absent" /\ ~Untried(j) => ~Untried(j)'

jobs == <<jvars, due, result>>

LEMMA JobsStay ==
  ASSUME JobsTyped, JobsInOrder, UNCHANGED jobs
  PROVE  JobsGoOn
BY DEF JobsTyped, JobsInOrder, jobs, jvars, JobsGoOn, Settled, Untried

LEMMA CreateGoesOn ==
  ASSUME JobsTyped, JobsInOrder, NEW j \in Jobs, Create(j),
         due' = [due EXCEPT ![j] = TRUE], UNCHANGED result
  PROVE  JobsGoOn
<1>1. /\ status[j] = "absent" /\ status' = [status EXCEPT ![j] = "pending"]
      /\ UNCHANGED <<attempts, holder, result>>
  BY DEF Create
<1>2. JobsTyped'
  BY <1>1 DEF JobsTyped, JobStatus
<1>3. JobsInOrder'
  BY <1>1 DEF JobsTyped, JobsInOrder
<1> QED
  BY <1>1, <1>2, <1>3 DEF JobsTyped, JobsGoOn, Settled, Untried

LEMMA BackoffGoesOn ==
  ASSUME JobsTyped, JobsInOrder, NEW j \in Jobs, due' = [due EXCEPT ![j] = TRUE],
         UNCHANGED <<jvars, result>>
  PROVE  JobsGoOn
BY DEF JobsTyped, JobsInOrder, jvars, JobsGoOn, Settled, Untried

LEMMA StartGoesOn ==
  ASSUME JobsTyped, JobsInOrder, NEW j \in Jobs, NEW w \in Holders, Start(j, w),
         UNCHANGED <<due, result>>
  PROVE  JobsGoOn
<1>1. /\ status[j] = "pending" /\ status' = [status EXCEPT ![j] = "running"]
      /\ holder' = [holder EXCEPT ![j] = w] /\ UNCHANGED <<attempts, due, result>>
  BY DEF Start
<1>2. JobsTyped'
  BY <1>1 DEF JobsTyped, JobStatus
<1>3. JobsInOrder'
  BY <1>1 DEF JobsTyped, JobsInOrder
<1> QED
  BY <1>1, <1>2, <1>3 DEF JobsTyped, JobsGoOn, Settled, Untried

LEMMA SucceedGoesOn ==
  ASSUME JobsTyped, JobsInOrder, NEW j \in Jobs, NEW w \in Holders, Succeed(j, w),
         NEW ref \in ResultRefs, result' = [result EXCEPT ![j] = ref], UNCHANGED due
  PROVE  JobsGoOn
<1>1. /\ status[j] = "running" /\ status' = [status EXCEPT ![j] = "completed"]
      /\ holder' = [holder EXCEPT ![j] = None] /\ UNCHANGED attempts
  BY DEF Succeed
<1>2. JobsTyped'
  BY <1>1, NoneApart DEF JobsTyped, JobStatus
<1>3. JobsInOrder'
  BY <1>1 DEF JobsTyped, JobsInOrder
<1> QED
  BY <1>1, <1>2, <1>3 DEF JobsTyped, JobsGoOn, Settled, Untried

LEMMA FailGoesOn ==
  ASSUME JobsTyped, JobsInOrder, NEW j \in Jobs, FailAttempt(j), UNCHANGED result
  PROVE  JobsGoOn
<1> DEFINE after == IF attempts[j] + 1 >= MaxAttempts[j] THEN "failed" ELSE "pending"
<1>1. /\ status[j] = "running"
      /\ status' = [i \in Jobs |-> IF i = j THEN after ELSE status[i]]
      /\ attempts' = [i \in Jobs |-> IF i = j THEN attempts[i] + 1 ELSE attempts[i]]
      /\ holder' = [i \in Jobs |-> IF i = j THEN None ELSE holder[i]]
      /\ due' = [due EXCEPT ![j] = FALSE] /\ result' = result
  BY DEF FailAttempt, FailAttempts
<1>2. after \in {"failed", "pending"}
  OBVIOUS
<1> HIDE DEF after
<1>3. JobsTyped'
  <2>1. status' \in [Jobs -> JobStatus]
    BY <1>1, <1>2 DEF JobsTyped, JobStatus
  <2>2. attempts' \in [Jobs -> Nat] /\ holder' \in [Jobs -> Holders \union {None}]
    BY <1>1 DEF JobsTyped
  <2>3. due' \in [Jobs -> BOOLEAN] /\ result' \in [Jobs -> ResultRefs \union {None}]
    BY <1>1 DEF JobsTyped
  <2>4. \A i \in Jobs : result'[i] # None <=> status'[i] = "completed"
    BY <1>1, <1>2 DEF JobsTyped
  <2> QED
    BY <2>1, <2>2, <2>3, <2>4 DEF JobsTyped
<1>4. attempts'[j] # 0
  BY <1>1 DEF JobsTyped
<1>5. JobsInOrder'
  <2> SUFFICES ASSUME NEW i \in Jobs
               PROVE  /\ status'[i] # "cancelled"
                      /\ status'[i] = "pending" /\ attempts'[i] = 0 => due'[i]
    BY DEF JobsInOrder
  <2>1. CASE i = j
    BY <1>1, <1>2, <1>4, <2>1
  <2>2. CASE i # j
    BY <1>1, <2>2 DEF JobsInOrder, JobsTyped
  <2> QED
    BY <2>1, <2>2
<1>6. ASSUME NEW i \in Jobs
      PROVE  /\ status[i] # "absent" => status'[i] # "absent"
             /\ Settled(i) => status'[i] = status[i] /\ result'[i] = result[i]
             /\ status[i] # "absent" /\ ~Untried(i) => ~Untried(i)'
  <2>1. CASE i = j
    BY <1>1, <1>2, <1>4, <2>1 DEF Settled, Untried
  <2>2. CASE i # j
    BY <1>1, <2>2 DEF Settled, Untried
  <2> QED
    BY <2>1, <2>2
<1> QED
  BY <1>3, <1>5, <1>6 DEF JobsGoOn

-----------------------------------------------------------------------------
(* The workers and the agent runs *)

WorkInv ==
  /\ runs \in [Jobs -> Seq(AgentRuns)]
  /\ worker \in [Holders -> WorkerStates]
  /\ WorkRecorded
  /\ ResultsTraced

LEMMA WorkStays ==
  ASSUME WorkInv, UNCHANGED <<runs, worker, result>>
  PROVE  WorkInv'
BY DEF WorkInv, WorkRecorded, ResultsTraced, RunOf

(* A worker takes a job, fails it, or is done. *)
LEMMA WorkerMoves ==
  ASSUME WorkInv, NEW w \in Holders, NEW m \in WorkerStates, m.step # "complete",
         worker' = [worker EXCEPT ![w] = m], UNCHANGED <<runs, result>>
  PROVE  WorkInv'
<1>1. worker' \in [Holders -> WorkerStates]
  BY DEF WorkInv
<1>2. WorkRecorded'
  BY DEF WorkInv, WorkRecorded
<1> QED
  BY <1>1, <1>2 DEF WorkInv, ResultsTraced, RunOf

LEMMA IdleTyped == NoWork \in WorkerStates /\ NoWork.step = "idle"
BY DEF NoWork, WorkerStates

LEMMA AtWork ==
  ASSUME WorkInv, NEW w \in Holders, worker[w].step # "idle"
  PROVE  /\ worker[w].job \in Jobs /\ worker[w].run \in Nat
         /\ worker[w].step \in {"replay", "complete", "fail"}
BY DEF WorkInv, WorkerStates

LEMMA RunRecorded ==
  ASSUME WorkInv, NEW w \in Holders, NEW run \in AgentRuns, NEW next,
         RecordRun(w, run, next), next \in {"complete", "fail"},
         next = "complete" => run.status = "success"
  PROVE  WorkInv'
<1> DEFINE j == worker[w].job
<1> DEFINE n == Len(runs[j]) + 1
<1>1. /\ worker[w].step = "replay" /\ runs' = [runs EXCEPT ![j] = Append(@, run)]
      /\ worker' = [worker EXCEPT ![w] = [@ EXCEPT !.step = next, !.run = n]]
      /\ UNCHANGED result
  BY DEF RecordRun
<1>2. j \in Jobs /\ runs[j] \in Seq(AgentRuns)
  BY <1>1, AtWork DEF WorkInv
<1>3. n \in Nat /\ DOMAIN runs[j] = 1..(n - 1) /\ n - 1 \in Nat
  BY <1>2, LenProperties
<1>4. /\ Append(runs[j], run) \in Seq(AgentRuns)
      /\ DOMAIN Append(runs[j], run) = 1..n
      /\ Append(runs[j], run)[n] = run
      /\ \A k \in 1..(n - 1) : Append(runs[j], run)[k] = runs[j][k]
  BY <1>2
<1> HIDE DEF j, n
<1>5. /\ runs' \in [Jobs -> Seq(AgentRuns)]
      /\ runs'[j] = Append(runs[j], run) /\ \A i \in Jobs : i # j => runs'[i] = runs[i]
  BY <1>1, <1>2, <1>4 DEF WorkInv
<1>6. \A i \in Jobs : \A k \in DOMAIN runs[i] :
        k \in DOMAIN runs'[i] /\ runs'[i][k] = runs[i][k]
  BY <1>3, <1>4, <1>5
<1>7. /\ worker' \in [Holders -> WorkerStates]
      /\ worker'[w].job = j /\ worker'[w].run = n /\ worker'[w].step = next
      /\ \A v \in Holders : v # w => worker'[v] = worker[v]
  <2>1. [worker[w] EXCEPT !.step = next, !.run = n] \in WorkerStates
    BY <1>1, <1>3 DEF WorkInv, WorkerStates
  <2>2. /\ [worker[w] EXCEPT !.step = next, !.run = n].job = j
        /\ [worker[w] EXCEPT !.step = next, !.run = n].run = n
        /\ [worker[w] EXCEPT !.step = next, !.run = n].step = next
    BY <1>1 DEF WorkInv, WorkerStates, j
  <2> QED
    BY <1>1, <2>1, <2>2 DEF WorkInv
<1>8. WorkRecorded'
  <2> SUFFICES ASSUME NEW v \in Holders, worker'[v].step = "complete"
               PROVE  /\ worker'[v].run \in DOMAIN runs'[worker'[v].job]
                      /\ runs'[worker'[v].job][worker'[v].run].status = "success"
    BY DEF WorkRecorded
  <2>1. CASE v = w
    BY <1>3, <1>4, <1>5, <1>7, <2>1
  <2>2. CASE v # w
    <3>1. worker'[v] = worker[v] /\ worker[v].step = "complete"
      BY <1>7, <2>2
    <3>2. worker[v].job \in Jobs
      BY <3>1, AtWork
    <3> QED
      BY <1>6, <3>1, <3>2 DEF WorkInv, WorkRecorded
  <2> QED
    BY <2>1, <2>2
<1>9. ResultsTraced'
  <2> SUFFICES ASSUME NEW i \in Jobs, result[i] # None
               PROVE  /\ result[i].job = i /\ result[i].run \in DOMAIN runs'[i]
                      /\ runs'[result[i].job][result[i].run].status = "success"
                      /\ << runs'[result[i].job][result[i].run].action,
                            runs'[result[i].job][result[i].run].state,
                            runs'[result[i].job][result[i].run].model >>
                           = << result[i].action, result[i].state, result[i].model >>
    BY <1>1 DEF ResultsTraced, RunOf
  <2>1. /\ result[i].job = i /\ result[i].run \in DOMAIN runs[i]
        /\ runs[i][result[i].run].status = "success"
        /\ << runs[i][result[i].run].action, runs[i][result[i].run].state,
              runs[i][result[i].run].model >>
             = << result[i].action, result[i].state, result[i].model >>
    BY DEF WorkInv, ResultsTraced, RunOf
  <2>2. /\ result[i].run \in DOMAIN runs'[i]
        /\ runs'[i][result[i].run] = runs[i][result[i].run]
    BY <1>6, <2>1
  <2> QED
    BY <2>1, <2>2
<1> QED
  BY <1>5, <1>7, <1>8, <1>9 DEF WorkInv

(* What a worker answers for a job is a result of it. *)
LEMMA RefTyped ==
  ASSUME WorkInv, NEW w \in Holders, worker[w].step = "complete"
  PROVE  LET j == worker[w].job
             k == worker[w].run
         IN  /\ j \in Jobs /\ k \in DOMAIN runs[j] /\ runs[j][k].status = "success"
             /\ ResultRef(j, k) \in ResultRefs
<1> DEFINE j == worker[w].job
<1> DEFINE k == worker[w].run
<1>1. j \in Jobs /\ k \in Nat
  BY AtWork
<1>2. k \in DOMAIN runs[j] /\ runs[j][k].status = "success"
  BY DEF WorkInv, WorkRecorded
<1>3. runs[j][k] \in AgentRuns
  <2>1. runs[j] \in Seq(AgentRuns)
    BY <1>1 DEF WorkInv
  <2> QED
    BY <1>2, <2>1, LenProperties, ElementOfSeq
<1>4. /\ runs[j][k].action \in Actions /\ runs[j][k].state \in States
      /\ runs[j][k].model \in Models
  BY <1>2, <1>3 DEF AgentRuns
<1> HIDE DEF j, k
<1>5. ResultRef(j, k) \in ResultRefs
  BY <1>1, <1>4 DEF ResultRef, ResultRefs
<1> QED
  BY <1>1, <1>2, <1>5 DEF j, k

LEMMA WorkCompleted ==
  ASSUME WorkInv, NEW w \in Holders, worker[w].step = "complete",
         result \in [Jobs -> ResultRefs \union {None}],
         result' = [result EXCEPT ![worker[w].job] = ResultRef(worker[w].job, worker[w].run)],
         worker' = [worker EXCEPT ![w] = NoWork], UNCHANGED runs
  PROVE  WorkInv'
<1> DEFINE j == worker[w].job
<1> DEFINE k == worker[w].run
<1>1. j \in Jobs /\ k \in DOMAIN runs[j] /\ runs[j][k].status = "success"
  BY RefTyped
<1>2. worker' \in [Holders -> WorkerStates] /\ WorkRecorded'
  BY IdleTyped DEF WorkInv, WorkRecorded
<1>3. ResultsTraced'
  <2> SUFFICES ASSUME NEW i \in Jobs, result'[i] # None
               PROVE  /\ result'[i].job = i /\ result'[i].run \in DOMAIN runs[i]
                      /\ runs[result'[i].job][result'[i].run].status = "success"
                      /\ << runs[result'[i].job][result'[i].run].action,
                            runs[result'[i].job][result'[i].run].state,
                            runs[result'[i].job][result'[i].run].model >>
                           = << result'[i].action, result'[i].state, result'[i].model >>
    BY DEF ResultsTraced, RunOf
  <2>1. CASE i = j
    <3>1. result'[i] = ResultRef(j, k)
      BY <1>1, <2>1
    <3>2. /\ ResultRef(j, k).job = j /\ ResultRef(j, k).run = k
          /\ ResultRef(j, k).action = runs[j][k].action
          /\ ResultRef(j, k).state = runs[j][k].state
          /\ ResultRef(j, k).model = runs[j][k].model
      BY DEF ResultRef
    <3> QED
      BY <1>1, <2>1, <3>1, <3>2
  <2>2. CASE i # j
    <3>1. result'[i] = result[i]
      BY <2>2
    <3> QED
      BY <3>1 DEF WorkInv, ResultsTraced, RunOf
  <2> QED
    BY <2>1, <2>2
<1> QED
  BY <1>2, <1>3 DEF WorkInv

-----------------------------------------------------------------------------
(* The batch *)

BatchStates ==
  [no : 0..MaxBatches, step : Steps, polls : Nat, idle : 0..MaxIdleRuns,
   previous : 0..MaxBatches]

BatchTyped ==
  /\ batch \in BatchStates
  /\ batch.previous < batch.no + 1
  /\ batch.no # 0 => batch.polls <= MaxRuns(batch.no)

BatchInv == BatchTyped /\ BatchInOrder

AllQueued(b) == \A j \in JobsOf(b) : status[j] # "absent"
NoneUntried(b) == \A j \in JobsOf(b) : ~Untried(j)

LEMMA QueuedGoOn ==
  ASSUME JobsGoOn, NEW b \in Batches, AllQueued(b)
  PROVE  /\ AllQueued(b)'
         /\ NoneUntried(b) => NoneUntried(b)'
BY JobNames DEF JobsGoOn, AllQueued, NoneUntried

(* The batch at a given step, with its number made rigid. *)
LEMMA BatchAt ==
  ASSUME BatchInv, batch.step # "ended", NEW b, b = batch.no
  PROVE  /\ b \in Batches /\ batch.polls <= MaxRuns(b) /\ MaxRuns(b) \in Nat \ {0}
         /\ batch.polls \in Nat /\ batch.idle \in 0..MaxIdleRuns
         /\ batch.previous \in 0..MaxBatches /\ batch.previous < b + 1
         /\ batch.step \in Polling => AllQueued(b)
         /\ batch.step \in Polling /\ batch.idle # 0 => NoneUntried(b)
         /\ batch.step = "poll" => batch.idle < MaxIdleRuns /\ batch.polls < MaxRuns(b)
<1>1. b \in 0..MaxBatches /\ b # 0 /\ batch.polls \in Nat /\ batch.idle \in 0..MaxIdleRuns
      /\ batch.previous \in 0..MaxBatches /\ batch.previous < b + 1
      /\ batch.polls <= MaxRuns(b)
  BY DEF BatchInv, BatchTyped, BatchStates, BatchInOrder
<1>2. b \in Batches
  BY <1>1, NoneApart DEF Batches
<1>3. MaxRuns(b) \in Nat \ {0}
  BY <1>2, Polls
<1>4. batch.step = "poll" => ~(batch.idle >= MaxIdleRuns) /\ ~(batch.polls >= MaxRuns(b))
  BY DEF BatchInv, BatchInOrder, GivesUp
<1>5. batch.step = "poll" => batch.idle < MaxIdleRuns /\ batch.polls < MaxRuns(b)
  BY <1>1, <1>3, <1>4, NoneApart
<1>6. /\ batch.step \in Polling => AllQueued(b)
      /\ batch.step \in Polling /\ batch.idle # 0 => NoneUntried(b)
  BY DEF BatchInv, BatchInOrder, AllQueued, NoneUntried
<1> QED
  BY <1>1, <1>2, <1>3, <1>5, <1>6

LEMMA BatchStays ==
  ASSUME BatchInv, JobsGoOn, UNCHANGED batch,
         worker'[BatchWorker].step # "idle" <=> worker[BatchWorker].step # "idle"
  PROVE  BatchInv'
<1>1. BatchTyped'
  BY DEF BatchInv, BatchTyped
<1>2. PICK b : b = batch.no
  OBVIOUS
<1>3. batch.step \in Polling =>
        /\ \A j \in JobsOf(b) : status'[j] # "absent"
        /\ batch.idle # 0 => \A j \in JobsOf(b) : ~Untried(j)'
  <2> SUFFICES ASSUME batch.step \in Polling
               PROVE  AllQueued(b)' /\ (batch.idle # 0 => NoneUntried(b)')
    BY DEF AllQueued, NoneUntried
  <2>1. batch.step # "ended"
    BY DEF Polling
  <2> QED
    BY <1>2, <2>1, BatchAt, QueuedGoOn
<1>4. BatchInOrder'
  <2>1. GivesUp' <=> GivesUp
    BY DEF GivesUp
  <2>2. /\ batch'.step \in Polling => \A j \in JobsOf(batch'.no) : status'[j] # "absent"
        /\ batch'.step \in Polling /\ batch'.idle # 0 =>
             \A j \in JobsOf(batch'.no) : ~Untried(j)'
    BY <1>2, <1>3
  <2> QED
    BY <2>1, <2>2 DEF BatchInv, BatchInOrder
<1> QED
  BY <1>1, <1>4 DEF BatchInv

(***************************************************************************)
(* A step of the batch that keeps its number: what must be true of the     *)
(* values that it leaves.                                                  *)
(***************************************************************************)
LEMMA BatchMoves ==
  ASSUME NEW b \in Batches, NEW s \in Steps, NEW polls \in Nat,
         NEW idle \in 0..MaxIdleRuns,
         polls <= MaxRuns(b),
         batch' = [no |-> b, step |-> s, polls |-> polls, idle |-> idle,
                   previous |-> batch.previous],
         batch.previous \in 0..MaxBatches, batch.previous < b + 1,
         worker'[BatchWorker].step # "idle" <=> s = "run",
         s = "enqueue" => polls = 0 /\ idle = 0,
         s \in Polling => AllQueued(b)',
         s \in Polling /\ idle # 0 => NoneUntried(b)',
         s = "poll" => idle < MaxIdleRuns /\ polls < MaxRuns(b),
         s = "final" => idle >= MaxIdleRuns \/ polls >= MaxRuns(b)
  PROVE  BatchInv'
<1>1. /\ batch'.no = b /\ batch'.step = s /\ batch'.polls = polls /\ batch'.idle = idle
      /\ batch'.previous = batch.previous
  OBVIOUS
<1>2. MaxRuns(b) \in Nat /\ MaxIdleRuns \in Nat /\ b # 0 /\ b \in 0..MaxBatches
  BY Polls, NoneApart DEF Batches
<1>3. BatchTyped'
  <2>1. batch' \in BatchStates
    BY <1>2 DEF BatchStates
  <2> QED
    BY <1>1, <2>1 DEF BatchTyped
<1>4. GivesUp' <=> idle >= MaxIdleRuns \/ polls >= MaxRuns(b)
  BY <1>1 DEF GivesUp
<1>5. /\ s \in Polling => \A j \in JobsOf(batch'.no) : status'[j] # "absent"
      /\ s \in Polling /\ idle # 0 => \A j \in JobsOf(batch'.no) : ~Untried(j)'
  BY <1>1 DEF AllQueued, NoneUntried
<1>6. BatchInOrder'
  BY <1>1, <1>2, <1>4, <1>5 DEF BatchInOrder
<1> QED
  BY <1>3, <1>6 DEF BatchInv

-----------------------------------------------------------------------------
(* The reports *)

(* A report whose jobs are in the queue, as it is built from the tables. *)
Sound(b, report) ==
  /\ {report.completed, report.failed, report.pending} \subseteq Nat
  /\ report.cancelled = 0
  /\ report.completed + report.failed + report.cancelled + report.pending
       = Cardinality(FixturesOf[b])
  /\ report.quality.overall.total = report.completed
  /\ CountsAgree(report)

(* A report without a pending job is that of the tables, for good. *)
Current(b) ==
  reports[b].pending = 0 =>
    /\ \A j \in JobsOf(b) : Settled(j)
    /\ reports[b] = BatchReport(b)

ExitsInOrder ==
  \A b \in Batches :
    /\ b > batch.no => reports[b] = None /\ exit[b] = None
    /\ b = batch.no /\ batch.step # "ended" => exit[b] = None
    /\ reports[b] # None /\ exit[b] = 0 => reports[b].failed = 0 /\ reports[b].pending = 0

ReportsInv ==
  /\ DOMAIN reports = Batches /\ exit \in [Batches -> {None, 0, 1}]
  /\ \A b \in Batches : reports[b] # None => Sound(b, reports[b]) /\ Current(b)
  /\ ExitsInOrder

LEMMA ReportsInvMeans ==
  (DOMAIN reports = Batches /\ exit \in [Batches -> {None, 0, 1}]) =>
    (ReportsInv <=> ReportsInOrder /\ ReportHolds)
<1> SUFFICES ASSUME DOMAIN reports = Batches, exit \in [Batches -> {None, 0, 1}]
             PROVE  ReportsInv <=> ReportsInOrder /\ ReportHolds
  OBVIOUS
<1>1. ASSUME ReportsInv PROVE ReportsInOrder /\ ReportHolds
  <2>1. ReportsInOrder
    BY <1>1 DEF ReportsInv, ReportsInOrder, ExitsInOrder, Sound, Current
  <2>2. ASSUME NEW b \in Batches, reports[b] # None, exit[b] = 0
        PROVE  reports[b].quality.overall.total = Cardinality(FixturesOf[b])
    <3>1. /\ reports[b].failed = 0 /\ reports[b].pending = 0 /\ reports[b].cancelled = 0
          /\ reports[b].completed \in Nat
          /\ reports[b].completed + reports[b].failed + reports[b].cancelled
               + reports[b].pending = Cardinality(FixturesOf[b])
          /\ reports[b].quality.overall.total = reports[b].completed
      BY <1>1, <2>2 DEF ReportsInv, ExitsInOrder, Sound
    <3> QED
      BY <3>1
  <2>3. ReportHolds
    BY <1>1, <2>2 DEF ReportHolds, Written, ReportsInv, Sound, Current
  <2> QED
    BY <2>1, <2>3
<1>2. ASSUME ReportsInOrder, ReportHolds PROVE ReportsInv
  <2>1. ExitsInOrder
    BY <1>2 DEF ReportsInOrder, ExitsInOrder
  <2>2. ASSUME NEW b \in Batches, reports[b] # None
        PROVE  Sound(b, reports[b]) /\ Current(b)
    <3>1. b \in Written
      BY <2>2 DEF Written
    <3> QED
      BY <1>2, <2>2, <3>1 DEF ReportsInOrder, ReportHolds, Sound, Current
  <2> QED
    BY <2>1, <2>2 DEF ReportsInv
<1> QED
  BY <1>1, <1>2

(* While its jobs keep their statuses and results, a report of them does too. *)
LEMMA ReportKept ==
  ASSUME NEW b \in Batches,
         \A j \in JobsOf(b) : status'[j] = status[j] /\ result'[j] = result[j]
  PROVE  BatchReport(b)' = BatchReport(b)
<1>1. \A S : InStatus(b, S)' = InStatus(b, S)
  BY DEF InStatus, JobsOf
<1>2. {result'[j] : j \in InStatus(b, {"completed"})'}
        = {result[j] : j \in InStatus(b, {"completed"})}
  BY <1>1 DEF InStatus
<1> QED
  BY <1>1, <1>2 DEF BatchReport

(* The two counts of one set of results agree, whatever is in it. *)
LEMMA CountsOfResults ==
  ASSUME NEW report, NEW R, report.summary = Summary(R), report.quality = QualityReport(R)
  PROVE  CountsAgree(report)
<1>1. /\ report.summary.eligible = Quantify(R, ExecutionEligible)
      /\ report.quality.overall = Slice(R) /\ report.quality.byMarket = By(R, "market")
      /\ report.quality.byTimeframe = By(R, "timeframe")
      /\ report.quality.byModel = By(R, "model")
  BY DEF Summary, QualityReport
<1>2. report.quality.overall.counts.eligible = Quantify(R, ExecutionEligible)
  BY <1>1 DEF Slice, Counts
<1>3. ASSUME NEW field
      PROVE  [key \in DOMAIN By(R, field) |-> By(R, field)[key].total] = Tally(R, field)
  <2>1. DOMAIN By(R, field) = {r[field] : r \in R}
    BY DEF By
  <2>2. \A key \in {r[field] : r \in R} :
          By(R, field)[key].total = Cardinality({r \in R : r[field] = key})
    BY DEF By, Slice
  <2> QED
    BY <2>1, <2>2 DEF Tally
<1>4. /\ report.summary.counts["market"] = Tally(R, "market")
      /\ report.summary.counts["timeframe"] = Tally(R, "timeframe")
      /\ report.summary.counts["model"] = Tally(R, "model")
  BY DEF Summary
<1> QED
  BY <1>1, <1>2, <1>3, <1>4 DEF CountsAgree

LEMMA StatusesPartition ==
  ASSUME JobsTyped, JobsInOrder, NEW b \in Batches, AllQueued(b)
  PROVE  LET C == InStatus(b, {"completed"})
             F == InStatus(b, {"failed"})
             P == InStatus(b, {"pending", "running"})
         IN  /\ InStatus(b, {"cancelled"}) = {}
             /\ IsFiniteSet(C) /\ C \subseteq JobsOf(b)
             /\ {Cardinality(C), Cardinality(F), Cardinality(P)} \subseteq Nat
             /\ Cardinality(C) + Cardinality(F) + Cardinality(P) = Cardinality(FixturesOf[b])
             /\ Cardinality(P) = 0 => \A j \in JobsOf(b) : Settled(j)
<1> DEFINE C == InStatus(b, {"completed"})
<1> DEFINE F == InStatus(b, {"failed"})
<1> DEFINE P == InStatus(b, {"pending", "running"})
<1>1. /\ JobsOf(b) \subseteq Jobs /\ IsFiniteSet(JobsOf(b))
      /\ Cardinality(JobsOf(b)) = Cardinality(FixturesOf[b])
  BY JobNames
<1>2. \A j \in JobsOf(b) : status[j] \in {"completed", "failed", "pending", "running"}
  BY <1>1 DEF JobsTyped, JobStatus, JobsInOrder, AllQueued
<1>3. /\ InStatus(b, {"cancelled"}) = {}
      /\ C \subseteq JobsOf(b) /\ F \subseteq JobsOf(b) /\ P \subseteq JobsOf(b)
      /\ C \union F \union P = JobsOf(b)
      /\ C \intersect F = {} /\ (C \union F) \intersect P = {}
      /\ P = {} => \A j \in JobsOf(b) : Settled(j)
  BY <1>2 DEF InStatus, Settled
<1> HIDE DEF C, F, P
<1>4. IsFiniteSet(C) /\ IsFiniteSet(F) /\ IsFiniteSet(P)
  BY <1>1, <1>3, FS_Subset
<1>5. Cardinality(C) \in Nat /\ Cardinality(F) \in Nat /\ Cardinality(P) \in Nat
  BY <1>4, FS_CardinalityType
<1>6. /\ IsFiniteSet(C \union F)
      /\ Cardinality(C \union F) = Cardinality(C) + Cardinality(F) - Cardinality({})
  BY <1>3, <1>4, FS_Union
<1>7. Cardinality((C \union F) \union P)
        = Cardinality(C \union F) + Cardinality(P) - Cardinality({})
  BY <1>3, <1>4, <1>6, FS_Union
<1>8. Cardinality(JobsOf(b)) = Cardinality(C) + Cardinality(F) + Cardinality(P)
  <2>1. Cardinality({}) = 0
    BY FS_EmptySet
  <2>2. Cardinality(C \union F) = Cardinality(C) + Cardinality(F)
    BY <1>5, <1>6, <2>1
  <2>3. Cardinality((C \union F) \union P) = Cardinality(C) + Cardinality(F) + Cardinality(P)
    BY <1>5, <1>7, <2>1, <2>2
  <2> QED
    BY <1>3, <2>3
<1>9. Cardinality(P) = 0 => P = {}
  BY <1>4, FS_EmptySet
<1> QED
  BY <1>1, <1>3, <1>4, <1>5, <1>8, <1>9 DEF C, F, P

LEMMA BuiltReport ==
  ASSUME JobsTyped, JobsInOrder, ResultsTraced, NEW b \in Batches, AllQueued(b)
  PROVE  /\ Sound(b, BatchReport(b))
         /\ BatchReport(b).pending = 0 => \A j \in JobsOf(b) : Settled(j)
<1> DEFINE C == InStatus(b, {"completed"})
<1> DEFINE F == InStatus(b, {"failed"})
<1> DEFINE P == InStatus(b, {"pending", "running"})
<1> DEFINE R == {result[j] : j \in C}
<1> DEFINE report == BatchReport(b)
<1>1. /\ report.completed = Cardinality(C) /\ report.failed = Cardinality(F)
      /\ report.cancelled = Cardinality(InStatus(b, {"cancelled"}))
      /\ report.pending = Cardinality(P)
      /\ report.summary = Summary(R) /\ report.quality = QualityReport(R)
  BY DEF BatchReport
<1>2. /\ InStatus(b, {"cancelled"}) = {}
      /\ IsFiniteSet(C) /\ C \subseteq JobsOf(b)
      /\ {Cardinality(C), Cardinality(F), Cardinality(P)} \subseteq Nat
      /\ Cardinality(C) + Cardinality(F) + Cardinality(P) = Cardinality(FixturesOf[b])
      /\ Cardinality(P) = 0 => \A j \in JobsOf(b) : Settled(j)
  BY StatusesPartition
<1>3. Cardinality(R) = Cardinality(C)
  <2>1. \A j \in C : result[j] # None /\ result[j].job = j
    BY <1>2, JobNames DEF InStatus, JobsTyped, ResultsTraced
  <2> DEFINE ref == [j \in C |-> result[j]]
  <2>2. ref \in Injection(C, R) /\ ref \in Surjection(C, R)
    <3> HIDE DEF C
    <3> QED
      BY <2>1 DEF Injection, Surjection, IsInjective
  <2> HIDE DEF C, R, ref
  <2> QED
    BY <1>2, <2>2, FS_Surjection
<1>4. report.cancelled = 0
  BY <1>1, <1>2, FS_EmptySet
<1>5. report.quality.overall.total = Cardinality(R)
  <2> HIDE DEF R, report
  <2> QED
    BY <1>1 DEF QualityReport, Slice
<1> HIDE DEF C, F, P, R, report
<1>6. CountsAgree(report)
  BY <1>1, CountsOfResults
<1> QED
  BY <1>1, <1>2, <1>3, <1>4, <1>5, <1>6 DEF Sound, report

-----------------------------------------------------------------------------

LEMMA SoundReports ==
  ASSUME ReportsInv, JobsGoOn, UNCHANGED reports, NEW b \in Batches, reports[b] # None
  PROVE  Sound(b, reports'[b]) /\ Current(b)'
<1>1. Sound(b, reports[b]) /\ Current(b)
  BY DEF ReportsInv
<1>2. CASE reports[b].pending # 0
  BY <1>1, <1>2 DEF Current
<1>3. CASE reports[b].pending = 0
  <2>1. (\A j \in JobsOf(b) : Settled(j)) /\ reports[b] = BatchReport(b)
    BY <1>1, <1>3 DEF Current
  <2>2. \A j \in JobsOf(b) : j \in Jobs
    BY JobNames
  <2>3. \A j \in JobsOf(b) : status'[j] = status[j] /\ result'[j] = result[j]
    BY <2>1, <2>2 DEF JobsGoOn
  <2>4. BatchReport(b)' = BatchReport(b)
    BY <2>3, ReportKept
  <2>5. \A j \in JobsOf(b) : Settled(j)'
    BY <2>1, <2>3 DEF Settled
  <2> QED
    BY <1>1, <2>1, <2>4, <2>5 DEF Current
<1> QED
  BY <1>2, <1>3

(* No report is written; the exit code of a batch that ends unfinished is 1. *)
LEMMA ReportsStay ==
  ASSUME ReportsInv, JobsGoOn, UNCHANGED <<reports, exit>>,
         batch'.no = batch.no, batch'.step # "ended" => batch.step # "ended"
  PROVE  ReportsInv'
<1>1. ASSUME NEW b \in Batches, reports'[b] # None
      PROVE  Sound(b, reports'[b]) /\ Current(b)'
  BY <1>1, SoundReports
<1>2. ExitsInOrder'
  BY DEF ReportsInv, ExitsInOrder
<1> QED
  BY <1>1, <1>2 DEF ReportsInv

LEMMA ReportsAtEnd ==
  ASSUME ReportsInv, JobsGoOn, UNCHANGED reports, batch.no \in Batches,
         exit' = [exit EXCEPT ![batch.no] = 1],
         batch'.no = batch.no, batch'.step = "ended"
  PROVE  ReportsInv'
<1>1. ASSUME NEW b \in Batches, reports'[b] # None
      PROVE  Sound(b, reports'[b]) /\ Current(b)'
  BY <1>1, SoundReports
<1>2. exit' \in [Batches -> {None, 0, 1}]
  BY DEF ReportsInv
<1>3. ExitsInOrder'
  BY DEF ReportsInv, ExitsInOrder, Batches
<1> QED
  BY <1>1, <1>2, <1>3 DEF ReportsInv

LEMMA ReportsAtStart ==
  ASSUME ReportsInv, JobsGoOn, UNCHANGED <<reports, exit>>, batch.no \in Nat,
         batch'.no = batch.no + 1
  PROVE  ReportsInv'
<1>1. ASSUME NEW b \in Batches, reports'[b] # None
      PROVE  Sound(b, reports'[b]) /\ Current(b)'
  BY <1>1, SoundReports
<1>2. ExitsInOrder'
  BY DEF ReportsInv, ExitsInOrder, Batches
<1> QED
  BY <1>1, <1>2 DEF ReportsInv

(* The batch writes its report from the tables. *)
LEMMA ReportsAtWrite ==
  ASSUME ReportsInv, JobsTyped, JobsInOrder, ResultsTraced, JobsGoOn,
         NEW b \in Batches, b = batch.no, AllQueued(b), UNCHANGED <<status, result, exit>>,
         reports' = [reports EXCEPT ![b] = BatchReport(b)],
         batch.step # "ended", batch'.no = b
  PROVE  ReportsInv'
<1> DEFINE report == BatchReport(b)
<1>1. /\ Sound(b, report)
      /\ report.pending = 0 => \A j \in JobsOf(b) : Settled(j)
      /\ BatchReport(b)' = report
  BY BuiltReport, ReportKept
<1> HIDE DEF report
<1>2. /\ reports' = [reports EXCEPT ![b] = report] /\ DOMAIN reports = Batches
      /\ exit' \in [Batches -> {None, 0, 1}]
  BY DEF ReportsInv, report
<1>3. ASSUME NEW c \in Batches, reports'[c] # None
      PROVE  Sound(c, reports'[c]) /\ Current(c)'
  <2>1. CASE c = b
    <3>1. reports'[c] = report
      BY <1>2, <2>1
    <3>2. \A j \in JobsOf(b) : Settled(j)' <=> Settled(j)
      BY DEF Settled
    <3> QED
      BY <1>1, <2>1, <3>1, <3>2 DEF Current
  <2>2. CASE c # b
    <3>1. reports'[c] = reports[c]
      BY <1>2, <2>2
    <3>2. Sound(c, reports[c]) /\ Current(c)
      BY <1>3, <3>1 DEF ReportsInv
    <3>3. BatchReport(c)' = BatchReport(c) /\ \A j \in JobsOf(c) : Settled(j)' <=> Settled(j)
      BY ReportKept DEF Settled
    <3> QED
      BY <3>1, <3>2, <3>3 DEF Current
  <2> QED
    BY <2>1, <2>2
<1>4. exit[b] = None /\ (\A c \in Batches : c > b => reports[c] = None /\ exit[c] = None)
  BY DEF ReportsInv, ExitsInOrder
<1>5. \A c \in Batches : c # b => reports'[c] = reports[c]
  BY <1>2
<1>6. ~(b > b) /\ None # 0
  BY NoneApart DEF Batches
<1>7. ExitsInOrder'
  BY <1>4, <1>5, <1>6 DEF ReportsInv, ExitsInOrder
<1> QED
  BY <1>2, <1>3, <1>7 DEF ReportsInv

(* The exit code is that of the report. *)
LEMMA ReportsAtExit ==
  ASSUME ReportsInv, JobsGoOn, UNCHANGED reports, NEW b \in Batches, b = batch.no,
         exit' = [exit EXCEPT ![b] = ExitCode(reports[b])],
         batch'.no = b, batch'.step = "ended"
  PROVE  ReportsInv'
<1>1. ASSUME NEW c \in Batches, reports'[c] # None
      PROVE  Sound(c, reports'[c]) /\ Current(c)'
  BY <1>1, SoundReports
<1>2. ExitCode(reports[b]) \in {0, 1}
  BY DEF ExitCode
<1>3. reports[b] # None /\ ExitCode(reports[b]) = 0 =>
        reports[b].failed = 0 /\ reports[b].pending = 0
  <2> SUFFICES ASSUME reports[b] # None, ExitCode(reports[b]) = 0
               PROVE  reports[b].failed = 0 /\ reports[b].pending = 0
    OBVIOUS
  <2>1. reports[b].failed \in Nat /\ reports[b].pending \in Nat
    BY DEF ReportsInv, Sound
  <2>2. ~(reports[b].failed > 0) /\ ~(reports[b].pending > 0)
    BY DEF ExitCode
  <2> QED
    BY <2>1, <2>2
<1>4. /\ exit' \in [Batches -> {None, 0, 1}] /\ exit'[b] = ExitCode(reports[b])
      /\ \A c \in Batches : c # b => exit'[c] = exit[c]
  BY <1>2 DEF ReportsInv
<1>5. ~(b > b)
  BY DEF Batches
<1>6. ExitsInOrder'
  BY <1>3, <1>4, <1>5 DEF ReportsInv, ExitsInOrder
<1> QED
  BY <1>1, <1>4, <1>6 DEF ReportsInv

-----------------------------------------------------------------------------
(* The steps *)

LEMMA Parts ==
  ReplayInv <=> JobsTyped /\ JobsInOrder /\ WorkInv /\ BatchInv /\ ReportsInv
BY ReportsInvMeans DEF ReplayInv, TypeOK, JobsTyped, WorkInv, BatchInv, BatchTyped,
   BatchStates, ReportsInv

LEMMA PartsGoOn ==
  ASSUME JobsGoOn, WorkInv', BatchInv', ReportsInv'
  PROVE  ReplayInv'
<1>1. JobsTyped' /\ JobsInOrder'
  BY DEF JobsGoOn
<1>2. (ReplayInv <=> JobsTyped /\ JobsInOrder /\ WorkInv /\ BatchInv /\ ReportsInv)'
  BY Parts, PTL
<1> QED
  BY <1>1, <1>2

LEMMA BatchShape ==
  ASSUME BatchInv
  PROVE  /\ batch = [no |-> batch.no, step |-> batch.step, polls |-> batch.polls,
                     idle |-> batch.idle, previous |-> batch.previous]
         /\ batch.no \in 0..MaxBatches /\ batch.step \in Steps /\ batch.polls \in Nat
         /\ batch.idle \in 0..MaxIdleRuns /\ batch.previous \in 0..MaxBatches
         /\ (worker[BatchWorker].step # "idle" <=> batch.step = "run")
BY DEF BatchInv, BatchTyped, BatchStates, BatchInOrder

(* The worker of the batch has no work but while the batch runs a job. *)
LEMMA OtherWorker ==
  ASSUME WorkInv, NEW w \in Holders, w # BatchWorker, NEW m,
         worker' = [worker EXCEPT ![w] = m]
  PROVE  worker'[BatchWorker] = worker[BatchWorker]
BY NoneApart DEF WorkInv

LEMMA ReplayInit == Init => ReplayInv
<1> SUFFICES ASSUME Init PROVE ReplayInv
  OBVIOUS
<1>1. JobsTyped /\ JobsInOrder
  BY NoneApart DEF Init, JInit, JobsTyped, JobStatus, JobsInOrder
<1>2. WorkInv
  <2>1. runs \in [Jobs -> Seq(AgentRuns)] /\ worker \in [Holders -> WorkerStates]
    BY IdleTyped DEF Init
  <2>2. WorkRecorded /\ ResultsTraced
    BY IdleTyped DEF Init, WorkRecorded, ResultsTraced
  <2> QED
    BY <2>1, <2>2 DEF WorkInv
<1>3. BatchInv
  <2>1. worker[BatchWorker].step = "idle"
    BY IdleTyped, NoneApart DEF Init
  <2>2. batch \in BatchStates
    BY NoneApart DEF Init, BatchStates, Steps
  <2>3. BatchTyped
    BY <2>2 DEF Init, BatchTyped
  <2>4. BatchInOrder
    BY <2>1 DEF Init, BatchInOrder, Polling
  <2> QED
    BY <2>3, <2>4 DEF BatchInv
<1>4. ReportsInv
  <2>1. /\ reports = [b \in Batches |-> None] /\ exit = [b \in Batches |-> None]
        /\ batch.step = "ended"
    BY DEF Init
  <2> QED
    BY <2>1 DEF ReportsInv, ExitsInOrder
<1> QED
  BY <1>1, <1>2, <1>3, <1>4, Parts

LEMMA MaxWritten ==
  ASSUME NEW n \in Nat, NEW S, S \subseteq 1..n, S # {}
  PROVE  Max(S) \in S
<1> DEFINE Less == {p \in Nat \X Nat : p[1] < p[2]}
<1> DEFINE T == {k \in 0..n : n - k \in S}
<1>1. T \subseteq Nat /\ T # {}
  <2>1. PICK m : m \in S
    OBVIOUS
  <2>2. n - m \in 0..n /\ n - (n - m) = m
    BY <2>1
  <2>3. n - m \in T
    BY <2>1, <2>2
  <2>4. \A k \in 0..n : k \in Nat
    OBVIOUS
  <2> QED
    BY <2>3, <2>4
<1>2. PICK k \in T : \A i \in T : <<i, k>> \notin Less
  <2>1. IsWellFoundedOn(Less, Nat)
    <3>1. Less = OpToRel(<, Nat)
      BY DEF OpToRel
    <3> QED
      BY <3>1, NatLessThanWellFounded
  <2> HIDE DEF Less, T
  <2> QED
    BY <1>1, <2>1, WFMin
<1>3. n - k \in S /\ k \in 0..n
  OBVIOUS
<1>4. ASSUME NEW m \in S PROVE n - k >= m
  <2>1. n - m \in T /\ n - m \in Nat /\ k \in Nat /\ m \in 1..n
    BY <1>3
  <2>2. ~(n - m < k)
    BY <1>2, <2>1
  <2> QED
    BY <2>1, <2>2
<1> QED
  BY <1>3, <1>4 DEF Max

LEMMA StartBatchStep ==
  ASSUME ReplayInv, StartBatch
  PROVE  ReplayInv'
<1>1. JobsTyped /\ JobsInOrder /\ WorkInv /\ BatchInv /\ ReportsInv
  BY Parts
<1>2. /\ batch.step = "ended" /\ batch.no < MaxBatches
      /\ batch' = [no |-> batch.no + 1, step |-> "enqueue", polls |-> 0, idle |-> 0,
                   previous |-> IF Written = {} THEN 0 ELSE Max(Written)]
      /\ UNCHANGED <<jobs, runs, worker, reports, exit>>
  BY DEF StartBatch, jobs, files
<1>3. JobsGoOn /\ WorkInv'
  BY <1>1, <1>2, JobsStay, WorkStays DEF jobs
<1>4. ReportsInv'
  BY <1>1, <1>2, <1>3, BatchShape, ReportsAtStart
<1>5. batch'.previous \in 0..batch.no
  <2>1. Written \subseteq 1..batch.no
    <3> SUFFICES ASSUME NEW b \in Batches, reports[b] # None
                 PROVE  b \in 1..batch.no
      BY DEF Written
    <3>1. ~(b > batch.no)
      BY <1>1 DEF ReportsInv, ExitsInOrder
    <3> QED
      BY <1>1, <3>1, BatchShape, NoneApart DEF Batches
  <2>2. CASE Written = {}
    BY <1>1, <1>2, <2>2, BatchShape, NoneApart
  <2>3. CASE Written # {}
    <3>1. batch.no \in Nat
      BY <1>1, BatchShape, NoneApart
    <3>2. Max(Written) \in Written
      BY <2>1, <2>3, <3>1, MaxWritten
    <3>3. batch'.previous = Max(Written)
      BY <1>2, <2>3
    <3>4. Max(Written) \in 1..batch.no
      BY <2>1, <3>2
    <3> QED
      BY <3>1, <3>3, <3>4
  <2> QED
    BY <2>2, <2>3
<1>6. /\ batch.no + 1 \in 0..MaxBatches /\ batch.no \in Nat /\ batch.no + 1 \in Batches
      /\ worker[BatchWorker].step = "idle"
  BY <1>1, <1>2, BatchShape, NoneApart DEF Batches
<1>7. BatchTyped'
  <2>1. MaxRuns(batch.no + 1) \in Nat \ {0}
    BY <1>6, Polls
  <2>2. batch' \in BatchStates
    BY <1>2, <1>5, <1>6, NoneApart DEF BatchStates, Steps
  <2> QED
    BY <1>2, <1>5, <1>6, <2>1, <2>2 DEF BatchTyped
<1>8. BatchInOrder'
  BY <1>2, <1>6 DEF BatchInOrder, Polling
<1> QED
  BY <1>3, <1>4, <1>7, <1>8, PartsGoOn DEF BatchInv

LEMMA BeginPollingStep ==
  ASSUME ReplayInv, BeginPolling
  PROVE  ReplayInv'
<1>1. JobsTyped /\ JobsInOrder /\ WorkInv /\ BatchInv /\ ReportsInv
  BY Parts
<1>2. /\ batch.step = "enqueue" /\ AllQueued(batch.no)
      /\ batch' = [batch EXCEPT !.step = "poll"]
      /\ UNCHANGED <<jobs, runs, worker, reports, exit>>
  BY DEF BeginPolling, Enqueued, Goto, AllQueued, jobs, files
<1>3. JobsGoOn /\ WorkInv'
  BY <1>1, <1>2, JobsStay, WorkStays DEF jobs
<1>4. PICK b : b = batch.no
  OBVIOUS
<1>5. /\ b \in Batches /\ MaxRuns(b) \in Nat \ {0}
      /\ batch.previous \in 0..MaxBatches /\ batch.previous < b + 1
      /\ batch.polls = 0 /\ batch.idle = 0
  BY <1>1, <1>2, <1>4, BatchAt DEF BatchInv, BatchInOrder
<1>6. batch' = [no |-> b, step |-> "poll", polls |-> 0, idle |-> 0,
                previous |-> batch.previous]
  BY <1>1, <1>2, <1>4, <1>5, BatchShape
<1>7. AllQueued(b)' /\ worker'[BatchWorker].step = "idle"
  <2>1. worker[BatchWorker].step = "idle"
    BY <1>1, <1>2, BatchShape
  <2> QED
    BY <1>2, <1>3, <1>4, <1>5, <2>1, QueuedGoOn
<1>8. BatchInv'
  <2>1. "poll" \in Steps /\ 0 \in 0..MaxIdleRuns /\ 0 < MaxIdleRuns /\ 0 < MaxRuns(b)
    BY <1>5, NoneApart DEF Steps
  <2>2. 0 <= MaxRuns(b)
    BY <1>5
  <2> QED
    BY <1>5, <1>6, <1>7, <2>1, <2>2, BatchMoves
<1>9. ReportsInv'
  BY <1>1, <1>2, <1>3, <1>4, <1>6, ReportsStay
<1> QED
  BY <1>3, <1>8, <1>9, PartsGoOn

LEMMA PollClaimsStep ==
  ASSUME ReplayInv, NEW j \in Jobs, PollClaims(j)
  PROVE  ReplayInv'
<1>1. JobsTyped /\ JobsInOrder /\ WorkInv /\ BatchInv /\ ReportsInv
  BY Parts
<1> DEFINE m == [NoWork EXCEPT !.step = "replay", !.job = j]
<1>2. /\ batch.step = "poll" /\ Start(j, BatchWorker)
      /\ worker' = [worker EXCEPT ![BatchWorker] = m]
      /\ batch' = [batch EXCEPT !.step = "run", !.polls = @ + 1]
      /\ UNCHANGED <<due, result, runs, reports, exit>>
  BY DEF PollClaims, Claim, files
<1>3. m \in WorkerStates /\ m.step = "replay"
  BY DEF NoWork, WorkerStates
<1> HIDE DEF m
<1>4. JobsGoOn /\ WorkInv'
  BY <1>1, <1>2, <1>3, StartGoesOn, WorkerMoves, NoneApart
<1>5. PICK b : b = batch.no
  OBVIOUS
<1>6. /\ b \in Batches /\ MaxRuns(b) \in Nat \ {0} /\ batch.polls \in Nat
      /\ batch.polls < MaxRuns(b) /\ batch.idle \in 0..MaxIdleRuns
      /\ batch.previous \in 0..MaxBatches /\ batch.previous < b + 1
      /\ AllQueued(b) /\ (batch.idle # 0 => NoneUntried(b))
  BY <1>1, <1>2, <1>5, BatchAt DEF Polling
<1>7. batch' = [no |-> b, step |-> "run", polls |-> batch.polls + 1, idle |-> batch.idle,
                previous |-> batch.previous]
  BY <1>1, <1>2, <1>5, BatchShape
<1>8. AllQueued(b)' /\ (batch.idle # 0 => NoneUntried(b)')
  BY <1>4, <1>6, QueuedGoOn
<1>9. worker'[BatchWorker].step = "replay"
  BY <1>1, <1>2, <1>3, NoneApart DEF WorkInv
<1>10. BatchInv'
  <2>1. "run" \in Steps /\ batch.polls + 1 \in Nat /\ batch.polls + 1 <= MaxRuns(b)
    BY <1>6 DEF Steps
  <2> QED
    BY <1>6, <1>7, <1>8, <1>9, <2>1, BatchMoves
<1>11. ReportsInv'
  BY <1>1, <1>2, <1>4, <1>5, <1>7, ReportsStay
<1> QED
  BY <1>4, <1>10, <1>11, PartsGoOn

(* An idle poll saw no untried job: these are due. *)
LEMMA PollIdleStep ==
  ASSUME ReplayInv, PollIdle
  PROVE  ReplayInv'
<1>1. JobsTyped /\ JobsInOrder /\ WorkInv /\ BatchInv /\ ReportsInv
  BY Parts
<1>2. /\ batch.step = "poll" /\ Claimable(BatchWorker) = {}
      /\ batch' = [batch EXCEPT !.step = "observe", !.polls = @ + 1, !.idle = @ + 1]
      /\ UNCHANGED <<jobs, runs, worker, reports, exit>>
  BY DEF PollIdle, jobs, files
<1>3. JobsGoOn /\ WorkInv'
  BY <1>1, <1>2, JobsStay, WorkStays DEF jobs
<1>4. PICK b : b = batch.no
  OBVIOUS
<1>5. /\ b \in Batches /\ MaxRuns(b) \in Nat \ {0} /\ batch.polls \in Nat
      /\ batch.polls < MaxRuns(b) /\ batch.idle \in 0..MaxIdleRuns
      /\ batch.idle < MaxIdleRuns
      /\ batch.previous \in 0..MaxBatches /\ batch.previous < b + 1
      /\ AllQueued(b)
  BY <1>1, <1>2, <1>4, BatchAt DEF Polling
<1>6. batch' = [no |-> b, step |-> "observe", polls |-> batch.polls + 1,
                idle |-> batch.idle + 1, previous |-> batch.previous]
  BY <1>1, <1>2, <1>4, BatchShape
<1>7. NoneUntried(b)
  <2> SUFFICES ASSUME NEW j \in JobsOf(b), Untried(j)
               PROVE  j \in Claimable(BatchWorker)
    BY <1>2 DEF NoneUntried
  <2>1. j \in Jobs
    BY <1>5, JobNames
  <2> QED
    BY <1>1, <2>1 DEF Untried, JobsInOrder, Claimable
<1>8. AllQueued(b)' /\ NoneUntried(b)'
  BY <1>3, <1>5, <1>7, QueuedGoOn
<1>9. worker'[BatchWorker].step = "idle"
  BY <1>1, <1>2, BatchShape
<1>10. BatchInv'
  <2>1. /\ "observe" \in Steps /\ batch.polls + 1 \in Nat /\ batch.polls + 1 <= MaxRuns(b)
        /\ batch.idle + 1 \in 0..MaxIdleRuns
    BY <1>5, NoneApart DEF Steps
  <2> QED
    BY <1>5, <1>6, <1>8, <1>9, <2>1, BatchMoves
<1>11. ReportsInv'
  BY <1>1, <1>2, <1>3, <1>4, <1>6, ReportsStay
<1> QED
  BY <1>3, <1>10, <1>11, PartsGoOn

LEMMA GoOnPollingStep ==
  ASSUME ReplayInv, GoOnPolling
  PROVE  ReplayInv'
<1>1. JobsTyped /\ JobsInOrder /\ WorkInv /\ BatchInv /\ ReportsInv
  BY Parts
<1>2. PICK s : s = IF GivesUp THEN "final" ELSE "poll"
  OBVIOUS
<1>3. /\ batch.step = "observe" /\ batch' = [batch EXCEPT !.step = s]
      /\ UNCHANGED <<jobs, runs, worker, reports, exit>>
  BY <1>2 DEF GoOnPolling, Goto, jobs, files
<1>4. JobsGoOn /\ WorkInv'
  BY <1>1, <1>3, JobsStay, WorkStays DEF jobs
<1>5. PICK b : b = batch.no
  OBVIOUS
<1>6. /\ b \in Batches /\ MaxRuns(b) \in Nat \ {0} /\ batch.polls \in Nat
      /\ batch.polls <= MaxRuns(b) /\ batch.idle \in 0..MaxIdleRuns
      /\ batch.previous \in 0..MaxBatches /\ batch.previous < b + 1
      /\ AllQueued(b) /\ (batch.idle # 0 => NoneUntried(b))
  BY <1>1, <1>3, <1>5, BatchAt DEF Polling
<1>7. batch' = [no |-> b, step |-> s, polls |-> batch.polls, idle |-> batch.idle,
                previous |-> batch.previous]
  BY <1>1, <1>3, <1>5, BatchShape
<1>8. AllQueued(b)' /\ (batch.idle # 0 => NoneUntried(b)')
  BY <1>4, <1>6, QueuedGoOn
<1>9. worker'[BatchWorker].step = "idle"
  BY <1>1, <1>3, BatchShape
<1>10. /\ s \in {"final", "poll"}
       /\ s = "poll" => batch.idle < MaxIdleRuns /\ batch.polls < MaxRuns(b)
       /\ s = "final" => batch.idle >= MaxIdleRuns \/ batch.polls >= MaxRuns(b)
  <2>1. GivesUp <=> batch.idle >= MaxIdleRuns \/ batch.polls >= MaxRuns(b)
    BY <1>5 DEF GivesUp
  <2> QED
    BY <1>2, <1>6, <2>1, NoneApart
<1>11. BatchInv'
  <2>1. s \in Steps /\ s # "enqueue" /\ s # "run"
    BY <1>10 DEF Steps
  <2> QED
    BY <1>6, <1>7, <1>8, <1>9, <1>10, <2>1, BatchMoves
<1>12. ReportsInv'
  BY <1>1, <1>3, <1>4, <1>5, <1>7, ReportsStay
<1> QED
  BY <1>4, <1>11, <1>12, PartsGoOn

LEMMA WriteReportStep ==
  ASSUME ReplayInv, batch.step \in {"observe", "final"}, WriteReport
  PROVE  ReplayInv'
<1>1. JobsTyped /\ JobsInOrder /\ WorkInv /\ BatchInv /\ ReportsInv
  BY Parts
<1>2. PICK b : b = batch.no
  OBVIOUS
<1>3. /\ reports' = [reports EXCEPT ![b] = BatchReport(b)]
      /\ batch' = [batch EXCEPT !.step = "compare", !.polls = 0, !.idle = 0]
      /\ UNCHANGED <<jobs, status, runs, worker, result, exit>>
  BY <1>2 DEF WriteReport, jobs, jvars
<1>4. JobsGoOn /\ WorkInv'
  BY <1>1, <1>3, JobsStay, WorkStays
<1>5. /\ b \in Batches /\ MaxRuns(b) \in Nat \ {0} /\ AllQueued(b)
      /\ batch.previous \in 0..MaxBatches /\ batch.previous < b + 1
  BY <1>1, <1>2, BatchAt DEF Polling
<1>6. batch' = [no |-> b, step |-> "compare", polls |-> 0, idle |-> 0,
                previous |-> batch.previous]
  BY <1>1, <1>2, <1>3, BatchShape
<1>7. worker'[BatchWorker].step = "idle"
  BY <1>1, <1>3, BatchShape
<1>8. BatchInv'
  <2>1. /\ "compare" \in Steps /\ "compare" \notin Polling /\ 0 \in 0..MaxIdleRuns
        /\ 0 <= MaxRuns(b)
    BY <1>5, NoneApart DEF Steps, Polling
  <2> QED
    BY <1>5, <1>6, <1>7, <2>1, BatchMoves
<1>9. ReportsInv'
  <2>1. ResultsTraced /\ batch'.no = b
    BY <1>1, <1>6 DEF WorkInv
  <2> QED
    BY <1>1, <1>2, <1>3, <1>4, <1>5, <2>1, ReportsAtWrite
<1> QED
  BY <1>4, <1>8, <1>9, PartsGoOn

LEMMA CompareAndExitStep ==
  ASSUME ReplayInv, CompareAndExit
  PROVE  ReplayInv'
<1>1. JobsTyped /\ JobsInOrder /\ WorkInv /\ BatchInv /\ ReportsInv
  BY Parts
<1>2. PICK b : b = batch.no
  OBVIOUS
<1>3. /\ batch.step = "compare" /\ batch' = [batch EXCEPT !.step = "ended"]
      /\ exit' = [exit EXCEPT ![b] = ExitCode(reports[b])]
      /\ UNCHANGED <<jobs, runs, worker, result, reports>>
  BY <1>2 DEF CompareAndExit, Goto, jobs
<1>4. JobsGoOn /\ WorkInv'
  BY <1>1, <1>3, JobsStay, WorkStays
<1>5. /\ b \in Batches /\ batch.previous \in 0..MaxBatches /\ batch.previous < b + 1
      /\ batch.polls \in Nat /\ batch.polls <= MaxRuns(b) /\ batch.idle \in 0..MaxIdleRuns
  BY <1>1, <1>2, <1>3, BatchAt
<1>6. batch' = [no |-> b, step |-> "ended", polls |-> batch.polls, idle |-> batch.idle,
                previous |-> batch.previous]
  BY <1>1, <1>2, <1>3, BatchShape
<1>7. worker'[BatchWorker].step = "idle"
  BY <1>1, <1>3, BatchShape
<1>8. BatchInv'
  <2>1. "ended" \in Steps /\ "ended" \notin Polling
    BY DEF Steps, Polling
  <2> QED
    BY <1>5, <1>6, <1>7, <2>1, BatchMoves
<1>9. ReportsInv'
  BY <1>1, <1>2, <1>3, <1>4, <1>5, <1>6, ReportsAtExit
<1> QED
  BY <1>4, <1>8, <1>9, PartsGoOn

-----------------------------------------------------------------------------
(* Steps of a job *)

(* A step beside the batch. *)
LEMMA BesideBatch ==
  ASSUME ReplayInv, JobsGoOn, WorkInv', UNCHANGED <<batch, reports, exit>>,
         worker'[BatchWorker].step # "idle" <=> worker[BatchWorker].step # "idle"
  PROVE  ReplayInv'
<1>1. BatchInv /\ ReportsInv
  BY Parts
<1>2. BatchInv' /\ ReportsInv'
  BY <1>1, BatchStays, ReportsStay
<1> QED
  BY <1>2, PartsGoOn

LEMMA HermesClaimsStep ==
  ASSUME ReplayInv, NEW w \in Holders, NEW j \in Jobs, HermesClaims(w, j)
  PROVE  ReplayInv'
<1>1. JobsTyped /\ JobsInOrder /\ WorkInv
  BY Parts
<1> DEFINE m == [NoWork EXCEPT !.step = "replay", !.job = j]
<1>2. /\ w # BatchWorker /\ Start(j, w) /\ worker' = [worker EXCEPT ![w] = m]
      /\ UNCHANGED <<due, result, runs, batch, reports, exit>>
  BY DEF HermesClaims, Claim, files
<1>3. m \in WorkerStates /\ m.step = "replay"
  BY DEF NoWork, WorkerStates
<1> HIDE DEF m
<1>4. JobsGoOn /\ WorkInv'
  BY <1>1, <1>2, <1>3, StartGoesOn, WorkerMoves
<1>5. worker'[BatchWorker] = worker[BatchWorker]
  BY <1>1, <1>2, OtherWorker
<1> QED
  BY <1>2, <1>4, <1>5, BesideBatch

LEMMA RecordRunStep ==
  ASSUME ReplayInv, NEW w \in Holders, NEW run \in AgentRuns, NEW next \in {"complete", "fail"},
         next = "complete" => run.status = "success", RecordRun(w, run, next)
  PROVE  ReplayInv'
<1>1. JobsTyped /\ JobsInOrder /\ WorkInv
  BY Parts
<1> DEFINE n == Len(runs[worker[w].job]) + 1
<1>2. /\ worker[w].step = "replay"
      /\ worker' = [worker EXCEPT ![w] = [@ EXCEPT !.step = next, !.run = n]]
      /\ UNCHANGED <<jobs, batch, reports, exit>>
  BY DEF RecordRun, jobs, files
<1>3. JobsGoOn /\ WorkInv'
  BY <1>1, <1>2, JobsStay, RunRecorded
<1>4. worker'[w].step = next
  BY <1>1, <1>2 DEF WorkInv, WorkerStates
<1>5. worker'[BatchWorker].step # "idle" <=> worker[BatchWorker].step # "idle"
  BY <1>1, <1>2, <1>4, NoneApart DEF WorkInv
<1> QED
  BY <1>2, <1>3, <1>5, BesideBatch

LEMMA RunsTyped ==
  ASSUME NEW w \in Holders
  PROVE  /\ FailedRun(w) \in AgentRuns
         /\ \A answer \in Answers :
              SuccessRun(w, answer) \in AgentRuns /\ SuccessRun(w, answer).status = "success"
<1>1. /\ Model[w] \in Models
      /\ \A answer \in Answers : answer.action \in Actions /\ answer.state \in States
  BY DEF Models, Actions, States
<1> QED
  BY <1>1 DEF FailedRun, SuccessRun, AgentRuns

LEMMA ReplayRunsStep ==
  ASSUME ReplayInv, NEW w \in Holders, ReplaySucceeds(w) \/ ReplayFails(w)
  PROVE  ReplayInv'
<1>1. CASE ReplaySucceeds(w)
  <2>1. PICK answer \in Answers : RecordRun(w, SuccessRun(w, answer), "complete")
    BY <1>1 DEF ReplaySucceeds
  <2>2. SuccessRun(w, answer) \in AgentRuns /\ SuccessRun(w, answer).status = "success"
    BY RunsTyped
  <2> QED
    BY <2>1, <2>2, RecordRunStep
<1>2. CASE ReplayFails(w)
  <2>1. RecordRun(w, FailedRun(w), "fail") /\ FailedRun(w) \in AgentRuns
    BY <1>2, RunsTyped DEF ReplayFails
  <2> QED
    BY <2>1, RecordRunStep
<1> QED
  BY <1>1, <1>2

LEMMA HandlerThrowsStep ==
  ASSUME ReplayInv, NEW w \in Holders, HandlerThrows(w)
  PROVE  ReplayInv'
<1>1. JobsTyped /\ JobsInOrder /\ WorkInv
  BY Parts
<1> DEFINE m == [worker[w] EXCEPT !.step = "fail"]
<1>2. /\ worker[w].step = "replay" /\ worker' = [worker EXCEPT ![w] = m]
      /\ UNCHANGED <<jobs, runs, result, batch, reports, exit>>
  BY DEF HandlerThrows, jobs, files
<1>3. m \in WorkerStates /\ m.step = "fail"
  BY <1>1, <1>2 DEF WorkInv, WorkerStates
<1> HIDE DEF m
<1>4. JobsGoOn /\ WorkInv'
  BY <1>1, <1>2, <1>3, JobsStay, WorkerMoves
<1>5. worker'[BatchWorker].step # "idle" <=> worker[BatchWorker].step # "idle"
  BY <1>1, <1>2, <1>3, NoneApart DEF WorkInv
<1> QED
  BY <1>2, <1>4, <1>5, BesideBatch

(* When the worker of the batch returns, the batch looks at its jobs. *)
LEMMA Returned ==
  ASSUME ReplayInv, JobsGoOn, WorkInv', NEW w \in Holders, worker[w].step # "idle", Return(w)
  PROVE  ReplayInv'
<1>1. JobsTyped /\ JobsInOrder /\ WorkInv /\ BatchInv /\ ReportsInv
  BY Parts
<1>2. worker' = [worker EXCEPT ![w] = NoWork] /\ UNCHANGED <<reports, exit>>
  BY DEF Return, files
<1>3. CASE w # BatchWorker
  <2>1. batch' = batch
    BY <1>3 DEF Return
  <2>2. worker'[BatchWorker] = worker[BatchWorker]
    BY <1>1, <1>2, <1>3, OtherWorker
  <2> QED
    BY <1>2, <2>1, <2>2, BesideBatch
<1>4. CASE w = BatchWorker
  <2>1. batch.step = "run"
    BY <1>1, <1>4, BatchShape
  <2>2. PICK b : b = batch.no
    OBVIOUS
  <2>3. /\ b \in Batches /\ MaxRuns(b) \in Nat \ {0} /\ batch.polls \in Nat
        /\ batch.polls <= MaxRuns(b) /\ AllQueued(b)
        /\ batch.previous \in 0..MaxBatches /\ batch.previous < b + 1
    BY <1>1, <2>1, <2>2, BatchAt DEF Polling
  <2>4. batch' = [batch EXCEPT !.step = "observe", !.idle = 0]
    BY <1>4 DEF Return
  <2>5. batch' = [no |-> b, step |-> "observe", polls |-> batch.polls, idle |-> 0,
                  previous |-> batch.previous]
    BY <1>1, <2>2, <2>4, BatchShape
  <2>6. AllQueued(b)' /\ worker'[BatchWorker].step = "idle"
    <3>1. worker'[BatchWorker] = NoWork
      BY <1>1, <1>2, <1>4 DEF WorkInv
    <3> QED
      BY <2>3, <3>1, QueuedGoOn, IdleTyped
  <2>7. BatchInv'
    <3>1. "observe" \in Steps /\ 0 \in 0..MaxIdleRuns
      BY NoneApart DEF Steps
    <3> QED
      BY <2>3, <2>5, <2>6, <3>1, BatchMoves
  <2>8. ReportsInv'
    BY <1>1, <1>2, <2>1, <2>2, <2>5, ReportsStay
  <2> QED
    BY <2>7, <2>8, PartsGoOn
<1> QED
  BY <1>3, <1>4

LEMMA CompleteJobStep ==
  ASSUME ReplayInv, NEW w \in Holders, CompleteJob(w)
  PROVE  ReplayInv'
<1>1. JobsTyped /\ JobsInOrder /\ WorkInv
  BY Parts
<1> DEFINE j == worker[w].job
<1> DEFINE k == worker[w].run
<1>2. /\ worker[w].step = "complete" /\ Succeed(j, w)
      /\ result' = [result EXCEPT ![j] = ResultRef(j, k)]
      /\ worker' = [worker EXCEPT ![w] = NoWork] /\ Return(w)
      /\ UNCHANGED <<due, runs>>
  BY DEF CompleteJob, Return
<1>3. j \in Jobs /\ ResultRef(j, k) \in ResultRefs
  BY <1>1, <1>2, RefTyped
<1>4. WorkInv'
  BY <1>1, <1>2, WorkCompleted DEF JobsTyped
<1>5. PICK i \in Jobs, ref \in ResultRefs : i = j /\ ref = ResultRef(j, k)
  BY <1>3
<1>6. JobsGoOn
  <2>1. Succeed(i, w) /\ result' = [result EXCEPT ![i] = ref]
    BY <1>2, <1>5
  <2> QED
    BY <1>1, <1>2, <2>1, SucceedGoesOn
<1> QED
  BY <1>2, <1>4, <1>6, Returned

LEMMA ReportJobFailureStep ==
  ASSUME ReplayInv, NEW w \in Holders, ReportJobFailure(w)
  PROVE  ReplayInv'
<1>1. JobsTyped /\ JobsInOrder /\ WorkInv
  BY Parts
<1>2. PICK j : j = worker[w].job
  OBVIOUS
<1>3. /\ worker[w].step = "fail" /\ FailAttempt(j) /\ Return(w)
      /\ worker' = [worker EXCEPT ![w] = NoWork] /\ UNCHANGED <<runs, result>>
  BY <1>2 DEF ReportJobFailure, Return
<1>4. j \in Jobs
  BY <1>1, <1>2, <1>3, AtWork
<1>5. JobsGoOn /\ WorkInv'
  BY <1>1, <1>3, <1>4, FailGoesOn, IdleTyped, WorkerMoves
<1> QED
  BY <1>3, <1>5, Returned

(* A process that dies leaves the jobs as they are. *)
LEMMA ProcessEnds ==
  ASSUME ReplayInv, NEW w \in Holders, EndProcess(w),
         worker[w].step # "idle" \/ (w = BatchWorker /\ batch.step # "ended")
  PROVE  ReplayInv'
<1>1. JobsTyped /\ JobsInOrder /\ WorkInv /\ BatchInv /\ ReportsInv
  BY Parts
<1>2. worker' = [worker EXCEPT ![w] = NoWork] /\ UNCHANGED <<jobs, result, runs, reports>>
  BY DEF EndProcess, jobs
<1>3. JobsGoOn /\ WorkInv'
  BY <1>1, <1>2, JobsStay, IdleTyped, WorkerMoves
<1>4. CASE w # BatchWorker
  <2>1. UNCHANGED <<batch, exit>>
    BY <1>4 DEF EndProcess
  <2>2. worker'[BatchWorker] = worker[BatchWorker]
    BY <1>1, <1>2, <1>4, OtherWorker
  <2> QED
    BY <1>2, <1>3, <2>1, <2>2, BesideBatch
<1>5. CASE w = BatchWorker
  <2>1. batch.step # "ended"
    BY <1>1, <1>5, BatchShape
  <2>2. PICK b : b = batch.no
    OBVIOUS
  <2>3. /\ b \in Batches /\ MaxRuns(b) \in Nat \ {0}
        /\ batch.previous \in 0..MaxBatches /\ batch.previous < b + 1
    BY <1>1, <2>1, <2>2, BatchAt
  <2>4. /\ batch' = [batch EXCEPT !.step = "ended", !.polls = 0, !.idle = 0]
        /\ exit' = [exit EXCEPT ![batch.no] = 1]
    BY <1>5 DEF EndProcess
  <2>5. batch' = [no |-> b, step |-> "ended", polls |-> 0, idle |-> 0,
                  previous |-> batch.previous]
    BY <1>1, <2>2, <2>4, BatchShape
  <2>6. worker'[BatchWorker].step = "idle"
    BY <1>1, <1>2, <1>5, IdleTyped DEF WorkInv
  <2>7. BatchInv'
    <3>1. /\ "ended" \in Steps /\ "ended" \notin Polling /\ 0 \in 0..MaxIdleRuns
          /\ 0 <= MaxRuns(b)
      BY <2>3, NoneApart DEF Steps, Polling
    <3> QED
      BY <2>3, <2>5, <2>6, <3>1, BatchMoves
  <2>8. ReportsInv'
    BY <1>1, <1>2, <1>3, <2>2, <2>3, <2>4, <2>5, ReportsAtEnd
  <2> QED
    BY <1>3, <2>7, <2>8, PartsGoOn
<1> QED
  BY <1>4, <1>5

LEMMA QueueStep ==
  ASSUME ReplayInv, NEW j \in Jobs, EnqueueFixture(j) \/ BackoffEnds(j) \/ LockExpires(j)
  PROVE  ReplayInv'
<1>1. JobsTyped /\ JobsInOrder /\ WorkInv
  BY Parts
<1>2. UNCHANGED <<result, runs, worker, batch, reports, exit>>
  BY DEF EnqueueFixture, BackoffEnds, LockExpires, files
<1>3. WorkInv'
  BY <1>1, <1>2, WorkStays
<1>4. CASE EnqueueFixture(j)
  <2>1. Create(j) /\ due' = [due EXCEPT ![j] = TRUE]
    BY <1>4 DEF EnqueueFixture
  <2> QED
    BY <1>1, <1>2, <1>3, <2>1, CreateGoesOn, BesideBatch
<1>5. CASE BackoffEnds(j)
  <2>1. due' = [due EXCEPT ![j] = TRUE] /\ UNCHANGED jvars
    BY <1>5 DEF BackoffEnds
  <2> QED
    BY <1>1, <1>2, <1>3, <2>1, BackoffGoesOn, BesideBatch
<1>6. CASE LockExpires(j)
  <2>1. FailAttempt(j)
    BY <1>6 DEF LockExpires
  <2> QED
    BY <1>1, <1>2, <1>3, <2>1, FailGoesOn, BesideBatch
<1> QED
  BY <1>4, <1>5, <1>6

-----------------------------------------------------------------------------
(* The theorems *)

LEMMA ReplayNext == ReplayInv /\ [Next]_vars => ReplayInv'
<1> SUFFICES ASSUME ReplayInv, [Next]_vars PROVE ReplayInv'
  OBVIOUS
<1>1. CASE RunBatch
  <2>1. ASSUME NEW j \in Jobs, PollClaims(j) PROVE ReplayInv'
    BY <2>1, PollClaimsStep
  <2>2. CASE ReportSettled \/ ReportUnsettled
    BY <2>2, WriteReportStep DEF ReportSettled, ReportUnsettled
  <2> QED
    BY <1>1, <2>1, <2>2, StartBatchStep, BeginPollingStep, PollIdleStep, GoOnPollingStep,
       CompareAndExitStep DEF RunBatch
<1>2. ASSUME NEW w \in Holders, RunJob(w) PROVE ReplayInv'
  <2>1. ASSUME NEW j \in Jobs, HermesClaims(w, j) PROVE ReplayInv'
    BY <2>1, HermesClaimsStep
  <2>2. CASE ReplaySucceeds(w) \/ ReplayFails(w)
    BY <2>2, ReplayRunsStep
  <2>3. CASE HandlerThrows(w)
    BY <2>3, HandlerThrowsStep
  <2>4. CASE CompleteJob(w)
    BY <2>4, CompleteJobStep
  <2>5. CASE ReportJobFailure(w)
    BY <2>5, ReportJobFailureStep
  <2>6. CASE LockLost(w)
    BY <2>6, ProcessEnds DEF LockLost
  <2>7. CASE Crash(w)
    BY <2>7, ProcessEnds DEF Crash
  <2> QED
    BY <1>2, <2>1, <2>2, <2>3, <2>4, <2>5, <2>6, <2>7 DEF RunJob
<1>3. ASSUME NEW j \in Jobs, EnqueueFixture(j) \/ BackoffEnds(j) \/ LockExpires(j)
      PROVE  ReplayInv'
  BY <1>3, QueueStep
<1>4. CASE UNCHANGED vars
  <2>1. JobsTyped /\ JobsInOrder /\ WorkInv
    BY Parts
  <2>2. UNCHANGED <<jobs, result, runs, worker, batch, reports, exit>>
    BY <1>4 DEF vars, jobs, files
  <2> QED
    BY <2>1, <2>2, JobsStay, WorkStays, BesideBatch
<1> QED
  BY <1>1, <1>2, <1>3, <1>4 DEF Next

LEMMA ReplayHolds == Spec => []ReplayInv
BY ReplayInit, ReplayNext, PTL DEF Spec

(***************************************************************************)
(* The jobs, the workers and the batch are always in one of the states the *)
(* code knows, a job has a result exactly when it is completed, and a      *)
(* batch never polls more often than four times the number of fixtures.    *)
(***************************************************************************)
THEOREM ReplayTyped == Spec => []TypeOK
<1>1. ReplayInv => TypeOK
  BY DEF ReplayInv
<1> QED
  BY <1>1, ReplayHolds, PTL

(***************************************************************************)
(* What a report says of a settled fixture stays true of the tables,       *)
(* whatever late workers and later batches do; exit code 0 means that each *)
(* fixture has a result; and the two counts of the results agree.          *)
(***************************************************************************)
THEOREM ReportsStayTrue == Spec => []ReportHolds
<1>1. ReplayInv => ReportHolds
  BY DEF ReplayInv
<1> QED
  BY <1>1, ReplayHolds, PTL

(***************************************************************************)
(* Every result comes from a successful agent run of its job that is on    *)
(* record, also when a late worker ran the job beside another.             *)
(***************************************************************************)
THEOREM ResultsStayTraced == Spec => []ResultsTraced
<1>1. ReplayInv => ResultsTraced
  BY DEF ReplayInv
<1> QED
  BY <1>1, ReplayHolds, PTL

(***************************************************************************)
(* A batch that gives up on a fixture nobody has tried has used all its    *)
(* polls: runReplayPlannerBatch never writes such a report for idleness.   *)
(***************************************************************************)
THEOREM UntriedGetAllPolls == Spec => UntriedOnlyAfterAllPolls
<1>1. ASSUME ReplayInv, Next, reports' # reports
      PROVE  \/ \A j \in JobsOf(batch.no) : ~Untried(j)
             \/ batch.polls = MaxRuns(batch.no)
  <2>1. ReportSettled \/ ReportUnsettled
    BY <1>1 DEF Next, RunBatch, RunJob, StartBatch, BeginPolling, PollClaims, PollIdle,
       GoOnPolling, CompareAndExit, HermesClaims, ReplaySucceeds, ReplayFails, RecordRun,
       HandlerThrows, CompleteJob, ReportJobFailure, Return, LockLost, Crash, EndProcess,
       EnqueueFixture, BackoffEnds, LockExpires, files
  <2>2. CASE ReportSettled
    BY <2>2 DEF ReportSettled, AllSettled, Settled, Untried
  <2>3. CASE ReportUnsettled
    <3>1. BatchInv /\ batch.step = "final" /\ GivesUp
      BY <1>1, <2>3, Parts DEF ReportUnsettled, BatchInv, BatchInOrder
    <3>2. PICK b : b = batch.no
      OBVIOUS
    <3>3. /\ b \in Batches /\ batch.polls \in Nat /\ batch.polls <= MaxRuns(b)
          /\ MaxRuns(b) \in Nat /\ (batch.idle # 0 => NoneUntried(b))
      BY <3>1, <3>2, BatchAt DEF Polling
    <3>4. CASE batch.idle >= MaxIdleRuns
      BY <3>2, <3>3, <3>4, NoneApart DEF NoneUntried
    <3>5. CASE batch.polls >= MaxRuns(b)
      BY <3>2, <3>3, <3>5
    <3> QED
      BY <3>1, <3>2, <3>4, <3>5 DEF GivesUp
  <2> QED
    BY <2>1, <2>2, <2>3
<1>2. ASSUME ReplayInv, [Next]_vars
      PROVE  [reports' # reports =>
                \/ \A j \in JobsOf(batch.no) : ~Untried(j)
                \/ batch.polls = MaxRuns(batch.no)]_vars
  BY <1>1, <1>2 DEF vars, files
<1>3. ReplayInv /\ [Next]_vars =>
        [reports' # reports =>
           \/ \A j \in JobsOf(batch.no) : ~Untried(j)
           \/ batch.polls = MaxRuns(batch.no)]_vars
  BY <1>2
<1> QED
  BY <1>3, ReplayHolds, PTL DEF Spec, UntriedOnlyAfterAllPolls

-----------------------------------------------------------------------------
(* The changes of a comparison add up *)

First(s) == CHOOSE x \in s : TRUE

(* The fold of the model, as the recursive function it stands for. *)
Adds(d, g) ==
  g = [s \in SUBSET DOMAIN d |->
         IF s = {} THEN 0 ELSE d[First(s)].total + g[s \ {First(s)}]]

LEMMA TotalUnfolds ==
  ASSUME NEW d
  PROVE  TotalOf(d) = (CHOOSE g : Adds(d, g))[DOMAIN d]
BY DEF TotalOf, FoldSet, MapThenFoldSet, Adds, First

(* Results are counted by the values of a field: one value at a time. *)
In(R, field, s) == {r \in R : r[field] \in s}
Having(R, field, key) == {r \in R : r[field] = key}

LEMMA CountOne ==
  ASSUME NEW R, IsFiniteSet(R), NEW field, NEW s, NEW key \in s
  PROVE  /\ Cardinality(In(R, field, s)) \in Nat
         /\ Cardinality(Having(R, field, key)) \in Nat
         /\ Cardinality(In(R, field, s \ {key})) \in Nat
         /\ Cardinality(In(R, field, s))
              = Cardinality(Having(R, field, key)) + Cardinality(In(R, field, s \ {key}))
<1>1. /\ In(R, field, s) \subseteq R /\ Having(R, field, key) \subseteq R
      /\ In(R, field, s \ {key}) \subseteq R
      /\ In(R, field, s) = Having(R, field, key) \union In(R, field, s \ {key})
      /\ Having(R, field, key) \intersect In(R, field, s \ {key}) = {}
  BY DEF In, Having
<1>2. /\ IsFiniteSet(In(R, field, s)) /\ IsFiniteSet(Having(R, field, key))
      /\ IsFiniteSet(In(R, field, s \ {key}))
  BY <1>1, FS_Subset
<1>3. /\ Cardinality(In(R, field, s)) \in Nat /\ Cardinality(Having(R, field, key)) \in Nat
      /\ Cardinality(In(R, field, s \ {key})) \in Nat
  BY <1>2, FS_CardinalityType
<1>4. Cardinality(In(R, field, s))
        = Cardinality(Having(R, field, key)) + Cardinality(In(R, field, s \ {key}))
            - Cardinality({})
  BY <1>1, <1>2, FS_Union
<1> QED
  BY <1>3, <1>4, FS_EmptySet

(***************************************************************************)
(* The deltas of the values of a field add up to the difference of the two *)
(* sets of results: the count over a set of values satisfies the equation  *)
(* of the fold, and nothing else does (a smallest set on which another     *)
(* function differs would have a smaller one).                             *)
(***************************************************************************)
LEMMA DeltasAddUp ==
  ASSUME NEW d, NEW P, NEW Q, NEW field,
         IsFiniteSet(P), IsFiniteSet(Q), IsFiniteSet(DOMAIN d),
         \A key \in DOMAIN d :
           d[key].total
             = Cardinality(Having(P, field, key)) - Cardinality(Having(Q, field, key)),
         \A r \in P \union Q : r[field] \in DOMAIN d
  PROVE  TotalOf(d) = Cardinality(P) - Cardinality(Q)
<1> DEFINE D == DOMAIN d
<1> DEFINE Count(s) == Cardinality(In(P, field, s)) - Cardinality(In(Q, field, s))
<1> DEFINE h == [s \in SUBSET D |-> Count(s)]
<1>1. Count({}) = 0
  <2>1. In(P, field, {}) = {} /\ In(Q, field, {}) = {}
    BY DEF In
  <2>2. Cardinality({}) = 0
    BY FS_EmptySet
  <2> QED
    BY <2>1, <2>2
<1>2. ASSUME NEW s \in SUBSET D, s # {}
      PROVE  /\ First(s) \in s /\ s \ {First(s)} \in SUBSET D
             /\ Count(s) = d[First(s)].total + Count(s \ {First(s)})
  <2>1. PICK x : x = First(s)
    OBVIOUS
  <2>2. x \in s
    BY <1>2, <2>1 DEF First
  <2>3. Count(s) = d[x].total + Count(s \ {x})
    <3>1. d[x].total = Cardinality(Having(P, field, x)) - Cardinality(Having(Q, field, x))
      BY <2>2
    <3>2. /\ Cardinality(In(P, field, s)) \in Nat /\ Cardinality(Having(P, field, x)) \in Nat
          /\ Cardinality(In(P, field, s \ {x})) \in Nat
          /\ Cardinality(In(P, field, s))
               = Cardinality(Having(P, field, x)) + Cardinality(In(P, field, s \ {x}))
      BY <2>2, CountOne
    <3>3. /\ Cardinality(In(Q, field, s)) \in Nat /\ Cardinality(Having(Q, field, x)) \in Nat
          /\ Cardinality(In(Q, field, s \ {x})) \in Nat
          /\ Cardinality(In(Q, field, s))
               = Cardinality(Having(Q, field, x)) + Cardinality(In(Q, field, s \ {x}))
      BY <2>2, CountOne
    <3> QED
      BY <3>1, <3>2, <3>3
  <2> QED
    BY <2>1, <2>2, <2>3
<1> HIDE DEF Count
<1>3. Adds(d, h)
  <2>1. \A s \in SUBSET D :
          h[s] = IF s = {} THEN 0 ELSE d[First(s)].total + h[s \ {First(s)}]
    BY <1>1, <1>2
  <2> QED
    BY <2>1 DEF Adds
<1>4. ASSUME NEW g, Adds(d, g), g[D] # h[D] PROVE FALSE
  <2> DEFINE Less == {p \in Nat \X Nat : p[1] < p[2]}
  <2> DEFINE Sizes == {Cardinality(s) : s \in {s \in SUBSET D : g[s] # h[s]}}
  <2>1. \A s \in SUBSET D : IsFiniteSet(s) /\ Cardinality(s) \in Nat
    BY FS_Subset, FS_CardinalityType
  <2>2. Sizes \subseteq Nat /\ Sizes # {}
    <3> HIDE DEF h
    <3> QED
      BY <1>4, <2>1
  <2>3. PICK n \in Sizes : \A i \in Sizes : <<i, n>> \notin Less
    <3>1. IsWellFoundedOn(Less, Nat)
      <4>1. Less = OpToRel(<, Nat)
        BY DEF OpToRel
      <4> QED
        BY <4>1, NatLessThanWellFounded
    <3> HIDE DEF Less, Sizes
    <3> QED
      BY <2>2, <3>1, WFMin
  <2>4. PICK s \in SUBSET D : n = Cardinality(s) /\ g[s] # h[s]
    OBVIOUS
  <2>5. g[s] = IF s = {} THEN 0 ELSE d[First(s)].total + g[s \ {First(s)}]
    BY <1>4 DEF Adds
  <2>6. s # {}
    BY <1>1, <2>4, <2>5
  <2>7. PICK t \in SUBSET D : t = s \ {First(s)}
    BY <1>2, <2>6
  <2>8. g[t] = h[t]
    <3>1. Cardinality(t) \in Nat /\ Cardinality(s) \in Nat
          /\ Cardinality(t) = Cardinality(s) - 1
      BY <1>2, <2>1, <2>6, <2>7, FS_RemoveElement
    <3>2. <<Cardinality(t), n>> \in Less
      BY <2>4, <3>1
    <3>3. Cardinality(t) \notin Sizes
      BY <2>3, <3>2
    <3> QED
      BY <3>3
  <2> QED
    BY <1>2, <2>4, <2>5, <2>6, <2>7, <2>8
<1>5. TotalOf(d) = h[D]
  <2> HIDE DEF h
  <2>1. Adds(d, CHOOSE g : Adds(d, g))
    BY <1>3
  <2> QED
    BY <1>4, <2>1, TotalUnfolds
<1>6. h[D] = Cardinality(P) - Cardinality(Q)
  <2>1. In(P, field, D) = P /\ In(Q, field, D) = Q
    BY DEF In
  <2> QED
    BY <2>1 DEF Count
<1> QED
  BY <1>5, <1>6

LEMMA SliceTotal ==
  ASSUME NEW R, NEW field, NEW key
  PROVE  SliceAt(By(R, field), key).total = Cardinality(Having(R, field, key))
<1>1. DOMAIN By(R, field) = {r[field] : r \in R}
  BY DEF By
<1>2. CASE key \in {r[field] : r \in R}
  <2>1. SliceAt(By(R, field), key) = Slice(Having(R, field, key))
    BY <1>1, <1>2 DEF SliceAt, By, Having
  <2> QED
    BY <2>1 DEF Slice
<1>3. CASE key \notin {r[field] : r \in R}
  <2>1. SliceAt(By(R, field), key) = Slice({}) /\ Having(R, field, key) = {}
    BY <1>1, <1>3 DEF SliceAt, Having
  <2> QED
    BY <2>1 DEF Slice
<1> QED
  BY <1>2, <1>3

LEMMA ValuesFinite ==
  ASSUME NEW R, NEW field, IsFiniteSet(R)
  PROVE  IsFiniteSet({r[field] : r \in R})
<1> DEFINE value == [r \in R |-> r[field]]
<1>1. value \in Surjection(R, {r[field] : r \in R})
  BY DEF Surjection
<1> QED
  BY <1>1, FS_Surjection

LEMMA RecordsAddUp ==
  ASSUME NEW P, NEW Q, NEW field, IsFiniteSet(P), IsFiniteSet(Q)
  PROVE  TotalOf(DiffRecords(By(Q, field), By(P, field))) = Cardinality(P) - Cardinality(Q)
<1> DEFINE d == DiffRecords(By(Q, field), By(P, field))
<1>1. DOMAIN d = {r[field] : r \in Q} \union {r[field] : r \in P}
  BY DEF DiffRecords, By
<1>2. IsFiniteSet(DOMAIN d)
  <2>1. IsFiniteSet({r[field] : r \in Q}) /\ IsFiniteSet({r[field] : r \in P})
    BY ValuesFinite
  <2> HIDE DEF d
  <2> QED
    BY <1>1, <2>1, FS_Union
<1>3. ASSUME NEW key \in DOMAIN d
      PROVE  d[key].total
               = Cardinality(Having(P, field, key)) - Cardinality(Having(Q, field, key))
  <2>1. d[key] = DiffSlices(SliceAt(By(Q, field), key), SliceAt(By(P, field), key))
    BY <1>3 DEF DiffRecords
  <2> HIDE DEF d
  <2> QED
    BY <2>1, SliceTotal DEF DiffSlices
<1>4. \A r \in P \union Q : r[field] \in DOMAIN d
  BY <1>1
<1> HIDE DEF d
<1> QED
  BY <1>2, <1>3, <1>4, DeltasAddUp DEF d

-----------------------------------------------------------------------------
(* The comparisons *)

FromResults(b) ==
  /\ reports[b].fixtureIds = FixturesOf[b]
  /\ \E R : IsFiniteSet(R) /\ reports[b].quality = QualityReport(R)

Reported(b) ==
  \/ reports[b] # None \/ comparisons[b] # None
  \/ b = batch.no /\ batch.step = "compare"

ComparisonsInv ==
  /\ ComparisonsInOrder
  /\ \A b \in Batches : Reported(b) => FromResults(b)

LEMMA LatestIn ==
  ASSUME NEW b \in Batches, Earlier(b) # {}
  PROVE  Max(Earlier(b)) \in Batches /\ reports[Max(Earlier(b))] # None
         /\ Max(Earlier(b)) < b
<1>1. Earlier(b) \subseteq 1..MaxBatches
  BY DEF Earlier, Written, Batches
<1>2. Max(Earlier(b)) \in Earlier(b)
  BY <1>1, MaxWritten, NoneApart
<1> QED
  BY <1>2 DEF Earlier, Written

(* A comparison of two sets of results loses none of them. *)
LEMMA ComparedWhole ==
  ASSUME NEW b \in Batches, NEW p \in Batches, FromResults(b), FromResults(p)
  PROVE  LET c == Comparison(p, b)
         IN  /\ c.baseline = p
             /\ c.shared \union c.candidateOnly = FixturesOf[b]
             /\ c.shared \union c.baselineOnly = FixturesOf[p]
             /\ c.overall.total = reports[b].quality.overall.total
                                    - reports[p].quality.overall.total
             /\ TotalOf(c.byMarket) = c.overall.total
             /\ TotalOf(c.byTimeframe) = c.overall.total
<1> DEFINE c == Comparison(p, b)
<1>1. PICK P : IsFiniteSet(P) /\ reports[b].quality = QualityReport(P)
  BY DEF FromResults
<1>2. PICK Q : IsFiniteSet(Q) /\ reports[p].quality = QualityReport(Q)
  BY DEF FromResults
<1>3. /\ c.baseline = p
      /\ c.shared = FixturesOf[p] \intersect FixturesOf[b]
      /\ c.baselineOnly = FixturesOf[p] \ FixturesOf[b]
      /\ c.candidateOnly = FixturesOf[b] \ FixturesOf[p]
      /\ c.overall = DiffSlices(Slice(Q), Slice(P))
      /\ c.byMarket = DiffRecords(By(Q, "market"), By(P, "market"))
      /\ c.byTimeframe = DiffRecords(By(Q, "timeframe"), By(P, "timeframe"))
  BY <1>1, <1>2 DEF Comparison, FromResults, QualityReport
<1>4. /\ reports[b].quality.overall.total = Cardinality(P)
      /\ reports[p].quality.overall.total = Cardinality(Q)
  BY <1>1, <1>2 DEF QualityReport, Slice
<1> HIDE DEF c
<1>5. c.overall.total = Cardinality(P) - Cardinality(Q)
  BY <1>3 DEF DiffSlices, Slice
<1>6. /\ TotalOf(c.byMarket) = Cardinality(P) - Cardinality(Q)
      /\ TotalOf(c.byTimeframe) = Cardinality(P) - Cardinality(Q)
  BY <1>1, <1>2, <1>3, RecordsAddUp
<1> QED
  BY <1>3, <1>4, <1>5, <1>6 DEF c

LEMMA ComparisonsMean == ComparisonsInv => ComparisonWhole
<1> SUFFICES ASSUME ComparisonsInv, NEW b \in Batches, comparisons[b] # None
             PROVE  LET c == comparisons[b]
                        Results(r) == reports[r].quality.overall.total
                    IN  /\ c.baseline = Max({r \in Written : r < b})
                        /\ c.shared \union c.candidateOnly = FixturesOf[b]
                        /\ c.shared \union c.baselineOnly = FixturesOf[c.baseline]
                        /\ c.overall.total = Results(b) - Results(c.baseline)
                        /\ TotalOf(c.byMarket) = c.overall.total
                        /\ TotalOf(c.byTimeframe) = c.overall.total
  BY DEF ComparisonWhole
<1>1. Earlier(b) # {} /\ comparisons[b] = Comparison(Max(Earlier(b)), b)
  BY DEF ComparisonsInv, ComparisonsInOrder
<1>2. PICK p : p = Max(Earlier(b))
  OBVIOUS
<1>3. p \in Batches /\ reports[p] # None
  BY <1>1, <1>2, LatestIn
<1>4. FromResults(b) /\ FromResults(p)
  BY <1>3 DEF ComparisonsInv, Reported
<1>5. p = Max({r \in Written : r < b})
  BY <1>2 DEF Earlier
<1>6. PICK c : c = comparisons[b]
  OBVIOUS
<1>7. /\ c.baseline = p
      /\ c.shared \union c.candidateOnly = FixturesOf[b]
      /\ c.shared \union c.baselineOnly = FixturesOf[p]
      /\ c.overall.total = reports[b].quality.overall.total - reports[p].quality.overall.total
      /\ TotalOf(c.byMarket) = c.overall.total
      /\ TotalOf(c.byTimeframe) = c.overall.total
  <2>1. c = Comparison(p, b)
    BY <1>1, <1>2, <1>6
  <2> QED
    BY <1>3, <1>4, <2>1, ComparedWhole
<1> QED
  BY <1>5, <1>6, <1>7

LEMMA ComparisonsInit == Init => ComparisonsInv
<1> SUFFICES ASSUME Init PROVE ComparisonsInv
  OBVIOUS
<1>1. /\ \A b \in Batches : comparisons[b] = None /\ reports[b] = None
      /\ DOMAIN comparisons = Batches /\ batch.step = "ended"
  BY DEF Init
<1> QED
  BY <1>1 DEF ComparisonsInv, ComparisonsInOrder, Reported

(* A step that writes no report and no comparison. *)
LEMMA ComparisonsStay ==
  ASSUME ComparisonsInv, UNCHANGED <<reports, comparisons>>,
         batch'.no = batch.no, batch'.previous = batch.previous,
         batch'.step # "ended" => batch.step # "ended",
         batch'.step = "compare" => batch.step = "compare"
  PROVE  ComparisonsInv'
<1>1. ASSUME NEW b PROVE Earlier(b)' = Earlier(b)
  BY DEF Earlier, Written
<1>2. ASSUME NEW b PROVE FromResults(b)' <=> FromResults(b)
  BY DEF FromResults
<1>3. ASSUME NEW b, NEW p PROVE Comparison(p, b)' = Comparison(p, b)
  BY DEF Comparison
<1>4. ComparisonsInOrder'
  <2>1. PICK n : n = batch.no
    OBVIOUS
  <2>2. /\ DOMAIN comparisons = Batches
        /\ batch.step # "ended" =>
             /\ batch.previous = IF Earlier(n) = {} THEN 0 ELSE Max(Earlier(n))
             /\ comparisons[n] = None
        /\ \A b \in Batches : comparisons[b] # None =>
             /\ b <= n /\ Earlier(b) # {}
             /\ comparisons[b] = Comparison(Max(Earlier(b)), b)
    BY <2>1 DEF ComparisonsInv, ComparisonsInOrder
  <2>3. Earlier(batch.no)' = Earlier(n)
    <3>1. Earlier(batch.no)' = Earlier(n)'
      BY <2>1
    <3> QED
      BY <1>1, <3>1
  <2>4. ASSUME NEW b \in Batches
        PROVE  Comparison(Max(Earlier(b)), b)' = Comparison(Max(Earlier(b)), b)
    BY <1>1 DEF Comparison
  <2> QED
    BY <1>1, <2>1, <2>2, <2>3, <2>4 DEF ComparisonsInOrder
<1>5. \A b \in Batches : Reported(b)' => Reported(b)
  BY DEF Reported
<1> QED
  BY <1>2, <1>4, <1>5 DEF ComparisonsInv

LEMMA StartCompares ==
  ASSUME ReplayInv, ComparisonsInv, StartBatch
  PROVE  ComparisonsInv'
<1>1. PICK n \in Nat : n = batch.no
  BY Parts, BatchShape, NoneApart
<1>2. /\ batch' = [no |-> n + 1, step |-> "enqueue", polls |-> 0, idle |-> 0,
                   previous |-> IF Written = {} THEN 0 ELSE Max(Written)]
      /\ UNCHANGED <<reports, comparisons>>
  BY <1>1 DEF StartBatch, files
<1>3. Earlier(n + 1) = Written /\ \A b : Earlier(b)' = Earlier(b)
  <2>1. \A b \in Batches : b \in Nat /\ (reports[b] # None => ~(b > n))
    BY <1>1, Parts, NoneApart DEF ReportsInv, ExitsInOrder, Batches
  <2>2. \A b \in Written : b < n + 1
    BY <1>1, <2>1 DEF Written
  <2>3. Earlier(n + 1) = Written
    BY <2>2 DEF Earlier
  <2> QED
    BY <1>2, <2>3 DEF Earlier, Written
<1>4. ComparisonsInOrder'
  <2>1. /\ DOMAIN comparisons = Batches
        /\ \A b \in Batches : comparisons[b] # None =>
             /\ b <= n /\ Earlier(b) # {}
             /\ comparisons[b] = Comparison(Max(Earlier(b)), b)
    BY <1>1 DEF ComparisonsInv, ComparisonsInOrder
  <2>2. n + 1 \in Batches
    BY <1>1, NoneApart DEF StartBatch, Batches
  <2>3. comparisons[n + 1] = None
    BY <1>1, <2>1, <2>2
  <2>4. \A b \in Batches : Comparison(Max(Earlier(b)), b)' = Comparison(Max(Earlier(b)), b)
    BY <1>2, <1>3 DEF Comparison
  <2>5. /\ batch'.no = n + 1
        /\ batch'.previous = IF Earlier(n + 1) = {} THEN 0 ELSE Max(Earlier(n + 1))
    BY <1>2, <1>3
  <2>6. Earlier(batch.no)' = Earlier(n + 1)
    BY <1>2, <2>5 DEF Earlier, Written
  <2>7. \A b \in Batches : b <= n => b <= n + 1
    BY <1>1 DEF Batches
  <2> QED
    BY <1>2, <1>3, <2>1, <2>3, <2>4, <2>5, <2>6, <2>7 DEF ComparisonsInOrder
<1>5. \A b \in Batches : (Reported(b)' => Reported(b)) /\ (FromResults(b)' <=> FromResults(b))
  BY <1>2 DEF Reported, FromResults
<1> QED
  BY <1>4, <1>5 DEF ComparisonsInv

(* A report that is written changes nothing a comparison was made from. *)
LEMMA WriteCompares ==
  ASSUME ReplayInv, ComparisonsInv, WriteReport, batch.step \in Polling
  PROVE  ComparisonsInv'
<1>1. PICK n \in Batches : n = batch.no
  BY Parts, BatchAt DEF Polling
<1>2. PICK report : report = BatchReport(n)
  OBVIOUS
<1>3. /\ reports' = [reports EXCEPT ![n] = report] /\ UNCHANGED comparisons
      /\ batch' = [batch EXCEPT !.step = "compare", !.polls = 0, !.idle = 0]
  BY <1>1, <1>2 DEF WriteReport
<1>4. /\ batch'.no = n /\ batch'.previous = batch.previous /\ batch.step # "ended"
  BY <1>1, <1>3, Parts, BatchShape DEF Polling
<1>5. /\ DOMAIN comparisons = Batches
      /\ batch.previous = IF Earlier(n) = {} THEN 0 ELSE Max(Earlier(n))
      /\ comparisons[n] = None
      /\ \A b \in Batches : comparisons[b] # None =>
           /\ b <= n /\ Earlier(b) # {}
           /\ comparisons[b] = Comparison(Max(Earlier(b)), b)
  BY <1>1, <1>4 DEF ComparisonsInv, ComparisonsInOrder
<1>6. /\ \A b \in Batches : b # n => reports'[b] = reports[b]
      /\ \A b \in Batches : b <= n => Earlier(b)' = Earlier(b)
  <2>1. \A b \in Batches : b # n => reports'[b] = reports[b]
    BY <1>3
  <2> QED
    BY <2>1, NoneApart DEF Earlier, Written, Batches
<1>7. ComparisonsInOrder'
  <2> SUFFICES ASSUME NEW b \in Batches, comparisons[b] # None
               PROVE  /\ b <= n /\ Earlier(b)' # {}
                      /\ comparisons[b] = Comparison(Max(Earlier(b)), b)'
    <3>1. Earlier(batch.no)' = Earlier(n)
      <4>1. Earlier(batch.no)' = Earlier(n)'
        BY <1>4 DEF Earlier, Written
      <4>2. n <= n
        BY DEF Batches
      <4> QED
        BY <1>6, <4>1, <4>2
    <3> QED
      BY <1>3, <1>4, <1>5, <3>1 DEF ComparisonsInOrder
  <2>1. b <= n /\ Earlier(b) # {} /\ comparisons[b] = Comparison(Max(Earlier(b)), b)
    BY <1>5
  <2>2. b # n /\ b < n
    BY <1>5, <2>1 DEF Batches
  <2>3. PICK p : p = Max(Earlier(b))
    OBVIOUS
  <2>4. p \in Batches /\ p # n
    BY <2>1, <2>2, <2>3, LatestIn DEF Batches
  <2>5. Comparison(p, b)' = Comparison(p, b)
    BY <1>6, <2>2, <2>4 DEF Comparison
  <2>6. Comparison(Max(Earlier(b)), b)' = Comparison(p, b)'
    BY <1>6, <2>1, <2>3 DEF Comparison
  <2> QED
    BY <1>6, <2>1, <2>3, <2>5, <2>6
<1>8. ASSUME NEW b \in Batches, Reported(b)' PROVE FromResults(b)'
  <2>1. CASE b = n
    <3>1. reports'[b] = report
      BY <1>3, <2>1, Parts DEF ReportsInv
    <3>2. report.fixtureIds = FixturesOf[b]
      BY <1>2, <2>1 DEF BatchReport
    <3>3. \E R : IsFiniteSet(R) /\ report.quality = QualityReport(R)
      <4> DEFINE C == InStatus(b, {"completed"})
      <4> DEFINE R == {result[j] : j \in C}
      <4>1. report.quality = QualityReport(R)
        BY <1>2, <2>1 DEF BatchReport
      <4>2. IsFiniteSet(C)
        BY JobNames, FS_Subset DEF InStatus
      <4>3. IsFiniteSet(R)
        <5> DEFINE ref == [j \in C |-> result[j]]
        <5> HIDE DEF C
        <5>1. ref \in Surjection(C, R)
          BY DEF Surjection
        <5> QED
          BY <4>2, <5>1, FS_Surjection
      <4> QED
        BY <4>1, <4>3
    <3> QED
      BY <3>1, <3>2, <3>3 DEF FromResults
  <2>2. CASE b # n
    <3>1. Reported(b)
      BY <1>3, <1>4, <1>6, <1>8, <2>2 DEF Reported
    <3> QED
      BY <1>6, <2>2, <3>1 DEF ComparisonsInv, FromResults
  <2> QED
    BY <2>1, <2>2
<1> QED
  BY <1>7, <1>8 DEF ComparisonsInv

LEMMA CompareCompares ==
  ASSUME ReplayInv, ComparisonsInv, CompareAndExit
  PROVE  ComparisonsInv'
<1>1. PICK n \in Batches : n = batch.no
  BY Parts, BatchAt DEF CompareAndExit
<1>2. PICK p : p = batch.previous
  OBVIOUS
<1>3. /\ batch.step = "compare" /\ reports' = reports
      /\ comparisons' = IF p = 0 THEN comparisons
                        ELSE [comparisons EXCEPT ![n] = Comparison(p, n)]
      /\ batch' = [batch EXCEPT !.step = "ended"]
  BY <1>1, <1>2 DEF CompareAndExit, Goto
<1>4. batch'.no = n /\ batch'.step = "ended"
  BY <1>1, <1>3, Parts, BatchShape
<1>5. /\ DOMAIN comparisons = Batches
      /\ p = IF Earlier(n) = {} THEN 0 ELSE Max(Earlier(n))
      /\ \A b \in Batches : comparisons[b] # None =>
           /\ b <= n /\ Earlier(b) # {}
           /\ comparisons[b] = Comparison(Max(Earlier(b)), b)
  BY <1>1, <1>2, <1>3 DEF ComparisonsInv, ComparisonsInOrder
<1>6. /\ \A b : Earlier(b)' = Earlier(b)
      /\ \A b \in Batches : FromResults(b)' <=> FromResults(b)
  BY <1>3 DEF Earlier, Written, FromResults
<1>7. \A b \in Batches : Comparison(Max(Earlier(b)), b)' = Comparison(Max(Earlier(b)), b)
  BY <1>3, <1>6 DEF Comparison
<1>8. ASSUME NEW b \in Batches, comparisons'[b] # None
      PROVE  /\ b <= n /\ Earlier(b) # {}
             /\ comparisons'[b] = Comparison(Max(Earlier(b)), b)
  <2>1. CASE b = n /\ p # 0
    BY <1>3, <1>5, <2>1 DEF Batches
  <2>2. CASE b # n \/ p = 0
    BY <1>3, <1>5, <1>8, <2>2
  <2> QED
    BY <2>1, <2>2
<1>9. ComparisonsInOrder'
  <2>1. DOMAIN comparisons' = Batches
    BY <1>3, <1>5
  <2> QED
    BY <1>4, <1>6, <1>7, <1>8, <2>1 DEF ComparisonsInOrder
<1>10. \A b \in Batches : Reported(b)' => Reported(b)
  BY <1>1, <1>3, <1>4 DEF Reported
<1> QED
  BY <1>6, <1>9, <1>10 DEF ComparisonsInv

LEMMA ComparisonsNext ==
  ReplayInv /\ ComparisonsInv /\ [Next]_vars => ComparisonsInv'
<1> SUFFICES ASSUME ReplayInv, ComparisonsInv, [Next]_vars PROVE ComparisonsInv'
  OBVIOUS
<1>1. BatchInv
  BY Parts
<1>2. CASE StartBatch
  BY <1>2, StartCompares
<1>3. CASE ReportSettled \/ ReportUnsettled
  BY <1>3, WriteCompares DEF ReportSettled, ReportUnsettled, Polling
<1>4. CASE CompareAndExit
  BY <1>4, CompareCompares
<1>5. CASE \/ BeginPolling \/ PollIdle \/ GoOnPolling
           \/ \E j \in Jobs : PollClaims(j)
  <2>1. batch.step # "ended" /\ UNCHANGED <<reports, comparisons>>
    BY <1>5 DEF BeginPolling, Enqueued, PollIdle, GoOnPolling, PollClaims, files
  <2>2. batch'.no = batch.no /\ batch'.previous = batch.previous /\ batch'.step # "compare"
    BY <1>1, <1>5, BatchShape DEF BeginPolling, PollIdle, GoOnPolling, PollClaims, Goto
  <2> QED
    BY <2>1, <2>2, ComparisonsStay
<1>6. ASSUME NEW w \in Holders, RunJob(w) PROVE ComparisonsInv'
  <2>1. CASE CompleteJob(w) \/ ReportJobFailure(w)
    <3>1. Return(w) /\ worker[w].step # "idle" /\ UNCHANGED <<reports, comparisons>>
      BY <2>1 DEF CompleteJob, ReportJobFailure, Return, files
    <3>2. w = BatchWorker => batch.step = "run"
      BY <1>1, <3>1, BatchShape
    <3>3. /\ batch'.no = batch.no /\ batch'.previous = batch.previous
          /\ batch'.step # "ended" => batch.step # "ended"
          /\ batch'.step = "compare" => batch.step = "compare"
      BY <1>1, <3>1, <3>2, BatchShape DEF Return
    <3> QED
      BY <3>1, <3>3, ComparisonsStay
  <2>2. CASE LockLost(w) \/ Crash(w)
    <3>1. EndProcess(w) /\ UNCHANGED <<reports, comparisons>>
      BY <2>2 DEF LockLost, Crash, EndProcess
    <3>2. /\ batch'.no = batch.no /\ batch'.previous = batch.previous
          /\ batch'.step # "ended" => batch.step # "ended"
          /\ batch'.step = "compare" => batch.step = "compare"
      BY <1>1, <3>1, BatchShape DEF EndProcess
    <3> QED
      BY <3>1, <3>2, ComparisonsStay
  <2>3. CASE \/ \E j \in Jobs : HermesClaims(w, j)
             \/ ReplaySucceeds(w) \/ ReplayFails(w) \/ HandlerThrows(w)
    <3>1. UNCHANGED <<batch, reports, comparisons>>
      BY <2>3 DEF HermesClaims, ReplaySucceeds, ReplayFails, RecordRun, HandlerThrows, files
    <3> QED
      BY <3>1, ComparisonsStay
  <2> QED
    BY <1>6, <2>1, <2>2, <2>3 DEF RunJob
<1>7. CASE \/ UNCHANGED vars
           \/ \E j \in Jobs : EnqueueFixture(j) \/ BackoffEnds(j) \/ LockExpires(j)
  <2>1. UNCHANGED <<batch, reports, comparisons>>
    BY <1>7 DEF EnqueueFixture, BackoffEnds, LockExpires, vars, files
  <2> QED
    BY <2>1, ComparisonsStay
<1> QED
  BY <1>2, <1>3, <1>4, <1>5, <1>6, <1>7 DEF Next, RunBatch

(***************************************************************************)
(* A comparison is with the latest report before its batch and loses no    *)
(* result of either: the changes in each market, and in each timeframe,    *)
(* add up to the change over all, whatever the two fixture lists are.      *)
(***************************************************************************)
THEOREM ComparisonsLoseNothing == Spec => []ComparisonWhole
<1>1. Spec => [](ReplayInv /\ ComparisonsInv)
  BY ReplayInit, ReplayNext, ComparisonsInit, ComparisonsNext, PTL DEF Spec
<1> QED
  BY <1>1, ComparisonsMean, PTL

=============================================================================
