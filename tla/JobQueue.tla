------------------------------ MODULE JobQueue ------------------------------
(***************************************************************************)
(* The agent_jobs table (PostgresAgentJobRepository) and the Hermes worker *)
(* processes that poll it (AgentJobWorker).  Every repository call is one  *)
(* SQL statement or one transaction, so it is one action; a worker may be  *)
(* interrupted, overtaken or killed between any two of its calls.          *)
(*                                                                         *)
(* Timestamps are ticks of one clock.  A null locked_until is 0.  A worker *)
(* reads the clock and uses the value later, which is what the `now` of    *)
(* runOnce and the `failedAt` of processClaimedJob do.                     *)
(***************************************************************************)
EXTENDS Integers, FiniteSets

CONSTANTS
  Jobs,         \* idempotency keys
  Workers,      \* worker processes
  Ids,          \* values of HERMES_WORKER_ID
  WorkerId,     \* WorkerId[w]: the id process w writes to locked_by
  Accepts,      \* Accepts[w]: jobs that pass w's jobTypes and markets filters
  Handled,      \* jobs whose type has a registered handler
  Priority,     \* Priority[j]: smaller runs first
  MaxAttempts,  \* MaxAttempts[j]: max_attempts
  LockTtl,      \* HERMES_LOCK_TTL_SECONDS
  RetryBase,    \* DEFAULT_RETRY_BASE_MS
  RetryMax,     \* DEFAULT_RETRY_MAX_MS
  None          \* a null locked_by; no job

(***************************************************************************)
(* parsePositiveInt rejects a lock TTL below one.  The repository does not *)
(* validate max_attempts; every harness of the repository passes at least  *)
(* one.  RetryMax is at most 64 * RetryBase (300000 and 5000 in the        *)
(* source), which lets Backoff tabulate the powers of two it needs.        *)
(***************************************************************************)
ASSUME JobsAssumption == None \notin Jobs /\ None \notin Ids
ASSUME WorkersAssumption ==
  /\ WorkerId \in [Workers -> Ids]
  /\ Accepts \in [Workers -> SUBSET Jobs]
  /\ Handled \in SUBSET Jobs
ASSUME AttemptsAssumption ==
  /\ MaxAttempts \in [Jobs -> Nat \ {0}]
  /\ Priority \in [Jobs -> Nat]
ASSUME TimesAssumption ==
  /\ LockTtl \in Nat \ {0}
  /\ RetryBase \in Nat \ {0}
  /\ RetryMax \in Nat
  /\ RetryMax <= 64 * RetryBase

VARIABLES
  clock,   \* the current time
  job,     \* job[j]: the row of agent_jobs with idempotency key j
  worker,  \* worker[w]: where process w is in runOnce, and its local variables
  claims   \* history: how many times job j has been claimed

vars == <<clock, job, worker, claims>>

(***************************************************************************)
(* The status "timeout" of agentJobStatuses is never written by the code.  *)
(***************************************************************************)
JobStatus == {"absent", "pending", "running", "completed", "failed", "cancelled"}

JobRow == [status       : JobStatus,
           lockedBy     : Ids \union {None},
           lockedUntil  : Nat,
           attemptCount : Nat,
           runAfter     : Nat,
           createdAt    : Nat]

AbsentRow == [status |-> "absent", lockedBy |-> None, lockedUntil |-> 0,
              attemptCount |-> 0, runAfter |-> 0, createdAt |-> 0]

(***************************************************************************)
(* Where a worker process is: about to poll ("idle"), between `now` and    *)
(* requeueTimedOutJobs, before claimNextJob, in the handler or in front of *)
(* markJobCompleted ("handle"), before the read and before the update of   *)
(* reportJobFailure, or not running.                                       *)
(***************************************************************************)
Phase == {"idle", "requeue", "claim", "handle", "read", "write", "down"}

WorkerState == [phase : Phase,
                job   : Jobs \union {None},  \* the claimed job
                now   : Nat,    \* `now` of runOnce, later `failedAt`
                until : Nat,    \* lockedUntil of the claimed row
                seen  : Nat,    \* attemptCount that reportJobFailure read
                token : Nat]    \* history: the number of this claim

AtPhase(p) == [phase |-> p, job |-> None, now |-> 0, until |-> 0,
               seen |-> 0, token |-> 0]

TypeOK ==
  /\ clock \in Nat
  /\ job \in [Jobs -> JobRow]
  /\ worker \in [Workers -> WorkerState]
  /\ claims \in [Jobs -> Nat]

Init ==
  /\ clock = 0
  /\ job = [j \in Jobs |-> AbsentRow]
  /\ worker = [w \in Workers |-> AtPhase("idle")]
  /\ claims = [j \in Jobs |-> 0]

(***************************************************************************)
(* HERMES_WORKER_ID, or hermes-<pid>: what the process writes to locked_by. *)
(***************************************************************************)
LockIdFromSharedEnv(w) == CHOOSE i \in Ids : TRUE \* mutant: one .env for all
LockId(w) == WorkerId[w]

-----------------------------------------------------------------------------
(* Retry policy *)

Lesser(a, b) == IF a < b THEN a ELSE b

DoublingTable == <<1, 2, 4, 8, 16, 32, 64>>

(***************************************************************************)
(* baseMs * 2 ** (n - 1), capped at maxMs.                                 *)
(***************************************************************************)
Backoff(n) == Lesser(RetryMax, RetryBase * DoublingTable[Lesser(n, 7)])

(* Mutants of FailureRow: one attempt too many, a lock left behind, the    *)
(* declared but unused status "timeout", and no end to the retries.        *)
FailureRowOffByOne(j, seen, failedAt) ==
  [job[j] EXCEPT !.status = IF seen + 1 > MaxAttempts[j] THEN "failed" ELSE "pending",
                 !.attemptCount = seen + 1, !.runAfter = failedAt + Backoff(1),
                 !.lockedBy = None, !.lockedUntil = 0]
FailureRowKeepsLock(j, seen, failedAt) ==
  [job[j] EXCEPT !.status = IF seen + 1 >= MaxAttempts[j] THEN "failed" ELSE "pending",
                 !.attemptCount = seen + 1, !.runAfter = failedAt + Backoff(1)]
FailureRowTimeout(j, seen, failedAt) ==
  [job[j] EXCEPT !.status = "timeout", !.attemptCount = seen + 1,
                 !.runAfter = failedAt, !.lockedBy = None, !.lockedUntil = 0]

(***************************************************************************)
(* buildAgentJobFailureState for the attempt count the caller has read,    *)
(* as every caller writes it: with the lock cleared.                       *)
(***************************************************************************)
FailureRow(j, seen, failedAt) ==
  LET next == seen + 1
      exhausted == next >= MaxAttempts[j]
  IN  [job[j] EXCEPT
         !.status = IF exhausted THEN "failed" ELSE "pending",
         !.attemptCount = next,
         !.runAfter = IF exhausted THEN failedAt ELSE failedAt + Backoff(next),
         !.lockedBy = None,
         !.lockedUntil = 0]

-----------------------------------------------------------------------------
(* Enqueue and cancel: calls from other processes *)

EnqueueJobReplacing(j) == \* mutant: on conflict do update
  /\ job' = [job EXCEPT ![j] = [AbsentRow EXCEPT !.status = "pending",
                                               !.runAfter = clock,
                                               !.createdAt = clock]]
  /\ UNCHANGED <<clock, worker, claims>>

(***************************************************************************)
(* insert ... on conflict (idempotency_key) do nothing: a second enqueue   *)
(* of a key returns the existing row.                                      *)
(***************************************************************************)
EnqueueJob(j) ==
  /\ job' = IF job[j].status # "absent" THEN job
            ELSE [job EXCEPT ![j] = [AbsentRow EXCEPT !.status = "pending",
                                                      !.runAfter = clock,
                                                      !.createdAt = clock]]
  /\ UNCHANGED <<clock, worker, claims>>

(***************************************************************************)
(* cancelJob updates by id alone, whatever the status of the row.          *)
(***************************************************************************)
CancelJob(j) ==
  /\ job[j].status # "absent"
  /\ job' = [job EXCEPT ![j] = [@ EXCEPT !.status = "cancelled",
                                         !.lockedBy = None,
                                         !.lockedUntil = 0]]
  /\ UNCHANGED <<clock, worker, claims>>

-----------------------------------------------------------------------------
(* One turn of runOnce in process w *)

(***************************************************************************)
(* runOnce reads the clock once; the requeue and the claim both use it.    *)
(***************************************************************************)
StartPoll(w) ==
  /\ worker[w].phase = "idle"
  /\ worker' = [worker EXCEPT ![w] = [AtPhase("requeue") EXCEPT !.now = clock]]
  /\ UNCHANGED <<clock, job, claims>>

TimedOutNever(now) == {}                                   \* mutant
TimedOutEarly(now) == {j \in Jobs : job[j].status = "running"} \* mutant

TimedOut(now) ==
  {j \in Jobs : job[j].status = "running" /\ job[j].lockedUntil <= now}

RequeueTimedOutJobs(w) ==
  /\ worker[w].phase = "requeue"
  /\ LET now == worker[w].now
     IN  job' = [j \in Jobs |-> IF j \in TimedOut(now)
                                THEN FailureRow(j, job[j].attemptCount, now)
                                ELSE job[j]]
  /\ worker' = [worker EXCEPT ![w].phase = "claim"]
  /\ UNCHANGED <<clock, claims>>

Claimable(w) ==
  {j \in Accepts[w] : /\ job[j].status = "pending"
                      /\ job[j].runAfter <= worker[w].now
                      /\ job[j].lockedUntil <= worker[w].now}

(***************************************************************************)
(* order by priority, run_after, created_at; the database breaks ties.     *)
(***************************************************************************)
Before(i, j) ==
  \/ Priority[i] < Priority[j]
  \/ /\ Priority[i] = Priority[j]
     /\ \/ job[i].runAfter < job[j].runAfter
        \/ /\ job[i].runAfter = job[j].runAfter
           /\ job[i].createdAt < job[j].createdAt

(***************************************************************************)
(* claimNextJob.  processClaimedJob then calls the handler, or, for a type *)
(* with no handler, reads the clock and reports a failure.                 *)
(***************************************************************************)
ClaimNextJob(w) ==
  /\ worker[w].phase = "claim"
  /\ \E j \in Claimable(w) :
       /\ \A i \in Claimable(w) : ~Before(i, j)
       /\ LET until == worker[w].now + LockTtl
              handled == j \in Handled
          IN  /\ job' = [job EXCEPT ![j] = [@ EXCEPT !.status = "running",
                                                     !.lockedBy = LockId(w),
                                                     !.lockedUntil = until]]
              /\ worker' = [worker EXCEPT ![w] =
                   [phase |-> IF handled THEN "handle" ELSE "read",
                    job   |-> j,
                    now   |-> IF handled THEN 0 ELSE clock,
                    until |-> until,
                    seen  |-> 0,
                    token |-> claims[j] + 1]]
       /\ claims' = [claims EXCEPT ![j] = @ + 1]
  /\ UNCHANGED clock

(***************************************************************************)
(* No candidate: runOnce returns "idle" and the loop waits for the poll    *)
(* interval.                                                               *)
(***************************************************************************)
ClaimNothing(w) ==
  /\ worker[w].phase = "claim"
  /\ Claimable(w) = {}
  /\ worker' = [worker EXCEPT ![w] = AtPhase("idle")]
  /\ UNCHANGED <<clock, job, claims>>

OwnsUnfenced(w) == job[worker[w].job].status # "absent" \* mutant: where id = jobId

(***************************************************************************)
(* where id = jobId and locked_by = workerId: the only fence that          *)
(* markJobCompleted and reportJobFailure have.                             *)
(***************************************************************************)
Owns(w) == job[worker[w].job].lockedBy = LockId(w)

CompletedRow(j) ==
  [job[j] EXCEPT !.status = "completed", !.lockedBy = None, !.lockedUntil = 0]

(***************************************************************************)
(* The handler returns and markJobCompleted finds the worker's lock, even  *)
(* an expired one that nobody has requeued yet.                            *)
(***************************************************************************)
MarkJobCompleted(w) ==
  /\ worker[w].phase = "handle"
  /\ Owns(w)
  /\ job' = [job EXCEPT ![worker[w].job] = CompletedRow(worker[w].job)]
  /\ worker' = [worker EXCEPT ![w] = AtPhase("idle")]
  /\ UNCHANGED <<clock, claims>>

(***************************************************************************)
(* The try block of processClaimedJob throws and leaves the row as it is:  *)
(* the handler failed, markJobCompleted found no row, or the statement     *)
(* never reached the database.  The catch block reads the clock.           *)
(***************************************************************************)
HandlerFails(w) ==
  /\ worker[w].phase = "handle"
  /\ worker' = [worker EXCEPT ![w] = [@ EXCEPT !.phase = "read", !.now = clock]]
  /\ UNCHANGED <<clock, job, claims>>

(***************************************************************************)
(* markJobCompleted commits and its answer is lost: the catch block runs   *)
(* although the job is completed.                                          *)
(***************************************************************************)
CompletionAnswerLost(w) ==
  /\ worker[w].phase = "handle"
  /\ Owns(w)
  /\ job' = [job EXCEPT ![worker[w].job] = CompletedRow(worker[w].job)]
  /\ worker' = [worker EXCEPT ![w] = [@ EXCEPT !.phase = "read", !.now = clock]]
  /\ UNCHANGED <<clock, claims>>

(***************************************************************************)
(* reportJobFailure, first statement: read the row.  A worker that lost    *)
(* its lock throws out of runOnce and runUntilStopped, and the process     *)
(* ends.                                                                   *)
(***************************************************************************)
ReportFailureRead(w) ==
  /\ worker[w].phase = "read"
  /\ worker' = [worker EXCEPT ![w] =
       IF Owns(w)
       THEN [worker[w] EXCEPT !.phase = "write",
                              !.seen = job[worker[w].job].attemptCount]
       ELSE AtPhase("down")]
  /\ UNCHANGED <<clock, job, claims>>

(***************************************************************************)
(* reportJobFailure, second statement: write the state computed from the   *)
(* row that was read.                                                      *)
(***************************************************************************)
ReportFailureWrite(w) ==
  /\ worker[w].phase = "write"
  /\ job' = IF Owns(w)
            THEN [job EXCEPT ![worker[w].job] =
                    FailureRow(worker[w].job, worker[w].seen, worker[w].now)]
            ELSE job
  /\ worker' = [worker EXCEPT ![w] = AtPhase(IF Owns(w) THEN "idle" ELSE "down")]
  /\ UNCHANGED <<clock, claims>>

-----------------------------------------------------------------------------
(* The environment *)

(***************************************************************************)
(* The process ends at any await: a signal, a crash, or a database error   *)
(* outside the try block.  It holds nothing that survives it.              *)
(***************************************************************************)
Crash(w) ==
  /\ worker[w].phase # "down"
  /\ worker' = [worker EXCEPT ![w] = AtPhase("down")]
  /\ UNCHANGED <<clock, job, claims>>

Restart(w) ==
  /\ worker[w].phase = "down"
  /\ worker' = [worker EXCEPT ![w] = AtPhase("idle")]
  /\ UNCHANGED <<clock, job, claims>>

(***************************************************************************)
(* Time only matters to a lock or a backoff that has not run out, so the   *)
(* clock advances while there is one.  The attempts of a job bound how     *)
(* many deadlines it can set, which bounds the clock.                      *)
(***************************************************************************)
Deadlines ==
  {job[j].lockedUntil : j \in {i \in Jobs : job[i].status = "running"}} \union
  {job[j].runAfter : j \in {i \in Jobs : job[i].status = "pending"}}

Tick ==
  /\ \E t \in Deadlines : clock < t
  /\ clock' = clock + 1
  /\ UNCHANGED <<job, worker, claims>>

RunOnce(w) ==
  \/ StartPoll(w)
  \/ RequeueTimedOutJobs(w)
  \/ ClaimNextJob(w)
  \/ ClaimNothing(w)
  \/ MarkJobCompleted(w)
  \/ HandlerFails(w)
  \/ CompletionAnswerLost(w)
  \/ ReportFailureRead(w)
  \/ ReportFailureWrite(w)

Next ==
  \/ \E j \in Jobs : EnqueueJob(j) \/ CancelJob(j)
  \/ \E w \in Workers : RunOnce(w) \/ Crash(w) \/ Restart(w)
  \/ Tick

Spec == Init /\ [][Next]_vars

-----------------------------------------------------------------------------
(* Properties *)

Busy(w) == worker[w].phase \in {"handle", "read", "write"}

(***************************************************************************)
(* Two processes never share a worker id.  The default hermes-<pid> does   *)
(* not ensure it across containers, and HERMES_WORKER_ID can break it.     *)
(***************************************************************************)
DistinctIds == \A v, w \in Workers : WorkerId[v] = WorkerId[w] => v = w

(***************************************************************************)
(* A row is locked exactly while it runs, and its attempt count agrees     *)
(* with its status: a job that can still run has an attempt left, a failed *)
(* one has used them all.  (claimNextJob, markJobCompleted, cancelJob and  *)
(* the two writers of a failure state together.)                           *)
(***************************************************************************)
RowConsistent(r, max) ==
  /\ r.status = "running" <=> r.lockedBy # None
  /\ r.status # "running" => r.lockedUntil = 0
  /\ r.status \in {"pending", "running"} => r.attemptCount < max
  /\ r.status = "failed" => r.attemptCount = max
  /\ r.attemptCount <= max

LockConsistent == \A j \in Jobs : RowConsistent(job[j], MaxAttempts[j])

(***************************************************************************)
(* Every run of a job is charged to it exactly once, whoever requeues it   *)
(* or reports it and however late: a handler never starts more than        *)
(* MaxAttempts times.                                                      *)
(***************************************************************************)
AttemptsAccounted ==
  \A j \in Jobs :
    /\ claims[j] <= MaxAttempts[j]
    /\ job[j].status \in {"absent", "pending", "failed"} => claims[j] = job[j].attemptCount
    /\ job[j].status \in {"running", "completed"} => claims[j] = job[j].attemptCount + 1

(***************************************************************************)
(* Only the latest claim of a job passes the locked_by fence: a worker     *)
(* whose job was requeued and claimed again cannot complete or fail it.    *)
(***************************************************************************)
FencedOwnership ==
  \A w \in Workers : Busy(w) /\ Owns(w) => worker[w].token = claims[worker[w].job]

(***************************************************************************)
(* Before its lock expires a worker runs its job alone, although requeue   *)
(* and claim compare the lock with clock values read earlier.              *)
(***************************************************************************)
LeaseHeld(w) == Busy(w) /\ clock < worker[w].until

LeaseExclusive ==
  \A v, w \in Workers :
    LeaseHeld(v) /\ Busy(w) /\ worker[v].job = worker[w].job /\ v # w =>
      worker[v].token > worker[w].token

(***************************************************************************)
(* The inductive invariant behind the four properties above.  A worker     *)
(* that still passes the fence holds the values the row has; a worker with *)
(* an unexpired lock is fenced in, unless its job was settled by itself    *)
(* (the answer was lost) or cancelled.                                     *)
(***************************************************************************)
ClaimCurrent(w) ==
  LET r == job[worker[w].job]
      c == claims[worker[w].job]
  IN  /\ worker[w].job \in Jobs
      /\ worker[w].token <= c
      /\ Owns(w) => worker[w].token = c /\ worker[w].until = r.lockedUntil
      /\ Owns(w) /\ worker[w].phase = "write" => worker[w].seen = r.attemptCount
      /\ clock < worker[w].until =>
           /\ worker[w].token = c
           /\ Owns(w) \/ r.status \in {"completed", "cancelled"}

QueueInv ==
  /\ TypeOK
  /\ LockConsistent
  /\ AttemptsAccounted
  /\ \A j \in Jobs : job[j].status = "absent" => claims[j] = 0
  /\ \A w \in Workers : worker[w].now <= clock
  /\ \A w \in Workers : Busy(w) => ClaimCurrent(w)
  /\ \A v, w \in Workers :
       Busy(v) /\ Busy(w) /\ worker[v].job = worker[w].job /\ v # w =>
         worker[v].token # worker[w].token

(***************************************************************************)
(* A completed or failed job is not run again by a late answer, a requeue  *)
(* or a second enqueue of its key; only cancelJob still changes it.        *)
(***************************************************************************)
SettledIsFinal ==
  [][\A j \in Jobs : job[j].status \in {"completed", "failed"} =>
       job'[j].status \in {job[j].status, "cancelled"}]_vars

(***************************************************************************)
(* The queue implements the lifecycle that AgentJob promises.              *)
(***************************************************************************)
Lifecycle == INSTANCE AgentJob WITH
  status <- [j \in Jobs |-> job[j].status],
  attempts <- [j \in Jobs |-> job[j].attemptCount],
  holder <- [j \in Jobs |-> job[j].lockedBy],
  Holders <- Ids

ImplementsLifecycle == Lifecycle!JSpec

(***************************************************************************)
(* Fairness: a process that runs takes its next step, a handler returns or *)
(* throws, the service manager restarts a process that ended, and time     *)
(* passes.  Nobody need enqueue, cancel or crash, and crashes stop.        *)
(***************************************************************************)
Fairness ==
  /\ \A w \in Workers : WF_vars(RunOnce(w)) /\ WF_vars(Restart(w))
  /\ WF_vars(Tick)
  /\ <>[][\A w \in Workers : ~Crash(w)]_vars

FairSpec == Spec /\ Fairness

(***************************************************************************)
(* Every enqueued job is settled in the end, whichever worker dies while   *)
(* it holds the job: the expired lock is found by the next poll.           *)
(***************************************************************************)
Settled(j) == job[j].status \in {"completed", "failed", "cancelled"}

EventuallySettled == \A j \in Jobs : (job[j].status = "pending") ~> Settled(j)
=============================================================================
