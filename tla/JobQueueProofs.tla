--------------------------- MODULE JobQueueProofs ---------------------------
(***************************************************************************)
(* Proofs about JobQueue for every number of jobs and workers, every       *)
(* attempt limit and every lock TTL and backoff.                           *)
(***************************************************************************)
EXTENDS JobQueue, TLAPS

USE JobsAssumption, WorkersAssumption, AttemptsAssumption, TimesAssumption

(***************************************************************************)
(* A busy worker has a job: the typing of the rows needs it, because a     *)
(* worker writes to the row of its own job.                                *)
(***************************************************************************)
TypeInv == TypeOK /\ \A w \in Workers : Busy(w) => worker[w].job \in Jobs

LEMMA BackoffType == \A n \in Nat \ {0} : Backoff(n) \in Nat
<1> TAKE n \in Nat \ {0}
<1> DEFINE i == Lesser(n, 7)
<1>1. i \in 1..7
  BY DEF Lesser
<1>2. DoublingTable[i] \in Nat
  BY <1>1 DEF DoublingTable
<1>3. RetryBase * DoublingTable[i] \in Nat
  BY <1>2
<1> QED
  BY <1>3 DEF Backoff, Lesser

(***************************************************************************)
(* buildAgentJobFailureState returns a well formed row.                    *)
(***************************************************************************)
LEMMA FailureRowType ==
  ASSUME TypeOK, NEW j \in Jobs, NEW seen \in Nat, NEW failedAt \in Nat
  PROVE  FailureRow(j, seen, failedAt) \in JobRow
<1>1. job[j] \in JobRow
  BY DEF TypeOK
<1>2. /\ seen + 1 \in Nat \ {0}
      /\ failedAt + Backoff(seen + 1) \in Nat
  BY BackoffType
<1>3. (IF seen + 1 >= MaxAttempts[j] THEN failedAt ELSE failedAt + Backoff(seen + 1)) \in Nat
  BY <1>2
<1> QED
  BY <1>1, <1>2, <1>3 DEF FailureRow, JobRow, JobStatus

LEMMA CompletedRowType ==
  ASSUME TypeOK, NEW j \in Jobs
  PROVE  CompletedRow(j) \in JobRow
<1>1. job[j] \in JobRow
  BY DEF TypeOK
<1> QED
  BY <1>1 DEF CompletedRow, JobRow, JobStatus

LEMMA AtPhaseType == \A p \in Phase : AtPhase(p) \in WorkerState
BY DEF AtPhase, WorkerState

LEMMA TypeInit == Init => TypeInv
<1> SUFFICES ASSUME Init PROVE TypeInv
  OBVIOUS
<1>1. job \in [Jobs -> JobRow]
  BY DEF Init, AbsentRow, JobRow, JobStatus
<1>2. worker \in [Workers -> WorkerState]
  BY AtPhaseType DEF Init, Phase
<1> QED
  BY <1>1, <1>2 DEF Init, TypeInv, TypeOK, Busy, AtPhase

LEMMA TypeStep == TypeInv /\ [Next]_vars => TypeInv'
<1> SUFFICES ASSUME TypeInv, [Next]_vars PROVE TypeInv'
  OBVIOUS
<1> USE DEF TypeInv, TypeOK, Busy
<1>a. \A j \in Jobs : job[j] \in JobRow
  OBVIOUS
<1>b. \A w \in Workers : worker[w] \in WorkerState
  OBVIOUS
<1>1. ASSUME NEW j \in Jobs, EnqueueJob(j) PROVE TypeInv'
  <2>1. [AbsentRow EXCEPT !.status = "pending", !.runAfter = clock, !.createdAt = clock]
          \in JobRow
    BY DEF AbsentRow, JobRow, JobStatus
  <2> QED
    BY <1>1, <2>1 DEF EnqueueJob
<1>2. ASSUME NEW j \in Jobs, CancelJob(j) PROVE TypeInv'
  <2>1. [job[j] EXCEPT !.status = "cancelled", !.lockedBy = None, !.lockedUntil = 0]
          \in JobRow
    BY <1>a DEF JobRow, JobStatus
  <2> QED
    BY <1>2, <2>1 DEF CancelJob
<1>3. ASSUME NEW w \in Workers, StartPoll(w) PROVE TypeInv'
  BY <1>3 DEF StartPoll, AtPhase, WorkerState, Phase
<1>4. ASSUME NEW w \in Workers, RequeueTimedOutJobs(w) PROVE TypeInv'
  <2>1. worker[w].now \in Nat
    BY DEF WorkerState
  <2>2. \A j \in Jobs : job[j].attemptCount \in Nat
    BY DEF JobRow
  <2>3. \A j \in Jobs : FailureRow(j, job[j].attemptCount, worker[w].now) \in JobRow
    BY <2>1, <2>2, FailureRowType
  <2>4. job' \in [Jobs -> JobRow]
    BY <1>4, <2>3 DEF RequeueTimedOutJobs
  <2>5. /\ worker' \in [Workers -> WorkerState]
        /\ \A v \in Workers : Busy(v)' => worker'[v].job \in Jobs
    BY <1>4 DEF RequeueTimedOutJobs, WorkerState, Phase
  <2> QED
    BY <1>4, <2>4, <2>5 DEF RequeueTimedOutJobs
<1>5. ASSUME NEW w \in Workers, ClaimNextJob(w) PROVE TypeInv'
  <2> PICK j \in Claimable(w) :
         /\ job' = [job EXCEPT ![j] =
              [@ EXCEPT !.status = "running",
                        !.lockedBy = LockId(w),
                        !.lockedUntil = worker[w].now + LockTtl]]
         /\ worker' = [worker EXCEPT ![w] =
              [phase |-> IF j \in Handled THEN "handle" ELSE "read",
               job   |-> j,
               now   |-> IF j \in Handled THEN 0 ELSE clock,
               until |-> worker[w].now + LockTtl,
               seen  |-> 0,
               token |-> claims[j] + 1]]
         /\ claims' = [claims EXCEPT ![j] = @ + 1]
    BY <1>5 DEF ClaimNextJob
  <2>1. j \in Jobs
    BY DEF Claimable
  <2>2. worker[w].now \in Nat
    BY DEF WorkerState
  <2>7. [job[j] EXCEPT !.status = "running",
                       !.lockedBy = LockId(w),
                       !.lockedUntil = worker[w].now + LockTtl] \in JobRow
    <3>1. LockId(w) \in Ids /\ worker[w].now + LockTtl \in Nat
      BY <2>2 DEF LockId
    <3> QED
      BY <1>a, <2>1, <3>1 DEF JobRow, JobStatus
  <2>3. job' \in [Jobs -> JobRow]
    BY <2>1, <2>7
  <2>4. worker' \in [Workers -> WorkerState]
    BY <2>1, <2>2 DEF WorkerState, Phase
  <2>5. claims' \in [Jobs -> Nat] /\ clock' \in Nat
    BY <1>5, <2>1 DEF ClaimNextJob
  <2>6. \A v \in Workers : Busy(v)' => worker'[v].job \in Jobs
    BY <2>1
  <2> QED
    BY <2>3, <2>4, <2>5, <2>6
<1>6. ASSUME NEW w \in Workers, ClaimNothing(w) PROVE TypeInv'
  BY <1>6 DEF ClaimNothing, AtPhase, WorkerState, Phase
<1>7. ASSUME NEW w \in Workers, MarkJobCompleted(w) PROVE TypeInv'
  <2>1. worker[w].job \in Jobs
    BY <1>7 DEF MarkJobCompleted
  <2>2. job' \in [Jobs -> JobRow]
    BY <1>7, <2>1, CompletedRowType DEF MarkJobCompleted
  <2> QED
    BY <1>7, <2>2 DEF MarkJobCompleted, AtPhase, WorkerState, Phase
<1>8. ASSUME NEW w \in Workers, HandlerFails(w) PROVE TypeInv'
  <2>1. [worker[w] EXCEPT !.phase = "read", !.now = clock] \in WorkerState
    BY <1>b DEF WorkerState, Phase
  <2> QED
    BY <1>8, <2>1 DEF HandlerFails
<1>9. ASSUME NEW w \in Workers, CompletionAnswerLost(w) PROVE TypeInv'
  <2>1. worker[w].job \in Jobs
    BY <1>9 DEF CompletionAnswerLost
  <2>2. job' \in [Jobs -> JobRow]
    BY <1>9, <2>1, CompletedRowType DEF CompletionAnswerLost
  <2>3. [worker[w] EXCEPT !.phase = "read", !.now = clock] \in WorkerState
    BY <1>b DEF WorkerState, Phase
  <2> QED
    BY <1>9, <2>1, <2>2, <2>3 DEF CompletionAnswerLost
<1>10. ASSUME NEW w \in Workers, ReportFailureRead(w) PROVE TypeInv'
  <2>1. worker[w].job \in Jobs
    BY <1>10 DEF ReportFailureRead
  <2>2. job[worker[w].job].attemptCount \in Nat
    BY <2>1 DEF JobRow
  <2>3. [worker[w] EXCEPT !.phase = "write", !.seen = job[worker[w].job].attemptCount]
          \in WorkerState
    BY <1>b, <2>2 DEF WorkerState, Phase
  <2>4. AtPhase("down") \in WorkerState
    BY AtPhaseType DEF Phase
  <2>5. worker' \in [Workers -> WorkerState]
    BY <1>10, <2>3, <2>4 DEF ReportFailureRead
  <2>6. ASSUME NEW v \in Workers, Busy(v)' PROVE worker'[v].job \in Jobs
    BY <1>10, <2>1, <2>6 DEF ReportFailureRead, AtPhase
  <2> QED
    BY <1>10, <2>5, <2>6 DEF ReportFailureRead
<1>11. ASSUME NEW w \in Workers, ReportFailureWrite(w) PROVE TypeInv'
  <2>1. worker[w].job \in Jobs
    BY <1>11 DEF ReportFailureWrite
  <2>2. FailureRow(worker[w].job, worker[w].seen, worker[w].now) \in JobRow
    BY <2>1, FailureRowType DEF WorkerState
  <2>3. job' \in [Jobs -> JobRow]
    BY <1>11, <2>1, <2>2 DEF ReportFailureWrite
  <2> QED
    BY <1>11, <2>3 DEF ReportFailureWrite, AtPhase, WorkerState, Phase
<1>12. ASSUME NEW w \in Workers, Crash(w) PROVE TypeInv'
  BY <1>12 DEF Crash, AtPhase, WorkerState, Phase
<1>13. ASSUME NEW w \in Workers, Restart(w) PROVE TypeInv'
  BY <1>13 DEF Restart, AtPhase, WorkerState, Phase
<1>14. CASE Tick
  BY <1>14 DEF Tick
<1>15. CASE UNCHANGED vars
  BY <1>15 DEF vars
<1> QED
  BY <1>1, <1>2, <1>3, <1>4, <1>5, <1>6, <1>7, <1>8, <1>9, <1>10, <1>11,
     <1>12, <1>13, <1>14, <1>15 DEF Next, RunOnce

(***************************************************************************)
(* Type correctness of the queue, shared worker ids included.              *)
(***************************************************************************)
THEOREM TypeCorrect == Spec => []TypeOK
<1>1. TypeInv => TypeOK
  BY DEF TypeInv
<1> QED
  BY <1>1, TypeInit, TypeStep, PTL DEF Spec

-----------------------------------------------------------------------------
(* The inductive invariant *)

(***************************************************************************)
(* What QueueInv says of one row and the number of claims of its job.      *)
(***************************************************************************)
RowOK(r, c, max) ==
  /\ RowConsistent(r, max)
  /\ c <= max
  /\ r.status \in {"absent", "pending", "failed"} => c = r.attemptCount
  /\ r.status \in {"running", "completed"} => c = r.attemptCount + 1
  /\ r.status = "absent" => c = 0

RowsOK == \A j \in Jobs : RowOK(job[j], claims[j], MaxAttempts[j])
NowPast == \A w \in Workers : worker[w].now <= clock
ClaimsCurrent == \A w \in Workers : Busy(w) => ClaimCurrent(w)
TokensDiffer ==
  \A v, w \in Workers :
    Busy(v) /\ Busy(w) /\ worker[v].job = worker[w].job /\ v # w =>
      worker[v].token # worker[w].token

LEMMA QueueInvParts ==
  QueueInv <=> TypeOK /\ RowsOK /\ NowPast /\ ClaimsCurrent /\ TokensDiffer
BY DEF QueueInv, RowsOK, RowOK, NowPast, ClaimsCurrent, TokensDiffer,
       LockConsistent, AttemptsAccounted

LEMMA QueueInvTypes == QueueInv => TypeInv
BY DEF QueueInv, TypeInv, ClaimCurrent

(***************************************************************************)
(* The fence: a row a worker owns is running, and no other process with    *)
(* another id owns it.                                                     *)
(***************************************************************************)
LEMMA OwnedRow ==
  ASSUME QueueInv, NEW w \in Workers, Busy(w), Owns(w)
  PROVE  job[worker[w].job].status = "running"
<1>1. worker[w].job \in Jobs
  BY QueueInvTypes DEF TypeInv
<1>2. LockId(w) # None
  BY DEF LockId
<1>3. RowOK(job[worker[w].job], claims[worker[w].job], MaxAttempts[worker[w].job])
  BY <1>1, QueueInvParts DEF RowsOK
<1> QED
  BY <1>2, <1>3 DEF RowOK, RowConsistent, Owns

LEMMA OwnerUnique ==
  ASSUME DistinctIds, NEW v \in Workers, NEW w \in Workers, Owns(v), Owns(w),
         worker[v].job = worker[w].job
  PROVE  v = w
BY DEF DistinctIds, Owns, LockId

(***************************************************************************)
(* A failed attempt of a running job leaves a good, unlocked row.          *)
(***************************************************************************)
LEMMA FailureRowOK ==
  ASSUME QueueInv, NEW j \in Jobs, job[j].status = "running", NEW t \in Nat
  PROVE  LET r == FailureRow(j, job[j].attemptCount, t)
         IN  /\ RowOK(r, claims[j], MaxAttempts[j])
             /\ r.lockedBy = None
             /\ r.status \in {"pending", "failed"}
<1> DEFINE r == FailureRow(j, job[j].attemptCount, t)
<1>1. job[j] \in JobRow /\ MaxAttempts[j] \in Nat \ {0} /\ claims[j] \in Nat
  BY DEF QueueInv, TypeOK
<1>2. RowOK(job[j], claims[j], MaxAttempts[j])
  BY QueueInvParts DEF RowsOK
<1>3. job[j].attemptCount \in Nat
  BY <1>1 DEF JobRow
<1>4. /\ r.attemptCount = job[j].attemptCount + 1
      /\ r.status = IF job[j].attemptCount + 1 >= MaxAttempts[j] THEN "failed" ELSE "pending"
      /\ r.lockedBy = None
      /\ r.lockedUntil = 0
  BY <1>1 DEF FailureRow, JobRow
<1>5. /\ claims[j] = job[j].attemptCount + 1
      /\ job[j].attemptCount < MaxAttempts[j]
      /\ claims[j] <= MaxAttempts[j]
  BY <1>2 DEF RowOK, RowConsistent
<1>6. CASE job[j].attemptCount + 1 >= MaxAttempts[j]
  BY <1>1, <1>3, <1>4, <1>5, <1>6 DEF RowOK, RowConsistent
<1>7. CASE ~(job[j].attemptCount + 1 >= MaxAttempts[j])
  BY <1>1, <1>3, <1>4, <1>5, <1>7 DEF RowOK, RowConsistent
<1> QED
  BY <1>6, <1>7

LEMMA QueueInit == Init => QueueInv
<1> SUFFICES ASSUME Init PROVE QueueInv
  OBVIOUS
<1>1. TypeOK
  BY TypeInit DEF TypeInv
<1>2. RowsOK
  BY DEF Init, RowsOK, RowOK, RowConsistent, AbsentRow
<1>3. NowPast /\ ClaimsCurrent /\ TokensDiffer
  BY DEF Init, NowPast, ClaimsCurrent, TokensDiffer, Busy, AtPhase
<1> QED
  BY <1>1, <1>2, <1>3, QueueInvParts

(***************************************************************************)
(* A step of one process that only changes its own local state and either  *)
(* drops its job or keeps it.                                              *)
(***************************************************************************)
LEMMA LocalStep ==
  ASSUME QueueInv, TypeOK', NEW w \in Workers, UNCHANGED <<clock, job, claims>>,
         \A v \in Workers : v # w => worker'[v] = worker[v],
         worker'[w].now <= clock,
         Busy(w)' => /\ Busy(w)
                     /\ worker'[w].job = worker[w].job
                     /\ worker'[w].token = worker[w].token
                     /\ worker'[w].until = worker[w].until
                     /\ worker'[w].phase = "write" /\ Owns(w) =>
                          worker'[w].seen = job[worker[w].job].attemptCount
  PROVE  QueueInv'
<1> USE QueueInvParts
<1>1. RowsOK'
  BY DEF RowsOK
<1>2. NowPast'
  BY DEF NowPast
<1>3. ClaimsCurrent'
  <2> SUFFICES ASSUME NEW v \in Workers, Busy(v)' PROVE ClaimCurrent(v)'
    BY DEF ClaimsCurrent
  <2>1. CASE v = w
    BY <2>1 DEF ClaimsCurrent, ClaimCurrent, Owns
  <2>2. CASE v # w
    BY <2>2 DEF ClaimsCurrent, ClaimCurrent, Owns, Busy
  <2> QED
    BY <2>1, <2>2
<1>4. TokensDiffer'
  BY DEF TokensDiffer, Busy
<1> QED
  BY <1>1, <1>2, <1>3, <1>4, QueueInvParts, PTL

(***************************************************************************)
(* A step that rewrites the rows of S to unlocked rows, and under which a  *)
(* worker with an unexpired lock on one of them finds it settled.          *)
(***************************************************************************)
LEMMA UnlockStep ==
  ASSUME QueueInv, TypeOK', NEW S \in SUBSET Jobs, UNCHANGED <<clock, claims>>,
         \A j \in Jobs \ S : job'[j] = job[j],
         \A j \in S : /\ RowOK(job'[j], claims[j], MaxAttempts[j])
                      /\ job'[j].lockedBy = None,
         \A v \in Workers : worker'[v].now <= clock,
         \A v \in Workers : Busy(v)' =>
           /\ Busy(v)
           /\ worker'[v].job = worker[v].job
           /\ worker'[v].token = worker[v].token
           /\ worker'[v].until = worker[v].until
           /\ worker'[v].phase = "write" =>
                worker[v].phase = "write" /\ worker'[v].seen = worker[v].seen,
         \A v \in Workers :
           Busy(v)' /\ worker[v].job \in S /\ clock < worker[v].until =>
             job'[worker[v].job].status \in {"completed", "cancelled"}
  PROVE  QueueInv'
<1> USE QueueInvParts
<1>1. RowsOK'
  <2> SUFFICES ASSUME NEW j \in Jobs
               PROVE  RowOK(job'[j], claims'[j], MaxAttempts[j])
    BY DEF RowsOK
  <2>1. RowOK(job[j], claims[j], MaxAttempts[j])
    BY DEF RowsOK
  <2> QED
    BY <2>1
<1>2. NowPast'
  BY DEF NowPast
<1>3. ClaimsCurrent'
  <2> SUFFICES ASSUME NEW v \in Workers, Busy(v)' PROVE ClaimCurrent(v)'
    BY DEF ClaimsCurrent
  <2>1. ClaimCurrent(v)
    BY DEF ClaimsCurrent
  <2>2. CASE worker[v].job \in S
    <3>1. ~Owns(v)'
      BY <2>2 DEF Owns, LockId
    <3> QED
      BY <2>1, <2>2, <3>1 DEF ClaimCurrent
  <2>3. CASE worker[v].job \notin S
    <3>1. job'[worker'[v].job] = job[worker[v].job]
      BY <2>1, <2>3 DEF ClaimCurrent
    <3> QED
      BY <2>1, <3>1 DEF ClaimCurrent, Owns
  <2> QED
    BY <2>2, <2>3
<1>4. TokensDiffer'
  BY DEF TokensDiffer, Busy
<1> QED
  BY <1>1, <1>2, <1>3, <1>4, QueueInvParts, PTL

LEMMA QueueStep ==
  ASSUME DistinctIds, QueueInv, [Next]_vars
  PROVE  QueueInv'
<1> USE QueueInvParts
<1>t. TypeInv /\ TypeOK'
  BY QueueInvTypes, TypeStep DEF TypeInv
<1>r. \A j \in Jobs : /\ job[j] \in JobRow
                      /\ RowOK(job[j], claims[j], MaxAttempts[j])
  BY DEF RowsOK, TypeOK
<1>w. \A w \in Workers : worker[w] \in WorkerState /\ worker[w].now <= clock
  BY DEF NowPast, TypeOK
<1>1. ASSUME NEW j \in Jobs, EnqueueJob(j) PROVE QueueInv'
  <2>1. CASE job[j].status # "absent"
    <3>1. UNCHANGED vars
      BY <1>1, <2>1 DEF EnqueueJob, vars
    <3> QED
      BY <3>1, <1>t DEF vars, QueueInv, LockConsistent, AttemptsAccounted,
         ClaimCurrent, Busy, Owns
  <2>2. CASE job[j].status = "absent"
    <3>1. /\ job' = [job EXCEPT ![j] = [AbsentRow EXCEPT !.status = "pending",
                                        !.runAfter = clock, !.createdAt = clock]]
          /\ UNCHANGED <<clock, worker, claims>>
      BY <1>1, <2>2 DEF EnqueueJob
    <3>2. /\ job'[j].status = "pending" /\ job'[j].lockedBy = None
          /\ job'[j].lockedUntil = 0 /\ job'[j].attemptCount = 0
      BY <3>1, <1>t DEF TypeInv, TypeOK, AbsentRow
    <3>3. RowOK(job'[j], claims[j], MaxAttempts[j])
      BY <3>2, <1>r, <2>2 DEF RowOK, RowConsistent
    <3>4. \A v \in Workers : Busy(v) /\ worker[v].job = j => ~(clock < worker[v].until)
      BY <2>2, <1>r, OwnedRow DEF ClaimsCurrent, ClaimCurrent
    <3> QED
      BY <3>1, <3>2, <3>3, <3>4, <1>t, <1>w, UnlockStep, {j} \in SUBSET Jobs
      DEF Busy, TypeInv, TypeOK
  <2> QED
    BY <2>1, <2>2
<1>2. ASSUME NEW j \in Jobs, CancelJob(j) PROVE QueueInv'
  <2>1. /\ job'[j].status = "cancelled" /\ job'[j].lockedBy = None
        /\ job'[j].lockedUntil = 0 /\ job'[j].attemptCount = job[j].attemptCount
    BY <1>2, <1>r, <1>t DEF CancelJob, JobRow, TypeInv, TypeOK
  <2>2. RowOK(job'[j], claims[j], MaxAttempts[j])
    BY <2>1, <1>r DEF RowOK, RowConsistent
  <2> QED
    BY <1>2, <2>1, <2>2, <1>t, <1>w, UnlockStep, {j} \in SUBSET Jobs
    DEF CancelJob, Busy, TypeInv, TypeOK
<1>3. ASSUME NEW w \in Workers, StartPoll(w) PROVE QueueInv'
  BY <1>3, <1>t, LocalStep DEF StartPoll, AtPhase, Busy, TypeInv, TypeOK
<1>4. ASSUME NEW w \in Workers, RequeueTimedOutJobs(w) PROVE QueueInv'
  <2> DEFINE S == TimedOut(worker[w].now)
  <2>1. /\ S \in SUBSET Jobs
        /\ \A j \in Jobs \ S : job'[j] = job[j]
        /\ \A j \in S : job'[j] = FailureRow(j, job[j].attemptCount, worker[w].now)
    BY <1>4 DEF RequeueTimedOutJobs, TimedOut
  <2>2. worker[w].now \in Nat /\ worker[w].now <= clock /\ clock \in Nat
    BY <1>w, <1>t DEF WorkerState, TypeInv, TypeOK
  <2>3. \A j \in S : /\ RowOK(job'[j], claims[j], MaxAttempts[j])
                     /\ job'[j].lockedBy = None
    BY <2>1, <2>2, FailureRowOK DEF TimedOut
  <2>4. ASSUME NEW v \in Workers, Busy(v), worker[v].job \in S, clock < worker[v].until
        PROVE  FALSE
    <3>1. /\ job[worker[v].job].status = "running"
          /\ job[worker[v].job].lockedUntil <= worker[w].now
      BY <2>4 DEF TimedOut
    <3>2. Owns(v) /\ worker[v].until = job[worker[v].job].lockedUntil
      BY <2>4, <3>1 DEF ClaimsCurrent, ClaimCurrent
    <3>3. job[worker[v].job].lockedUntil \in Nat
      BY <2>4, <1>r DEF JobRow, TimedOut
    <3> QED
      BY <2>2, <2>4, <3>1, <3>2, <3>3
  <2>5. \A v \in Workers : Busy(v)' =>
          /\ Busy(v)
          /\ worker'[v].job = worker[v].job
          /\ worker'[v].token = worker[v].token
          /\ worker'[v].until = worker[v].until
          /\ worker'[v].phase = "write" =>
               worker[v].phase = "write" /\ worker'[v].seen = worker[v].seen
    BY <1>4, <1>w, <1>t DEF RequeueTimedOutJobs, Busy, TypeInv, TypeOK, WorkerState
  <2>6. UNCHANGED <<clock, claims>>
    BY <1>4 DEF RequeueTimedOutJobs
  <2>7. \A v \in Workers : worker'[v].now <= clock
    BY <1>4, <1>w, <1>t DEF RequeueTimedOutJobs, TypeInv, TypeOK, WorkerState
  <2>8. \A v \in Workers :
          Busy(v)' /\ worker[v].job \in S /\ clock < worker[v].until =>
            job'[worker[v].job].status \in {"completed", "cancelled"}
    BY <2>4, <2>5
  <2>9. \A j \in Jobs \ S : job'[j] = job[j]
    BY <2>1
  <2> HIDE DEF S
  <2> QED
    BY <2>1, <2>3, <2>5, <2>6, <2>7, <2>8, <2>9, <1>t, UnlockStep
<1>5. ASSUME NEW w \in Workers, ClaimNextJob(w) PROVE QueueInv'
  <2> PICK j \in Claimable(w) :
         /\ job' = [job EXCEPT ![j] =
              [@ EXCEPT !.status = "running",
                        !.lockedBy = LockId(w),
                        !.lockedUntil = worker[w].now + LockTtl]]
         /\ worker' = [worker EXCEPT ![w] =
              [phase |-> IF j \in Handled THEN "handle" ELSE "read",
               job   |-> j,
               now   |-> IF j \in Handled THEN 0 ELSE clock,
               until |-> worker[w].now + LockTtl,
               seen  |-> 0,
               token |-> claims[j] + 1]]
         /\ claims' = [claims EXCEPT ![j] = @ + 1]
    BY <1>5 DEF ClaimNextJob
  <2>0. j \in Jobs /\ job[j].status = "pending" /\ clock' = clock
    BY <1>5 DEF Claimable, ClaimNextJob
  <2>1. /\ job'[j].status = "running" /\ job'[j].lockedBy = LockId(w)
        /\ job'[j].lockedUntil = worker[w].now + LockTtl
        /\ job'[j].attemptCount = job[j].attemptCount
        /\ \A i \in Jobs : i # j => job'[i] = job[i]
    BY <2>0, <1>r, <1>t DEF JobRow, TypeInv, TypeOK
  <2>2. /\ claims'[j] = claims[j] + 1
        /\ \A i \in Jobs : i # j => claims'[i] = claims[i]
        /\ claims[j] \in Nat /\ clock \in Nat /\ MaxAttempts[j] \in Nat
        /\ job[j].attemptCount \in Nat
    BY <2>0, <1>r, <1>t DEF TypeInv, TypeOK, JobRow
  <2>3. /\ worker'[w].job = j /\ worker'[w].token = claims[j] + 1
        /\ worker'[w].until = worker[w].now + LockTtl
        /\ worker'[w].phase # "write"
        /\ worker'[w].now <= clock
        /\ \A v \in Workers : v # w => worker'[v] = worker[v]
    BY <1>t, <2>2 DEF TypeInv, TypeOK
  <2>4. RowsOK'
    <3> SUFFICES ASSUME NEW i \in Jobs PROVE RowOK(job'[i], claims'[i], MaxAttempts[i])
      BY DEF RowsOK
    <3>1. CASE i = j
      <4>1. LockId(w) # None
        BY DEF LockId
      <4>2. claims[j] = job[j].attemptCount /\ job[j].attemptCount < MaxAttempts[j]
        BY <1>r, <2>0 DEF RowOK, RowConsistent
      <4> QED
        BY <3>1, <4>1, <4>2, <2>1, <2>2 DEF RowOK, RowConsistent
    <3>2. CASE i # j
      BY <3>2, <1>r, <2>1, <2>2
    <3> QED
      BY <3>1, <3>2
  <2>5. NowPast'
    BY <2>0, <2>3, <1>w DEF NowPast
  <2>6. ASSUME NEW v \in Workers, v # w, Busy(v), worker[v].job = j
        PROVE  /\ worker[v].token <= claims[j]
               /\ ~(clock < worker[v].until)
               /\ ~Owns(v)'
    <3>1. ClaimCurrent(v)
      BY <2>6 DEF ClaimsCurrent
    <3>2. ~Owns(v)
      BY <2>0, <2>6, OwnedRow
    <3>3. ~Owns(v)'
      BY <2>1, <2>3, <2>6 DEF Owns, LockId, DistinctIds
    <3> QED
      BY <2>0, <2>6, <3>1, <3>2, <3>3 DEF ClaimCurrent
  <2>7. ClaimsCurrent'
    <3> SUFFICES ASSUME NEW v \in Workers, Busy(v)' PROVE ClaimCurrent(v)'
      BY DEF ClaimsCurrent
    <3>1. CASE v = w
      <4>1. Owns(v)'
        BY <3>1, <2>1, <2>3 DEF Owns, LockId
      <4> QED
        BY <3>1, <4>1, <2>0, <2>1, <2>2, <2>3 DEF ClaimCurrent
    <3>2. CASE v # w /\ worker[v].job = j
      <4>1. Busy(v) /\ worker'[v] = worker[v] /\ worker[v].token \in Nat
        BY <3>2, <2>3, <1>w DEF Busy, WorkerState
      <4> QED
        BY <3>2, <4>1, <2>0, <2>2, <2>6 DEF ClaimCurrent
    <3>3. CASE v # w /\ worker[v].job # j
      <4>1. Busy(v) /\ worker'[v] = worker[v]
        BY <3>3, <2>3 DEF Busy
      <4>2. ClaimCurrent(v)
        BY <4>1 DEF ClaimsCurrent
      <4>3. /\ job'[worker[v].job] = job[worker[v].job]
            /\ claims'[worker[v].job] = claims[worker[v].job]
        BY <4>2, <3>3, <2>1, <2>2 DEF ClaimCurrent
      <4> QED
        BY <4>1, <4>2, <4>3, <2>0 DEF ClaimCurrent, Owns
    <3> QED
      BY <3>1, <3>2, <3>3
  <2>8. TokensDiffer'
    <3> SUFFICES ASSUME NEW u \in Workers, NEW v \in Workers, Busy(u)', Busy(v)',
                        worker'[u].job = worker'[v].job, u # v
                 PROVE  worker'[u].token # worker'[v].token
      BY DEF TokensDiffer
    <3>0. \A x \in Workers : worker[x].token \in Nat
      BY <1>w DEF WorkerState
    <3>1. CASE u = w
      BY <3>0, <3>1, <2>2, <2>3, <2>6 DEF Busy
    <3>2. CASE v = w
      BY <3>0, <3>2, <2>2, <2>3, <2>6 DEF Busy
    <3>3. CASE u # w /\ v # w
      BY <3>3, <2>3 DEF Busy, TokensDiffer
    <3> QED
      BY <3>1, <3>2, <3>3
  <2> QED
    BY <2>4, <2>5, <2>7, <2>8, <1>t, QueueInvParts, PTL
<1>6. ASSUME NEW w \in Workers, ClaimNothing(w) PROVE QueueInv'
  BY <1>6, <1>t, LocalStep DEF ClaimNothing, AtPhase, Busy, TypeInv, TypeOK
<1>7. ASSUME NEW w \in Workers, Busy(w), Owns(w), UNCHANGED <<clock, claims>>,
             job' = [job EXCEPT ![worker[w].job] = CompletedRow(worker[w].job)],
             \A v \in Workers : v # w => worker'[v] = worker[v],
             worker'[w].now <= clock,
             Busy(w)' => /\ worker'[w].job = worker[w].job
                         /\ worker'[w].token = worker[w].token
                         /\ worker'[w].until = worker[w].until
                         /\ worker'[w].phase # "write"
      PROVE  QueueInv'
  <2> DEFINE j == worker[w].job
  <2>1. j \in Jobs /\ job[j].status = "running"
    BY <1>7, <1>t, OwnedRow DEF TypeInv
  <2>2. /\ job'[j].status = "completed" /\ job'[j].lockedBy = None
        /\ job'[j].lockedUntil = 0 /\ job'[j].attemptCount = job[j].attemptCount
    BY <1>7, <2>1, <1>r, <1>t DEF CompletedRow, JobRow, TypeInv, TypeOK
  <2>3. RowOK(job'[j], claims[j], MaxAttempts[j])
    BY <2>1, <2>2, <1>r DEF RowOK, RowConsistent
  <2>4. \A i \in Jobs \ {j} : job'[i] = job[i]
    BY <1>7, <1>t DEF TypeInv, TypeOK
  <2>a. /\ \A v \in Workers : worker'[v].now <= clock
        /\ \A v \in Workers : Busy(v)' =>
             /\ Busy(v)
             /\ worker'[v].job = worker[v].job
             /\ worker'[v].token = worker[v].token
             /\ worker'[v].until = worker[v].until
             /\ worker'[v].phase = "write" =>
                  worker[v].phase = "write" /\ worker'[v].seen = worker[v].seen
    BY <1>7, <1>w DEF Busy
  <2>b. \A v \in Workers :
          Busy(v)' /\ worker[v].job \in {j} /\ clock < worker[v].until =>
            job'[worker[v].job].status \in {"completed", "cancelled"}
    BY <2>2
  <2> HIDE DEF j
  <2> QED
    BY <1>7, <2>1, <2>2, <2>3, <2>4, <2>a, <2>b, <1>t, UnlockStep, {j} \in SUBSET Jobs
<1>8. ASSUME NEW w \in Workers, MarkJobCompleted(w) PROVE QueueInv'
  <2>1. worker' = [worker EXCEPT ![w] = AtPhase("idle")]
    BY <1>8 DEF MarkJobCompleted
  <2>2. /\ \A v \in Workers : v # w => worker'[v] = worker[v]
        /\ worker'[w].now <= clock
        /\ ~Busy(w)'
    BY <2>1, <1>t DEF AtPhase, Busy, TypeInv, TypeOK
  <2> QED
    BY <1>7, <1>8, <2>2 DEF MarkJobCompleted, Busy
<1>9. ASSUME NEW w \in Workers, HandlerFails(w) PROVE QueueInv'
  <2>1. worker' = [worker EXCEPT ![w] = [worker[w] EXCEPT !.phase = "read", !.now = clock]]
    BY <1>9 DEF HandlerFails
  <2>2. /\ worker'[w].phase = "read" /\ worker'[w].now = clock
        /\ worker'[w].job = worker[w].job /\ worker'[w].token = worker[w].token
        /\ worker'[w].until = worker[w].until
        /\ \A v \in Workers : v # w => worker'[v] = worker[v]
    BY <2>1, <1>w, <1>t DEF WorkerState, TypeInv, TypeOK
  <2> QED
    BY <1>9, <2>2, <1>t, LocalStep DEF HandlerFails, Busy, TypeInv, TypeOK
<1>10. ASSUME NEW w \in Workers, CompletionAnswerLost(w) PROVE QueueInv'
  <2>1. worker' = [worker EXCEPT ![w] = [worker[w] EXCEPT !.phase = "read", !.now = clock]]
    BY <1>10 DEF CompletionAnswerLost
  <2>2. /\ worker'[w].phase = "read" /\ worker'[w].now = clock
        /\ worker'[w].job = worker[w].job /\ worker'[w].token = worker[w].token
        /\ worker'[w].until = worker[w].until
        /\ \A v \in Workers : v # w => worker'[v] = worker[v]
    BY <2>1, <1>w, <1>t DEF WorkerState, TypeInv, TypeOK
  <2>3. /\ Busy(w) /\ Owns(w) /\ UNCHANGED <<clock, claims>>
        /\ job' = [job EXCEPT ![worker[w].job] = CompletedRow(worker[w].job)]
    BY <1>10 DEF CompletionAnswerLost, Busy
  <2>4. worker'[w].now <= clock /\ worker'[w].phase # "write"
    BY <2>2, <1>t DEF TypeInv, TypeOK
  <2> QED
    BY <1>7, <2>2, <2>3, <2>4
<1>11. ASSUME NEW w \in Workers, ReportFailureRead(w) PROVE QueueInv'
  <2>1. CASE Owns(w)
    <3>1. worker' = [worker EXCEPT ![w] = [worker[w] EXCEPT !.phase = "write",
                       !.seen = job[worker[w].job].attemptCount]]
      BY <1>11, <2>1 DEF ReportFailureRead
    <3>2. /\ worker'[w].phase = "write" /\ worker'[w].now = worker[w].now
          /\ worker'[w].job = worker[w].job /\ worker'[w].token = worker[w].token
          /\ worker'[w].until = worker[w].until
          /\ worker'[w].seen = job[worker[w].job].attemptCount
          /\ \A v \in Workers : v # w => worker'[v] = worker[v]
      BY <3>1, <1>w, <1>t DEF WorkerState, TypeInv, TypeOK
    <3> QED
      BY <1>11, <3>2, <1>t, <1>w, LocalStep DEF ReportFailureRead, Busy
  <2>2. CASE ~Owns(w)
    BY <1>11, <2>2, <1>t, LocalStep DEF ReportFailureRead, AtPhase, Busy, TypeInv, TypeOK
  <2> QED
    BY <2>1, <2>2
<1>12. ASSUME NEW w \in Workers, ReportFailureWrite(w) PROVE QueueInv'
  <2> DEFINE j == worker[w].job
  <2>0. /\ \A v \in Workers : v # w => worker'[v] = worker[v]
        /\ worker'[w].now <= clock
        /\ ~Busy(w)'
        /\ UNCHANGED <<clock, claims>>
    BY <1>12, <1>t DEF ReportFailureWrite, AtPhase, Busy, TypeInv, TypeOK
  <2>1. CASE Owns(w)
    <3>1. Busy(w) /\ j \in Jobs /\ job[j].status = "running"
      BY <1>12, <2>1, <1>t, OwnedRow DEF TypeInv, ReportFailureWrite, Busy
    <3>2. worker[w].seen = job[j].attemptCount /\ worker[w].now \in Nat
      BY <1>12, <2>1, <3>1, <1>w
      DEF ClaimsCurrent, ClaimCurrent, ReportFailureWrite, WorkerState
    <3>3. job'[j] = FailureRow(j, job[j].attemptCount, worker[w].now)
      BY <1>12, <2>1, <3>1, <3>2, <1>t DEF ReportFailureWrite, TypeInv, TypeOK
    <3>4. \A i \in Jobs \ {j} : job'[i] = job[i]
      BY <1>12, <1>t DEF ReportFailureWrite, TypeInv, TypeOK
    <3>5. RowOK(job'[j], claims[j], MaxAttempts[j]) /\ job'[j].lockedBy = None
      BY <3>1, <3>2, <3>3, FailureRowOK
    <3>6. ASSUME NEW v \in Workers, v # w, Busy(v), worker[v].job = j
          PROVE  ~(clock < worker[v].until)
      <4>1. ~Owns(v)
        BY <2>1, <3>6, OwnerUnique
      <4> QED
        BY <3>1, <3>6, <4>1 DEF ClaimsCurrent, ClaimCurrent
    <3>a. /\ \A v \in Workers : worker'[v].now <= clock
          /\ \A v \in Workers : Busy(v)' =>
               /\ Busy(v)
               /\ worker'[v].job = worker[v].job
               /\ worker'[v].token = worker[v].token
               /\ worker'[v].until = worker[v].until
               /\ worker'[v].phase = "write" =>
                    worker[v].phase = "write" /\ worker'[v].seen = worker[v].seen
      BY <2>0, <1>w DEF Busy
    <3>b. \A v \in Workers :
            Busy(v)' /\ worker[v].job \in {j} /\ clock < worker[v].until =>
              job'[worker[v].job].status \in {"completed", "cancelled"}
      BY <2>0, <3>6, <3>a
    <3> HIDE DEF j
    <3> QED
      BY <2>0, <3>1, <3>4, <3>5, <3>a, <3>b, <1>t, UnlockStep, {j} \in SUBSET Jobs
  <2>2. CASE ~Owns(w)
    BY <1>12, <2>0, <2>2, <1>t, LocalStep DEF ReportFailureWrite
  <2> QED
    BY <2>1, <2>2
<1>13. ASSUME NEW w \in Workers, Crash(w) PROVE QueueInv'
  BY <1>13, <1>t, LocalStep DEF Crash, AtPhase, Busy, TypeInv, TypeOK
<1>14. ASSUME NEW w \in Workers, Restart(w) PROVE QueueInv'
  BY <1>14, <1>t, LocalStep DEF Restart, AtPhase, Busy, TypeInv, TypeOK
<1>15. CASE Tick
  <2>1. clock' = clock + 1 /\ UNCHANGED <<job, worker, claims>>
    BY <1>15 DEF Tick
  <2>2. RowsOK' /\ TokensDiffer'
    BY <2>1 DEF RowsOK, TokensDiffer, Busy
  <2>3. NowPast'
    BY <2>1, <1>w, <1>t DEF NowPast, WorkerState, TypeInv, TypeOK
  <2>4. ClaimsCurrent'
    <3> SUFFICES ASSUME NEW v \in Workers, Busy(v)' PROVE ClaimCurrent(v)'
      BY DEF ClaimsCurrent
    <3>1. ClaimCurrent(v) /\ worker[v].until \in Nat /\ clock \in Nat
      BY <2>1, <1>w, <1>t DEF ClaimsCurrent, Busy, WorkerState, TypeInv, TypeOK
    <3> QED
      BY <2>1, <3>1 DEF ClaimCurrent, Owns
  <2> QED
    BY <2>2, <2>3, <2>4, <1>t, QueueInvParts, PTL
<1>16. CASE UNCHANGED vars
  BY <1>16, <1>t DEF vars, QueueInv, LockConsistent, AttemptsAccounted,
     ClaimCurrent, Busy, Owns
<1> QED
  BY <1>1, <1>2, <1>3, <1>4, <1>5, <1>6, <1>8, <1>9, <1>10, <1>11, <1>12,
     <1>13, <1>14, <1>15, <1>16 DEF Next, RunOnce

(***************************************************************************)
(* With distinct worker ids the inductive invariant holds for any number   *)
(* of workers, jobs and attempts.                                          *)
(***************************************************************************)
THEOREM QueueInvariant == ASSUME DistinctIds PROVE Spec => []QueueInv
BY QueueInit, QueueStep, PTL DEF Spec

(***************************************************************************)
(* A handler starts at most MaxAttempts times, whoever requeues or reports *)
(* the job and however late.                                               *)
(***************************************************************************)
THEOREM EveryAttemptAccounted == ASSUME DistinctIds PROVE Spec => []AttemptsAccounted
<1>1. QueueInv => AttemptsAccounted
  BY DEF QueueInv
<1> QED
  BY <1>1, QueueInvariant, PTL

(***************************************************************************)
(* Rows stay consistent with their lock and their attempt count.           *)
(***************************************************************************)
THEOREM RowsConsistent == ASSUME DistinctIds PROVE Spec => []LockConsistent
<1>1. QueueInv => LockConsistent
  BY DEF QueueInv
<1> QED
  BY <1>1, QueueInvariant, PTL

(***************************************************************************)
(* A worker whose job was requeued and claimed again fails the locked_by   *)
(* fence.                                                                  *)
(***************************************************************************)
THEOREM StaleWorkersFenced == ASSUME DistinctIds PROVE Spec => []FencedOwnership
<1>1. QueueInv => FencedOwnership
  BY DEF QueueInv, FencedOwnership, ClaimCurrent
<1> QED
  BY <1>1, QueueInvariant, PTL

(***************************************************************************)
(* While a worker's lock has not expired, any other worker on the same job *)
(* runs an older claim of it.                                              *)
(***************************************************************************)
THEOREM LeasesExclusive == ASSUME DistinctIds PROVE Spec => []LeaseExclusive
<1>1. QueueInv => LeaseExclusive
  <2> SUFFICES ASSUME QueueInv, NEW v \in Workers, NEW w \in Workers,
                      LeaseHeld(v), Busy(w), worker[v].job = worker[w].job, v # w
               PROVE  worker[v].token > worker[w].token
    BY DEF LeaseExclusive
  <2>1. ClaimCurrent(v) /\ ClaimCurrent(w) /\ Busy(v)
    BY DEF QueueInv, LeaseHeld
  <2>2. worker[v].token # worker[w].token
    BY <2>1 DEF QueueInv
  <2>3. worker[v] \in WorkerState /\ worker[w] \in WorkerState
    BY DEF QueueInv, TypeOK
  <2>4. worker[v].token \in Nat /\ worker[w].token \in Nat
    BY <2>3 DEF WorkerState
  <2>5. worker[w].token <= worker[v].token
    BY <2>1 DEF ClaimCurrent, LeaseHeld
  <2> QED
    BY <2>2, <2>4, <2>5
<1> QED
  BY <1>1, QueueInvariant, PTL

-----------------------------------------------------------------------------
(* The queue implements the abstract lifecycle *)

LEMMA LifecycleInit == Init => Lifecycle!JInit
BY DEF Init, AbsentRow, Lifecycle!JInit

(***************************************************************************)
(* One row changes, and its attempts do not.                               *)
(***************************************************************************)
LEMMA OneRow ==
  ASSUME TypeOK, NEW j \in Jobs, NEW row,
         job' = [job EXCEPT ![j] = row],
         row.attemptCount = job[j].attemptCount
  PROVE  /\ [i \in Jobs |-> job[i].status]' =
              [[i \in Jobs |-> job[i].status] EXCEPT ![j] = row.status]
         /\ [i \in Jobs |-> job[i].lockedBy]' =
              [[i \in Jobs |-> job[i].lockedBy] EXCEPT ![j] = row.lockedBy]
         /\ UNCHANGED [i \in Jobs |-> job[i].attemptCount]
BY DEF TypeOK

(***************************************************************************)
(* The jobs of S, all running, get the rows of a failed attempt.           *)
(***************************************************************************)
LEMMA FailedRows ==
  ASSUME TypeOK, NEW S \in SUBSET Jobs, NEW t \in Nat,
         \A j \in S : job[j].status = "running",
         \A j \in Jobs : job'[j] = IF j \in S THEN FailureRow(j, job[j].attemptCount, t)
                                   ELSE job[j]
  PROVE  Lifecycle!JNext
<1>1. \A j \in S :
        /\ job'[j].status = IF job[j].attemptCount + 1 >= MaxAttempts[j]
                            THEN "failed" ELSE "pending"
        /\ job'[j].attemptCount = job[j].attemptCount + 1
        /\ job'[j].lockedBy = None
  <2> TAKE j \in S
  <2>1. job[j] \in JobRow
    BY DEF TypeOK
  <2> QED
    BY <2>1 DEF FailureRow, JobRow
<1>2. Lifecycle!FailAttempts(S)
  BY <1>1 DEF Lifecycle!FailAttempts
<1> QED
  BY <1>2 DEF Lifecycle!JNext

LEMMA LifecycleStep ==
  ASSUME QueueInv, [Next]_vars
  PROVE  [Lifecycle!JNext]_(Lifecycle!jvars)
<1> USE DEF Lifecycle!JNext
<1>t. TypeOK /\ TypeInv
  BY QueueInvTypes DEF QueueInv
<1>r. \A j \in Jobs : job[j] \in JobRow
  BY <1>t DEF TypeOK
<1>i. \A w \in Workers : LockId(w) \in Ids
  BY WorkersAssumption DEF LockId
<1>u. UNCHANGED job => UNCHANGED Lifecycle!jvars
  BY DEF Lifecycle!jvars
<1>1. ASSUME NEW j \in Jobs, EnqueueJob(j) PROVE Lifecycle!JNext \/ UNCHANGED job
  <2>1. CASE job[j].status # "absent"
    BY <1>1, <2>1 DEF EnqueueJob
  <2>2. CASE job[j].status = "absent"
    <3> DEFINE row == [AbsentRow EXCEPT !.status = "pending", !.runAfter = clock,
                                        !.createdAt = clock]
    <3>1. job' = [job EXCEPT ![j] = row]
      BY <1>1, <2>2 DEF EnqueueJob
    <3>2. CASE job[j].attemptCount = 0
      <4>1. /\ row.status = "pending" /\ row.lockedBy = None
            /\ row.attemptCount = job[j].attemptCount
        BY <3>2 DEF AbsentRow
      <4>3. job[j].lockedBy = None
        BY <2>2 DEF QueueInv, LockConsistent, RowConsistent
      <4> HIDE DEF row
      <4>4. [i \in Jobs |-> job[i].lockedBy]' = [i \in Jobs |-> job[i].lockedBy]
        BY <1>t, <3>1, <4>1, <4>3 DEF TypeOK
      <4>5. /\ [i \in Jobs |-> job[i].status]' =
                  [[i \in Jobs |-> job[i].status] EXCEPT ![j] = row.status]
            /\ UNCHANGED [i \in Jobs |-> job[i].attemptCount]
        BY <1>t, <3>1, <4>1, OneRow
      <4>2. Lifecycle!Create(j)
        BY <2>2, <4>1, <4>4, <4>5 DEF Lifecycle!Create
      <4> QED
        BY <4>2
    <3> QED
      BY <3>2, <2>2 DEF QueueInv, AttemptsAccounted
  <2> QED
    BY <2>1, <2>2
<1>2. ASSUME NEW j \in Jobs, CancelJob(j) PROVE Lifecycle!JNext
  <2> DEFINE row == [job[j] EXCEPT !.status = "cancelled", !.lockedBy = None,
                                   !.lockedUntil = 0]
  <2>1. job' = [job EXCEPT ![j] = row] /\ job[j].status # "absent"
    BY <1>2 DEF CancelJob
  <2>2. /\ row.status = "cancelled" /\ row.lockedBy = None
        /\ row.attemptCount = job[j].attemptCount
    BY <1>r DEF JobRow
  <2> HIDE DEF row
  <2>3. /\ [i \in Jobs |-> job[i].status]' =
              [[i \in Jobs |-> job[i].status] EXCEPT ![j] = "cancelled"]
        /\ [i \in Jobs |-> job[i].lockedBy]' =
              [[i \in Jobs |-> job[i].lockedBy] EXCEPT ![j] = None]
        /\ UNCHANGED [i \in Jobs |-> job[i].attemptCount]
    BY <1>t, <2>1, <2>2, OneRow
  <2>4. Lifecycle!Cancel(j)
    BY <2>1, <2>3 DEF Lifecycle!Cancel
  <2> QED
    BY <2>4
<1>3. ASSUME NEW w \in Workers, RequeueTimedOutJobs(w) PROVE Lifecycle!JNext
  <2> DEFINE S == TimedOut(worker[w].now)
  <2>1. /\ S \in SUBSET Jobs
        /\ \A j \in S : job[j].status = "running"
        /\ \A j \in Jobs : job'[j] = IF j \in S
                                      THEN FailureRow(j, job[j].attemptCount, worker[w].now)
                                      ELSE job[j]
    BY <1>3 DEF RequeueTimedOutJobs, TimedOut
  <2>2. worker[w].now \in Nat
    BY <1>t DEF TypeOK, WorkerState
  <2> HIDE DEF S
  <2> QED
    BY <1>t, <2>1, <2>2, FailedRows
<1>4. ASSUME NEW w \in Workers, ClaimNextJob(w) PROVE Lifecycle!JNext
  <2>1. PICK j \in Jobs :
          /\ job[j].status = "pending"
          /\ job' = [job EXCEPT ![j] = [@ EXCEPT !.status = "running",
                                                 !.lockedBy = LockId(w),
                                                 !.lockedUntil = worker[w].now + LockTtl]]
    BY <1>4 DEF ClaimNextJob, Claimable
  <2> DEFINE row == [job[j] EXCEPT !.status = "running", !.lockedBy = LockId(w),
                                   !.lockedUntil = worker[w].now + LockTtl]
  <2>2. /\ row.status = "running" /\ row.lockedBy = LockId(w)
        /\ row.attemptCount = job[j].attemptCount
    BY <1>r DEF JobRow
  <2>3. job' = [job EXCEPT ![j] = row]
    BY <2>1
  <2> HIDE DEF row
  <2>4. /\ [i \in Jobs |-> job[i].status]' =
              [[i \in Jobs |-> job[i].status] EXCEPT ![j] = row.status]
        /\ [i \in Jobs |-> job[i].lockedBy]' =
              [[i \in Jobs |-> job[i].lockedBy] EXCEPT ![j] = row.lockedBy]
        /\ UNCHANGED [i \in Jobs |-> job[i].attemptCount]
    BY <1>t, <2>2, <2>3, OneRow
  <2>5. Lifecycle!Start(j, LockId(w))
    BY <2>1, <2>2, <2>4 DEF Lifecycle!Start
  <2> QED
    BY <1>i, <2>5
<1>5. ASSUME NEW w \in Workers, MarkJobCompleted(w) \/ CompletionAnswerLost(w)
      PROVE  Lifecycle!JNext
  <2>1. /\ Busy(w) /\ Owns(w)
        /\ job' = [job EXCEPT ![worker[w].job] = CompletedRow(worker[w].job)]
    BY <1>5 DEF MarkJobCompleted, CompletionAnswerLost, Busy
  <2>2. PICK j \in Jobs : /\ j = worker[w].job /\ job[j].status = "running"
                          /\ job[j].lockedBy = LockId(w)
    BY <1>t, <2>1, OwnedRow DEF TypeInv, Owns
  <2>3. /\ CompletedRow(j).status = "completed" /\ CompletedRow(j).lockedBy = None
        /\ CompletedRow(j).attemptCount = job[j].attemptCount
    BY <1>r DEF CompletedRow, JobRow
  <2> DEFINE row == CompletedRow(j)
  <2>4. job' = [job EXCEPT ![j] = row] /\ row.attemptCount = job[j].attemptCount
    BY <2>1, <2>2, <2>3
  <2>5. row.status = "completed" /\ row.lockedBy = None
    BY <2>3
  <2> HIDE DEF row
  <2>6. /\ [i \in Jobs |-> job[i].status]' =
              [[i \in Jobs |-> job[i].status] EXCEPT ![j] = row.status]
        /\ [i \in Jobs |-> job[i].lockedBy]' =
              [[i \in Jobs |-> job[i].lockedBy] EXCEPT ![j] = row.lockedBy]
        /\ UNCHANGED [i \in Jobs |-> job[i].attemptCount]
    BY <1>t, <2>4, OneRow
  <2>7. Lifecycle!Succeed(j, LockId(w))
    BY <2>2, <2>5, <2>6 DEF Lifecycle!Succeed
  <2> QED
    BY <1>i, <2>7
<1>6. ASSUME NEW w \in Workers, ReportFailureWrite(w) PROVE Lifecycle!JNext \/ UNCHANGED job
  <2> DEFINE j == worker[w].job
  <2>1. CASE ~Owns(w)
    BY <1>6, <2>1 DEF ReportFailureWrite
  <2>2. CASE Owns(w)
    <3>1. Busy(w) /\ worker[w].phase = "write"
          /\ job' = [job EXCEPT ![j] = FailureRow(j, worker[w].seen, worker[w].now)]
      BY <1>6, <2>2 DEF ReportFailureWrite, Busy
    <3>2. j \in Jobs /\ job[j].status = "running" /\ worker[w].now \in Nat
      BY <1>t, <2>2, <3>1, OwnedRow DEF TypeInv, TypeOK, WorkerState
    <3>3. worker[w].seen = job[j].attemptCount
      BY <2>2, <3>1 DEF QueueInv, ClaimCurrent
    <3>4. \A i \in Jobs : job'[i] = IF i \in {j}
                                    THEN FailureRow(i, job[i].attemptCount, worker[w].now)
                                    ELSE job[i]
      BY <1>t, <3>1, <3>2, <3>3 DEF TypeOK
    <3> HIDE DEF j
    <3> QED
      BY <1>t, <3>2, <3>4, FailedRows, {j} \in SUBSET Jobs
  <2> QED
    BY <2>1, <2>2
<1>7. ASSUME NEW w \in Workers,
             \/ StartPoll(w) \/ ClaimNothing(w) \/ HandlerFails(w)
             \/ ReportFailureRead(w) \/ Crash(w) \/ Restart(w)
      PROVE  UNCHANGED job
  BY <1>7 DEF StartPoll, ClaimNothing, HandlerFails, ReportFailureRead, Crash, Restart
<1>8. Tick \/ UNCHANGED vars => UNCHANGED job
  BY DEF Tick, vars
<1> QED
  BY <1>u, <1>1, <1>2, <1>3, <1>4, <1>5, <1>6, <1>7, <1>8 DEF Next, RunOnce

(***************************************************************************)
(* With distinct worker ids the table, the workers, their crashes and the  *)
(* clock implement the lifecycle of AgentJob.                              *)
(***************************************************************************)
THEOREM Refinement == ASSUME DistinctIds PROVE Spec => ImplementsLifecycle
BY LifecycleInit, LifecycleStep, QueueInvariant, PTL
   DEF Spec, ImplementsLifecycle, Lifecycle!JSpec

(***************************************************************************)
(* A completed or failed job is never run again; the refinement shows it,  *)
(* for no step of the lifecycle but Cancel leaves these two states.        *)
(***************************************************************************)
THEOREM SettledJobsStay == ASSUME DistinctIds PROVE Spec => SettledIsFinal
<1> DEFINE Kept == \A j \in Jobs : job[j].status \in {"completed", "failed"} =>
                     job'[j].status \in {job[j].status, "cancelled"}
<1>1. ASSUME QueueInv, [Next]_vars PROVE [Kept]_vars
  <2>1. [Lifecycle!JNext]_(Lifecycle!jvars)
    BY <1>1, LifecycleStep
  <2>2. \A j \in Jobs : /\ [i \in Jobs |-> job[i].status]'[j] = job'[j].status
                       /\ [i \in Jobs |-> job[i].status][j] = job[j].status
    OBVIOUS
  <2> QED
    BY <2>1, <2>2 DEF Lifecycle!JNext, Lifecycle!jvars, Lifecycle!Create,
       Lifecycle!Start, Lifecycle!Succeed, Lifecycle!FailAttempts, Lifecycle!Cancel
<1> QED
  BY <1>1, QueueInvariant, PTL DEF Spec, SettledIsFinal
=============================================================================
