------------------------------ MODULE AgentJob ------------------------------
(***************************************************************************)
(* What the agent_jobs queue promises to the code that enqueues and runs   *)
(* jobs, with no leases and no clock: a job is created once, every run of  *)
(* it is one attempt with one holder, only the holder completes it, a      *)
(* failed or abandoned attempt is charged and the job is retried until its *)
(* attempts are used up, and a settled job stays settled unless somebody   *)
(* cancels it.  JobQueue implements this specification; the modules about  *)
(* what the jobs do stand on it.                                           *)
(***************************************************************************)
EXTENDS Integers

CONSTANTS Jobs,         \* the idempotency keys: at most one job per key
          MaxAttempts,  \* max_attempts of each job
          Holders,      \* who may hold a job
          None          \* no holder

VARIABLES status,       \* status[j], "absent" before the first enqueue
          attempts,     \* attempt_count of each job
          holder        \* locked_by of each job

jvars == <<status, attempts, holder>>

JobStatus == {"absent", "pending", "running", "completed", "failed", "cancelled"}

JInit ==
  /\ status = [j \in Jobs |-> "absent"]
  /\ attempts = [j \in Jobs |-> 0]
  /\ holder = [j \in Jobs |-> None]

Create(j) ==
  /\ status[j] = "absent"
  /\ status' = [status EXCEPT ![j] = "pending"]
  /\ UNCHANGED <<attempts, holder>>

Start(j, h) ==
  /\ status[j] = "pending"
  /\ status' = [status EXCEPT ![j] = "running"]
  /\ holder' = [holder EXCEPT ![j] = h]
  /\ UNCHANGED attempts

SucceedUnfenced(j, h) == \* mutant: anybody may complete a job, again and again
  /\ status[j] # "absent"
  /\ status' = [status EXCEPT ![j] = "completed"]
  /\ holder' = [holder EXCEPT ![j] = None]
  /\ UNCHANGED attempts

Succeed(j, h) ==
  /\ status[j] = "running"
  /\ holder[j] = h
  /\ status' = [status EXCEPT ![j] = "completed"]
  /\ holder' = [holder EXCEPT ![j] = None]
  /\ UNCHANGED attempts

FailAttemptsUncharged(S) == \* mutant: a lost lock costs no attempt
  /\ \A j \in S : status[j] = "running"
  /\ status' = [j \in Jobs |-> IF j \in S THEN "pending" ELSE status[j]]
  /\ holder' = [j \in Jobs |-> IF j \in S THEN None ELSE holder[j]]
  /\ UNCHANGED attempts

(***************************************************************************)
(* The attempts of the jobs of S fail together: one transaction returns    *)
(* every timed out job to the queue.  S is one job when its holder reports *)
(* a failure.                                                              *)
(***************************************************************************)
FailAttempts(S) ==
  /\ \A j \in S : status[j] = "running"
  /\ status' = [j \in Jobs |->
                  IF j \notin S THEN status[j]
                  ELSE IF attempts[j] + 1 >= MaxAttempts[j] THEN "failed"
                  ELSE "pending"]
  /\ attempts' = [j \in Jobs |-> IF j \in S THEN attempts[j] + 1 ELSE attempts[j]]
  /\ holder' = [j \in Jobs |-> IF j \in S THEN None ELSE holder[j]]

Cancel(j) ==
  /\ status[j] # "absent"
  /\ status' = [status EXCEPT ![j] = "cancelled"]
  /\ holder' = [holder EXCEPT ![j] = None]
  /\ UNCHANGED attempts

JNext ==
  \/ \E j \in Jobs : Create(j) \/ Cancel(j)
  \/ \E j \in Jobs, h \in Holders : Start(j, h) \/ Succeed(j, h)
  \/ \E S \in SUBSET Jobs : FailAttempts(S)

JSpec == JInit /\ [][JNext]_jvars
=============================================================================
