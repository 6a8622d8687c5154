----------------------------- MODULE PlanReview -----------------------------
(***************************************************************************)
(* What agents say about the plans of one market after planning: revise_-  *)
(* plan, post_plan_review and memory_curate jobs, which write              *)
(* plan_revision_suggestions, post_plan_reviews, memory_lesson_candidates  *)
(* and, for each attempt, agent_runs.                                      *)
(*                                                                         *)
(* The three handlers have one form: read the input, ask the generator,    *)
(* record a successful run, then what it found; a catch block records a    *)
(* failed run.  A curation inserts its candidates together (Promise.all),  *)
(* so that when one insert fails the others go on by themselves.  The      *)
(* queue is what AgentJob promises.                                        *)
(***************************************************************************)
EXTENDS AgentJob, Sequences, FiniteSets

CONSTANTS
  Kind,      \* Kind[j]: "revise", "review" or "curate"
  MaxItems,  \* bound: lesson candidates of one curation
  MaxPlans   \* bound: versions that planning records meanwhile

ASSUME ReviewAssumption ==
  /\ Kind \in [Jobs -> {"revise", "review", "curate"}]
  /\ MaxAttempts \in [Jobs -> Nat \ {0}]
  /\ MaxItems \in Nat
  /\ MaxPlans \in Nat

VARIABLES
  plans,     \* trade_plan_versions of the market: is the version open?
  runs,      \* agent_runs; started_at is the locked_at of the attempt
  rows,      \* rows[r]: suggestions, reviews or candidates of agent run r
  reviewOf,  \* the run whose review each curation is for
  agent,     \* agent[w]: the step of worker w, and its local variables
  begun,     \* history: how often each job was claimed
  lost       \* history: attempts that ended outside the handlers' try blocks

tables == <<plans, runs, rows, reviewOf>>
vars == <<tables, agent, begun, lost, jvars>>

Steps == {"idle", "read", "recordRun", "store", "recordFailedRun"}
InTry == {"read", "recordRun", "store"}

Idle == [step |-> "idle", job |-> None, attempt |-> 0, version |-> 0, run |-> 0]

Goto(w, step) == agent' = [agent EXCEPT ![w].step = step]
Finish(w) == agent' = [agent EXCEPT ![w] = Idle]
Attempt(w) == <<agent[w].job, agent[w].attempt>>

Init ==
  /\ JInit
  /\ plans = << >>
  /\ runs = << >>
  /\ rows = << >>
  /\ reviewOf = [j \in Jobs |-> 0]
  /\ agent = [w \in Holders |-> Idle]
  /\ begun = [j \in Jobs |-> 0]
  /\ lost = {}

-----------------------------------------------------------------------------
(* Beside the workers *)

(* Planning goes on: module PlanLedger. *)
RecordPlan(open) ==
  /\ Len(plans) < MaxPlans
  /\ plans' = Append(plans, open)
  /\ UNCHANGED <<runs, rows, reviewOf, agent, begun, lost, jvars>>

Reviews == {r \in DOMAIN runs : Kind[runs[r].job] = "review" /\ rows[r] > 0}

(* A curation is enqueued for a stored review. *)
EnqueueJob(j) ==
  /\ Create(j)
  /\ \/ Kind[j] # "curate" /\ UNCHANGED reviewOf
     \/ Kind[j] = "curate" /\ \E r \in Reviews : reviewOf' = [reviewOf EXCEPT ![j] = r]
  /\ UNCHANGED <<plans, runs, rows, agent, begun, lost>>

(* The lock expires; its worker, if it is alive, does not notice. *)
LockExpires(j) ==
  /\ FailAttempts({j})
  /\ UNCHANGED <<tables, agent, begun, lost>>

(***************************************************************************)
(* The database does an insert of a successful run, whatever has become of *)
(* the process that sent it.  One that fails or is never sent is not done. *)
(***************************************************************************)
InsertRecord(r) ==
  /\ rows[r] < runs[r].items
  /\ rows' = [rows EXCEPT ![r] = @ + 1]
  /\ UNCHANGED <<plans, runs, reviewOf, agent, begun, lost, jvars>>

-----------------------------------------------------------------------------
(* An attempt *)

StartAttempt(w, j) ==
  /\ agent[w].step = "idle"
  /\ Start(j, w)
  /\ begun' = [begun EXCEPT ![j] = @ + 1]
  /\ agent' = [agent EXCEPT ![w] =
       [Idle EXCEPT !.step = "read", !.job = j, !.attempt = begun[j] + 1]]
  /\ UNCHANGED <<tables, lost>>

(***************************************************************************)
(* A revision needs an active plan, a review any plan of the market; a     *)
(* curation is about the version of its review.                            *)
(***************************************************************************)
HasInput(j) ==
  /\ plans # << >>
  /\ Kind[j] = "revise" => plans[Len(plans)]

InputVersion(j) ==
  IF Kind[j] = "curate" THEN runs[reviewOf[j]].version ELSE Len(plans)

ReadInput(w) ==
  /\ agent[w].step = "read"
  /\ HasInput(agent[w].job)
  /\ agent' = [agent EXCEPT ![w] = [@ EXCEPT !.step = "recordRun",
                                             !.version = InputVersion(agent[w].job)]]
  /\ UNCHANGED <<tables, begun, lost, jvars>>

Run(w, result, version, items) ==
  [job |-> agent[w].job, attempt |-> agent[w].attempt, status |-> result,
   version |-> version, items |-> items]

(***************************************************************************)
(* The answer is valid and the run is recorded, with the number of items   *)
(* in its output summary; then the inserts are sent.  Of a failed run the  *)
(* model does not tell "invalid_output" from "failed".                     *)
(***************************************************************************)
ItemCounts(j) == IF Kind[j] = "curate" THEN 0..MaxItems ELSE {1}

RecordRun(w) ==
  /\ agent[w].step = "recordRun"
  /\ \E n \in ItemCounts(agent[w].job) :
       runs' = Append(runs, Run(w, "success", agent[w].version, n))
  /\ rows' = Append(rows, 0)
  /\ agent' = [agent EXCEPT ![w] = [@ EXCEPT !.step = "store", !.run = Len(runs) + 1]]
  /\ UNCHANGED <<plans, reviewOf, begun, lost, jvars>>

AllStoredUnawaited(w) == TRUE \* mutant: the inserts are not awaited
AllStored(w) == rows[agent[w].run] = runs[agent[w].run].items

CompleteJob(w) ==
  LET j == agent[w].job
  IN  /\ agent[w].step = "store"
      /\ AllStored(w)
      /\ IF holder[j] = w THEN Succeed(j, w) ELSE UNCHANGED jvars
      /\ Finish(w)
      /\ UNCHANGED <<tables, begun, lost>>

(***************************************************************************)
(* The try block throws: the input is missing, the generator or any        *)
(* statement fails or its answer is lost.                                  *)
(***************************************************************************)
AttemptThrows(w) ==
  /\ agent[w].step \in InTry
  /\ Goto(w, "recordFailedRun")
  /\ UNCHANGED <<tables, begun, lost, jvars>>

ReportFailure(w) ==
  LET j == agent[w].job
  IN  IF holder[j] = w THEN FailAttempts({j}) ELSE UNCHANGED jvars

FailedRunOnce(w) == \* mutant: no second run for an attempt
  IF \E r \in DOMAIN runs : <<runs[r].job, runs[r].attempt>> = Attempt(w)
  THEN UNCHANGED <<runs, rows>>
  ELSE runs' = Append(runs, Run(w, "failed", 0, 0)) /\ rows' = Append(rows, 0)
FailedRunOnlyLate(w) == \* mutant: only the failures after a run are recorded
  IF agent[w].run = 0
  THEN UNCHANGED <<runs, rows>>
  ELSE runs' = Append(runs, Run(w, "failed", 0, 0)) /\ rows' = Append(rows, 0)
FailedRun(w) ==
  runs' = Append(runs, Run(w, "failed", 0, 0)) /\ rows' = Append(rows, 0)

RecordFailedRun(w) ==
  /\ agent[w].step = "recordFailedRun"
  /\ FailedRun(w)
  /\ ReportFailure(w)
  /\ Finish(w)
  /\ UNCHANGED <<plans, reviewOf, begun, lost>>

(***************************************************************************)
(* The handler throws outside its try block: the payload or the generator  *)
(* configuration is not valid, or the failed run cannot be recorded.       *)
(***************************************************************************)
FailUnrecorded(w) ==
  /\ agent[w].step \in {"read", "recordFailedRun"}
  /\ lost' = lost \union {Attempt(w)}
  /\ ReportFailure(w)
  /\ Finish(w)
  /\ UNCHANGED <<tables, begun>>

Crash(w) ==
  /\ agent[w].step # "idle"
  /\ lost' = lost \union {Attempt(w)}
  /\ Finish(w)
  /\ UNCHANGED <<tables, begun, jvars>>

-----------------------------------------------------------------------------

HandleJob(w) ==
  \/ \E j \in Jobs : StartAttempt(w, j)
  \/ ReadInput(w)
  \/ RecordRun(w)
  \/ CompleteJob(w)
  \/ AttemptThrows(w)
  \/ RecordFailedRun(w)
  \/ FailUnrecorded(w)
  \/ Crash(w)

Next ==
  \/ \E w \in Holders : HandleJob(w)
  \/ \E j \in Jobs : EnqueueJob(j) \/ LockExpires(j)
  \/ \E r \in DOMAIN runs : InsertRecord(r)
  \/ \E open \in BOOLEAN : RecordPlan(open)

Spec == Init /\ [][Next]_vars

-----------------------------------------------------------------------------
(* Properties *)

AgentRuns ==
  [job : Jobs, attempt : Nat, status : {"success", "failed"}, version : Nat, items : Nat]
AgentStates ==
  [step : {"idle"}, job : {None}, attempt : {0}, version : {0}, run : {0}]
    \union [step : Steps \ {"idle"}, job : Jobs, attempt : Nat, version : Nat, run : Nat]

TypeOK ==
  /\ plans \in Seq(BOOLEAN) /\ Len(plans) <= MaxPlans
  /\ runs \in Seq(AgentRuns)
  /\ rows \in Seq(Nat) /\ Len(rows) = Len(runs)
  /\ reviewOf \in [Jobs -> Nat]
  /\ agent \in [Holders -> AgentStates]
  /\ begun \in [Jobs -> Nat] /\ lost \subseteq Jobs \X Nat
  /\ status \in [Jobs -> JobStatus] /\ attempts \in [Jobs -> Nat]
  /\ holder \in [Jobs -> Holders \union {None}]

(***************************************************************************)
(* A completed job has left, in one of its attempts, a successful run and  *)
(* all the rows that the run counts, although the rows are inserted        *)
(* together and an earlier attempt may still be inserting its own.         *)
(***************************************************************************)
Whole(r) == rows[r] = runs[r].items

CompletedIsWhole ==
  \A j \in Jobs :
    status[j] = "completed" =>
      \E r \in DOMAIN runs : runs[r].job = j /\ runs[r].status = "success" /\ Whole(r)

(***************************************************************************)
(* Every attempt that is over has left an agent run, by the time its lock  *)
(* was taken, or it ended outside the try block or with its process.       *)
(***************************************************************************)
Running(j, n) == \E w \in Holders : agent[w].step # "idle" /\ Attempt(w) = <<j, n>>
RunsOf(j, n) == {r \in DOMAIN runs : runs[r].job = j /\ runs[r].attempt = n}

AttemptsTraced ==
  \A j \in Jobs : \A n \in 1..begun[j] :
    Running(j, n) \/ <<j, n>> \in lost \/ RunsOf(j, n) # {}

(***************************************************************************)
(* A successful run that lacks some of its rows does not pass for one that *)
(* worked: its attempt is still running, has left a failed run as well, or *)
(* was cut off.                                                            *)
(***************************************************************************)
HalfDoneIsShown ==
  \A r \in DOMAIN runs :
    LET j == runs[r].job
        n == runs[r].attempt
    IN  runs[r].status = "success" /\ ~Whole(r) =>
          \/ Running(j, n)
          \/ <<j, n>> \in lost
          \/ \E f \in RunsOf(j, n) : runs[f].status = "failed"

(***************************************************************************)
(* Nothing in the tables is unique: a retry, or a worker whose lock has    *)
(* expired, stores its suggestion, review or candidates beside those of    *)
(* another attempt at the same job.  But each set of rows is one that      *)
(* agent_jobs accounts for: as an attempt charged, or as the one that runs *)
(* or completed; and so a job stores no more sets than it has attempts.    *)
(***************************************************************************)
StoredBy(j) == {r \in DOMAIN runs : runs[r].job = j /\ runs[r].status = "success"}
Charged(j) == attempts[j] + IF status[j] \in {"running", "completed"} THEN 1 ELSE 0

DuplicatesCharged ==
  \A j \in Jobs : Cardinality(StoredBy(j)) <= Charged(j) /\ Charged(j) <= MaxAttempts[j]

-----------------------------------------------------------------------------
(* The inductive invariant behind them *)

(***************************************************************************)
(* A run belongs to an attempt that has begun and, if it succeeded, to a   *)
(* version that was recorded; no run has more rows than it counts, and a   *)
(* failed one has none.                                                    *)
(***************************************************************************)
RunsInOrder ==
  \A r \in DOMAIN runs :
    /\ runs[r].attempt \in 1..begun[runs[r].job]
    /\ runs[r].version \in 0..Len(plans)
    /\ runs[r].status = "success" => runs[r].version > 0
    /\ runs[r].status = "failed" => runs[r].items = 0
    /\ rows[r] <= runs[r].items

(* A curation is about a review that is stored. *)
CurationsHaveReviews ==
  \A j \in Jobs : Kind[j] = "curate" /\ status[j] # "absent" => reviewOf[j] \in Reviews

(***************************************************************************)
(* What a worker remembers: an attempt of its own that has no run before   *)
(* the worker records one, and then that one successful run.               *)
(***************************************************************************)
Successes(w) ==
  {r \in RunsOf(agent[w].job, agent[w].attempt) : runs[r].status = "success"}

AttemptInOrder(w) ==
  /\ status[agent[w].job] # "absent"
  /\ agent[w].attempt \in 1..begun[agent[w].job]
  /\ agent[w].version \in 0..Len(plans)
  /\ agent[w].step \in {"recordRun", "store"} => agent[w].version > 0
  /\ agent[w].step \in {"read", "recordRun"} => RunsOf(agent[w].job, agent[w].attempt) = {}
  /\ agent[w].step = "store" => Successes(w) = {agent[w].run}

AttemptsInOrder ==
  \A w \in Holders : agent[w].step # "idle" =>
    /\ AttemptInOrder(w)
    /\ \A v \in Holders : v # w /\ agent[v].step # "idle" => Attempt(v) # Attempt(w)

ReviewInv ==
  /\ TypeOK
  /\ RunsInOrder
  /\ CurationsHaveReviews
  /\ AttemptsInOrder
  /\ CompletedIsWhole
  /\ AttemptsTraced
  /\ HalfDoneIsShown

(***************************************************************************)
(* What DuplicatesCharged needs beside it: each claim of a job is charged  *)
(* once, a job that can still run has an attempt left, and an attempt has  *)
(* one successful run at most.                                             *)
(***************************************************************************)
ClaimsCharged ==
  \A j \in Jobs :
    /\ begun[j] = Charged(j)
    /\ IF status[j] = "failed" THEN attempts[j] <= MaxAttempts[j]
                               ELSE attempts[j] < MaxAttempts[j]

OneSuccess ==
  \A j \in Jobs : \A r, q \in StoredBy(j) : runs[r].attempt = runs[q].attempt => r = q

ChargeInv == ClaimsCharged /\ OneSuccess
=============================================================================
