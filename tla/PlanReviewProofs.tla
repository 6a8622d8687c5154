--------------------------- MODULE PlanReviewProofs ---------------------------
(***************************************************************************)
(* Proofs about PlanReview: for any number of workers, jobs, plans and     *)
(* candidates, a completed job is whole, every attempt that is over is     *)
(* traced, a half done one is shown, and what is stored twice is charged   *)
(* twice.  First what the tables keep, then the attempts, then what is     *)
(* claimed of them, then the steps, and last what the attempts cost.       *)
(***************************************************************************)
EXTENDS PlanReview, SequenceTheorems, FiniteSetTheorems, TLAPS

TablesTyped ==
  /\ plans \in Seq(BOOLEAN) /\ Len(plans) <= MaxPlans
  /\ runs \in Seq(AgentRuns)
  /\ rows \in Seq(Nat) /\ Len(rows) = Len(runs)
  /\ reviewOf \in [Jobs -> Nat] /\ begun \in [Jobs -> Nat]

QueueTyped ==
  /\ status \in [Jobs -> JobStatus] /\ attempts \in [Jobs -> Nat]
  /\ holder \in [Jobs -> Holders \union {None}]

TablesInv == TablesTyped /\ QueueTyped /\ RunsInOrder /\ CurationsHaveReviews

WorkInv ==
  /\ agent \in [Holders -> AgentStates]
  /\ lost \subseteq Jobs \X Nat
  /\ AttemptsInOrder

Claims == CompletedIsWhole /\ AttemptsTraced /\ HalfDoneIsShown

LEMMA Parts == ReviewInv <=> TablesInv /\ WorkInv /\ Claims
BY DEF ReviewInv, TypeOK, TablesInv, TablesTyped, QueueTyped, WorkInv, Claims

LEMMA RunAt ==
  ASSUME TablesInv
  PROVE  /\ Len(runs) \in Nat /\ DOMAIN runs = 1..Len(runs) /\ DOMAIN rows = DOMAIN runs
         /\ Len(plans) \in Nat
         /\ \A r \in DOMAIN runs :
              /\ runs[r] \in AgentRuns /\ rows[r] \in Nat
              /\ runs[r].job \in Jobs /\ runs[r].attempt \in Nat
              /\ runs[r].status \in {"success", "failed"}
              /\ runs[r].version \in Nat /\ runs[r].items \in Nat
<1>1. /\ Len(runs) \in Nat /\ DOMAIN runs = 1..Len(runs) /\ DOMAIN rows = DOMAIN runs
      /\ Len(plans) \in Nat
      /\ \A r \in DOMAIN runs : runs[r] \in AgentRuns /\ rows[r] \in Nat
  BY LenProperties, ElementOfSeq DEF TablesInv, TablesTyped
<1> QED
  BY <1>1 DEF AgentRuns

LEMMA BusyAgent ==
  ASSUME WorkInv, NEW w \in Holders, agent[w].step # "idle"
  PROVE  /\ agent[w].job \in Jobs /\ agent[w].attempt \in Nat /\ agent[w].version \in Nat
         /\ agent[w].run \in Nat /\ agent[w].step \in Steps \ {"idle"}
         /\ agent[w] = [step |-> agent[w].step, job |-> agent[w].job,
                        attempt |-> agent[w].attempt, version |-> agent[w].version,
                        run |-> agent[w].run]
         /\ AttemptInOrder(w)
BY DEF WorkInv, AgentStates, AttemptsInOrder

LEMMA IdleTyped == Idle \in AgentStates /\ Idle.step = "idle"
BY DEF Idle, AgentStates

-----------------------------------------------------------------------------
(* The queue *)

(* A job stays in the queue; none is completed but by its worker. *)
QueueGoesOn ==
  /\ QueueTyped'
  /\ \A j \in Jobs :
       /\ status[j] # "absent" => status'[j] # "absent"
       /\ status'[j] = "completed" => status[j] = "completed"

LEMMA QueueStays ==
  ASSUME QueueTyped, UNCHANGED jvars
  PROVE  QueueGoesOn
BY DEF QueueTyped, jvars, QueueGoesOn

LEMMA StartGoesOn ==
  ASSUME QueueTyped, NEW j \in Jobs, NEW w \in Holders, Start(j, w)
  PROVE  /\ QueueGoesOn /\ status[j] # "absent"
         /\ \A i \in Jobs : status'[i] = "absent" <=> status[i] = "absent"
BY DEF QueueTyped, QueueGoesOn, Start, JobStatus

LEMMA FailGoesOn ==
  ASSUME QueueTyped, NEW j \in Jobs, FailAttempts({j})
  PROVE  QueueGoesOn /\ \A i \in Jobs : status'[i] = "absent" <=> status[i] = "absent"
<1> DEFINE after == IF attempts[j] + 1 >= MaxAttempts[j] THEN "failed" ELSE "pending"
<1>1. /\ status[j] = "running"
      /\ status' = [i \in Jobs |-> IF i = j THEN after ELSE status[i]]
      /\ attempts' = [i \in Jobs |-> IF i = j THEN attempts[i] + 1 ELSE attempts[i]]
      /\ holder' = [i \in Jobs |-> IF i = j THEN None ELSE holder[i]]
  BY DEF FailAttempts
<1>2. after \in {"failed", "pending"}
  OBVIOUS
<1> HIDE DEF after
<1>3. QueueTyped'
  BY <1>1, <1>2 DEF QueueTyped, JobStatus
<1> QED
  BY <1>1, <1>2, <1>3 DEF QueueGoesOn

LEMMA ReportGoesOn ==
  ASSUME QueueTyped, NEW w \in Holders, agent[w].job \in Jobs, ReportFailure(w)
  PROVE  QueueGoesOn /\ \A i \in Jobs : status'[i] = "absent" <=> status[i] = "absent"
<1>1. PICK j \in Jobs : j = agent[w].job
  OBVIOUS
<1>2. CASE holder[j] = w
  <2>1. FailAttempts({j})
    BY <1>1, <1>2 DEF ReportFailure
  <2> QED
    BY <2>1, FailGoesOn
<1>3. CASE holder[j] # w
  <2>1. UNCHANGED jvars
    BY <1>1, <1>3 DEF ReportFailure
  <2> QED
    BY <2>1, QueueStays DEF jvars
<1> QED
  BY <1>2, <1>3

-----------------------------------------------------------------------------
(* The tables *)

(* No run is recorded; a plan, a row or an attempt may be. *)
LEMMA TablesGoOn ==
  ASSUME TablesInv, QueueTyped', TablesTyped', UNCHANGED <<runs, rows>>,
         Len(plans) <= Len(plans)', \A j \in Jobs : begun[j] <= begun'[j],
         \A j \in Jobs : Kind[j] = "curate" /\ status'[j] # "absent" =>
                           reviewOf'[j] \in Reviews
  PROVE  TablesInv'
<1>1. Len(plans) \in Nat /\ Len(plans') \in Nat
  BY LenProperties DEF TablesTyped, TablesInv
<1>2. RunsInOrder'
  <2> SUFFICES ASSUME NEW r \in DOMAIN runs
               PROVE  /\ runs[r].attempt \in 1..begun'[runs[r].job]
                      /\ runs[r].version \in 0..Len(plans')
                      /\ runs[r].status = "success" => runs[r].version > 0
                      /\ runs[r].status = "failed" => runs[r].items = 0
                      /\ rows[r] <= runs[r].items
    BY DEF RunsInOrder
  <2>1. /\ runs[r].attempt \in 1..begun[runs[r].job]
        /\ runs[r].version \in 0..Len(plans)
        /\ runs[r].status = "success" => runs[r].version > 0
        /\ runs[r].status = "failed" => runs[r].items = 0
        /\ rows[r] <= runs[r].items
    BY DEF TablesInv, RunsInOrder
  <2>2. runs[r].job \in Jobs /\ runs[r].attempt \in Nat /\ runs[r].version \in Nat
    BY RunAt
  <2>3. begun[runs[r].job] \in Nat /\ begun'[runs[r].job] \in Nat
        /\ begun[runs[r].job] <= begun'[runs[r].job]
    BY <2>2 DEF TablesInv, TablesTyped
  <2> QED
    BY <1>1, <2>1, <2>2, <2>3
<1>3. CurationsHaveReviews'
  BY DEF CurationsHaveReviews, Reviews
<1> QED
  BY <1>2, <1>3 DEF TablesInv

LEMMA TablesStay ==
  ASSUME TablesInv, QueueTyped', UNCHANGED <<plans, runs, rows, reviewOf, begun>>,
         \A i \in Jobs : status'[i] = "absent" <=> status[i] = "absent"
  PROVE  TablesInv'
<1>1. TablesTyped'
  BY DEF TablesInv, TablesTyped
<1>2. Len(plans) \in Nat /\ \A j \in Jobs : begun[j] \in Nat
  BY LenProperties DEF TablesInv, TablesTyped
<1>3. \A j \in Jobs : Kind[j] = "curate" /\ status'[j] # "absent" => reviewOf'[j] \in Reviews
  BY DEF TablesInv, CurationsHaveReviews
<1> QED
  BY <1>1, <1>2, <1>3, TablesGoOn

(* A run is recorded, of an attempt that has begun. *)
RunOfAttempt(run) ==
  /\ run \in AgentRuns
  /\ run.attempt \in 1..begun[run.job]
  /\ run.version \in 0..Len(plans)
  /\ run.status = "success" => run.version > 0
  /\ run.status = "failed" => run.items = 0

LEMMA RunAppended ==
  ASSUME TablesInv, NEW run, RunOfAttempt(run),
         runs' = Append(runs, run), rows' = Append(rows, 0)
  PROVE  /\ DOMAIN runs' = DOMAIN runs \union {Len(runs) + 1} /\ DOMAIN rows' = DOMAIN runs'
         /\ runs'[Len(runs) + 1] = run /\ rows'[Len(runs) + 1] = 0
         /\ Len(runs) + 1 \notin DOMAIN runs
         /\ \A r \in DOMAIN runs : runs'[r] = runs[r] /\ rows'[r] = rows[r]
         /\ runs' \in Seq(AgentRuns) /\ rows' \in Seq(Nat) /\ Len(rows') = Len(runs')
<1>1. /\ runs \in Seq(AgentRuns) /\ rows \in Seq(Nat) /\ Len(rows) = Len(runs)
      /\ run \in AgentRuns
  BY DEF TablesInv, TablesTyped, RunOfAttempt
<1>2. /\ Len(runs) \in Nat /\ DOMAIN runs = 1..Len(runs) /\ DOMAIN rows = DOMAIN runs
  BY RunAt
<1>3. /\ runs' \in Seq(AgentRuns) /\ Len(runs') = Len(runs) + 1
      /\ runs'[Len(runs) + 1] = run /\ \A r \in 1..Len(runs) : runs'[r] = runs[r]
  BY <1>1
<1>4. /\ rows' \in Seq(Nat) /\ Len(rows') = Len(runs) + 1
      /\ rows'[Len(runs) + 1] = 0 /\ \A r \in 1..Len(runs) : rows'[r] = rows[r]
  BY <1>1
<1>5. DOMAIN runs' = 1..(Len(runs) + 1) /\ DOMAIN rows' = 1..(Len(runs) + 1)
  BY <1>3, <1>4, LenProperties
<1> QED
  BY <1>2, <1>3, <1>4, <1>5

LEMMA TablesAppend ==
  ASSUME TablesInv, NEW run, RunOfAttempt(run), QueueTyped',
         runs' = Append(runs, run), rows' = Append(rows, 0),
         UNCHANGED <<plans, reviewOf, begun>>,
         \A i \in Jobs : status'[i] = "absent" <=> status[i] = "absent"
  PROVE  TablesInv'
<1>1. /\ DOMAIN runs' = DOMAIN runs \union {Len(runs) + 1}
      /\ runs'[Len(runs) + 1] = run /\ rows'[Len(runs) + 1] = 0
      /\ \A r \in DOMAIN runs : runs'[r] = runs[r] /\ rows'[r] = rows[r]
      /\ runs' \in Seq(AgentRuns) /\ rows' \in Seq(Nat) /\ Len(rows') = Len(runs')
  BY RunAppended
<1>2. TablesTyped'
  BY <1>1 DEF TablesInv, TablesTyped
<1>3. RunsInOrder'
  <2> SUFFICES ASSUME NEW r \in DOMAIN runs'
               PROVE  /\ runs'[r].attempt \in 1..begun[runs'[r].job]
                      /\ runs'[r].version \in 0..Len(plans)
                      /\ runs'[r].status = "success" => runs'[r].version > 0
                      /\ runs'[r].status = "failed" => runs'[r].items = 0
                      /\ rows'[r] <= runs'[r].items
    BY DEF RunsInOrder
  <2>1. CASE r \in DOMAIN runs
    <3>1. runs'[r] = runs[r] /\ rows'[r] = rows[r]
      BY <1>1, <2>1
    <3>2. /\ runs[r].attempt \in 1..begun[runs[r].job]
          /\ runs[r].version \in 0..Len(plans)
          /\ runs[r].status = "success" => runs[r].version > 0
          /\ runs[r].status = "failed" => runs[r].items = 0
          /\ rows[r] <= runs[r].items
      BY <2>1 DEF TablesInv, RunsInOrder
    <3> QED
      BY <3>1, <3>2
  <2>2. CASE r = Len(runs) + 1
    <3>1. runs'[r] = run /\ rows'[r] = 0 /\ run.items \in Nat
      BY <1>1, <2>2 DEF RunOfAttempt, AgentRuns
    <3>2. /\ run.attempt \in 1..begun[run.job] /\ run.version \in 0..Len(plans)
          /\ run.status = "success" => run.version > 0
          /\ run.status = "failed" => run.items = 0
          /\ 0 <= run.items
      BY <3>1 DEF RunOfAttempt
    <3> QED
      BY <3>1, <3>2
  <2> QED
    BY <1>1, <2>1, <2>2
<1>4. CurationsHaveReviews'
  BY <1>1 DEF TablesInv, CurationsHaveReviews, Reviews
<1> QED
  BY <1>2, <1>3, <1>4 DEF TablesInv

-----------------------------------------------------------------------------
(* The attempts *)

(* What the attempt of a worker rests on, when the worker itself stays. *)
LEMMA AttemptKept ==
  ASSUME TablesInv, TablesInv', WorkInv, NEW v \in Holders, agent[v].step # "idle",
         agent'[v] = agent[v],
         Len(plans) <= Len(plans)', \A j \in Jobs : begun[j] <= begun'[j],
         \A j \in Jobs : status[j] # "absent" => status'[j] # "absent",
         RunsOf(agent[v].job, agent[v].attempt)' = RunsOf(agent[v].job, agent[v].attempt),
         \A r \in DOMAIN runs : runs'[r] = runs[r]
  PROVE  AttemptInOrder(v)'
<1>1. PICK m : m = agent[v]
  OBVIOUS
<1>2. /\ m.job \in Jobs /\ m.attempt \in Nat /\ m.version \in Nat /\ agent'[v] = m
      /\ AttemptInOrder(v)
  BY <1>1, BusyAgent
<1>3. RunsOf(m.job, m.attempt)' = RunsOf(m.job, m.attempt)
  BY <1>1
<1>4. {r \in RunsOf(m.job, m.attempt)' : runs'[r].status = "success"}
        = {r \in RunsOf(m.job, m.attempt) : runs[r].status = "success"}
  BY <1>3 DEF RunsOf
<1>5. Successes(v)' = Successes(v)
  BY <1>1, <1>2, <1>4 DEF Successes
<1>6. /\ status'[m.job] # "absent" /\ m.attempt \in 1..begun'[m.job]
      /\ m.version \in 0..Len(plans')
  <2>1. begun[m.job] \in Nat /\ begun'[m.job] \in Nat /\ begun[m.job] <= begun'[m.job]
    BY <1>2 DEF TablesInv, TablesTyped
  <2>2. Len(plans) \in Nat /\ Len(plans') \in Nat
    BY LenProperties DEF TablesInv, TablesTyped
  <2>3. /\ status[m.job] # "absent" /\ m.attempt \in 1..begun[m.job]
        /\ m.version \in 0..Len(plans)
    BY <1>1, <1>2 DEF AttemptInOrder
  <2> QED
    BY <1>2, <2>1, <2>2, <2>3
<1> QED
  BY <1>1, <1>2, <1>3, <1>5, <1>6 DEF AttemptInOrder

(* No worker moves, and no run is recorded. *)
LEMMA WorkStays ==
  ASSUME TablesInv, TablesInv', WorkInv, UNCHANGED <<runs, agent, lost>>,
         Len(plans) <= Len(plans)', \A j \in Jobs : begun[j] <= begun'[j],
         \A j \in Jobs : status[j] # "absent" => status'[j] # "absent"
  PROVE  WorkInv'
<1>1. ASSUME NEW v \in Holders, agent[v].step # "idle"
      PROVE  AttemptInOrder(v)'
  <2>1. RunsOf(agent[v].job, agent[v].attempt)' = RunsOf(agent[v].job, agent[v].attempt)
    BY DEF RunsOf
  <2> QED
    BY <1>1, <2>1, AttemptKept
<1>2. AttemptsInOrder'
  BY <1>1 DEF WorkInv, AttemptsInOrder, Attempt
<1> QED
  BY <1>2 DEF WorkInv

(***************************************************************************)
(* One worker moves, to an attempt that no other worker is at, or to none; *)
(* a run that is recorded is of that attempt.                              *)
(***************************************************************************)
LEMMA WorkMoves ==
  ASSUME TablesInv, TablesInv', WorkInv, NEW w \in Holders, NEW m \in AgentStates,
         agent' = [agent EXCEPT ![w] = m], lost' \subseteq Jobs \X Nat,
         Len(plans) <= Len(plans)', \A j \in Jobs : begun[j] <= begun'[j],
         \A j \in Jobs : status[j] # "absent" => status'[j] # "absent",
         \A r \in DOMAIN runs : r \in DOMAIN runs' /\ runs'[r] = runs[r],
         \A r \in DOMAIN runs' : r \in DOMAIN runs \/
            (agent[w].step # "idle" /\ <<runs'[r].job, runs'[r].attempt>> = Attempt(w)),
         m.step # "idle" =>
           /\ AttemptInOrder(w)'
           /\ \A v \in Holders : v # w /\ agent[v].step # "idle" =>
                Attempt(v) # <<m.job, m.attempt>>
  PROVE  WorkInv'
<1>1. /\ agent' \in [Holders -> AgentStates] /\ agent'[w] = m
      /\ \A v \in Holders : v # w => agent'[v] = agent[v]
  BY DEF WorkInv
<1>2. ASSUME NEW v \in Holders, v # w, agent[v].step # "idle"
      PROVE  AttemptInOrder(v)'
  <2>1. PICK i, n : i = agent[v].job /\ n = agent[v].attempt
    OBVIOUS
  <2>2. agent[w].step # "idle" => Attempt(w) # <<i, n>>
    BY <1>2, <2>1 DEF WorkInv, AttemptsInOrder, Attempt
  <2>3. RunsOf(i, n)' = RunsOf(i, n)
    BY <2>2 DEF RunsOf
  <2>4. agent'[v] = agent[v]
    BY <1>1, <1>2
  <2>5. RunsOf(agent[v].job, agent[v].attempt)' = RunsOf(agent[v].job, agent[v].attempt)
    BY <2>1, <2>3, <2>4
  <2> QED
    BY <1>2, <2>4, <2>5, AttemptKept
<1>3. ASSUME NEW v \in Holders, agent'[v].step # "idle"
      PROVE  /\ AttemptInOrder(v)'
             /\ \A u \in Holders : u # v /\ agent'[u].step # "idle" =>
                  Attempt(u)' # Attempt(v)'
  <2>1. CASE v = w
    BY <1>1, <1>3, <2>1 DEF Attempt
  <2>2. CASE v # w
    BY <1>1, <1>2, <1>3, <2>2 DEF WorkInv, AttemptsInOrder, Attempt
  <2> QED
    BY <2>1, <2>2
<1>4. AttemptsInOrder'
  BY <1>3 DEF AttemptsInOrder
<1> QED
  BY <1>1, <1>4 DEF WorkInv

-----------------------------------------------------------------------------
(* What is claimed of the attempts *)

AttemptWhole(j, n) ==
  /\ RunsOf(j, n) # {}
  /\ \A r \in RunsOf(j, n) : runs[r].status = "success" => Whole(r)

(***************************************************************************)
(* No run is recorded and no attempt begins: an attempt that is no longer  *)
(* running was cut off, or is whole.                                       *)
(***************************************************************************)
LEMMA ClaimsStay ==
  ASSUME Claims, UNCHANGED <<runs, begun>>, lost \subseteq lost',
         \A r \in DOMAIN runs : Whole(r) => Whole(r)',
         \A j \in Jobs : status'[j] = "completed" =>
           \/ status[j] = "completed"
           \/ \E r \in DOMAIN runs : runs[r].job = j /\ runs[r].status = "success" /\ Whole(r),
         \A j, n : Running(j, n) =>
           Running(j, n)' \/ <<j, n>> \in lost' \/ AttemptWhole(j, n)
  PROVE  Claims'
<1>1. CompletedIsWhole'
  BY DEF Claims, CompletedIsWhole
<1>2. \A j, n : RunsOf(j, n)' = RunsOf(j, n)
  BY DEF RunsOf
<1>3. AttemptsTraced'
  BY <1>2 DEF Claims, AttemptsTraced, AttemptWhole
<1>4. HalfDoneIsShown'
  <2> SUFFICES ASSUME NEW r \in DOMAIN runs, runs[r].status = "success", ~Whole(r)',
                      NEW j, NEW n, j = runs[r].job, n = runs[r].attempt
               PROVE  \/ Running(j, n)'
                      \/ <<j, n>> \in lost'
                      \/ \E f \in RunsOf(j, n) : runs[f].status = "failed"
    BY <1>2 DEF HalfDoneIsShown
  <2>1. ~Whole(r) /\ r \in RunsOf(j, n)
    BY DEF RunsOf
  <2>2. ~AttemptWhole(j, n)
    BY <2>1 DEF AttemptWhole
  <2>3. \/ Running(j, n)
        \/ <<j, n>> \in lost
        \/ \E f \in RunsOf(j, n) : runs[f].status = "failed"
    BY <2>1 DEF Claims, HalfDoneIsShown
  <2> QED
    BY <2>2, <2>3
<1> QED
  BY <1>1, <1>3, <1>4 DEF Claims

(* When one worker moves, its attempt is the only one that may stop running. *)
LEMMA OthersRun ==
  ASSUME WorkInv, NEW w \in Holders, NEW m \in AgentStates,
         agent' = [agent EXCEPT ![w] = m], NEW j, NEW n, Running(j, n)
  PROVE  Running(j, n)' \/ (agent[w].step # "idle" /\ <<j, n>> = Attempt(w))
<1>1. /\ agent'[w] = m /\ \A v \in Holders : v # w => agent'[v] = agent[v]
  BY DEF WorkInv
<1>2. PICK v \in Holders : agent[v].step # "idle" /\ Attempt(v) = <<j, n>>
  BY DEF Running
<1>3. CASE v = w
  BY <1>2, <1>3
<1>4. CASE v # w
  <2>1. agent'[v] = agent[v]
    BY <1>1, <1>4
  <2> QED
    BY <1>2, <2>1 DEF Running, Attempt
<1> QED
  BY <1>3, <1>4

LEMMA LastRuns ==
  ASSUME WorkInv, NEW w \in Holders, agent' = [agent EXCEPT ![w] = Idle]
  PROVE  \A j, n : Running(j, n) => Running(j, n)' \/ <<j, n>> = Attempt(w)
BY IdleTyped, OthersRun

LEMMA MovedRuns ==
  ASSUME WorkInv, NEW w \in Holders, NEW m \in AgentStates,
         agent' = [agent EXCEPT ![w] = m], m.step # "idle"
  PROVE  Running(m.job, m.attempt)'
<1>1. agent'[w] = m
  BY DEF WorkInv
<1> QED
  BY <1>1 DEF Running, Attempt

(* A run is recorded of the attempt of w, which runs on or has failed. *)
LEMMA ClaimsAppend ==
  ASSUME TablesInv, WorkInv, Claims, NEW run, RunOfAttempt(run),
         runs' = Append(runs, run), rows' = Append(rows, 0), UNCHANGED <<begun, lost>>,
         NEW w \in Holders, NEW m \in AgentStates, agent' = [agent EXCEPT ![w] = m],
         agent[w].step # "idle", <<run.job, run.attempt>> = Attempt(w),
         (m.step # "idle" /\ <<m.job, m.attempt>> = Attempt(w)) \/ run.status = "failed",
         \A j \in Jobs : status'[j] = "completed" => status[j] = "completed"
  PROVE  Claims'
<1> DEFINE new == Len(runs) + 1
<1>1. /\ DOMAIN runs' = DOMAIN runs \union {new} /\ DOMAIN rows' = DOMAIN runs'
      /\ runs'[new] = run /\ new \notin DOMAIN runs
      /\ \A r \in DOMAIN runs : runs'[r] = runs[r] /\ rows'[r] = rows[r]
  BY RunAppended
<1> HIDE DEF new
<1>2. \A r \in DOMAIN runs : Whole(r)' <=> Whole(r)
  BY <1>1 DEF Whole
<1>3. CompletedIsWhole'
  <2> SUFFICES ASSUME NEW j \in Jobs, status'[j] = "completed"
               PROVE  \E r \in DOMAIN runs' :
                        runs'[r].job = j /\ runs'[r].status = "success" /\ Whole(r)'
    BY DEF CompletedIsWhole
  <2>1. PICK r \in DOMAIN runs : runs[r].job = j /\ runs[r].status = "success" /\ Whole(r)
    BY DEF Claims, CompletedIsWhole
  <2> QED
    BY <1>1, <1>2, <2>1
<1>4. PICK i, k : i = run.job /\ k = run.attempt
  OBVIOUS
<1>5. /\ \A j, n : RunsOf(j, n) \subseteq RunsOf(j, n)'
      /\ new \in RunsOf(i, k)'
      /\ Running(i, k)' \/ runs'[new].status = "failed"
  <2>1. (m.step # "idle" /\ m.job = i /\ m.attempt = k) \/ run.status = "failed"
    BY <1>4 DEF Attempt
  <2> QED
    BY <1>1, <1>4, <2>1, MovedRuns DEF RunsOf
<1>6. \A j, n : Running(j, n) => Running(j, n)' \/ <<j, n>> = <<i, k>>
  BY <1>4, OthersRun
<1>7. AttemptsTraced'
  <2> SUFFICES ASSUME NEW j \in Jobs, NEW n \in 1..begun[j]
               PROVE  Running(j, n)' \/ <<j, n>> \in lost \/ RunsOf(j, n)' # {}
    BY DEF AttemptsTraced
  <2>1. Running(j, n) \/ <<j, n>> \in lost \/ RunsOf(j, n) # {}
    BY DEF Claims, AttemptsTraced
  <2> QED
    BY <1>5, <1>6, <2>1
<1>8. HalfDoneIsShown'
  <2> SUFFICES ASSUME NEW r \in DOMAIN runs', (runs[r].status = "success")', ~Whole(r)'
               PROVE  (\/ Running(runs[r].job, runs[r].attempt)
                       \/ <<runs[r].job, runs[r].attempt>> \in lost
                       \/ \E f \in RunsOf(runs[r].job, runs[r].attempt) :
                            runs[f].status = "failed")'
    BY DEF HalfDoneIsShown
  <2>1. PICK j, n : j = runs'[r].job /\ n = runs'[r].attempt
    OBVIOUS
  <2>2. \/ Running(j, n)'
        \/ <<j, n>> \in lost
        \/ \E f \in RunsOf(j, n)' : runs'[f].status = "failed"
    <3>1. CASE <<j, n>> = <<i, k>>
      BY <1>5, <3>1
    <3>2. CASE <<j, n>> # <<i, k>>
      <4>1. r # new
        BY <1>1, <1>4, <2>1, <3>2
      <4>2. r \in DOMAIN runs /\ runs'[r] = runs[r] /\ ~Whole(r)
        BY <1>1, <1>2, <4>1
      <4>3. \/ Running(j, n)
            \/ <<j, n>> \in lost
            \/ \E f \in RunsOf(j, n) : runs[f].status = "failed"
        BY <2>1, <4>2 DEF Claims, HalfDoneIsShown
      <4>4. CASE \E f \in RunsOf(j, n) : runs[f].status = "failed"
        <5>1. PICK f \in RunsOf(j, n) : runs[f].status = "failed"
          BY <4>4
        <5>2. f \in RunsOf(j, n)' /\ runs'[f] = runs[f]
          BY <1>1, <1>5 DEF RunsOf
        <5> QED
          BY <5>1, <5>2
      <4> QED
        BY <1>6, <3>2, <4>3, <4>4
    <3> QED
      BY <3>1, <3>2
  <2> QED
    BY <2>1, <2>2 DEF Running, RunsOf, Attempt
<1> QED
  BY <1>3, <1>7, <1>8 DEF Claims

-----------------------------------------------------------------------------
(* The steps beside the workers *)

LEMMA ReviewInit == Init => ReviewInv
<1> SUFFICES ASSUME Init PROVE ReviewInv
  OBVIOUS
<1>1. TablesInv
  <2>1. TablesTyped /\ QueueTyped
    BY ReviewAssumption DEF Init, JInit, TablesTyped, QueueTyped, JobStatus
  <2>2. RunsInOrder /\ CurationsHaveReviews
    BY DEF Init, JInit, RunsInOrder, CurationsHaveReviews
  <2> QED
    BY <2>1, <2>2 DEF TablesInv
<1>2. WorkInv
  BY IdleTyped DEF Init, WorkInv, AttemptsInOrder
<1>3. Claims
  BY DEF Init, JInit, Claims, CompletedIsWhole, AttemptsTraced, HalfDoneIsShown
<1> QED
  BY <1>1, <1>2, <1>3, Parts

LEMMA PartsGoOn ==
  ASSUME TablesInv', WorkInv', Claims'
  PROVE  ReviewInv'
BY DEF ReviewInv, TypeOK, TablesInv, TablesTyped, QueueTyped, WorkInv, Claims

(* A step that leaves runs, workers and attempts as they are. *)
LEMMA BesideWorkers ==
  ASSUME ReviewInv, TablesInv', UNCHANGED <<runs, agent, begun, lost>>,
         Len(plans) <= Len(plans)', QueueGoesOn,
         \A r \in DOMAIN runs : Whole(r) => Whole(r)'
  PROVE  ReviewInv'
<1>1. TablesInv /\ WorkInv /\ Claims
  BY Parts
<1>2. \A j \in Jobs : begun[j] <= begun'[j]
  <2>1. \A j \in Jobs : begun[j] \in Nat
    BY <1>1 DEF TablesInv, TablesTyped
  <2> QED
    BY <2>1
<1>3. WorkInv'
  BY <1>1, <1>2, WorkStays DEF QueueGoesOn
<1>4. \A j, n : Running(j, n)' <=> Running(j, n)
  BY DEF Running, Attempt
<1>5. Claims'
  BY <1>1, <1>4, ClaimsStay DEF QueueGoesOn
<1> QED
  BY <1>1, <1>3, <1>5, PartsGoOn

LEMMA RecordPlanStep ==
  ASSUME ReviewInv, NEW open \in BOOLEAN, RecordPlan(open)
  PROVE  ReviewInv'
<1>1. TablesInv /\ WorkInv /\ Claims
  BY Parts
<1>2. /\ Len(plans) < MaxPlans /\ plans' = Append(plans, open)
      /\ UNCHANGED <<runs, rows, reviewOf, agent, begun, lost, jvars>>
  BY DEF RecordPlan
<1>3. /\ plans' \in Seq(BOOLEAN) /\ Len(plans') = Len(plans) + 1 /\ Len(plans) \in Nat
  BY <1>1, <1>2, LenProperties DEF TablesInv, TablesTyped
<1>4. TablesTyped' /\ QueueGoesOn
  BY <1>1, <1>2, <1>3, QueueStays, ReviewAssumption DEF TablesInv, TablesTyped
<1>5. TablesInv'
  <2>1. \A j \in Jobs : begun[j] <= begun'[j]
    BY <1>1, <1>2 DEF TablesInv, TablesTyped
  <2>2. \A j \in Jobs : Kind[j] = "curate" /\ status'[j] # "absent" => reviewOf'[j] \in Reviews
    BY <1>1, <1>2 DEF TablesInv, CurationsHaveReviews, jvars
  <2> QED
    BY <1>1, <1>2, <1>3, <1>4, <2>1, <2>2, TablesGoOn DEF QueueGoesOn
<1> QED
  BY <1>2, <1>3, <1>4, <1>5, BesideWorkers DEF Whole

LEMMA EnqueueJobStep ==
  ASSUME ReviewInv, NEW j \in Jobs, EnqueueJob(j)
  PROVE  ReviewInv'
<1>1. TablesInv /\ WorkInv /\ Claims
  BY Parts
<1>2. /\ status[j] = "absent" /\ status' = [status EXCEPT ![j] = "pending"]
      /\ UNCHANGED <<attempts, holder, plans, runs, rows, agent, begun, lost>>
  BY DEF EnqueueJob, Create
<1>3. QueueGoesOn
  BY <1>1, <1>2 DEF TablesInv, QueueTyped, QueueGoesOn, JobStatus
<1>4. /\ reviewOf' \in [Jobs -> Nat] /\ \A i \in Jobs : i # j => reviewOf'[i] = reviewOf[i]
      /\ Kind[j] = "curate" => reviewOf'[j] \in Reviews
  <2>1. CASE Kind[j] # "curate" /\ UNCHANGED reviewOf
    BY <1>1, <2>1 DEF TablesInv, TablesTyped
  <2>2. CASE \E r \in Reviews : reviewOf' = [reviewOf EXCEPT ![j] = r]
    <3>1. PICK r \in Reviews : reviewOf' = [reviewOf EXCEPT ![j] = r]
      BY <2>2
    <3>2. r \in Nat
      BY <1>1, RunAt DEF Reviews
    <3> QED
      BY <1>1, <3>1, <3>2 DEF TablesInv, TablesTyped
  <2> QED
    BY <2>1, <2>2 DEF EnqueueJob
<1>5. TablesInv'
  <2>1. TablesTyped'
    BY <1>1, <1>2, <1>4 DEF TablesInv, TablesTyped
  <2>2. \A i \in Jobs : begun[i] <= begun'[i]
    BY <1>1, <1>2 DEF TablesInv, TablesTyped
  <2>3. \A i \in Jobs : Kind[i] = "curate" /\ status'[i] # "absent" => reviewOf'[i] \in Reviews
    BY <1>1, <1>2, <1>4 DEF TablesInv, QueueTyped, CurationsHaveReviews
  <2>4. Len(plans) <= Len(plans)'
    BY <1>1, <1>2, RunAt
  <2> QED
    BY <1>1, <1>2, <1>3, <2>1, <2>2, <2>3, <2>4, TablesGoOn DEF QueueGoesOn
<1>6. Len(plans) <= Len(plans)'
  BY <1>1, <1>2, RunAt
<1> QED
  BY <1>2, <1>3, <1>5, <1>6, BesideWorkers DEF Whole

LEMMA QueueStep ==
  ASSUME ReviewInv, UNCHANGED <<tables, agent, begun, lost>>, QueueGoesOn,
         \A i \in Jobs : status'[i] = "absent" <=> status[i] = "absent"
  PROVE  ReviewInv'
<1>1. TablesInv /\ TablesInv'
  BY Parts, TablesStay DEF tables, QueueGoesOn
<1>2. Len(plans) <= Len(plans)'
  BY <1>1, RunAt DEF tables
<1> QED
  BY <1>1, <1>2, BesideWorkers DEF tables, Whole

LEMMA InsertRecordStep ==
  ASSUME ReviewInv, NEW q \in DOMAIN runs, InsertRecord(q)
  PROVE  ReviewInv'
<1>1. TablesInv /\ WorkInv /\ Claims
  BY Parts
<1>2. /\ rows[q] < runs[q].items /\ rows' = [rows EXCEPT ![q] = @ + 1]
      /\ UNCHANGED <<plans, runs, reviewOf, agent, begun, lost, jvars>>
  BY DEF InsertRecord
<1>3. /\ DOMAIN rows = DOMAIN runs /\ DOMAIN runs = 1..Len(runs) /\ Len(runs) \in Nat
      /\ \A r \in DOMAIN runs : rows[r] \in Nat /\ runs[r].items \in Nat
      /\ Len(plans) <= Len(plans)'
  BY <1>1, <1>2, RunAt
<1>4. /\ DOMAIN rows' = DOMAIN runs /\ rows'[q] = rows[q] + 1
      /\ \A r \in DOMAIN runs : rows'[r] \in Nat /\ (r # q => rows'[r] = rows[r])
  BY <1>2, <1>3
<1>5. rows' \in Seq(Nat) /\ Len(rows') = Len(runs)
  <2>1. rows \in Seq(Nat) /\ Len(rows) = Len(runs)
    BY <1>1 DEF TablesInv, TablesTyped
  <2> QED
    BY <1>2, <1>3, <2>1, ExceptSeq
<1>6. QueueGoesOn
  BY <1>1, <1>2, QueueStays DEF TablesInv
<1>7. TablesInv'
  <2>1. TablesTyped'
    BY <1>1, <1>2, <1>5 DEF TablesInv, TablesTyped
  <2>2. RunsInOrder'
    <3> SUFFICES ASSUME NEW r \in DOMAIN runs
                 PROVE  rows'[r] <= runs[r].items
      BY <1>1, <1>2 DEF TablesInv, RunsInOrder
    <3>1. CASE r = q
      BY <1>2, <1>3, <1>4, <3>1
    <3>2. CASE r # q
      BY <1>1, <1>4, <3>2 DEF TablesInv, RunsInOrder
    <3> QED
      BY <3>1, <3>2
  <2>3. Reviews \subseteq Reviews'
    BY <1>2, <1>3, <1>4 DEF Reviews
  <2>4. CurationsHaveReviews'
    BY <1>1, <1>2, <2>3 DEF TablesInv, CurationsHaveReviews, jvars
  <2> QED
    BY <1>6, <2>1, <2>2, <2>4 DEF TablesInv, QueueGoesOn
<1>8. \A r \in DOMAIN runs : Whole(r) => Whole(r)'
  BY <1>2, <1>3, <1>4 DEF Whole
<1> QED
  BY <1>2, <1>3, <1>6, <1>7, <1>8, BesideWorkers

-----------------------------------------------------------------------------
(* The steps of a worker *)

LEMMA StartAttemptStep ==
  ASSUME ReviewInv, NEW w \in Holders, NEW j \in Jobs, StartAttempt(w, j)
  PROVE  ReviewInv'
<1>1. TablesInv /\ WorkInv /\ Claims
  BY Parts
<1>0. PICK n : n = begun[j] + 1
  OBVIOUS
<1> DEFINE m == [Idle EXCEPT !.step = "read", !.job = j, !.attempt = n]
<1>2. /\ agent[w].step = "idle" /\ Start(j, w) /\ begun' = [begun EXCEPT ![j] = n]
      /\ agent' = [agent EXCEPT ![w] = m]
      /\ UNCHANGED <<plans, runs, rows, reviewOf, lost>>
  BY <1>0 DEF StartAttempt, tables
<1>3. n \in Nat \ {0} /\ begun[j] \in Nat /\ \A i \in Jobs : begun[i] \in Nat
  BY <1>0, <1>1 DEF TablesInv, TablesTyped
<1>4. /\ m \in AgentStates /\ m.step = "read" /\ m.job = j /\ m.attempt = n
      /\ m.version = 0
  BY <1>3 DEF Idle, AgentStates, Steps
<1> HIDE DEF m
<1>5. /\ begun' \in [Jobs -> Nat] /\ begun'[j] = n
      /\ \A i \in Jobs : begun[i] <= begun'[i] /\ (i # j => begun'[i] = begun[i])
  BY <1>0, <1>1, <1>2, <1>3 DEF TablesInv, TablesTyped
<1>6. /\ QueueGoesOn /\ status[j] # "absent"
      /\ \A i \in Jobs : status'[i] = "absent" <=> status[i] = "absent"
  BY <1>1, <1>2, StartGoesOn DEF TablesInv
<1>7. Len(plans) <= Len(plans)' /\ Len(plans) \in Nat
  BY <1>1, <1>2, RunAt
<1>8. TablesInv'
  <2>1. TablesTyped'
    BY <1>1, <1>2, <1>5 DEF TablesInv, TablesTyped
  <2>2. \A i \in Jobs : Kind[i] = "curate" /\ status'[i] # "absent" => reviewOf'[i] \in Reviews
    BY <1>1, <1>2, <1>6 DEF TablesInv, CurationsHaveReviews
  <2> QED
    BY <1>1, <1>2, <1>5, <1>6, <1>7, <2>1, <2>2, TablesGoOn DEF QueueGoesOn
<1>9. /\ agent'[w] = m /\ \A v \in Holders : v # w => agent'[v] = agent[v]
  BY <1>1, <1>2 DEF WorkInv
<1>10. WorkInv'
  <2>1. RunsOf(j, n) = {}
    <3> SUFFICES ASSUME NEW r \in DOMAIN runs, runs[r].job = j, runs[r].attempt = n
                 PROVE  FALSE
      BY DEF RunsOf
    <3>1. runs[r].attempt \in 1..begun[j]
      BY <1>1 DEF TablesInv, RunsInOrder
    <3> QED
      BY <1>0, <1>3, <3>1
  <2>2. RunsOf(j, n)' = {}
    BY <1>2, <2>1 DEF RunsOf
  <2>3. AttemptInOrder(w)'
    <3>1. /\ status'[j] # "absent" /\ n \in 1..begun'[j] /\ 0 \in 0..Len(plans')
      BY <1>2, <1>3, <1>5, <1>6, <1>7
    <3> QED
      BY <1>4, <1>9, <2>2, <3>1 DEF AttemptInOrder, RunsOf
  <2>4. ASSUME NEW v \in Holders, v # w, agent[v].step # "idle"
        PROVE  Attempt(v) # <<m.job, m.attempt>>
    <3>1. agent[v].attempt \in 1..begun[agent[v].job]
      BY <1>1, <2>4, BusyAgent DEF AttemptInOrder
    <3>2. agent[v].job = j => agent[v].attempt # n
      BY <1>0, <1>3, <3>1
    <3> QED
      BY <1>4, <3>2 DEF Attempt
  <2>5. lost' \subseteq Jobs \X Nat
    BY <1>1, <1>2 DEF WorkInv
  <2> QED
    BY <1>1, <1>2, <1>4, <1>5, <1>6, <1>7, <1>8, <2>3, <2>4, <2>5, WorkMoves
     DEF QueueGoesOn
<1>11. \A i, k : Running(i, k) => Running(i, k)'
  BY <1>1, <1>2, <1>4, OthersRun
<1>12. Running(j, n)'
  BY <1>1, <1>2, <1>4, MovedRuns
<1>13. \A i, k : RunsOf(i, k)' = RunsOf(i, k)
  BY <1>2 DEF RunsOf
<1>14. Claims'
  <2>1. CompletedIsWhole'
    BY <1>1, <1>2, <1>6 DEF Claims, CompletedIsWhole, QueueGoesOn, Whole
  <2>2. AttemptsTraced'
    <3> SUFFICES ASSUME NEW i \in Jobs, NEW k \in 1..begun'[i]
                 PROVE  Running(i, k)' \/ <<i, k>> \in lost \/ RunsOf(i, k) # {}
      BY <1>2, <1>13 DEF AttemptsTraced
    <3>1. CASE i = j /\ k = n
      BY <1>12, <3>1
    <3>2. CASE ~(i = j /\ k = n)
      <4>1. k \in 1..begun[i]
        BY <1>0, <1>3, <1>5, <3>2
      <4> QED
        BY <1>1, <1>11, <4>1 DEF Claims, AttemptsTraced
    <3> QED
      BY <3>1, <3>2
  <2>3. HalfDoneIsShown'
    BY <1>1, <1>2, <1>11, <1>13 DEF Claims, HalfDoneIsShown, Whole
  <2> QED
    BY <2>1, <2>2, <2>3 DEF Claims
<1> QED
  BY <1>8, <1>10, <1>14, PartsGoOn

(* A worker goes on with its attempt and records nothing. *)
LEMMA AttemptGoesOn ==
  ASSUME ReviewInv, NEW w \in Holders, agent[w].step # "idle", NEW m \in AgentStates,
         agent' = [agent EXCEPT ![w] = m], m.step \in {"recordRun", "recordFailedRun"},
         m.job = agent[w].job, m.attempt = agent[w].attempt, m.version \in 0..Len(plans),
         m.step = "recordRun" =>
           m.version > 0 /\ RunsOf(agent[w].job, agent[w].attempt) = {},
         UNCHANGED <<tables, begun, lost, jvars>>
  PROVE  ReviewInv'
<1>1. TablesInv /\ WorkInv /\ Claims
  BY Parts
<1>2. UNCHANGED <<plans, runs, rows, reviewOf>>
  BY DEF tables
<1>3. QueueGoesOn /\ \A i \in Jobs : status'[i] = "absent" <=> status[i] = "absent"
  BY <1>1, QueueStays DEF TablesInv, jvars
<1>4. TablesInv'
  BY <1>1, <1>2, <1>3, TablesStay DEF QueueGoesOn
<1>5. Len(plans) <= Len(plans)' /\ \A j \in Jobs : begun[j] <= begun'[j]
  BY <1>1, <1>2, RunAt DEF TablesInv, TablesTyped
<1>6. agent'[w] = m /\ AttemptInOrder(w)
  BY <1>1, BusyAgent DEF WorkInv
<1>7. AttemptInOrder(w)'
  <2>1. \A i, k : RunsOf(i, k)' = RunsOf(i, k)
    BY <1>2 DEF RunsOf
  <2>2. PICK i, k : i = m.job /\ k = m.attempt
    OBVIOUS
  <2>3. m.step = "recordRun" => RunsOf(i, k)' = {}
    BY <2>1, <2>2
  <2>4. status'[i] # "absent" /\ k \in 1..begun'[i] /\ m.version \in 0..Len(plans')
    BY <1>2, <1>6, <2>2 DEF AttemptInOrder, jvars
  <2> QED
    BY <1>6, <2>2, <2>3, <2>4 DEF AttemptInOrder, RunsOf
<1>8. WorkInv'
  <2>1. \A v \in Holders : v # w /\ agent[v].step # "idle" => Attempt(v) # <<m.job, m.attempt>>
    BY <1>1 DEF WorkInv, AttemptsInOrder, Attempt
  <2>2. lost' \subseteq Jobs \X Nat
    BY <1>1 DEF WorkInv
  <2> QED
    BY <1>1, <1>2, <1>3, <1>4, <1>5, <1>7, <2>1, <2>2, WorkMoves DEF QueueGoesOn
<1>9. \A i, k : Running(i, k) => Running(i, k)'
  <2>1. Running(m.job, m.attempt)'
    BY <1>1, MovedRuns
  <2> SUFFICES ASSUME NEW i, NEW k, Running(i, k) PROVE Running(i, k)'
    OBVIOUS
  <2>2. Running(i, k)' \/ (i = m.job /\ k = m.attempt)
    BY <1>1, OthersRun DEF Attempt
  <2> QED
    BY <2>1, <2>2
<1>10. Claims'
  BY <1>1, <1>2, <1>3, <1>9, ClaimsStay DEF QueueGoesOn, Whole
<1> QED
  BY <1>4, <1>8, <1>10, PartsGoOn

LEMMA ReadInputStep ==
  ASSUME ReviewInv, NEW w \in Holders, ReadInput(w)
  PROVE  ReviewInv'
<1>1. TablesInv /\ WorkInv /\ Claims
  BY Parts
<1>2. PICK j, version : j = agent[w].job /\ version = InputVersion(j)
  OBVIOUS
<1> DEFINE m == [agent[w] EXCEPT !.step = "recordRun", !.version = version]
<1>3. /\ agent[w].step = "read" /\ HasInput(j) /\ agent' = [agent EXCEPT ![w] = m]
      /\ UNCHANGED <<tables, begun, lost, jvars>>
  BY <1>2 DEF ReadInput
<1>4. j \in Jobs /\ AttemptInOrder(w) /\ status[j] # "absent"
  BY <1>1, <1>2, <1>3, BusyAgent DEF AttemptInOrder
<1>5. version \in 1..Len(plans)
  <2>1. plans \in Seq(BOOLEAN) /\ plans # << >> /\ Len(plans) \in Nat
    BY <1>1, <1>3, RunAt DEF HasInput, TablesInv, TablesTyped
  <2>2. Len(plans) >= 1
    BY <2>1, EmptySeq
  <2>3. CASE Kind[j] # "curate"
    BY <1>2, <2>1, <2>2, <2>3 DEF InputVersion
  <2>4. CASE Kind[j] = "curate"
    <3>1. PICK r : r = reviewOf[j]
      OBVIOUS
    <3>2. r \in DOMAIN runs /\ rows[r] > 0
      BY <1>1, <1>4, <2>4, <3>1 DEF TablesInv, CurationsHaveReviews, Reviews
    <3>3. /\ runs[r].items \in Nat /\ rows[r] \in Nat /\ rows[r] <= runs[r].items
          /\ runs[r].version \in 0..Len(plans) /\ runs[r].status \in {"success", "failed"}
          /\ runs[r].status = "failed" => runs[r].items = 0
          /\ runs[r].status = "success" => runs[r].version > 0
      BY <1>1, <3>2, RunAt DEF TablesInv, RunsInOrder
    <3>4. runs[r].version \in 1..Len(plans)
      BY <2>1, <3>2, <3>3
    <3> QED
      BY <1>2, <2>4, <3>1, <3>4 DEF InputVersion
  <2> QED
    BY <2>3, <2>4
<1>6. /\ m \in AgentStates /\ m.step = "recordRun" /\ m.version = version
      /\ m.job = j /\ m.attempt = agent[w].attempt
  <2>1. /\ agent[w].job \in Jobs /\ agent[w].attempt \in Nat /\ agent[w].run \in Nat
        /\ agent[w] = [step |-> agent[w].step, job |-> agent[w].job,
                       attempt |-> agent[w].attempt, version |-> agent[w].version,
                       run |-> agent[w].run]
    BY <1>1, <1>3, BusyAgent
  <2>2. version \in Nat
    BY <1>5
  <2> QED
    BY <1>2, <2>1, <2>2 DEF AgentStates, Steps
<1>7. RunsOf(agent[w].job, agent[w].attempt) = {}
  BY <1>3, <1>4 DEF AttemptInOrder
<1>8. version \in 0..Len(plans) /\ version > 0
  BY <1>5
<1> HIDE DEF m
<1> QED
  BY <1>2, <1>3, <1>6, <1>7, <1>8, AttemptGoesOn

LEMMA AttemptThrowsStep ==
  ASSUME ReviewInv, NEW w \in Holders, AttemptThrows(w)
  PROVE  ReviewInv'
<1>1. TablesInv /\ WorkInv /\ Claims
  BY Parts
<1> DEFINE m == [agent[w] EXCEPT !.step = "recordFailedRun"]
<1>2. /\ agent[w].step # "idle" /\ agent' = [agent EXCEPT ![w] = m]
      /\ UNCHANGED <<tables, begun, lost, jvars>>
  BY DEF AttemptThrows, Goto, InTry
<1>3. /\ agent[w].job \in Jobs /\ agent[w].attempt \in Nat /\ agent[w].run \in Nat
      /\ agent[w].version \in Nat
      /\ agent[w] = [step |-> agent[w].step, job |-> agent[w].job,
                     attempt |-> agent[w].attempt, version |-> agent[w].version,
                     run |-> agent[w].run]
      /\ agent[w].version \in 0..Len(plans)
  BY <1>1, <1>2, BusyAgent DEF AttemptInOrder
<1>4. /\ m \in AgentStates /\ m.step = "recordFailedRun" /\ m.version = agent[w].version
      /\ m.job = agent[w].job /\ m.attempt = agent[w].attempt
  BY <1>3 DEF AgentStates, Steps
<1> HIDE DEF m
<1> QED
  BY <1>2, <1>3, <1>4, AttemptGoesOn

LEMMA RecordRunStep ==
  ASSUME ReviewInv, NEW w \in Holders, RecordRun(w)
  PROVE  ReviewInv'
<1>1. TablesInv /\ WorkInv /\ Claims
  BY Parts
<1>2. agent[w].step = "recordRun"
  BY DEF RecordRun
<1>3. /\ agent[w].job \in Jobs /\ agent[w].attempt \in Nat /\ agent[w].version \in Nat
      /\ agent[w] = [step |-> agent[w].step, job |-> agent[w].job,
                     attempt |-> agent[w].attempt, version |-> agent[w].version,
                     run |-> agent[w].run]
      /\ AttemptInOrder(w)
  BY <1>1, <1>2, BusyAgent
<1>4. PICK j, k, version : /\ j = agent[w].job /\ k = agent[w].attempt
                           /\ version = agent[w].version
  OBVIOUS
<1>5. /\ j \in Jobs /\ k \in 1..begun[j] /\ k \in Nat /\ version \in 0..Len(plans)
      /\ version > 0 /\ version \in Nat /\ RunsOf(j, k) = {} /\ status[j] # "absent"
  BY <1>2, <1>3, <1>4 DEF AttemptInOrder
<1>6. PICK n \in Nat : runs' = Append(runs, Run(w, "success", version, n))
  <2>1. ItemCounts(j) \subseteq Nat
    BY ReviewAssumption DEF ItemCounts
  <2> QED
    BY <1>4, <2>1 DEF RecordRun
<1> DEFINE new == Len(runs) + 1
<1> DEFINE m == [agent[w] EXCEPT !.step = "store", !.run = new]
<1>7. PICK run : run = Run(w, "success", version, n)
  OBVIOUS
<1>8. /\ run \in AgentRuns /\ run.job = j /\ run.attempt = k /\ run.status = "success"
      /\ RunOfAttempt(run)
  <2>1. /\ run.job = j /\ run.attempt = k /\ run.status = "success"
        /\ run.version = version
        /\ run.items = n /\ run \in AgentRuns
    BY <1>4, <1>5, <1>7 DEF Run, AgentRuns
  <2> QED
    BY <1>5, <2>1 DEF RunOfAttempt
<1>9. /\ runs' = Append(runs, run) /\ rows' = Append(rows, 0)
      /\ agent' = [agent EXCEPT ![w] = m]
      /\ UNCHANGED <<plans, reviewOf, begun, lost, jvars>>
  BY <1>6, <1>7 DEF RecordRun
<1>10. new \in Nat
  BY <1>1, RunAt
<1>11. /\ m \in AgentStates /\ m.step = "store" /\ m.job = j /\ m.attempt = k
       /\ m.version = version /\ m.run = new
  BY <1>3, <1>4, <1>10 DEF AgentStates, Steps
<1>12. /\ DOMAIN runs' = DOMAIN runs \union {new} /\ runs'[new] = run
       /\ \A r \in DOMAIN runs : runs'[r] = runs[r]
  BY <1>1, <1>8, <1>9, RunAppended
<1> HIDE DEF new, m
<1>13. QueueGoesOn /\ \A i \in Jobs : status'[i] = "absent" <=> status[i] = "absent"
  BY <1>1, <1>9, QueueStays DEF TablesInv, jvars
<1>14. TablesInv'
  BY <1>1, <1>8, <1>9, <1>13, TablesAppend DEF QueueGoesOn
<1>15. Len(plans) <= Len(plans)' /\ \A i \in Jobs : begun[i] <= begun'[i]
  BY <1>1, <1>9, RunAt DEF TablesInv, TablesTyped
<1>16. AttemptInOrder(w)'
  <2>1. agent'[w] = m
    BY <1>1, <1>9 DEF WorkInv
  <2>2. RunsOf(j, k)' = {new}
    BY <1>5, <1>8, <1>12 DEF RunsOf
  <2>3. {r \in RunsOf(j, k)' : runs'[r].status = "success"} = {new}
    BY <1>8, <1>12, <2>2
  <2>4. Successes(w)' = {agent'[w].run}
    BY <1>11, <2>1, <2>3 DEF Successes, RunsOf
  <2>5. status'[j] # "absent" /\ k \in 1..begun'[j] /\ version \in 0..Len(plans')
    BY <1>5, <1>9 DEF jvars
  <2> QED
    BY <1>5, <1>11, <2>1, <2>4, <2>5 DEF AttemptInOrder
<1>17. WorkInv'
  <2>1. \A v \in Holders : v # w /\ agent[v].step # "idle" => Attempt(v) # <<m.job, m.attempt>>
    BY <1>1, <1>2, <1>4, <1>11 DEF WorkInv, AttemptsInOrder, Attempt
  <2>2. lost' \subseteq Jobs \X Nat
    BY <1>1, <1>9 DEF WorkInv
  <2>3. \A r \in DOMAIN runs' : r \in DOMAIN runs \/
          (agent[w].step # "idle" /\ <<runs'[r].job, runs'[r].attempt>> = Attempt(w))
    BY <1>2, <1>4, <1>8, <1>12 DEF Attempt
  <2> QED
    BY <1>1, <1>9, <1>11, <1>12, <1>13, <1>14, <1>15, <1>16, <2>1, <2>2, <2>3, WorkMoves
       DEF QueueGoesOn
<1>18. Claims'
  <2>1. /\ <<run.job, run.attempt>> = Attempt(w) /\ m.step # "idle"
        /\ <<m.job, m.attempt>> = Attempt(w) /\ agent[w].step # "idle"
    BY <1>2, <1>4, <1>8, <1>11 DEF Attempt
  <2> QED
    BY <1>1, <1>8, <1>9, <1>11, <1>13, <2>1, ClaimsAppend DEF QueueGoesOn
<1> QED
  BY <1>14, <1>17, <1>18, PartsGoOn

LEMMA RecordFailedRunStep ==
  ASSUME ReviewInv, NEW w \in Holders, RecordFailedRun(w)
  PROVE  ReviewInv'
<1>1. TablesInv /\ WorkInv /\ Claims
  BY Parts
<1>2. PICK run : run = Run(w, "failed", 0, 0)
  OBVIOUS
<1>3. /\ agent[w].step = "recordFailedRun" /\ ReportFailure(w)
      /\ runs' = Append(runs, run) /\ rows' = Append(rows, 0)
      /\ agent' = [agent EXCEPT ![w] = Idle]
      /\ UNCHANGED <<plans, reviewOf, begun, lost>>
  BY <1>2 DEF RecordFailedRun, FailedRun, Finish
<1>4. PICK j, k : j = agent[w].job /\ k = agent[w].attempt
  OBVIOUS
<1>5. j \in Jobs /\ k \in Nat /\ k \in 1..begun[j]
  BY <1>1, <1>3, <1>4, BusyAgent DEF AttemptInOrder
<1>6. /\ run \in AgentRuns /\ run.job = j /\ run.attempt = k /\ run.status = "failed"
      /\ RunOfAttempt(run)
  <2>1. /\ run.job = j /\ run.attempt = k /\ run.status = "failed" /\ run.version = 0
        /\ run.items = 0 /\ run \in AgentRuns
    BY <1>2, <1>4, <1>5 DEF Run, AgentRuns
  <2>2. 0 \in 0..Len(plans)
    BY <1>1, RunAt
  <2> QED
    BY <1>5, <2>1, <2>2 DEF RunOfAttempt
<1>7. /\ DOMAIN runs' = DOMAIN runs \union {Len(runs) + 1} /\ runs'[Len(runs) + 1] = run
      /\ \A r \in DOMAIN runs : runs'[r] = runs[r]
  BY <1>1, <1>3, <1>6, RunAppended
<1>8. QueueGoesOn /\ \A i \in Jobs : status'[i] = "absent" <=> status[i] = "absent"
  BY <1>1, <1>3, <1>4, <1>5, ReportGoesOn DEF TablesInv
<1>9. TablesInv'
  BY <1>1, <1>3, <1>6, <1>8, TablesAppend DEF QueueGoesOn
<1>10. Len(plans) <= Len(plans)' /\ \A i \in Jobs : begun[i] <= begun'[i]
  BY <1>1, <1>3, RunAt DEF TablesInv, TablesTyped
<1>11. <<run.job, run.attempt>> = Attempt(w) /\ agent[w].step # "idle"
  BY <1>3, <1>4, <1>6 DEF Attempt
<1>12. WorkInv'
  <2>1. lost' \subseteq Jobs \X Nat
    BY <1>1, <1>3 DEF WorkInv
  <2>2. \A r \in DOMAIN runs' : r \in DOMAIN runs \/
          (agent[w].step # "idle" /\ <<runs'[r].job, runs'[r].attempt>> = Attempt(w))
    BY <1>7, <1>11
  <2> QED
    BY <1>1, <1>3, <1>7, <1>8, <1>9, <1>10, <2>1, <2>2, IdleTyped, WorkMoves
     DEF QueueGoesOn
<1>13. Claims'
  BY <1>1, <1>3, <1>6, <1>8, <1>11, IdleTyped, ClaimsAppend DEF QueueGoesOn
<1> QED
  BY <1>9, <1>12, <1>13, PartsGoOn

(* An attempt is over and records nothing more: it is whole, or cut off. *)
LEMMA AttemptEnds ==
  ASSUME ReviewInv, NEW w \in Holders, agent[w].step # "idle",
         agent' = [agent EXCEPT ![w] = Idle], UNCHANGED <<tables, begun>>,
         lost \subseteq lost', lost' \subseteq lost \union {Attempt(w)},
         Attempt(w) \in lost' \/ AttemptWhole(agent[w].job, agent[w].attempt),
         QueueTyped', \A i \in Jobs : status'[i] = "absent" <=> status[i] = "absent",
         \A j \in Jobs : status'[j] = "completed" =>
           \/ status[j] = "completed"
           \/ \E r \in DOMAIN runs : runs[r].job = j /\ runs[r].status = "success" /\ Whole(r)
  PROVE  ReviewInv'
<1>1. TablesInv /\ WorkInv /\ Claims
  BY Parts
<1>2. UNCHANGED <<plans, runs, rows, reviewOf>>
  BY DEF tables
<1>3. TablesInv'
  BY <1>1, <1>2, TablesStay
<1>4. Len(plans) <= Len(plans)' /\ \A i \in Jobs : begun[i] <= begun'[i]
  BY <1>1, <1>2, RunAt DEF TablesInv, TablesTyped
<1>5. WorkInv'
  <2>1. Attempt(w) \in Jobs \X Nat
    BY <1>1, BusyAgent DEF Attempt
  <2>2. lost' \subseteq Jobs \X Nat
    BY <1>1, <2>1 DEF WorkInv
  <2> QED
    BY <1>1, <1>2, <1>3, <1>4, <2>2, IdleTyped, WorkMoves
<1>6. \A j, n : Running(j, n) => Running(j, n)' \/ <<j, n>> \in lost' \/ AttemptWhole(j, n)
  <2> SUFFICES ASSUME NEW j, NEW n, Running(j, n)
               PROVE  Running(j, n)' \/ <<j, n>> \in lost' \/ AttemptWhole(j, n)
    OBVIOUS
  <2>1. Running(j, n)' \/ <<j, n>> = Attempt(w)
    BY <1>1, LastRuns DEF Running, Attempt
  <2> QED
    BY <2>1 DEF Attempt
<1>7. Claims'
  BY <1>1, <1>2, <1>6, ClaimsStay DEF Whole
<1> QED
  BY <1>3, <1>5, <1>7, PartsGoOn

LEMMA CompleteJobStep ==
  ASSUME ReviewInv, NEW w \in Holders, CompleteJob(w)
  PROVE  ReviewInv'
<1>1. TablesInv /\ WorkInv /\ Claims
  BY Parts
<1>2. PICK j, k, r : j = agent[w].job /\ k = agent[w].attempt /\ r = agent[w].run
  OBVIOUS
<1>3. /\ agent[w].step = "store" /\ rows[r] = runs[r].items
      /\ IF holder[j] = w THEN Succeed(j, w) ELSE UNCHANGED jvars
      /\ agent' = [agent EXCEPT ![w] = Idle] /\ UNCHANGED <<tables, begun, lost>>
  BY <1>2 DEF CompleteJob, AllStored, Finish
<1>4. j \in Jobs /\ Successes(w) = {r}
  BY <1>1, <1>2, <1>3, BusyAgent DEF AttemptInOrder
<1>5. /\ r \in DOMAIN runs /\ runs[r].job = j /\ runs[r].status = "success" /\ Whole(r)
      /\ AttemptWhole(j, k)
  BY <1>2, <1>3, <1>4 DEF Successes, RunsOf, AttemptWhole, Whole
<1>6. /\ QueueTyped' /\ \A i \in Jobs : status'[i] = "absent" <=> status[i] = "absent"
      /\ \A i \in Jobs : status'[i] = "completed" => status[i] = "completed" \/ i = j
  <2>1. CASE UNCHANGED jvars
    BY <1>1, <2>1, QueueStays DEF TablesInv, QueueGoesOn, jvars
  <2>2. CASE Succeed(j, w)
    BY <1>1, <1>4, <2>2 DEF TablesInv, QueueTyped, Succeed, JobStatus
  <2> QED
    BY <1>3, <2>1, <2>2
<1>7. /\ agent[w].step # "idle" /\ lost \subseteq lost'
      /\ lost' \subseteq lost \union {Attempt(w)}
  BY <1>3
<1> QED
  BY <1>2, <1>3, <1>5, <1>6, <1>7, AttemptEnds

LEMMA CutOffStep ==
  ASSUME ReviewInv, NEW w \in Holders, FailUnrecorded(w) \/ Crash(w)
  PROVE  ReviewInv'
<1>1. TablesInv /\ WorkInv /\ Claims
  BY Parts
<1>2. /\ agent[w].step # "idle" /\ lost' = lost \union {Attempt(w)}
      /\ agent' = [agent EXCEPT ![w] = Idle] /\ UNCHANGED <<tables, begun>>
      /\ ReportFailure(w) \/ UNCHANGED jvars
  BY DEF FailUnrecorded, Crash, Finish
<1>3. agent[w].job \in Jobs
  BY <1>1, <1>2, BusyAgent
<1>4. QueueGoesOn /\ \A i \in Jobs : status'[i] = "absent" <=> status[i] = "absent"
  <2>1. CASE ReportFailure(w)
    BY <1>1, <1>3, <2>1, ReportGoesOn DEF TablesInv
  <2>2. CASE UNCHANGED jvars
    BY <1>1, <2>2, QueueStays DEF TablesInv, jvars
  <2> QED
    BY <1>2, <2>1, <2>2
<1>5. Attempt(w) \in lost' /\ lost \subseteq lost'
  BY <1>2
<1> QED
  BY <1>2, <1>4, <1>5, AttemptEnds DEF QueueGoesOn

-----------------------------------------------------------------------------
(* The theorems *)

LEMMA ReviewNext == ReviewInv /\ [Next]_vars => ReviewInv'
<1> SUFFICES ASSUME ReviewInv, [Next]_vars PROVE ReviewInv'
  OBVIOUS
<1>1. TablesInv
  BY Parts
<1>2. ASSUME NEW w \in Holders, HandleJob(w) PROVE ReviewInv'
  <2>1. ASSUME NEW j \in Jobs, StartAttempt(w, j) PROVE ReviewInv'
    BY <2>1, StartAttemptStep
  <2>2. CASE ReadInput(w)
    BY <2>2, ReadInputStep
  <2>3. CASE RecordRun(w)
    BY <2>3, RecordRunStep
  <2>4. CASE CompleteJob(w)
    BY <2>4, CompleteJobStep
  <2>5. CASE AttemptThrows(w)
    BY <2>5, AttemptThrowsStep
  <2>6. CASE RecordFailedRun(w)
    BY <2>6, RecordFailedRunStep
  <2>7. CASE FailUnrecorded(w) \/ Crash(w)
    BY <2>7, CutOffStep
  <2> QED
    BY <1>2, <2>1, <2>2, <2>3, <2>4, <2>5, <2>6, <2>7 DEF HandleJob
<1>3. ASSUME NEW j \in Jobs, EnqueueJob(j) PROVE ReviewInv'
  BY <1>3, EnqueueJobStep
<1>4. ASSUME NEW j \in Jobs, LockExpires(j) PROVE ReviewInv'
  <2>1. FailAttempts({j}) /\ UNCHANGED <<tables, agent, begun, lost>>
    BY <1>4 DEF LockExpires
  <2> QED
    BY <1>1, <2>1, FailGoesOn, QueueStep DEF TablesInv
<1>5. ASSUME NEW r \in DOMAIN runs, InsertRecord(r) PROVE ReviewInv'
  BY <1>5, InsertRecordStep
<1>6. ASSUME NEW open \in BOOLEAN, RecordPlan(open) PROVE ReviewInv'
  BY <1>6, RecordPlanStep
<1>7. CASE UNCHANGED vars
  <2>1. UNCHANGED jvars /\ UNCHANGED <<tables, agent, begun, lost>>
    BY <1>7 DEF vars
  <2> QED
    BY <1>1, <2>1, QueueStays, QueueStep DEF TablesInv, jvars
<1> QED
  BY <1>2, <1>3, <1>4, <1>5, <1>6, <1>7 DEF Next

LEMMA ReviewHolds == Spec => []ReviewInv
BY ReviewInit, ReviewNext, PTL DEF Spec

(***************************************************************************)
(* A completed revision, review or curation has stored, in one attempt,    *)
(* all that its successful run counts, whatever earlier attempts still     *)
(* insert.                                                                 *)
(***************************************************************************)
THEOREM CompletedStaysWhole == Spec => []CompletedIsWhole
<1>1. ReviewInv => CompletedIsWhole
  BY DEF ReviewInv
<1> QED
  BY <1>1, ReviewHolds, PTL

(***************************************************************************)
(* Every attempt that is over has left an agent run, or ended where the    *)
(* handlers cannot record one: outside the try block or with its process.  *)
(***************************************************************************)
THEOREM AttemptsStayTraced == Spec => []AttemptsTraced
<1>1. ReviewInv => AttemptsTraced
  BY DEF ReviewInv
<1> QED
  BY <1>1, ReviewHolds, PTL

(***************************************************************************)
(* A successful run without some of its rows is still running, has left a  *)
(* failed run beside it or was cut off: no half done curation passes for   *)
(* one that worked.                                                        *)
(***************************************************************************)
THEOREM HalfDoneStaysShown == Spec => []HalfDoneIsShown
<1>1. ReviewInv => HalfDoneIsShown
  BY DEF ReviewInv
<1> QED
  BY <1>1, ReviewHolds, PTL

-----------------------------------------------------------------------------
(***************************************************************************)
(* What a job has stored is charged to it.  The queue keeps ClaimsCharged, *)
(* the workers keep OneSuccess, because a worker that records a success is *)
(* at an attempt that has no run (AttemptInOrder).  The successful runs of *)
(* a job then map one to one into its attempts.                            *)
(***************************************************************************)

LEMMA ChargeInit == Init => ChargeInv
<1> SUFFICES ASSUME Init PROVE ChargeInv
  OBVIOUS
<1>1. ClaimsCharged
  <2> SUFFICES ASSUME NEW j \in Jobs
               PROVE  /\ begun[j] = Charged(j)
                      /\ status[j] # "failed" /\ attempts[j] < MaxAttempts[j]
    BY DEF ClaimsCharged
  <2>1. status[j] = "absent" /\ attempts[j] = 0 /\ begun[j] = 0
    BY DEF Init, JInit
  <2>2. MaxAttempts[j] \in Nat \ {0}
    BY ReviewAssumption
  <2> QED
    BY <2>1, <2>2 DEF Charged
<1>2. OneSuccess
  BY DEF Init, OneSuccess, StoredBy
<1> QED
  BY <1>1, <1>2 DEF ChargeInv

(* One job changes its place in the queue and is charged what it must be. *)
LEMMA ChargeMoves ==
  ASSUME QueueTyped, ClaimsCharged, UNCHANGED begun,
         \/ UNCHANGED jvars
         \/ \E j \in Jobs : Create(j) \/ FailAttempts({j})
         \/ \E j \in Jobs, w \in Holders : Succeed(j, w)
  PROVE  ClaimsCharged'
<1>1. CASE UNCHANGED jvars
  BY <1>1 DEF ClaimsCharged, Charged, jvars
<1>2. ASSUME NEW j \in Jobs, Create(j) PROVE ClaimsCharged'
  BY <1>2 DEF QueueTyped, ClaimsCharged, Charged, Create
<1>3. ASSUME NEW j \in Jobs, FailAttempts({j}) PROVE ClaimsCharged'
  <2> DEFINE after == IF attempts[j] + 1 >= MaxAttempts[j] THEN "failed" ELSE "pending"
  <2>1. /\ status[j] = "running"
        /\ status' = [i \in Jobs |-> IF i = j THEN after ELSE status[i]]
        /\ attempts' = [i \in Jobs |-> IF i = j THEN attempts[i] + 1 ELSE attempts[i]]
    BY <1>3 DEF FailAttempts
  <2>2. /\ attempts[j] \in Nat /\ MaxAttempts[j] \in Nat
        /\ begun[j] = attempts[j] + 1 /\ attempts[j] < MaxAttempts[j]
    BY <2>1, ReviewAssumption DEF QueueTyped, ClaimsCharged, Charged
  <2>3. /\ after \in {"failed", "pending"}
        /\ IF after = "failed" THEN attempts[j] + 1 <= MaxAttempts[j]
                               ELSE attempts[j] + 1 < MaxAttempts[j]
    BY <2>2
  <2> HIDE DEF after
  <2> QED
    BY <2>1, <2>2, <2>3 DEF ClaimsCharged, Charged
<1>4. ASSUME NEW j \in Jobs, NEW w \in Holders, Succeed(j, w) PROVE ClaimsCharged'
  BY <1>4 DEF QueueTyped, ClaimsCharged, Charged, Succeed
<1> QED
  BY <1>1, <1>2, <1>3, <1>4

LEMMA ChargeStart ==
  ASSUME TablesInv, ClaimsCharged, NEW w \in Holders, NEW j \in Jobs, StartAttempt(w, j)
  PROVE  ClaimsCharged'
<1>1. /\ status[j] = "pending" /\ status' = [status EXCEPT ![j] = "running"]
      /\ begun' = [begun EXCEPT ![j] = @ + 1] /\ UNCHANGED attempts
  BY DEF StartAttempt, Start
<1>2. attempts[j] \in Nat /\ begun[j] = attempts[j] /\ attempts[j] < MaxAttempts[j]
  BY <1>1 DEF TablesInv, QueueTyped, ClaimsCharged, Charged
<1> QED
  BY <1>1, <1>2 DEF TablesInv, TablesTyped, QueueTyped, ClaimsCharged, Charged

(* The queue moves in every step as AgentJob lets it. *)
LEMMA ClaimsChargedStep ==
  ASSUME ReviewInv, ClaimsCharged, [Next]_vars
  PROVE  ClaimsCharged'
<1>1. TablesInv /\ WorkInv
  BY Parts
<1>2. QueueTyped
  BY <1>1 DEF TablesInv
<1>3. ASSUME NEW w \in Holders, ReportFailure(w), agent[w].step # "idle"
      PROVE  \/ UNCHANGED jvars
             \/ \E j \in Jobs : FailAttempts({j})
  BY <1>1, <1>3, BusyAgent DEF ReportFailure
<1>4. ASSUME NEW w \in Holders, HandleJob(w) PROVE ClaimsCharged'
  <2>1. ASSUME NEW j \in Jobs, StartAttempt(w, j) PROVE ClaimsCharged'
    BY <1>1, <2>1, ChargeStart
  <2>2. CASE ReadInput(w) \/ RecordRun(w) \/ AttemptThrows(w) \/ Crash(w)
    BY <1>2, <2>2, ChargeMoves DEF ReadInput, RecordRun, AttemptThrows, Crash
  <2>3. CASE CompleteJob(w)
    <3>1. agent[w].job \in Jobs /\ UNCHANGED begun
      BY <1>1, <2>3, BusyAgent DEF CompleteJob
    <3>2. Succeed(agent[w].job, w) \/ UNCHANGED jvars
      BY <2>3 DEF CompleteJob
    <3> QED
      BY <1>2, <3>1, <3>2, ChargeMoves
  <2>4. CASE RecordFailedRun(w) \/ FailUnrecorded(w)
    <3>1. ReportFailure(w) /\ agent[w].step # "idle" /\ UNCHANGED begun
      BY <2>4 DEF RecordFailedRun, FailUnrecorded
    <3> QED
      BY <1>2, <1>3, <3>1, ChargeMoves
  <2> QED
    BY <1>4, <2>1, <2>2, <2>3, <2>4 DEF HandleJob
<1>5. ASSUME NEW j \in Jobs, EnqueueJob(j) \/ LockExpires(j) PROVE ClaimsCharged'
  BY <1>2, <1>5, ChargeMoves DEF EnqueueJob, LockExpires
<1>6. ASSUME NEW r \in DOMAIN runs, InsertRecord(r) PROVE ClaimsCharged'
  BY <1>2, <1>6, ChargeMoves DEF InsertRecord
<1>7. ASSUME NEW open \in BOOLEAN, RecordPlan(open) PROVE ClaimsCharged'
  BY <1>2, <1>7, ChargeMoves DEF RecordPlan
<1>8. CASE UNCHANGED vars
  BY <1>2, <1>8, ChargeMoves DEF vars
<1> QED
  BY <1>4, <1>5, <1>6, <1>7, <1>8 DEF Next

(* A run that is recorded failed, or its attempt has no other run. *)
LEMMA OneSuccessAppend ==
  ASSUME TablesInv, OneSuccess, NEW run, RunOfAttempt(run),
         runs' = Append(runs, run), rows' = Append(rows, 0),
         run.status = "failed" \/ RunsOf(run.job, run.attempt) = {}
  PROVE  OneSuccess'
<1> DEFINE new == Len(runs) + 1
<1>1. /\ DOMAIN runs' = DOMAIN runs \union {new} /\ runs'[new] = run
      /\ new \notin DOMAIN runs /\ \A r \in DOMAIN runs : runs'[r] = runs[r]
  BY RunAppended
<1> HIDE DEF new
<1> SUFFICES ASSUME NEW j \in Jobs, NEW r \in StoredBy(j)', NEW q \in StoredBy(j)',
                    runs'[r].attempt = runs'[q].attempt
             PROVE  r = q
  BY DEF OneSuccess
<1>2. ASSUME NEW o \in StoredBy(j)', o # new
      PROVE  o \in StoredBy(j) /\ runs'[o] = runs[o]
  BY <1>1, <1>2 DEF StoredBy
<1>3. ASSUME NEW o \in StoredBy(j)', o # new, new \in StoredBy(j)',
             runs'[o].attempt = runs'[new].attempt
      PROVE  FALSE
  <2>1. o \in DOMAIN runs /\ runs[o].job = run.job /\ runs[o].attempt = run.attempt
    BY <1>1, <1>2, <1>3 DEF StoredBy
  <2>2. run.status = "success"
    BY <1>1, <1>3 DEF StoredBy
  <2> QED
    BY <2>1, <2>2 DEF RunsOf
<1> QED
  BY <1>2, <1>3 DEF OneSuccess

LEMMA OneSuccessStep ==
  ASSUME ReviewInv, OneSuccess, [Next]_vars
  PROVE  OneSuccess'
<1>1. TablesInv /\ WorkInv
  BY Parts
<1>2. CASE UNCHANGED runs
  BY <1>2 DEF OneSuccess, StoredBy
<1>3. ASSUME NEW w \in Holders, RecordRun(w) PROVE OneSuccess'
  <2>1. PICK n \in ItemCounts(agent[w].job) :
          runs' = Append(runs, Run(w, "success", agent[w].version, n))
    BY <1>3 DEF RecordRun
  <2>2. PICK run : run = Run(w, "success", agent[w].version, n)
    OBVIOUS
  <2>3. /\ agent[w].step = "recordRun" /\ AttemptInOrder(w) /\ n \in Nat
        /\ agent[w].job \in Jobs /\ agent[w].attempt \in Nat /\ agent[w].version \in Nat
    <3>1. agent[w].step = "recordRun"
      BY <1>3 DEF RecordRun
    <3>2. n \in Nat
      BY ReviewAssumption DEF ItemCounts
    <3> QED
      BY <1>1, <3>1, <3>2, BusyAgent
  <2>4. RunOfAttempt(run) /\ RunsOf(run.job, run.attempt) = {}
    BY <2>2, <2>3 DEF Run, RunOfAttempt, AgentRuns, AttemptInOrder
  <2>5. rows' = Append(rows, 0) /\ runs' = Append(runs, run)
    BY <1>3, <2>1, <2>2 DEF RecordRun
  <2> QED
    BY <1>1, <2>4, <2>5, OneSuccessAppend
<1>4. ASSUME NEW w \in Holders, RecordFailedRun(w) PROVE OneSuccess'
  <2>1. PICK run : run = Run(w, "failed", 0, 0)
    OBVIOUS
  <2>2. /\ runs' = Append(runs, run) /\ rows' = Append(rows, 0)
        /\ agent[w].step = "recordFailedRun"
    BY <1>4, <2>1 DEF RecordFailedRun, FailedRun
  <2>3. /\ agent[w].job \in Jobs /\ agent[w].attempt \in Nat /\ AttemptInOrder(w)
        /\ Len(plans) \in Nat
    BY <1>1, <2>2, BusyAgent, RunAt
  <2>4. RunOfAttempt(run) /\ run.status = "failed"
    BY <2>1, <2>3 DEF Run, RunOfAttempt, AgentRuns, AttemptInOrder
  <2> QED
    BY <1>1, <2>2, <2>4, OneSuccessAppend
<1>5. \/ UNCHANGED runs
      \/ \E w \in Holders : RecordRun(w) \/ RecordFailedRun(w)
  BY DEF Next, HandleJob, StartAttempt, ReadInput, CompleteJob, AttemptThrows,
     FailUnrecorded, Crash, EnqueueJob, LockExpires, InsertRecord, RecordPlan, tables, vars
<1> QED
  BY <1>2, <1>3, <1>4, <1>5

LEMMA ChargeHolds == Spec => [](ReviewInv /\ ChargeInv)
<1>1. ReviewInv /\ ChargeInv /\ [Next]_vars => ReviewInv' /\ ChargeInv'
  BY ReviewNext, ClaimsChargedStep, OneSuccessStep DEF ChargeInv
<1> QED
  BY <1>1, ReviewInit, ChargeInit, PTL DEF Spec

(***************************************************************************)
(* Two workers, or a retry, may curate one review twice; but a job never   *)
(* stores more sets of rows than the attempts it was charged or is using,  *)
(* and so never more than its max_attempts.                                *)
(***************************************************************************)
THEOREM DuplicatesStayCharged == Spec => []DuplicatesCharged
<1>1. ReviewInv /\ ChargeInv => DuplicatesCharged
  <2> SUFFICES ASSUME ReviewInv, ChargeInv, NEW j \in Jobs
               PROVE  /\ Cardinality(StoredBy(j)) <= Charged(j)
                      /\ Charged(j) <= MaxAttempts[j]
    BY DEF DuplicatesCharged
  <2>1. TablesInv
    BY Parts
  <2>2. begun[j] = Charged(j) /\ Charged(j) \in Nat
    BY <2>1 DEF ChargeInv, ClaimsCharged, TablesInv, TablesTyped
  <2>3. Charged(j) <= MaxAttempts[j]
    <3>1. attempts[j] \in Nat /\ MaxAttempts[j] \in Nat
      BY <2>1, ReviewAssumption DEF TablesInv, QueueTyped
    <3>2. IF status[j] = "failed" THEN attempts[j] <= MaxAttempts[j]
                                  ELSE attempts[j] < MaxAttempts[j]
      BY DEF ChargeInv, ClaimsCharged
    <3> QED
      BY <3>1, <3>2 DEF Charged
  <2> DEFINE attemptOf == [r \in StoredBy(j) |-> runs[r].attempt]
  <2>4. attemptOf \in Injection(StoredBy(j), 1..begun[j])
    <3>1. \A r \in StoredBy(j) : runs[r].attempt \in 1..begun[j]
      BY <2>1 DEF StoredBy, TablesInv, RunsInOrder
    <3>2. \A r, q \in StoredBy(j) : runs[r].attempt = runs[q].attempt => r = q
      BY DEF ChargeInv, OneSuccess
    <3>3. /\ attemptOf \in [StoredBy(j) -> 1..begun[j]]
          /\ \A r, q \in DOMAIN attemptOf : attemptOf[r] = attemptOf[q] => r = q
      BY <3>1, <3>2
    <3> QED
      BY <3>3 DEF Injection, IsInjective
  <2>5. IsFiniteSet(1..begun[j]) /\ Cardinality(1..begun[j]) = begun[j]
    BY <2>2, FS_Interval
  <2> HIDE DEF attemptOf
  <2>6. Cardinality(StoredBy(j)) <= begun[j]
    BY <2>4, <2>5, FS_Injection
  <2> QED
    BY <2>2, <2>3, <2>6
<1> QED
  BY <1>1, ChargeHolds, PTL

=============================================================================
