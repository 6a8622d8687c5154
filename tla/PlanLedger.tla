----------------------------- MODULE PlanLedger -----------------------------
(***************************************************************************)
(* The plans of one market: trade_plan_versions, plan_transitions and      *)
(* agent_runs, written by generate_plan jobs (generateAndRecordTradePlan-  *)
(* WithGenerator, recordGeneratedTradePlan), and the entry orders that the *)
(* jobs go on to place (processFullSignalPipeline).                        *)
(*                                                                         *)
(* Each signal of the market has one job, and the module stands on what    *)
(* the queue promises (AgentJob): a lock may expire under a slow worker,   *)
(* which then goes on beside the next holder, and nothing keeps the jobs   *)
(* of one market apart.  Every repository call is an action.  Rows are     *)
(* numbered in the order they are inserted.                                *)
(***************************************************************************)
EXTENDS AgentJob, Sequences, FiniteSets

CONSTANTS
  Strong,      \* signals that the deterministic planner trades
  MaxCrashes,  \* bound: workers that die half way
  Planner,     \* "deterministic" or "openai"
  Proposable   \* bound: the actions and plan states the model answers with

PlanState == {"watch", "armed", "pending_entry", "entered", "managing",
              "exit_only", "closed", "invalidated", "expired"}
Action == {"create", "keep", "patch", "terminate", "skip"}

ASSUME LedgerAssumption ==
  /\ MaxAttempts \in [Jobs -> Nat \ {0}]
  /\ Strong \subseteq Jobs
  /\ IsFiniteSet(Holders)
  /\ MaxCrashes \in Nat
  /\ Planner \in {"deterministic", "openai"}
  /\ Proposable \subseteq {p \in [action : Action, state : PlanState] :
                             p.action = "skip" => p.state = "watch"}

VARIABLES
  versions,     \* trade_plan_versions
  transitions,  \* plan_transitions
  agentRuns,    \* agent_runs: versions of the successful, number of the failed
  plans,        \* how many plan ids were drawn
  clock,        \* the created_at values given out
  orders,       \* orders: version row and client_order_id
  planner,      \* planner[w]: the step of worker w, and its local variables
  crashes,      \* how many workers died
  overlapped    \* whether two attempts ever planned side by side (history)

ledger == <<versions, transitions, agentRuns, plans, clock>>
vars == <<ledger, orders, jvars, planner, crashes, overlapped>>

-----------------------------------------------------------------------------
(* plan-state-machine.ts *)

PlanTransitions ==
  [watch         |-> {"armed", "expired"},
   armed         |-> {"pending_entry", "expired"},
   pending_entry |-> {"entered", "expired"},
   entered       |-> {"managing"},
   managing      |-> {"exit_only", "invalidated"},
   exit_only     |-> {"closed"},
   closed        |-> {},
   invalidated   |-> {"closed"},
   expired       |-> {}]

(* A first version, with no previous state, may have any state. *)
CanTransition(from, to) ==
  to \in IF from = "none" THEN PlanState ELSE PlanTransitions[from]

Terminal(state) == state \in {"closed", "expired"}

-----------------------------------------------------------------------------
(* Rows and queries *)

Rows(table) == DOMAIN table

RowsOf(plan) == {v \in Rows(versions) : versions[v].plan = plan}

(* order by version desc limit 1; 0 for no row *)
LatestOfPlan(plan) ==
  IF RowsOf(plan) = {} THEN 0
  ELSE CHOOSE v \in RowsOf(plan) :
         \A u \in RowsOf(plan) : versions[u].version <= versions[v].version

(* order by created_at desc, version desc limit 1 *)
LatestOfMarket ==
  IF versions = << >> THEN 0
  ELSE CHOOSE v \in Rows(versions) :
         \A u \in Rows(versions) : versions[u].createdAt <= versions[v].createdAt

(* activePlan of buildPlannerInput: 0 if the latest version is terminal *)
ActivePlan ==
  LET v == LatestOfMarket
  IN  IF v # 0 /\ ~Terminal(versions[v].state) THEN versions[v].plan ELSE 0

(***************************************************************************)
(* What the generator may answer.  The deterministic one arms a strong     *)
(* signal and answers watch to a weak one; the model's answer is held to   *)
(* the JSON schema only, which ties no state to an action but skip.        *)
(***************************************************************************)
Proposals(s, active) ==
  CASE Planner = "openai" -> Proposable
    [] Planner # "openai" /\ s \in Strong ->
         {[action |-> IF active = 0 THEN "create" ELSE "patch", state |-> "armed"]}
    [] Planner # "openai" /\ s \notin Strong ->
         {[action |-> IF active = 0 THEN "skip" ELSE "keep", state |-> "watch"]}

(***************************************************************************)
(* The gate may open for this version (RiskGate).                          *)
(***************************************************************************)
OpenCandidate(v) ==
  /\ versions[v].action \in {"create", "patch"}
  /\ versions[v].state \in {"armed", "pending_entry"}

-----------------------------------------------------------------------------
(* Steps of an attempt *)

InTry == {"readActive", "generate", "readLatest", "recordVersion",
          "recordTransition", "recordRun"}
Pipeline == {"recordVerdict", "submit", "updateStatus"}
Steps == InTry \union Pipeline \union {"idle", "recordFailedRun"}

Idle == [step |-> "idle", signal |-> None, plan |-> 0, action |-> "skip",
         state |-> "watch", createdAt |-> 0, latest |-> 0, row |-> 0]

Goto(w, step) == planner' = [planner EXCEPT ![w].step = step]
Finish(w) == planner' = [planner EXCEPT ![w] = Idle]

Init ==
  /\ JInit
  /\ versions = << >>
  /\ transitions = << >>
  /\ agentRuns = [success |-> {}, failed |-> 0]
  /\ plans = 0
  /\ clock = 0
  /\ planner = [w \in Holders |-> Idle]
  /\ crashes = 0
  /\ orders = << >>
  /\ overlapped = FALSE

StartAttempt(w, s) ==
  /\ planner[w].step = "idle"
  /\ Start(s, w)
  /\ planner' = [planner EXCEPT ![w] = [Idle EXCEPT !.step = "readActive", !.signal = s]]
  /\ UNCHANGED <<ledger, orders, crashes, overlapped>>

(* Between the read of the active plan and the insert of its next version. *)
Planning(w) == planner[w].step \in {"generate", "readLatest", "recordVersion"}

ReadActivePlan(w) ==
  /\ planner[w].step = "readActive"
  /\ planner' = [planner EXCEPT ![w] = [@ EXCEPT !.step = "generate", !.plan = ActivePlan]]
  /\ overlapped' = (overlapped \/ \E u \in Holders \ {w} : Planning(u))
  /\ UNCHANGED <<ledger, jvars, orders, crashes>>

(***************************************************************************)
(* The generator answers, the answer is valid, and recordGeneratedTrade-   *)
(* Plan reads the clock and draws a plan id if there is no plan to reuse.  *)
(***************************************************************************)
PlanIdFresh(w) == plans + 1 \* mutant: the active plan is not reused
PlanId(w) == IF planner[w].plan # 0 THEN planner[w].plan ELSE plans + 1

GeneratePlan(w) ==
  /\ planner[w].step = "generate"
  /\ \E p \in Proposals(planner[w].signal, planner[w].plan) :
       planner' = [planner EXCEPT ![w] =
         [@ EXCEPT !.step = "readLatest", !.plan = PlanId(w), !.action = p.action,
                   !.state = p.state, !.createdAt = clock + 1]]
  /\ clock' = clock + 1
  /\ plans' = IF PlanId(w) > plans THEN PlanId(w) ELSE plans
  /\ UNCHANGED <<versions, transitions, agentRuns, jvars, orders, crashes, overlapped>>

ReadLatestVersion(w) ==
  /\ planner[w].step = "readLatest"
  /\ planner' = [planner EXCEPT ![w] = [@ EXCEPT !.step = "recordVersion",
                                                 !.latest = LatestOfPlan(planner[w].plan)]]
  /\ UNCHANGED <<ledger, jvars, orders, crashes, overlapped>>

VersionOfZeroBased(row) == IF row = 0 THEN -1 ELSE versions[row].version \* mutant
VersionOf(row) == IF row = 0 THEN 0 ELSE versions[row].version

NewRow(w) ==
  [plan |-> planner[w].plan, version |-> VersionOf(planner[w].latest) + 1,
   signal |-> planner[w].signal, action |-> planner[w].action,
   state |-> planner[w].state, createdAt |-> planner[w].createdAt]

(***************************************************************************)
(* unique (plan_id, version): the insert throws if another worker has      *)
(* taken the number.                                                       *)
(***************************************************************************)
VersionFreeAlways(row) == TRUE \* mutant: no unique constraint
VersionFree(row) ==
  \A v \in RowsOf(row.plan) : versions[v].version # row.version

RecordVersion(w) ==
  /\ planner[w].step = "recordVersion"
  /\ VersionFree(NewRow(w))
  /\ versions' = Append(versions, NewRow(w))
  /\ planner' = [planner EXCEPT ![w] = [@ EXCEPT !.step = "recordTransition",
                                                 !.row = Len(versions) + 1]]
  /\ UNCHANGED <<transitions, agentRuns, plans, clock, jvars, orders, crashes, overlapped>>

(***************************************************************************)
(* No transition for a skip or an unchanged state; an illegal one throws,  *)
(* after the version was inserted.                                         *)
(***************************************************************************)
PreviousState(w) ==
  IF planner[w].latest = 0 THEN "none" ELSE versions[planner[w].latest].state

NeedsTransition(w) ==
  planner[w].action # "skip" /\ planner[w].state # PreviousState(w)

LegalUnchecked(w) == TRUE \* mutant: the transition is not asserted
Legal(w) == CanTransition(PreviousState(w), planner[w].state)

RecordTransition(w) ==
  /\ planner[w].step = "recordTransition"
  /\ NeedsTransition(w) => Legal(w)
  /\ transitions' = IF NeedsTransition(w)
                    THEN Append(transitions, [row |-> planner[w].row,
                                              from |-> PreviousState(w),
                                              to |-> planner[w].state])
                    ELSE transitions
  /\ Goto(w, "recordRun")
  /\ UNCHANGED <<versions, agentRuns, plans, clock, jvars, orders, crashes, overlapped>>

RecordAgentRun(w) ==
  /\ planner[w].step = "recordRun"
  /\ agentRuns' = [agentRuns EXCEPT !.success = @ \union {planner[w].row}]
  /\ Goto(w, "recordVerdict")
  /\ UNCHANGED <<versions, transitions, plans, clock, jvars, orders, crashes, overlapped>>

(***************************************************************************)
(* The try block throws: the generator or any statement fails, the answer  *)
(* is invalid, the version number is taken, the transition is illegal.     *)
(* What was inserted before stays.                                         *)
(***************************************************************************)
CatchSilent(w) == planner' = [planner EXCEPT ![w].step = "updateStatus"] \* mutant: no failed run
Catch(w) == planner' = [planner EXCEPT ![w].step = "recordFailedRun"]

AttemptThrows(w) ==
  /\ planner[w].step \in InTry
  /\ Catch(w)
  /\ UNCHANGED <<ledger, jvars, orders, crashes, overlapped>>

(***************************************************************************)
(* The end of an attempt.  A worker that still holds the job settles it;   *)
(* one that lost its lock cannot, and its process ends and is restarted.   *)
(***************************************************************************)
ReportFailure(w) ==
  LET s == planner[w].signal
  IN  IF holder[s] = w THEN FailAttempts({s}) ELSE UNCHANGED jvars

(* The catch block records the failed run and rethrows: the attempt fails. *)
RecordFailedRun(w) ==
  /\ planner[w].step = "recordFailedRun"
  /\ agentRuns' = [agentRuns EXCEPT !.failed = @ + 1]
  /\ ReportFailure(w)
  /\ Finish(w)
  /\ UNCHANGED <<versions, transitions, plans, clock, orders, crashes, overlapped>>

(***************************************************************************)
(* The rest of the handler.  The verdict approves an open candidate and an *)
(* intent is recorded, or there is none: rejected, not open, advisory      *)
(* mode.  Verdicts and intents are not kept here: the idempotency_key of   *)
(* an intent names the version and the verdict and is always new, and the  *)
(* order that is looked up for the intent never exists.                    *)
(***************************************************************************)
RecordVerdictAndIntent(w) ==
  /\ planner[w].step = "recordVerdict"
  /\ \/ OpenCandidate(planner[w].row) /\ Goto(w, "submit")
     \/ Goto(w, "updateStatus")
  /\ UNCHANGED <<ledger, jvars, orders, crashes, overlapped>>

(***************************************************************************)
(* unique (venue, client_order_id), which is made of the symbol, the side  *)
(* (one side here) and the version number: the insert throws if it is      *)
(* taken.                                                                  *)
(***************************************************************************)
ClientOrderId(v) == versions[v].version

SubmitOrder(w) ==
  /\ planner[w].step = "submit"
  /\ \A o \in Rows(orders) : orders[o].clientId # ClientOrderId(planner[w].row)
  /\ orders' = Append(orders, [row |-> planner[w].row,
                               clientId |-> ClientOrderId(planner[w].row)])
  /\ Goto(w, "updateStatus")
  /\ UNCHANGED <<ledger, jvars, crashes, overlapped>>

(* The handler ends well and the job is completed, *)
CompleteJob(w) ==
  LET s == planner[w].signal
  IN  /\ planner[w].step = "updateStatus"
      /\ IF holder[s] = w THEN Succeed(s, w) ELSE UNCHANGED jvars
      /\ Finish(w)
      /\ UNCHANGED <<ledger, orders, crashes, overlapped>>

(***************************************************************************)
(* or it throws, also before the planning, outside the try block, if the   *)
(* payload or the configuration of the generator is not valid.             *)
(***************************************************************************)
PipelineThrows(w) ==
  /\ planner[w].step \in Pipeline \union {"readActive"}
  /\ ReportFailure(w)
  /\ Finish(w)
  /\ UNCHANGED <<ledger, orders, crashes, overlapped>>

(***************************************************************************)
(* The process dies, or loses the database and with it every later call of *)
(* the attempt; the job keeps its lock until the lock expires.             *)
(***************************************************************************)
Crash(w) ==
  /\ planner[w].step # "idle"
  /\ crashes < MaxCrashes
  /\ crashes' = crashes + 1
  /\ Finish(w)
  /\ UNCHANGED <<ledger, orders, jvars, overlapped>>

-----------------------------------------------------------------------------
(* The queue, beside the workers *)

EnqueueSignal(s) ==
  /\ Create(s)
  /\ UNCHANGED <<ledger, orders, planner, crashes, overlapped>>

(* The lock expires; its worker, if it is alive, does not notice. *)
LockExpires(s) ==
  /\ FailAttempts({s})
  /\ UNCHANGED <<ledger, orders, planner, crashes, overlapped>>

Attempt(w) ==
  \/ \E s \in Jobs : StartAttempt(w, s)
  \/ ReadActivePlan(w)
  \/ GeneratePlan(w)
  \/ ReadLatestVersion(w)
  \/ RecordVersion(w)
  \/ RecordTransition(w)
  \/ RecordAgentRun(w)
  \/ AttemptThrows(w)
  \/ RecordFailedRun(w)
  \/ RecordVerdictAndIntent(w)
  \/ SubmitOrder(w)
  \/ CompleteJob(w)
  \/ PipelineThrows(w)

Next ==
  \/ \E w \in Holders : Attempt(w) \/ Crash(w)
  \/ \E s \in Jobs : EnqueueSignal(s) \/ LockExpires(s)

Spec == Init /\ [][Next]_vars

-----------------------------------------------------------------------------
(* Properties *)

VersionRow ==
  [plan : Nat \ {0}, version : Nat \ {0}, signal : Jobs, action : Action,
   state : PlanState, createdAt : Nat]

TransitionRow == [row : Nat, from : PlanState \union {"none"}, to : PlanState]

AttemptState ==
  [step : Steps, signal : Jobs \union {None}, plan : Nat, action : Action,
   state : PlanState, createdAt : Nat, latest : Nat, row : Nat]

(* Every row refers to rows and numbers that were given out before it. *)
RowsRefer ==
  /\ \A v \in Rows(versions) : versions[v].plan <= plans /\ versions[v].createdAt <= clock
  /\ \A t \in Rows(transitions) : transitions[t].row \in Rows(versions)
  /\ agentRuns.success \subseteq Rows(versions)
  /\ \A o \in Rows(orders) : orders[o].row \in Rows(versions)

TypeOK ==
  /\ versions \in Seq(VersionRow)
  /\ transitions \in Seq(TransitionRow)
  /\ agentRuns \in [success : SUBSET Nat, failed : Nat]
  /\ orders \in Seq([row : Nat, clientId : Nat])
  /\ plans \in Nat /\ clock \in Nat /\ crashes \in Nat
  /\ planner \in [Holders -> AttemptState]
  /\ overlapped \in BOOLEAN
  /\ status \in [Jobs -> JobStatus]
  /\ attempts \in [Jobs -> Nat]
  /\ holder \in [Jobs -> Holders \union {None}]
  /\ RowsRefer

(***************************************************************************)
(* However many workers read the latest version of a plan and insert the   *)
(* next one, the versions of the plan are 1, 2, 3, ... in the order they   *)
(* were inserted.                                                          *)
(***************************************************************************)
RowsUpTo(plan, v) == {u \in RowsOf(plan) : u <= v}

VersionsContiguous ==
  \A v \in Rows(versions) :
    versions[v].version = Cardinality(RowsUpTo(versions[v].plan, v))

(***************************************************************************)
(* plan_transitions explains every version with a successful agent run: a  *)
(* skip and an unchanged state have no transition, any other version has   *)
(* one, a legal one, from the state of the version before it.              *)
(***************************************************************************)
Before(v) == {u \in RowsOf(versions[v].plan) :
                versions[u].version = versions[v].version - 1}

StateBefore(v) ==
  IF Before(v) = {} THEN "none" ELSE versions[CHOOSE u \in Before(v) : TRUE].state

Change(v) == [row |-> v, from |-> StateBefore(v), to |-> versions[v].state]

RecordedFor(v) ==
  {transitions[t] : t \in {k \in Rows(transitions) : transitions[k].row = v}}

Explained(v) ==
  IF versions[v].action = "skip" \/ StateBefore(v) = versions[v].state
  THEN RecordedFor(v) = {}
  ELSE /\ RecordedFor(v) = {Change(v)}
       /\ CanTransition(StateBefore(v), versions[v].state)

SuccessExplained == \A v \in agentRuns.success : Explained(v)

(***************************************************************************)
(* No version is lost to the audit: one without a successful run is still  *)
(* being recorded, or has left a failed run, or its worker died.           *)
(***************************************************************************)
Recording(w) == planner[w].step \in {"recordTransition", "recordRun", "recordFailedRun"}

Unaudited ==
  (Rows(versions) \ agentRuns.success) \ {planner[w].row : w \in {u \in Holders : Recording(u)}}

AuditComplete == Cardinality(Unaudited) <= agentRuns.failed + crashes

(***************************************************************************)
(* A retried signal places a second order, since version, verdict and key  *)
(* are all new; but every version and every order of a signal beyond the   *)
(* first is charged to its job as a failed attempt or a lost lock, so no   *)
(* job trades more often than it has attempts, late workers included, and  *)
(* one that never failed trades once.                                      *)
(***************************************************************************)
VersionsFor(s) == {v \in Rows(versions) : versions[v].signal = s}
OrdersFor(s) == {o \in Rows(orders) : versions[orders[o].row].signal = s}

RepeatsCharged ==
  \A s \in Jobs :
    /\ Cardinality(VersionsFor(s)) <= attempts[s] + 1
    /\ Cardinality(OrdersFor(s)) <= attempts[s] + 1
    /\ attempts[s] = MaxAttempts[s] => Cardinality(VersionsFor(s)) <= MaxAttempts[s]

(***************************************************************************)
(* A market has at most one plan whose latest version is not terminal: a   *)
(* signal that finds an active plan adds a version to it.  It takes two    *)
(* attempts that plan side by side to open a second one: nothing locks the *)
(* market.                                                                 *)
(***************************************************************************)
Open(plan) == LatestOfPlan(plan) # 0 /\ ~Terminal(versions[LatestOfPlan(plan)].state)

OneThesis == ~overlapped => \A p, q \in 1..plans : Open(p) /\ Open(q) => p = q

-----------------------------------------------------------------------------
(* The inductive invariant behind them *)

(***************************************************************************)
(* What an attempt has read or inserted, and still remembers, is in the    *)
(* tables, and the tables have not moved away from it.                     *)
(***************************************************************************)
BeforeInsert == {"readActive", "generate", "readLatest", "recordVersion"}

Refers(w) ==
  LET p == planner[w]
  IN  /\ p.step # "idle" => p.signal \in Jobs
      /\ p.step = "generate" => p.plan <= plans
      /\ p.step \in {"readLatest", "recordVersion"} =>
           p.plan \in 1..plans /\ p.createdAt <= clock
      /\ p.step = "recordVersion" => p.latest = 0 \/ p.latest \in RowsOf(p.plan)
      /\ p.step \in BeforeInsert => p.row = 0
      /\ p.row = 0 \/ p.row \in Rows(versions)
      /\ p.step \in Pipeline \union {"recordTransition", "recordRun"} =>
           p.row # 0 /\ versions[p.row].signal = p.signal
      /\ p.step = "recordTransition" =>
           /\ p.latest = 0 \/ p.latest \in Rows(versions)
           /\ versions[p.row].action = p.action
           /\ versions[p.row].state = p.state

AttemptsRefer == \A w \in Holders : Refers(w)

(***************************************************************************)
(* A version that is being recorded has one worker, which alone writes its *)
(* transition, and no successful run yet.                                  *)
(***************************************************************************)
RowsApart ==
  \A w \in Holders : Recording(w) /\ planner[w].row # 0 =>
    /\ planner[w].row \notin agentRuns.success
    /\ \A u \in Holders \ {w} : Recording(u) => planner[u].row # planner[w].row

RecordingExplained ==
  \A w \in Holders, v \in Rows(versions) : planner[w].row = v =>
    /\ planner[w].step = "recordTransition" =>
         PreviousState(w) = StateBefore(v) /\ RecordedFor(v) = {}
    /\ planner[w].step = "recordRun" => Explained(v)

(***************************************************************************)
(* Every attempt was started once and charged once, and inserts one        *)
(* version and one order at most.                                          *)
(***************************************************************************)
Started(s) == attempts[s] + IF status[s] \in {"running", "completed"} THEN 1 ELSE 0

Writing(s) ==
  {w \in Holders : planner[w].signal = s /\ planner[w].step \in BeforeInsert}

Trading(s) ==
  {w \in Holders : planner[w].signal = s /\
                   planner[w].step \in InTry \union {"recordVerdict", "submit"}}

AttemptsCharged ==
  \A s \in Jobs :
    /\ Cardinality(VersionsFor(s)) + Cardinality(Writing(s)) <= Started(s)
    /\ Cardinality(OrdersFor(s)) + Cardinality(Trading(s)) <= Started(s)
    /\ attempts[s] = MaxAttempts[s] => status[s] = "failed"

(***************************************************************************)
(* As long as attempts plan one after the other, created_at orders the     *)
(* versions as they were inserted, the only open plan is the active one,   *)
(* and the attempt that plans is about to extend it, or to open a new plan *)
(* when there is none.                                                     *)
(***************************************************************************)
PlanningRefers(w) ==
  /\ planner[w].step = "generate" => planner[w].plan = ActivePlan
  /\ planner[w].step \in {"readLatest", "recordVersion"} =>
       /\ planner[w].plan = ActivePlan \/ (ActivePlan = 0 /\ RowsOf(planner[w].plan) = {})
       /\ \A v \in Rows(versions) : versions[v].createdAt < planner[w].createdAt

OneByOne ==
  ~overlapped =>
    /\ \A w, u \in Holders : Planning(w) /\ Planning(u) => w = u
    /\ \A u, v \in Rows(versions) : u < v => versions[u].createdAt < versions[v].createdAt
    /\ \A p \in 1..plans : Open(p) => p = ActivePlan
    /\ \A w \in Holders : PlanningRefers(w)

LedgerInv ==
  /\ TypeOK /\ AttemptsRefer
  /\ VersionsContiguous
  /\ RowsApart /\ RecordingExplained /\ SuccessExplained
  /\ AuditComplete
  /\ AttemptsCharged
  /\ OneByOne

-----------------------------------------------------------------------------
(* What a comment says, and the code does not keep *)

(***************************************************************************)
(* The versions of a plan follow the transitions of plan-state-machine.ts, *)
(* those of failed attempts included.  The version is inserted before its  *)
(* transition is asserted, and this does not hold.                         *)
(***************************************************************************)
PlanStatesLegal ==
  \A v \in Rows(versions) :
    \/ versions[v].action = "skip"
    \/ StateBefore(v) = versions[v].state
    \/ CanTransition(StateBefore(v), versions[v].state)
=============================================================================
