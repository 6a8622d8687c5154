---------------------------- MODULE SignalIntake -----------------------------
(***************************************************************************)
(* From a TradingView alert to a settled generate_plan job: the webhook    *)
(* handler of the API, the webhook_events and market_states tables, the    *)
(* jobs it enqueues and the status that the generate_plan handler writes   *)
(* back.                                                                   *)
(*                                                                         *)
(* One market: an alert belongs to a bar and is a signal or a snapshot,    *)
(* and there is one job per bar with a signal (the idempotency key names   *)
(* market, bar and type).  webhook_events knows an alert by the hash of    *)
(* its payload, so two payloads of one bar are two events.  The queue is   *)
(* what AgentJob promises.  The handler has no transaction: each statement *)
(* is an action, and requests and workers interleave between them.         *)
(***************************************************************************)
EXTENDS AgentJob, FiniteSets

CONSTANTS
  Payloads,      \* distinct payloads, by hash
  Bar,           \* Bar[d]: context.bar.time_ms
  Signals,       \* the payloads of type signal; the others are snapshots
  Requests,      \* webhook requests in flight together
  MaxDeliveries  \* bound: how often a payload is delivered

ASSUME IntakeAssumption ==
  /\ Bar \in [Payloads -> Nat \ {0}]
  /\ Signals \subseteq Payloads
  /\ Jobs = {Bar[d] : d \in Signals}
  /\ MaxAttempts \in [Jobs -> Nat \ {0}]
  /\ MaxDeliveries \in Nat
  /\ None \notin Payloads

VARIABLES
  event,     \* webhook_events: delivery_count and process_status of a payload
  current,   \* market_states_current: its bar (0 for no row) and its payload
  history,   \* market_states_history: for each bar, the payload whose context
             \* is stored and the payload of webhook_event_id
  payload,   \* payload_json of each job: the payload that enqueued it
  request,   \* request[r]: the next step of a request, and its payload
  handler,   \* handler[w]: where the handler of worker w is, and its job
  accepted,  \* history: the payloads that were answered 200
  unshown    \* history: the jobs an attempt of which ended without its word in
             \* webhook_events, or had it overwritten by a request

intake == <<event, current, history>>
vars == <<intake, payload, request, handler, accepted, unshown, jvars>>

Outcomes == {"order_submitted", "risk_approved", "risk_rejected"}
ProcessStatus == Outcomes \union {"received", "normalized", "queued", "failed"}

RequestSteps == {"idle", "receive", "projectCurrent", "projectHistory",
                 "enqueue", "updateStatus"}
HandlerSteps == {"idle", "run", "written", "failed"}

Bars == {Bar[d] : d \in Payloads}

Init ==
  /\ JInit
  /\ event = [d \in Payloads |-> [count |-> 0, status |-> "received"]]
  /\ current = [bar |-> 0, of |-> None]
  /\ history = [b \in Bars |-> [context |-> None, event |-> None]]
  /\ payload = [j \in Jobs |-> None]
  /\ request = [r \in Requests |-> [step |-> "idle", of |-> None]]
  /\ handler = [w \in Holders |-> [step |-> "idle", job |-> None]]
  /\ accepted = {}
  /\ unshown = {}

-----------------------------------------------------------------------------
(* The webhook request *)

Goto(r, step) == request' = [request EXCEPT ![r].step = step]
EndRequest(r) == request' = [request EXCEPT ![r] = [step |-> "idle", of |-> None]]
At(r, step) == request[r].step = step

Deliver(r, d) ==
  /\ At(r, "idle")
  /\ event[d].count < MaxDeliveries
  /\ request' = [request EXCEPT ![r] = [step |-> "receive", of |-> d]]
  /\ UNCHANGED <<intake, payload, handler, accepted, unshown, jvars>>

(***************************************************************************)
(* shouldSkipProcessedDuplicate, on the row the upsert returned.           *)
(***************************************************************************)
SkippedAnyDuplicate(d) == event[d].count > 0 \* mutant: whatever its status
Skipped(d) == event[d].count > 0 /\ event[d].status # "received"

(***************************************************************************)
(* recordReceivedEvent: on conflict (delivery_key) count the delivery.     *)
(***************************************************************************)
RecordReceivedEvent(r) ==
  LET d == request[r].of
  IN  /\ At(r, "receive")
      /\ event' = [event EXCEPT ![d].count = @ + 1]
      /\ IF Skipped(d)
         THEN accepted' = accepted \union {d} /\ EndRequest(r)
         ELSE UNCHANGED accepted /\ Goto(r, "projectCurrent")
      /\ UNCHANGED <<current, history, payload, handler, unshown, jvars>>

(***************************************************************************)
(* market_states_current: on conflict (market_key) update where the bar is *)
(* not older.                                                              *)
(***************************************************************************)
NotOlder(d) == Bar[d] >= current.bar

ProjectCurrent(r) ==
  LET d == request[r].of
  IN  /\ At(r, "projectCurrent")
      /\ current' = IF NotOlder(d) THEN [bar |-> Bar[d], of |-> d] ELSE current
      /\ Goto(r, "projectHistory")
      /\ UNCHANGED <<event, history, payload, handler, accepted, unshown, jvars>>

(* What follows the projection: only a signal is enqueued. *)
StepAfterStatusFirst(step, d) == \* mutant: the status is written before the job
  CASE step = "projectHistory" -> "updateStatus"
    [] step = "updateStatus" /\ d \in Signals -> "enqueue"
    [] step = "updateStatus" /\ d \notin Signals -> "idle"
    [] step = "enqueue" -> "idle"
StepAfter(step, d) ==
  CASE step = "projectHistory" /\ d \in Signals -> "enqueue"
    [] step = "projectHistory" /\ d \notin Signals -> "updateStatus"
    [] step = "enqueue" -> "updateStatus"
    [] step = "updateStatus" -> "idle"

Proceed(r) ==
  LET d == request[r].of
      next == StepAfter(request[r].step, d)
  IN  IF next = "idle" THEN EndRequest(r) /\ accepted' = accepted \union {d}
      ELSE Goto(r, next) /\ UNCHANGED accepted

(***************************************************************************)
(* market_states_history: on conflict (tickerid, timeframe, bar_time_ms)   *)
(* only webhook_event_id is replaced.                                      *)
(***************************************************************************)
ProjectHistory(r) ==
  LET d == request[r].of
  IN  /\ At(r, "projectHistory")
      /\ history' = [history EXCEPT ![Bar[d]] =
           [context |-> IF @.context = None THEN d ELSE @.context, event |-> d]]
      /\ Proceed(r)
      /\ UNCHANGED <<event, current, payload, handler, unshown, jvars>>

(***************************************************************************)
(* enqueueJob: a job of the same key stays as it is, with the payload that *)
(* created it.                                                             *)
(***************************************************************************)
EnqueueJob(r) ==
  LET d == request[r].of
      j == Bar[d]
  IN  /\ At(r, "enqueue")
      /\ IF status[j] = "absent"
         THEN Create(j) /\ payload' = [payload EXCEPT ![j] = d]
         ELSE UNCHANGED <<jvars, payload>>
      /\ Proceed(r)
      /\ UNCHANGED <<intake, handler, unshown>>

Told(d) == d \in Signals /\ event[d].status \in Outcomes \union {"failed"}

(***************************************************************************)
(* updateProcessStatus, whatever the row says by now, and the answer 200.  *)
(***************************************************************************)
UpdateProcessStatus(r) ==
  LET d == request[r].of
  IN  /\ At(r, "updateStatus")
      /\ event' = [event EXCEPT ![d].status =
                     IF d \in Signals THEN "queued" ELSE "normalized"]
      /\ unshown' = IF Told(d) THEN unshown \union {Bar[d]} ELSE unshown
      /\ Proceed(r)
      /\ UNCHANGED <<current, history, payload, handler, jvars>>

(* A statement throws or the process dies: no answer, or a 500. *)
RequestFails(r) ==
  /\ ~At(r, "idle")
  /\ EndRequest(r)
  /\ UNCHANGED <<intake, payload, handler, accepted, unshown, jvars>>

-----------------------------------------------------------------------------
(* The generate_plan handler *)

EndHandler(w) == handler' = [handler EXCEPT ![w] = [step |-> "idle", job |-> None]]

StartHandler(w, j) ==
  /\ handler[w].step = "idle"
  /\ Start(j, w)
  /\ handler' = [handler EXCEPT ![w] = [step |-> "run", job |-> j]]
  /\ UNCHANGED <<intake, payload, request, accepted, unshown>>

WriteBackDropped(w, s) == UNCHANGED event \* mutant: the outcome is not written back
WriteBack(w, s) == event' = [event EXCEPT ![payload[handler[w].job]].status = s]

(***************************************************************************)
(* The pipeline (modules PlanLedger and OrderDesk) ends and the handler    *)
(* writes how to the event of the job's payload.                           *)
(***************************************************************************)
WriteOutcome(w) ==
  /\ handler[w].step = "run"
  /\ \E s \in Outcomes : WriteBack(w, s)
  /\ handler' = [handler EXCEPT ![w].step = "written"]
  /\ UNCHANGED <<current, history, payload, request, accepted, unshown, jvars>>

(***************************************************************************)
(* The pipeline throws, or the answer of the first update is lost.         *)
(***************************************************************************)
WriteFailed(w) ==
  /\ handler[w].step \in {"run", "written"}
  /\ WriteBack(w, "failed")
  /\ handler' = [handler EXCEPT ![w].step = "failed"]
  /\ UNCHANGED <<current, history, payload, request, accepted, unshown, jvars>>

(***************************************************************************)
(* The attempt fails and the event does not say so: the handler throws     *)
(* before its try block (payload, generator configuration), or the update  *)
(* of the catch block throws.                                              *)
(***************************************************************************)
FailUnwritten(w) ==
  /\ handler[w].step \in {"run", "written"}
  /\ handler' = [handler EXCEPT ![w].step = "failed"]
  /\ unshown' = unshown \union {handler[w].job}
  /\ UNCHANGED <<intake, payload, request, accepted, jvars>>

(***************************************************************************)
(* The worker settles the attempt if it still holds the job.               *)
(***************************************************************************)
Report(w) ==
  LET j == handler[w].job
  IN  /\ handler[w].step \in {"written", "failed"}
      /\ CASE holder[j] # w -> UNCHANGED jvars
           [] holder[j] = w /\ handler[w].step = "written" -> Succeed(j, w)
           [] holder[j] = w /\ handler[w].step = "failed" -> FailAttempts({j})
      /\ EndHandler(w)
      /\ UNCHANGED <<intake, payload, request, accepted, unshown>>

WorkerDies(w) ==
  /\ handler[w].step # "idle"
  /\ EndHandler(w)
  /\ UNCHANGED <<intake, payload, request, accepted, unshown, jvars>>

(* The lock expires; its worker, if it is alive, does not notice. *)
LockExpires(j) ==
  /\ FailAttempts({j})
  /\ unshown' = unshown \union {j}
  /\ UNCHANGED <<intake, payload, request, handler, accepted>>

HandleWebhook(r) ==
  \/ \E d \in Payloads : Deliver(r, d)
  \/ RecordReceivedEvent(r)
  \/ ProjectCurrent(r)
  \/ ProjectHistory(r)
  \/ EnqueueJob(r)
  \/ UpdateProcessStatus(r)
  \/ RequestFails(r)

HandleJob(w) ==
  \/ \E j \in Jobs : StartHandler(w, j)
  \/ WriteOutcome(w)
  \/ WriteFailed(w)
  \/ FailUnwritten(w)
  \/ Report(w)
  \/ WorkerDies(w)

Next ==
  \/ \E r \in Requests : HandleWebhook(r)
  \/ \E w \in Holders : HandleJob(w)
  \/ \E j \in Jobs : LockExpires(j)

Spec == Init /\ [][Next]_vars

-----------------------------------------------------------------------------
(* Properties *)

RequestState == [step : RequestSteps, of : Payloads \union {None}]
HandlerState == [step : HandlerSteps, job : Jobs \union {None}]

TypeOK ==
  /\ event \in [Payloads -> [count : Nat, status : ProcessStatus]]
  /\ current \in [bar : Nat, of : Payloads \union {None}]
  /\ history \in [Bars -> [context : Payloads \union {None},
                           event : Payloads \union {None}]]
  /\ payload \in [Jobs -> Payloads \union {None}]
  /\ request \in [Requests -> RequestState]
  /\ handler \in [Holders -> HandlerState]
  /\ accepted \subseteq Payloads /\ unshown \subseteq Jobs
  /\ status \in [Jobs -> JobStatus]
  /\ holder \in [Jobs -> Holders \union {None}]

(***************************************************************************)
(* A signal that was answered 200 has a job, even if an earlier delivery   *)
(* of it died before it was enqueued and this one was taken for a          *)
(* duplicate.                                                              *)
(***************************************************************************)
HasJob(d) == status[Bar[d]] # "absent"

AcceptedIsQueued == \A d \in Signals \intersect accepted : HasJob(d)

(***************************************************************************)
(* The status that makes a delivery a processed duplicate is written only  *)
(* when nothing is left to do for it: the signal has a job, and the alert  *)
(* is in both market state tables.                                         *)
(***************************************************************************)
Projected(d) == current.bar >= Bar[d] /\ history[Bar[d]].context # None

StatusTellsProgress ==
  \A d \in Payloads :
    event[d].status # "received" => Projected(d) /\ (d \in Signals => HasJob(d))

(***************************************************************************)
(* A settled job shows in webhook_events how it ended, in the row of the   *)
(* payload it carries, unless an attempt was cut off (its lock expired, or *)
(* the handler threw outside its try block) or a request wrote "queued"    *)
(* after the worker.  Those, and a second payload of the bar, which shares *)
(* the job of the first, are all the ways a signal stays "queued".         *)
(***************************************************************************)
SettledIsShown ==
  \A j \in Jobs \ unshown :
    /\ status[j] = "completed" => event[payload[j]].status \in Outcomes
    /\ status[j] = "failed" => event[payload[j]].status = "failed"

(***************************************************************************)
(* The invariant the proofs use: what has been done for the alert of a     *)
(* request at each of its steps,                                           *)
(***************************************************************************)
RequestProgress(r) ==
  LET step == request[r].step
      d == request[r].of
  IN  /\ step # "idle" => d \in Payloads
      /\ step = "projectHistory" => current.bar >= Bar[d]
      /\ step \in {"enqueue", "updateStatus"} => Projected(d)
      /\ step = "enqueue" => d \in Signals
      /\ step = "updateStatus" /\ d \in Signals => HasJob(d)

RequestsProgress == \A r \in Requests : RequestProgress(r)

(* that a job carries a payload of its own bar, *)
JobsCarryPayloads ==
  \A j \in Jobs : status[j] # "absent" =>
    payload[j] \in Signals /\ Bar[payload[j]] = j /\ Projected(payload[j])

(***************************************************************************)
(* and that a handler whose job is not in unshown holds the job, and has   *)
(* written what it is about to report.                                     *)
(***************************************************************************)
HandlerHolds(w) ==
  LET j == handler[w].job
      step == handler[w].step
  IN  step # "idle" =>
        /\ j \in Jobs /\ status[j] # "absent"
        /\ j \notin unshown =>
             /\ status[j] = "running" /\ holder[j] = w
             /\ step = "written" => event[payload[j]].status \in Outcomes
             /\ step = "failed" => event[payload[j]].status = "failed"

HandlersHold == \A w \in Holders : HandlerHolds(w)

IntakeInv ==
  TypeOK /\ RequestsProgress /\ JobsCarryPayloads /\ HandlersHold
    /\ AcceptedIsQueued /\ StatusTellsProgress /\ SettledIsShown
=============================================================================
