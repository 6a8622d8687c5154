-------------------------- MODULE SignalIntakeProofs --------------------------
(***************************************************************************)
(* What webhook_events tells is true, for any payloads, bars, requests and *)
(* workers: of the progress of a delivery, and of how its job ended.       *)
(***************************************************************************)
EXTENDS SignalIntake, TLAPS

LEMMA BarOf ==
  ASSUME NEW d \in Payloads
  PROVE  /\ Bar[d] \in Bars /\ Bar[d] \in Nat /\ Bar[d] # 0
         /\ d \in Signals => Bar[d] \in Jobs
BY IntakeAssumption DEF Bars

LEMMA InitInv == Init => IntakeInv
<1> SUFFICES ASSUME Init PROVE IntakeInv
  OBVIOUS
<1> USE IntakeAssumption DEF Init, JInit
<1>1. TypeOK
  BY DEF TypeOK, RequestState, HandlerState, RequestSteps, HandlerSteps, ProcessStatus, JobStatus
<1>2. RequestsProgress /\ JobsCarryPayloads /\ HandlersHold
  BY DEF RequestsProgress, RequestProgress, JobsCarryPayloads, HandlersHold, HandlerHolds
<1>3. AcceptedIsQueued /\ StatusTellsProgress /\ SettledIsShown
  BY DEF AcceptedIsQueued, StatusTellsProgress, SettledIsShown
<1> QED
  BY <1>1, <1>2, <1>3 DEF IntakeInv

-----------------------------------------------------------------------------
(* The steps of a request *)

LEMMA DeliverInv ==
  ASSUME IntakeInv, NEW r \in Requests, NEW d \in Payloads, Deliver(r, d)
  PROVE  IntakeInv'
<1> USE DEF IntakeInv, Deliver, intake, jvars, At
<1>1. TypeOK'
  BY DEF TypeOK, RequestState, RequestSteps
<1>2. RequestsProgress'
  BY DEF TypeOK, RequestsProgress, RequestProgress, Projected, HasJob
<1>3. JobsCarryPayloads' /\ HandlersHold'
  BY DEF JobsCarryPayloads, HandlersHold, HandlerHolds, Projected
<1>4. AcceptedIsQueued' /\ StatusTellsProgress' /\ SettledIsShown'
  BY DEF AcceptedIsQueued, StatusTellsProgress, SettledIsShown, Projected, HasJob
<1> QED
  BY <1>1, <1>2, <1>3, <1>4

LEMMA RequestEnds ==
  ASSUME TypeOK, RequestsProgress, NEW r \in Requests, EndRequest(r),
         UNCHANGED <<current, history, status>>
  PROVE  request' \in [Requests -> RequestState] /\ RequestsProgress'
BY DEF TypeOK, RequestState, RequestSteps, EndRequest, RequestsProgress, RequestProgress,
   Projected, HasJob

LEMMA RequestFailsInv ==
  ASSUME IntakeInv, NEW r \in Requests, RequestFails(r)
  PROVE  IntakeInv'
<1> USE DEF IntakeInv, RequestFails, intake, jvars
<1>1. request' \in [Requests -> RequestState] /\ RequestsProgress'
  BY RequestEnds
<1>2. TypeOK'
  BY <1>1 DEF TypeOK
<1>3. JobsCarryPayloads' /\ HandlersHold'
  BY DEF JobsCarryPayloads, HandlersHold, HandlerHolds, Projected
<1>4. AcceptedIsQueued' /\ StatusTellsProgress' /\ SettledIsShown'
  BY DEF AcceptedIsQueued, StatusTellsProgress, SettledIsShown, Projected, HasJob
<1> QED
  BY <1>1, <1>2, <1>3, <1>4

LEMMA RecordReceivedInv ==
  ASSUME IntakeInv, NEW r \in Requests, RecordReceivedEvent(r)
  PROVE  IntakeInv'
<1> DEFINE d == request[r].of
<1> USE DEF IntakeInv, jvars, At
<1>d. d \in Payloads
  BY DEF RequestsProgress, RequestProgress, RecordReceivedEvent
<1>e. /\ event' \in [Payloads -> [count : Nat, status : ProcessStatus]]
      /\ \A p \in Payloads : event'[p].status = event[p].status
  BY <1>d DEF TypeOK, RecordReceivedEvent
<1>u. UNCHANGED <<current, history, payload, handler, unshown, status, attempts, holder>>
  BY DEF RecordReceivedEvent
<1>1. /\ request' \in [Requests -> RequestState] /\ RequestsProgress'
      /\ accepted' \subseteq Payloads /\ AcceptedIsQueued'
  <2>1. CASE Skipped(d)
    <3>1. EndRequest(r) /\ accepted' = accepted \union {d}
      BY <2>1 DEF RecordReceivedEvent
    <3>2. d \in Signals => HasJob(d)
      BY <2>1, <1>d DEF Skipped, StatusTellsProgress
    <3>3. AcceptedIsQueued'
      BY <1>u, <3>1, <3>2 DEF AcceptedIsQueued, HasJob
    <3> QED
      BY <1>u, <1>d, <3>1, <3>3, RequestEnds DEF TypeOK
  <2>2. CASE ~Skipped(d)
    <3>1. Goto(r, "projectCurrent") /\ UNCHANGED accepted
      BY <2>2 DEF RecordReceivedEvent
    <3>2. request' \in [Requests -> RequestState] /\ RequestsProgress'
      BY <1>u, <1>d, <3>1
         DEF Goto, TypeOK, RequestState, RequestSteps, RequestsProgress,
             RequestProgress, Projected, HasJob
    <3> QED
      BY <1>u, <3>1, <3>2 DEF TypeOK, AcceptedIsQueued, HasJob
  <2> QED
    BY <2>1, <2>2
<1>2. TypeOK'
  BY <1>e, <1>u, <1>1 DEF TypeOK
<1>3. JobsCarryPayloads'
  BY <1>u DEF JobsCarryPayloads, Projected
<1>4. HandlersHold' /\ SettledIsShown'
  BY IntakeAssumption, <1>e, <1>u DEF HandlersHold, HandlerHolds, SettledIsShown, JobsCarryPayloads
<1>5. StatusTellsProgress'
  BY <1>e, <1>u DEF StatusTellsProgress, Projected, HasJob
<1> QED
  BY <1>1, <1>2, <1>3, <1>4, <1>5

(***************************************************************************)
(* The bar of market_states_current only grows, so that what is projected  *)
(* stays projected.                                                        *)
(***************************************************************************)
LEMMA ProjectCurrentInv ==
  ASSUME IntakeInv, NEW r \in Requests, ProjectCurrent(r)
  PROVE  IntakeInv'
<1> USE DEF IntakeInv, jvars, At
<1>d. PICK d \in Payloads : d = request[r].of
  BY DEF RequestsProgress, RequestProgress, ProjectCurrent
<1>u. UNCHANGED <<event, history, payload, handler, accepted, unshown, status, attempts, holder>>
  BY DEF ProjectCurrent
<1>1. /\ current' \in [bar : Nat, of : Payloads \union {None}]
      /\ current'.bar >= current.bar /\ current'.bar >= Bar[d]
  <2>1. CASE NotOlder(d)
    BY <1>d, <2>1, BarOf DEF NotOlder, ProjectCurrent, TypeOK
  <2>2. CASE ~NotOlder(d)
    BY <1>d, <2>2, BarOf DEF NotOlder, ProjectCurrent, TypeOK
  <2> QED
    BY <2>1, <2>2
<1>k. \A p \in Payloads : Projected(p) => Projected(p)'
  BY <1>1, <1>u, BarOf DEF TypeOK, Projected
<1>2. TypeOK'
  BY <1>1, <1>u DEF TypeOK, ProjectCurrent, Goto, RequestState, RequestSteps
<1>3. ASSUME NEW q \in Requests PROVE RequestProgress(q)'
  <2>1. CASE q = r
    BY <2>1, <1>d, <1>1 DEF ProjectCurrent, Goto, TypeOK, RequestState, RequestProgress
  <2>2. CASE q # r
    <3>1. request'[q] = request[q] /\ RequestProgress(q)
      BY <2>2 DEF ProjectCurrent, Goto, TypeOK, RequestsProgress
    <3>2. request[q].step = "projectHistory" => current'.bar >= Bar[request[q].of]
      BY <3>1, <1>1, BarOf DEF RequestProgress, TypeOK
    <3> QED
      BY <3>1, <3>2, <1>k, <1>u DEF RequestProgress, HasJob, Projected
  <2> QED
    BY <2>1, <2>2
<1>4. JobsCarryPayloads'
  BY <1>k, <1>u, IntakeAssumption DEF JobsCarryPayloads, Projected
<1>5. HandlersHold' /\ SettledIsShown' /\ AcceptedIsQueued'
  BY <1>u DEF HandlersHold, HandlerHolds, SettledIsShown, AcceptedIsQueued, HasJob
<1>6. StatusTellsProgress'
  BY <1>k, <1>u DEF StatusTellsProgress, HasJob
<1> QED
  BY <1>1, <1>2, <1>3, <1>4, <1>5, <1>6 DEF RequestsProgress

(***************************************************************************)
(* What follows a step of a request: the next step, or the answer 200.     *)
(***************************************************************************)
LEMMA ProceedInv ==
  ASSUME TypeOK, RequestsProgress, AcceptedIsQueued, NEW r \in Requests,
         NEW d \in Payloads, d = request[r].of,
         NEW next \in RequestSteps, next # "projectHistory",
         next = "idle" => EndRequest(r) /\ accepted' = accepted \union {d},
         next # "idle" => Goto(r, next) /\ UNCHANGED accepted,
         next \in {"enqueue", "updateStatus"} => Projected(d)',
         next = "enqueue" => d \in Signals,
         next \in {"updateStatus", "idle"} /\ d \in Signals => HasJob(d)',
         \A p \in Payloads : Projected(p) => Projected(p)',
         \A p \in Signals : HasJob(p) => HasJob(p)',
         UNCHANGED current
  PROVE  /\ request' \in [Requests -> RequestState] /\ RequestsProgress'
         /\ accepted' \subseteq Payloads /\ AcceptedIsQueued'
<1>1. request' \in [Requests -> RequestState]
  BY DEF TypeOK, EndRequest, Goto, RequestState, RequestSteps
<1>2. /\ request'[r].step = next
      /\ next # "idle" => request'[r].of = d
      /\ \A q \in Requests : q # r => request'[q] = request[q]
  BY DEF TypeOK, EndRequest, Goto, RequestState
<1>3. ASSUME NEW q \in Requests PROVE RequestProgress(q)'
  <2>1. CASE q = r
    BY <2>1, <1>2 DEF RequestProgress, Projected, HasJob
  <2>2. CASE q # r
    BY <2>2, <1>2 DEF RequestsProgress, RequestProgress, Projected, HasJob
  <2> QED
    BY <2>1, <2>2
<1>4. accepted' \subseteq Payloads
  BY DEF TypeOK
<1>5. AcceptedIsQueued'
  <2> SUFFICES ASSUME NEW p \in Signals, p \in accepted' PROVE HasJob(p)'
    BY DEF AcceptedIsQueued
  <2>1. CASE p \in accepted
    BY <2>1 DEF AcceptedIsQueued
  <2>2. CASE p \notin accepted
    BY <2>2
  <2> QED
    BY <2>1, <2>2
<1> QED
  BY <1>1, <1>3, <1>4, <1>5 DEF RequestsProgress

LEMMA ProjectHistoryInv ==
  ASSUME IntakeInv, NEW r \in Requests, ProjectHistory(r)
  PROVE  IntakeInv'
<1> USE DEF IntakeInv, jvars, At
<1>d. PICK d \in Payloads : d = request[r].of
  BY DEF RequestsProgress, RequestProgress, ProjectHistory
<1>b. Bar[d] \in Bars /\ current.bar >= Bar[d]
  BY <1>d, BarOf DEF RequestsProgress, RequestProgress, ProjectHistory
<1>u. UNCHANGED <<event, current, payload, handler, unshown, status, attempts, holder>>
  BY DEF ProjectHistory
<1>1. /\ history' \in [Bars -> [context : Payloads \union {None}, event : Payloads \union {None}]]
      /\ history'[Bar[d]].context # None
      /\ \A b \in Bars : history[b].context # None => history'[b].context # None
  BY <1>d, <1>b, IntakeAssumption DEF TypeOK, ProjectHistory
<1>k. Projected(d)' /\ \A p \in Payloads : Projected(p) => Projected(p)'
  BY <1>1, <1>b, <1>u, BarOf DEF Projected
<1>h. \A p \in Signals : HasJob(p) => HasJob(p)'
  BY <1>u DEF HasJob
<1> DEFINE next == IF d \in Signals THEN "enqueue" ELSE "updateStatus"
<1>2. StepAfter(request[r].step, d) = next
  BY DEF StepAfter, ProjectHistory
<1>3. /\ next # "idle" /\ Goto(r, next) /\ UNCHANGED accepted /\ next \in RequestSteps
      /\ next # "projectHistory"
  BY <1>2, <1>d DEF ProjectHistory, Proceed, RequestSteps
<1>4. /\ next = "enqueue" => d \in Signals
      /\ next \in {"updateStatus", "idle"} => d \notin Signals
  OBVIOUS
<1> HIDE DEF next
<1>5. /\ request' \in [Requests -> RequestState] /\ RequestsProgress'
      /\ accepted' \subseteq Payloads /\ AcceptedIsQueued'
  BY <1>d, <1>u, <1>k, <1>h, <1>3, <1>4, ProceedInv
<1>6. TypeOK'
  BY <1>1, <1>u, <1>5 DEF TypeOK
<1>7. JobsCarryPayloads'
  BY <1>k, <1>u, IntakeAssumption DEF JobsCarryPayloads
<1>8. HandlersHold' /\ SettledIsShown'
  BY <1>u DEF HandlersHold, HandlerHolds, SettledIsShown
<1>9. StatusTellsProgress'
  BY <1>k, <1>u DEF StatusTellsProgress, HasJob
<1> QED
  BY <1>5, <1>6, <1>7, <1>8, <1>9

LEMMA EnqueueInv ==
  ASSUME IntakeInv, NEW r \in Requests, EnqueueJob(r)
  PROVE  IntakeInv'
<1> USE DEF IntakeInv, jvars, intake, At
<1>d. PICK d \in Payloads : d = request[r].of
  BY DEF RequestsProgress, RequestProgress, EnqueueJob
<1>b. d \in Signals /\ Projected(d) /\ Bar[d] \in Jobs
  BY <1>d, BarOf DEF RequestsProgress, RequestProgress, EnqueueJob
<1>u. UNCHANGED <<event, current, history, handler, unshown>>
  BY DEF EnqueueJob
<1>3. /\ status' \in [Jobs -> JobStatus] /\ payload' \in [Jobs -> Payloads \union {None}]
      /\ UNCHANGED holder
      /\ status'[Bar[d]] # "absent"
      /\ \A j \in Jobs : status[j] # "absent" => status'[j] = status[j] /\ payload'[j] = payload[j]
      /\ \A j \in Jobs : status[j] = "absent" /\ status'[j] # "absent" =>
           j = Bar[d] /\ status'[j] = "pending" /\ payload'[j] = d
  <2>1. CASE status[Bar[d]] = "absent"
    <3>1. /\ status' = [status EXCEPT ![Bar[d]] = "pending"]
          /\ payload' = [payload EXCEPT ![Bar[d]] = d] /\ UNCHANGED holder
      BY <2>1, <1>d DEF EnqueueJob, Create
    <3> QED
      BY <1>b, <2>1, <3>1 DEF TypeOK, JobStatus
  <2>2. CASE status[Bar[d]] # "absent"
    BY <2>2, <1>d DEF EnqueueJob, TypeOK
  <2> QED
    BY <2>1, <2>2
<1>4. /\ request' \in [Requests -> RequestState] /\ RequestsProgress'
      /\ accepted' \subseteq Payloads /\ AcceptedIsQueued'
  <2>1. StepAfter(request[r].step, d) = "updateStatus"
    BY DEF StepAfter, EnqueueJob
  <2>2. Goto(r, "updateStatus") /\ UNCHANGED accepted /\ "updateStatus" \in RequestSteps
    BY <2>1, <1>d DEF EnqueueJob, Proceed, RequestSteps
  <2>3. HasJob(d)' /\ \A p \in Signals : HasJob(p) => HasJob(p)'
    BY <1>3, BarOf, IntakeAssumption DEF HasJob
  <2>4. \A p \in Payloads : Projected(p)' <=> Projected(p)
    BY <1>u DEF Projected
  <2> QED
    BY <1>d, <1>b, <1>u, <2>2, <2>3, <2>4, ProceedInv
<1>5. TypeOK'
  BY <1>u, <1>3, <1>4 DEF TypeOK
<1>6. JobsCarryPayloads'
  BY <1>b, <1>u, <1>3 DEF JobsCarryPayloads, Projected
<1>7. HandlersHold'
  BY <1>u, <1>3 DEF HandlersHold, HandlerHolds
<1>8. SettledIsShown'
  BY <1>u, <1>3 DEF SettledIsShown
<1>9. StatusTellsProgress'
  BY <1>u, <1>3, BarOf, IntakeAssumption DEF StatusTellsProgress, Projected, HasJob
<1> QED
  BY <1>4, <1>5, <1>6, <1>7, <1>8, <1>9

(***************************************************************************)
(* Writing "queued" over a worker's word puts the job in unshown.          *)
(***************************************************************************)
LEMMA UpdateStatusInv ==
  ASSUME IntakeInv, NEW r \in Requests, UpdateProcessStatus(r)
  PROVE  IntakeInv'
<1> USE DEF IntakeInv, jvars, At
<1>d. PICK d \in Payloads : d = request[r].of
  BY DEF RequestsProgress, RequestProgress, UpdateProcessStatus
<1>b. Projected(d) /\ (d \in Signals => HasJob(d) /\ Bar[d] \in Jobs)
  BY <1>d, BarOf DEF RequestsProgress, RequestProgress, UpdateProcessStatus
<1>u. UNCHANGED <<current, history, payload, handler, status, attempts, holder>>
  BY DEF UpdateProcessStatus
<1>e. /\ event' \in [Payloads -> [count : Nat, status : ProcessStatus]]
      /\ \A p \in Payloads : p # d => event'[p] = event[p]
  BY <1>d DEF UpdateProcessStatus, TypeOK, ProcessStatus
<1>s. /\ unshown' \subseteq Jobs /\ unshown \subseteq unshown'
      /\ Told(d) => Bar[d] \in unshown'
  BY <1>d, <1>b DEF UpdateProcessStatus, TypeOK, Told
<1>1. StepAfter(request[r].step, d) = "idle" /\ "idle" \in RequestSteps
  BY DEF StepAfter, UpdateProcessStatus, RequestSteps
<1>2. EndRequest(r) /\ accepted' = accepted \union {d}
  BY <1>1, <1>d DEF UpdateProcessStatus, Proceed
<1>3. /\ request' \in [Requests -> RequestState] /\ RequestsProgress'
      /\ accepted' \subseteq Payloads /\ AcceptedIsQueued'
  <2>1. /\ \A p \in Payloads : Projected(p)' <=> Projected(p)
        /\ \A p \in Signals : HasJob(p)' <=> HasJob(p)
    BY <1>u DEF Projected, HasJob
  <2> QED
    BY <1>d, <1>b, <1>u, <1>1, <1>2, <2>1, ProceedInv
<1>4. TypeOK'
  BY <1>e, <1>s, <1>u, <1>3 DEF TypeOK
<1>5. JobsCarryPayloads'
  BY <1>u DEF JobsCarryPayloads, Projected
<1>6. ASSUME NEW j \in Jobs, j \notin unshown', status[j] # "absent",
             Told(payload[j])
      PROVE  event'[payload[j]] = event[payload[j]]
  <2>1. payload[j] \in Payloads /\ Bar[payload[j]] = j
    BY <1>6, IntakeAssumption DEF JobsCarryPayloads
  <2>2. payload[j] # d
    BY <1>6, <1>s, <2>1
  <2> QED
    BY <2>1, <2>2, <1>e
<1>7. ASSUME NEW w \in Holders PROVE HandlerHolds(w)'
  <2>1. HandlerHolds(w)
    BY DEF HandlersHold
  <2>2. CASE handler[w].step = "idle"
    BY <2>2, <1>u DEF HandlerHolds
  <2>3. CASE handler[w].step # "idle"
    <3> DEFINE j == handler[w].job
    <3>1. j \in Jobs /\ status[j] # "absent" /\ payload[j] \in Signals
      BY <2>1, <2>3 DEF HandlerHolds, JobsCarryPayloads
    <3>2. ASSUME j \notin unshown'
          PROVE  /\ status[j] = "running" /\ holder[j] = w
                 /\ handler[w].step = "written" => event'[payload[j]].status \in Outcomes
                 /\ handler[w].step = "failed" => event'[payload[j]].status = "failed"
      <4>1. /\ status[j] = "running" /\ holder[j] = w
            /\ handler[w].step = "written" => event[payload[j]].status \in Outcomes
            /\ handler[w].step = "failed" => event[payload[j]].status = "failed"
        BY <2>1, <2>3, <3>2, <1>s DEF HandlerHolds
      <4> QED
        BY <4>1, <3>1, <3>2, <1>6 DEF Told
    <3> QED
      BY <2>3, <3>1, <3>2, <1>u DEF HandlerHolds
  <2> QED
    BY <2>2, <2>3
<1>8. SettledIsShown'
  <2> SUFFICES ASSUME NEW j \in Jobs, j \notin unshown'
               PROVE  /\ status[j] = "completed" => event'[payload[j]].status \in Outcomes
                      /\ status[j] = "failed" => event'[payload[j]].status = "failed"
    BY <1>u DEF SettledIsShown
  <2>1. /\ status[j] = "completed" => event[payload[j]].status \in Outcomes
        /\ status[j] = "failed" => event[payload[j]].status = "failed"
    BY <1>s DEF SettledIsShown
  <2>2. status[j] # "absent" => payload[j] \in Signals
    BY DEF JobsCarryPayloads
  <2> QED
    BY <2>1, <2>2, <1>6 DEF Told
<1>9. StatusTellsProgress'
  BY <1>b, <1>e, <1>u DEF StatusTellsProgress, Projected, HasJob
<1> QED
  BY <1>3, <1>4, <1>5, <1>7, <1>8, <1>9 DEF HandlersHold

-----------------------------------------------------------------------------
(* The steps of a worker *)

LEMMA StartInv ==
  ASSUME IntakeInv, NEW w \in Holders, NEW j \in Jobs, StartHandler(w, j)
  PROVE  IntakeInv'
<1> USE DEF IntakeInv, intake, StartHandler, Start
<1>1. /\ handler' \in [Holders -> HandlerState]
      /\ handler'[w] = [step |-> "run", job |-> j]
      /\ \A v \in Holders : v # w => handler'[v] = handler[v]
  BY DEF TypeOK, HandlerState, HandlerSteps
<1>2. /\ status[j] = "pending" /\ status'[j] = "running" /\ holder'[j] = w
      /\ \A k \in Jobs : k # j => status'[k] = status[k] /\ holder'[k] = holder[k]
  BY DEF TypeOK
<1>3. TypeOK'
  BY <1>1 DEF TypeOK, JobStatus
<1>4. RequestsProgress' /\ AcceptedIsQueued' /\ StatusTellsProgress'
  BY <1>2, BarOf, IntakeAssumption
     DEF RequestsProgress, RequestProgress, AcceptedIsQueued, StatusTellsProgress,
         Projected, HasJob
<1>5. JobsCarryPayloads' /\ SettledIsShown'
  BY <1>2 DEF JobsCarryPayloads, SettledIsShown, Projected
<1>6. ASSUME NEW v \in Holders PROVE HandlerHolds(v)'
  <2>1. CASE v = w
    BY <2>1, <1>1, <1>2 DEF HandlerHolds
  <2>2. CASE v # w
    <3>1. HandlerHolds(v) /\ handler'[v] = handler[v]
      BY <2>2, <1>1 DEF HandlersHold
    <3> QED
      BY <3>1, <1>2 DEF HandlerHolds
  <2> QED
    BY <2>1, <2>2
<1> QED
  BY <1>3, <1>4, <1>5, <1>6 DEF HandlersHold

(***************************************************************************)
(* The word of a handler goes to the row of its own job's payload: another *)
(* job has a payload of another bar, and no other handler holds this job   *)
(* unless an attempt was cut off.                                          *)
(***************************************************************************)
LEMMA WriteInv ==
  ASSUME IntakeInv, NEW w \in Holders, handler[w].step # "idle",
         NEW s \in Outcomes \union {"failed"}, NEW step \in {"written", "failed"},
         step = "written" => s \in Outcomes, step = "failed" => s = "failed",
         WriteBack(w, s), handler' = [handler EXCEPT ![w].step = step],
         UNCHANGED <<current, history, payload, request, accepted, unshown, jvars>>
  PROVE  IntakeInv'
<1> USE DEF IntakeInv, jvars
<1>j. PICK j \in Jobs : j = handler[w].job /\ status[j] # "absent"
  BY DEF HandlersHold, HandlerHolds
<1>d. PICK d \in Payloads : /\ d = payload[j] /\ d \in Signals /\ Bar[d] = j
                            /\ Projected(d) /\ HasJob(d)
  BY <1>j, IntakeAssumption DEF JobsCarryPayloads, HasJob
<1>e. /\ event' \in [Payloads -> [count : Nat, status : ProcessStatus]]
      /\ event'[d].status = s /\ \A p \in Payloads : p # d => event'[p] = event[p]
  BY <1>j, <1>d DEF WriteBack, TypeOK, ProcessStatus
<1>h. /\ handler' \in [Holders -> HandlerState]
      /\ handler'[w].step = step /\ handler'[w].job = j
      /\ \A v \in Holders : v # w => handler'[v] = handler[v]
  BY <1>j DEF TypeOK, HandlerState, HandlerSteps
<1>o. \A k \in Jobs : k # j /\ status[k] # "absent" => event'[payload[k]] = event[payload[k]]
  BY <1>d, <1>e, IntakeAssumption DEF JobsCarryPayloads
<1>w. j \notin unshown => status[j] = "running" /\ holder[j] = w
  BY <1>j DEF HandlersHold, HandlerHolds
<1>1. TypeOK'
  BY <1>e, <1>h DEF TypeOK
<1>2. RequestsProgress' /\ AcceptedIsQueued' /\ JobsCarryPayloads'
  BY DEF RequestsProgress, RequestProgress, AcceptedIsQueued, JobsCarryPayloads,
         Projected, HasJob
<1>3. StatusTellsProgress'
  BY <1>d, <1>e DEF StatusTellsProgress, Projected, HasJob
<1>4. SettledIsShown'
  BY <1>o, <1>w DEF SettledIsShown
<1>5. ASSUME NEW v \in Holders PROVE HandlerHolds(v)'
  <2>1. CASE v = w
    BY <2>1, <1>j, <1>d, <1>e, <1>h, <1>w DEF HandlerHolds
  <2>2. CASE v # w
    <3>1. HandlerHolds(v) /\ handler'[v] = handler[v]
      BY <2>2, <1>h DEF HandlersHold
    <3> QED
      BY <3>1, <2>2, <1>o, <1>w DEF HandlerHolds
  <2> QED
    BY <2>1, <2>2
<1> QED
  BY <1>1, <1>2, <1>3, <1>4, <1>5 DEF HandlersHold

LEMMA FailUnwrittenInv ==
  ASSUME IntakeInv, NEW w \in Holders, FailUnwritten(w)
  PROVE  IntakeInv'
<1> USE DEF IntakeInv, intake, jvars, FailUnwritten
<1>j. PICK j \in Jobs : j = handler[w].job /\ status[j] # "absent"
  BY DEF HandlersHold, HandlerHolds
<1>h. /\ handler' \in [Holders -> HandlerState] /\ handler'[w].job = j
      /\ \A v \in Holders : v # w => handler'[v] = handler[v]
  BY <1>j DEF TypeOK, HandlerState, HandlerSteps
<1>1. TypeOK'
  BY <1>j, <1>h DEF TypeOK
<1>2. RequestsProgress' /\ AcceptedIsQueued' /\ JobsCarryPayloads' /\ StatusTellsProgress'
  BY DEF RequestsProgress, RequestProgress, AcceptedIsQueued, JobsCarryPayloads,
         StatusTellsProgress, Projected, HasJob
<1>3. SettledIsShown'
  BY DEF SettledIsShown
<1>4. ASSUME NEW v \in Holders PROVE HandlerHolds(v)'
  BY <1>j, <1>h DEF HandlersHold, HandlerHolds
<1> QED
  BY <1>1, <1>2, <1>3, <1>4 DEF HandlersHold

LEMMA HandlerEnds ==
  ASSUME TypeOK, NEW w \in Holders, EndHandler(w)
  PROVE  /\ handler' \in [Holders -> HandlerState] /\ handler'[w].step = "idle"
         /\ \A v \in Holders : v # w => handler'[v] = handler[v]
BY DEF TypeOK, EndHandler, HandlerState, HandlerSteps

LEMMA WorkerDiesInv ==
  ASSUME IntakeInv, NEW w \in Holders, WorkerDies(w)
  PROVE  IntakeInv'
<1> USE DEF IntakeInv, intake, jvars, WorkerDies
<1>h. /\ handler' \in [Holders -> HandlerState] /\ handler'[w].step = "idle"
      /\ \A v \in Holders : v # w => handler'[v] = handler[v]
  BY HandlerEnds
<1>1. TypeOK'
  BY <1>h DEF TypeOK
<1>2. RequestsProgress' /\ AcceptedIsQueued' /\ JobsCarryPayloads' /\ StatusTellsProgress'
  BY DEF RequestsProgress, RequestProgress, AcceptedIsQueued, JobsCarryPayloads,
         StatusTellsProgress, Projected, HasJob
<1>3. SettledIsShown'
  BY DEF SettledIsShown
<1>4. ASSUME NEW v \in Holders PROVE HandlerHolds(v)'
  BY <1>h DEF HandlersHold, HandlerHolds
<1> QED
  BY <1>1, <1>2, <1>3, <1>4 DEF HandlersHold

(* A failed attempt of a job leaves it pending or failed, and nobody's. *)
LEMMA AttemptFails ==
  ASSUME TypeOK, NEW j \in Jobs, FailAttempts({j})
  PROVE  /\ status' \in [Jobs -> JobStatus] /\ holder' \in [Jobs -> Holders \union {None}]
         /\ status[j] = "running" /\ status'[j] \in {"pending", "failed"}
         /\ \A k \in Jobs : k # j => status'[k] = status[k] /\ holder'[k] = holder[k]
BY DEF TypeOK, FailAttempts, JobStatus

LEMMA LockExpiresInv ==
  ASSUME IntakeInv, NEW j \in Jobs, LockExpires(j)
  PROVE  IntakeInv'
<1> USE DEF IntakeInv, intake, LockExpires
<1>1. /\ status' \in [Jobs -> JobStatus] /\ holder' \in [Jobs -> Holders \union {None}]
      /\ status[j] = "running" /\ status'[j] \in {"pending", "failed"}
      /\ \A k \in Jobs : k # j => status'[k] = status[k] /\ holder'[k] = holder[k]
  BY AttemptFails
<1>2. TypeOK'
  BY <1>1 DEF TypeOK
<1>3. RequestsProgress' /\ AcceptedIsQueued' /\ StatusTellsProgress'
  BY <1>1, BarOf, IntakeAssumption
     DEF RequestsProgress, RequestProgress, AcceptedIsQueued, StatusTellsProgress,
         Projected, HasJob
<1>4. JobsCarryPayloads' /\ SettledIsShown'
  BY <1>1 DEF JobsCarryPayloads, SettledIsShown, Projected
<1>5. ASSUME NEW v \in Holders PROVE HandlerHolds(v)'
  BY <1>1 DEF HandlersHold, HandlerHolds
<1> QED
  BY <1>2, <1>3, <1>4, <1>5 DEF HandlersHold

LEMMA ReportInv ==
  ASSUME IntakeInv, NEW w \in Holders, Report(w)
  PROVE  IntakeInv'
<1> USE DEF IntakeInv, intake
<1>j. PICK j \in Jobs : j = handler[w].job /\ status[j] # "absent"
  BY DEF HandlersHold, HandlerHolds, Report
<1>h. /\ handler' \in [Holders -> HandlerState] /\ handler'[w].step = "idle"
      /\ \A v \in Holders : v # w => handler'[v] = handler[v]
  BY HandlerEnds DEF Report
<1>u. UNCHANGED <<event, current, history, payload, request, accepted, unshown>>
  BY DEF Report
<1>w. HandlerHolds(w) /\ handler[w].step \in {"written", "failed"}
  BY DEF HandlersHold, Report
<1>1. /\ status' \in [Jobs -> JobStatus] /\ holder' \in [Jobs -> Holders \union {None}]
      /\ status'[j] # "absent"
      /\ \A k \in Jobs : k # j => status'[k] = status[k] /\ holder'[k] = holder[k]
      /\ holder[j] # w => status'[j] = status[j] /\ holder'[j] = holder[j]
      /\ holder[j] = w =>
           \/ handler[w].step = "written" /\ status'[j] = "completed"
           \/ handler[w].step = "failed" /\ status'[j] \in {"pending", "failed"}
  <2>1. CASE holder[j] # w
    BY <2>1, <1>j DEF Report, jvars, TypeOK
  <2>2. CASE holder[j] = w /\ handler[w].step = "written"
    <3>1. Succeed(j, w)
      BY <2>2, <1>j DEF Report
    <3> QED
      BY <2>2, <3>1 DEF Succeed, TypeOK, JobStatus
  <2>3. CASE holder[j] = w /\ handler[w].step = "failed"
    <3>1. FailAttempts({j})
      BY <2>3, <1>j DEF Report
    <3> QED
      BY <2>3, <3>1, AttemptFails
  <2> QED
    BY <2>1, <2>2, <2>3, <1>w
<1>2. TypeOK'
  BY <1>h, <1>u, <1>1 DEF TypeOK
<1>3. RequestsProgress' /\ AcceptedIsQueued' /\ StatusTellsProgress'
  BY <1>u, <1>1, <1>j, BarOf, IntakeAssumption
     DEF RequestsProgress, RequestProgress, AcceptedIsQueued, StatusTellsProgress,
         Projected, HasJob
<1>4. JobsCarryPayloads'
  BY <1>u, <1>j, <1>1 DEF JobsCarryPayloads, Projected
<1>5. SettledIsShown'
  BY <1>u, <1>j, <1>w, <1>1 DEF SettledIsShown, HandlerHolds
<1>6. ASSUME NEW v \in Holders PROVE HandlerHolds(v)'
  <2>1. CASE v = w
    BY <2>1, <1>h DEF HandlerHolds
  <2>2. CASE v # w
    <3>1. HandlerHolds(v) /\ handler'[v] = handler[v]
      BY <2>2, <1>h DEF HandlersHold
    <3> QED
      BY <2>2, <3>1, <1>u, <1>j, <1>w, <1>1 DEF HandlerHolds
  <2> QED
    BY <2>1, <2>2
<1> QED
  BY <1>2, <1>3, <1>4, <1>5, <1>6 DEF HandlersHold

-----------------------------------------------------------------------------
(* The theorems *)

LEMMA StepInv == IntakeInv /\ [Next]_vars => IntakeInv'
<1> SUFFICES ASSUME IntakeInv, [Next]_vars PROVE IntakeInv'
  OBVIOUS
<1>1. ASSUME NEW r \in Requests, HandleWebhook(r) PROVE IntakeInv'
  BY <1>1, DeliverInv, RecordReceivedInv, ProjectCurrentInv, ProjectHistoryInv, EnqueueInv,
     UpdateStatusInv, RequestFailsInv DEF HandleWebhook
<1>2. ASSUME NEW w \in Holders, HandleJob(w) PROVE IntakeInv'
  <2>1. CASE WriteOutcome(w)
    BY <2>1, WriteInv DEF WriteOutcome
  <2>2. CASE WriteFailed(w)
    BY <2>2, WriteInv DEF WriteFailed
  <2> QED
    BY <1>2, <2>1, <2>2, StartInv, FailUnwrittenInv, ReportInv, WorkerDiesInv DEF HandleJob
<1>3. ASSUME NEW j \in Jobs, LockExpires(j) PROVE IntakeInv'
  BY <1>3, LockExpiresInv
<1>4. CASE UNCHANGED vars
  BY <1>4 DEF vars, intake, jvars, IntakeInv, TypeOK, RequestsProgress, RequestProgress,
     JobsCarryPayloads, HandlersHold, HandlerHolds, AcceptedIsQueued, StatusTellsProgress,
     SettledIsShown, Projected, HasJob
<1> QED
  BY <1>1, <1>2, <1>3, <1>4 DEF Next

(***************************************************************************)
(* No signal that was answered 200 is without a job.                       *)
(***************************************************************************)
THEOREM SignalsQueued == Spec => []AcceptedIsQueued
<1>1. IntakeInv => AcceptedIsQueued
  BY DEF IntakeInv
<1> QED
  BY <1>1, InitInv, StepInv, PTL DEF Spec

(***************************************************************************)
(* A delivery is skipped as a duplicate only when nothing is left to do.   *)
(***************************************************************************)
THEOREM ProgressTold == Spec => []StatusTellsProgress
<1>1. IntakeInv => StatusTellsProgress
  BY DEF IntakeInv
<1> QED
  BY <1>1, InitInv, StepInv, PTL DEF Spec

(***************************************************************************)
(* How a job ended shows in the row of its payload, unless an attempt was  *)
(* cut off or a request wrote over it.                                     *)
(***************************************************************************)
THEOREM OutcomesShown == Spec => []SettledIsShown
<1>1. IntakeInv => SettledIsShown
  BY DEF IntakeInv
<1> QED
  BY <1>1, InitInv, StepInv, PTL DEF Spec
=============================================================================
