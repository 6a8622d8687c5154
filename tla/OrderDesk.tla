----------------------------- MODULE OrderDesk ------------------------------
(***************************************************************************)
(* The paper orders of one account and symbol: the execution_intents,      *)
(* orders, fills, positions_current and positions_history tables, the API  *)
(* requests that submit, reconcile, cancel and flatten, and the Hermes     *)
(* worker that records plan versions and intents and submits them itself.  *)
(*                                                                         *)
(* A request reads a snapshot of the market (getLatestMarketPipeline) and  *)
(* then acts on it in several statements with no transaction around them;  *)
(* each statement is an action.  Prices are left out.  Row identifiers are *)
(* positions in the sequence of rows of a table, in created_at order.      *)
(***************************************************************************)
EXTENDS Integers, Sequences, FiniteSets

CONSTANTS
  Requests,    \* API requests that may be in flight together
  EntryQtys,   \* quantities the risk engine approves for an entry
  MaxPlans,    \* bound: plan versions recorded
  MaxCrashes   \* bound: requests or workers that die half way

ASSUME DeskAssumption ==
  /\ EntryQtys \subseteq Nat \ {0}
  /\ MaxPlans \in Nat
  /\ MaxCrashes \in Nat

Worker == "hermes"
ASSUME WorkerAssumption == Worker \notin Requests
Actors == Requests \union {Worker}

VARIABLES
  plans,     \* plans[p]: the version number of the p-th plan version row
  intents,   \* execution_intents
  orders,    \* orders
  fills,     \* fills
  position,  \* positions_current: signed quantity and last fill (0 for none)
  history,   \* positions_history
  actor,     \* actor[a]: the step a is at, and its local variables
  crashes    \* how many crashes there were

vars == <<plans, intents, orders, fills, position, history, actor, crashes>>
tables == <<plans, intents, orders, fills, position, history>>

-----------------------------------------------------------------------------
(* Rows *)

Side == {"buy", "sell"}
Opposite(side) == IF side = "buy" THEN "sell" ELSE "buy"
Signed(side, qty) == IF side = "buy" THEN qty ELSE -qty

OrderState == {"drafted", "preflight_failed", "approved", "submitted", "acked",
               "submit_unknown", "rejected", "partially_filled", "filled",
               "canceled", "reconciled_open", "reconciled_absent"}

OrderTransitions ==
  [drafted           |-> {"preflight_failed", "approved"},
   preflight_failed  |-> {},
   approved          |-> {"submitted"},
   submitted         |-> {"acked", "submit_unknown", "rejected"},
   acked             |-> {"partially_filled", "filled", "canceled"},
   submit_unknown    |-> {"reconciled_open", "reconciled_absent"},
   rejected          |-> {},
   partially_filled  |-> {"filled", "canceled"},
   filled            |-> {},
   canceled          |-> {},
   reconciled_open   |-> {"acked"},
   reconciled_absent |-> {"rejected"}]

CanTransition(from, to) == to \in OrderTransitions[from]

(***************************************************************************)
(* client_order_id: <symbol>-buy|sell-v<version> for an entry,             *)
(* <symbol>-flat-v<version> for an operator close.  idempotency_key: fresh *)
(* for every entry (it names the version and the verdict), and             *)
(* <order>:operator:close for a close.                                     *)
(***************************************************************************)
EntryIntent(p, side, qty) ==
  [plan |-> p, action |-> "open", side |-> side, qty |-> qty,
   clientId |-> <<side, plans[p]>>, key |-> <<"open", p>>]

CloseIntent(p, o, filledQty) ==
  [plan |-> p, action |-> "close", side |-> Opposite(orders[o].side),
   qty |-> IF filledQty > 0 THEN filledQty ELSE orders[o].qty,
   clientId |-> <<"flat", plans[p]>>, key |-> <<"close", o>>]

AckedOrder(i) ==
  [intent |-> i, side |-> intents[i].side, qty |-> intents[i].qty,
   clientId |-> intents[i].clientId, status |-> "acked", filled |-> 0]

Rows(table) == DOMAIN table

(* The last row that satisfies a condition, 0 for none. *)
Latest(S) == IF S = {} THEN 0 ELSE CHOOSE i \in S : \A k \in S : k <= i

LatestIntentOf(p) == Latest({i \in Rows(intents) : intents[i].plan = p})
LatestOrderOf(i) == Latest({o \in Rows(orders) : orders[o].intent = i})

-----------------------------------------------------------------------------
(* Actors *)

Kinds == {"submit", "filled", "canceled", "cancel_pending_entry", "flatten_position"}

Steps == {"idle", "readIntent", "readOrder", "check", "insert", "update",
          "recordFill", "readPosition", "upsert", "recordHistory",
          "recordClose", "recordEntry"}

(***************************************************************************)
(* The snapshot keeps the order's id and the two columns the handlers      *)
(* decide on.                                                              *)
(***************************************************************************)
Idle == [step |-> "idle", kind |-> "submit", plan |-> 0, intent |-> 0,
         order |-> 0, status |-> "drafted", filled |-> 0, fill |-> 0, held |-> 0]

Goto(a, step) == actor' = [actor EXCEPT ![a].step = step]
Finish(a) == actor' = [actor EXCEPT ![a] = Idle]

Init ==
  /\ plans = << >> /\ intents = << >> /\ orders = << >> /\ fills = << >>
  /\ position = [qty |-> 0, lastFill |-> 0]
  /\ history = << >>
  /\ actor = [a \in Actors |-> Idle]
  /\ crashes = 0

BeginRequest(r, kind) ==
  /\ actor[r].step = "idle"
  /\ Len(plans) > 0
  /\ actor' = [actor EXCEPT ![r] = [Idle EXCEPT !.step = "readIntent", !.kind = kind]]
  /\ UNCHANGED <<tables, crashes>>

(***************************************************************************)
(* The snapshot shows the latest plan version of the market, the latest    *)
(* intent of its verdict, and the latest order of that intent.             *)
(***************************************************************************)
ReadIntent(r) ==
  /\ actor[r].step = "readIntent"
  /\ LET i == LatestIntentOf(Len(plans))
     IN  actor' = [actor EXCEPT ![r] =
           IF i = 0 THEN Idle
           ELSE [@ EXCEPT !.plan = Len(plans), !.intent = i,
                          !.step = IF actor[r].kind = "submit" THEN "check"
                                   ELSE "readOrder"]]
  /\ UNCHANGED <<tables, crashes>>

(***************************************************************************)
(* The guards of the reconcile handler and reconcilePaperOrder, of         *)
(* handleCancelPendingEntry and of flatten_position, on the snapshot.      *)
(***************************************************************************)
ReconcilableUnchecked(kind, status, filled) == kind # "flatten_position" \* mutant
ReconcilableCancelAny(kind, status, filled) == \* mutant: cancel without its guard
  kind = "cancel_pending_entry" \/ (kind \in {"filled", "canceled"} /\ status = "acked")
Reconcilable(kind, status, filled) ==
  \/ /\ kind \in {"filled", "canceled"}
     /\ status \notin {"filled", "canceled"}
     /\ CanTransition(status, kind)
  \/ /\ kind = "cancel_pending_entry"
     /\ status = "acked" /\ filled = 0

Flattenable(kind, status) == kind = "flatten_position" /\ status = "filled"

ReadOrder(r) ==
  /\ actor[r].step = "readOrder"
  /\ LET o == LatestOrderOf(actor[r].intent)
         kind == actor[r].kind
         seen == IF o = 0 THEN "drafted" ELSE orders[o].status
         filled == IF o = 0 THEN 0 ELSE orders[o].filled
     IN  actor' = [actor EXCEPT ![r] =
           IF o # 0 /\ Reconcilable(kind, seen, filled)
           THEN [@ EXCEPT !.step = "update", !.order = o, !.status = seen,
                          !.filled = filled]
           ELSE IF o # 0 /\ Flattenable(kind, seen)
           THEN [@ EXCEPT !.step = "recordClose", !.order = o, !.status = seen,
                          !.filled = filled]
           ELSE Idle]
  /\ UNCHANGED <<tables, crashes>>

(***************************************************************************)
(* getLatestOrderByExecutionIntentId before submitting: the same check in  *)
(* the submit handler and in the worker.                                   *)
(***************************************************************************)
CheckSubmitted(a) ==
  /\ actor[a].step = "check"
  /\ IF LatestOrderOf(actor[a].intent) # 0 THEN Finish(a) ELSE Goto(a, "insert")
  /\ UNCHANGED <<tables, crashes>>

(***************************************************************************)
(* submitPaperOrderFromExecutionIntent.  The three asserted transitions    *)
(* are legal; unique (venue, client_order_id) rejects a second order with  *)
(* the same client id, and the caller throws.                              *)
(***************************************************************************)
InsertsOrderAlways(a) == TRUE \* mutant: no unique index
InsertsOrder(a) ==
  \A o \in Rows(orders) : orders[o].clientId # intents[actor[a].intent].clientId

SubmitPaperOrder(a) ==
  /\ actor[a].step = "insert"
  /\ orders' = IF InsertsOrder(a) THEN Append(orders, AckedOrder(actor[a].intent))
               ELSE orders
  /\ Finish(a)
  /\ UNCHANGED <<plans, intents, fills, position, history, crashes>>

OutcomeRaw(kind) == kind \* mutant: the request's word as the status
Outcome(kind) == IF kind = "filled" THEN "filled" ELSE "canceled"

(***************************************************************************)
(* reconcilePaperOrder: updateOrderStatus writes the columns derived from  *)
(* the snapshot, where id = order, whatever the row holds by now.          *)
(***************************************************************************)
UpdateOrderStatus(r) ==
  /\ actor[r].step = "update"
  /\ LET o == actor[r].order
         outcome == Outcome(actor[r].kind)
     IN  /\ orders' = [orders EXCEPT ![o] =
              [@ EXCEPT !.status = outcome,
                        !.filled = IF outcome = "filled" THEN orders[o].qty
                                   ELSE actor[r].filled]]
         /\ IF outcome = "filled" THEN Goto(r, "recordFill") ELSE Finish(r)
  /\ UNCHANGED <<plans, intents, fills, position, history, crashes>>

(***************************************************************************)
(* The fill copies the row that the update returned.  exchange_fill_id     *)
(* holds the time of the request, so two requests insert two fills.        *)
(***************************************************************************)
RecordFill(r) ==
  /\ actor[r].step = "recordFill"
  /\ LET o == actor[r].order
     IN  fills' = Append(fills, [order |-> o, side |-> orders[o].side,
                                 qty |-> orders[o].qty])
  /\ actor' = [actor EXCEPT ![r] = [@ EXCEPT !.step = "readPosition",
                                             !.fill = Len(fills) + 1]]
  /\ UNCHANGED <<plans, intents, orders, position, history, crashes>>

(* applyFillToPosition reads the position, *)
ReadPosition(r) ==
  /\ actor[r].step = "readPosition"
  /\ actor' = [actor EXCEPT ![r] = [@ EXCEPT !.step = "upsert", !.held = position.qty]]
  /\ UNCHANGED <<tables, crashes>>

(* derives the next one from what it has read, *)
NextQtyUnsigned(held, fill) == held + fill.qty \* mutant
NextQty(held, fill) == held + Signed(fill.side, fill.qty)

SameSign(x, y) == (x > 0 /\ y > 0) \/ (x < 0 /\ y < 0)

EventTypeSwapped(held, next) == \* mutant: reduce and flip swapped
  CASE held = 0 -> "open"
    [] held # 0 /\ next = 0 -> "close"
    [] held # 0 /\ next # 0 /\ SameSign(held, next - held) -> "increase"
    [] held # 0 /\ next # 0 /\ ~SameSign(held, next - held) ->
         IF SameSign(held, next) THEN "flip" ELSE "reduce"
EventType(held, next) ==
  CASE held = 0 -> "open"
    [] held # 0 /\ next = 0 -> "close"
    [] held # 0 /\ next # 0 /\ SameSign(held, next - held) -> "increase"
    [] held # 0 /\ next # 0 /\ ~SameSign(held, next - held) ->
         IF SameSign(held, next) THEN "reduce" ELSE "flip"

UpsertCurrentPosition(r) ==
  /\ actor[r].step = "upsert"
  /\ position' = [qty |-> NextQty(actor[r].held, fills[actor[r].fill]),
                  lastFill |-> actor[r].fill]
  /\ Goto(r, "recordHistory")
  /\ UNCHANGED <<plans, intents, orders, fills, history, crashes>>

(* and appends it to the history. *)
RecordPositionHistory(r) ==
  /\ actor[r].step = "recordHistory"
  /\ LET next == NextQty(actor[r].held, fills[actor[r].fill])
     IN  history' = Append(history, [fill |-> actor[r].fill, qty |-> next,
                                     event |-> EventType(actor[r].held, next)])
  /\ Finish(r)
  /\ UNCHANGED <<plans, intents, orders, fills, position, crashes>>

(***************************************************************************)
(* flatten_position records a close intent for the filled order and then   *)
(* submits it.  A second close of the same order has the same              *)
(* idempotency_key and the insert throws.                                  *)
(***************************************************************************)
CloseKeyFreeAlways(o) == TRUE \* mutant: idempotency_key not unique
CloseKeyFree(o) == \A i \in Rows(intents) : intents[i].key # <<"close", o>>

RecordCloseIntent(r) ==
  /\ actor[r].step = "recordClose"
  /\ LET o == actor[r].order
     IN  IF CloseKeyFree(o)
         THEN /\ intents' = Append(intents, CloseIntent(actor[r].plan, o, actor[r].filled))
              /\ actor' = [actor EXCEPT ![r] = [@ EXCEPT !.step = "insert",
                                                         !.intent = Len(intents) + 1]]
         ELSE UNCHANGED intents /\ Finish(r)
  /\ UNCHANGED <<plans, orders, fills, position, history, crashes>>

-----------------------------------------------------------------------------
(* The worker: process-deterministic-signal-pipeline and the paper         *)
(* submission of the full pipeline mode                                    *)

(***************************************************************************)
(* A new version of the latest plan, or the first version of a new one.    *)
(***************************************************************************)
RecordPlanVersion(n) ==
  /\ actor[Worker].step = "idle"
  /\ Len(plans) < MaxPlans
  /\ n = 1 \/ (Len(plans) > 0 /\ n = plans[Len(plans)] + 1)
  /\ plans' = Append(plans, n)
  /\ actor' = [actor EXCEPT ![Worker] = [Idle EXCEPT !.step = "recordEntry",
                                                     !.plan = Len(plans) + 1]]
  /\ UNCHANGED <<intents, orders, fills, position, history, crashes>>

(***************************************************************************)
(* The verdict approves and the intent is recorded; or the plan is         *)
(* rejected, not open, or in advisory mode, and there is no intent.        *)
(***************************************************************************)
RecordEntryIntent(side, qty) ==
  /\ actor[Worker].step = "recordEntry"
  /\ intents' = Append(intents, EntryIntent(actor[Worker].plan, side, qty))
  /\ actor' = [actor EXCEPT ![Worker] = [@ EXCEPT !.step = "check",
                                                  !.intent = Len(intents) + 1]]
  /\ UNCHANGED <<plans, orders, fills, position, history, crashes>>

RecordNoIntent ==
  /\ actor[Worker].step = "recordEntry"
  /\ Finish(Worker)
  /\ UNCHANGED <<tables, crashes>>

Crash(a) ==
  /\ actor[a].step # "idle"
  /\ crashes < MaxCrashes
  /\ crashes' = crashes + 1
  /\ Finish(a)
  /\ UNCHANGED tables

-----------------------------------------------------------------------------

HandleRequest(r) ==
  \/ \E kind \in Kinds : BeginRequest(r, kind)
  \/ ReadIntent(r)
  \/ ReadOrder(r)
  \/ UpdateOrderStatus(r)
  \/ RecordFill(r)
  \/ ReadPosition(r)
  \/ UpsertCurrentPosition(r)
  \/ RecordPositionHistory(r)
  \/ RecordCloseIntent(r)

Submit(a) == CheckSubmitted(a) \/ SubmitPaperOrder(a)

ProcessSignal ==
  \/ \E n \in 1..MaxPlans : RecordPlanVersion(n)
  \/ \E side \in Side, qty \in EntryQtys : RecordEntryIntent(side, qty)
  \/ RecordNoIntent

Next ==
  \/ \E r \in Requests : HandleRequest(r)
  \/ \E a \in Actors : Submit(a) \/ Crash(a)
  \/ ProcessSignal

Spec == Init /\ [][Next]_vars

-----------------------------------------------------------------------------
(* Properties *)

EventTypes == {"open", "increase", "reduce", "close", "flip"}

PlanRef == Nat \ {0}
Qty == Nat \ {0}
ClientId == (Side \union {"flat"}) \X Nat
Action == {"open", "close"}

IntentRow == [plan : PlanRef, action : Action, side : Side, qty : Qty,
              clientId : ClientId, key : Action \X Nat]
OrderRow == [intent : Nat, side : Side, qty : Qty, clientId : ClientId,
             status : OrderState, filled : Nat]
FillRow == [order : Nat, side : Side, qty : Qty]
HistoryRow == [fill : Nat, qty : Int, event : EventTypes]
ActorState == [step : Steps, kind : Kinds, plan : Nat, intent : Nat, order : Nat,
               status : OrderState, filled : Nat, fill : Nat, held : Int]

TypeOK ==
  /\ plans \in Seq(Nat \ {0})
  /\ intents \in Seq(IntentRow)
  /\ orders \in Seq(OrderRow)
  /\ fills \in Seq(FillRow)
  /\ position \in [qty : Int, lastFill : Nat]
  /\ history \in Seq(HistoryRow)
  /\ actor \in [Actors -> ActorState]
  /\ crashes \in Nat

(***************************************************************************)
(* An intent becomes at most one order, although the submit handler and    *)
(* the worker both check first and insert later.                           *)
(***************************************************************************)
OneOrderPerIntent ==
  \A o, q \in Rows(orders) : orders[o].intent = orders[q].intent => o = q

(***************************************************************************)
(* The client_order_id of an intent is unique within the venue.  It names  *)
(* symbol, side and version number but neither plan nor timeframe, so this *)
(* does not hold: the first entry of a later plan repeats the id of an     *)
(* earlier one, and can never be placed.                                   *)
(***************************************************************************)
ClientIdsUnique ==
  \A i, k \in Rows(intents) : intents[i].clientId = intents[k].clientId => i = k

(***************************************************************************)
(* Flatten requests that race on one filled order place one exit order     *)
(* between them, for no more than that order's quantity.                   *)
(***************************************************************************)
OneExitPerOrder ==
  \A i \in Rows(intents) : intents[i].action = "close" =>
    /\ intents[i].key[2] \in Rows(orders)
    /\ intents[i].qty <= orders[intents[i].key[2]].qty
    /\ \A k \in Rows(intents) : intents[i].key = intents[k].key => i = k

(***************************************************************************)
(* An order is filled at most once, and only a filled order has a fill,    *)
(* even if a request dies between the update and the fill.                 *)
(***************************************************************************)
FilledOnce ==
  /\ \A f, g \in Rows(fills) : fills[f].order = fills[g].order => f = g
  /\ \A f \in Rows(fills) : orders[fills[f].order].status = "filled"

(***************************************************************************)
(* order-state-machine.ts gives filled and canceled no successor: no       *)
(* request moves an order out of them or changes its filled quantity.      *)
(***************************************************************************)
TerminalOrdersStay ==
  [][\A o \in Rows(orders) : orders[o].status \in {"filled", "canceled"} =>
       /\ orders'[o].status = orders[o].status
       /\ orders'[o].filled = orders[o].filled]_vars

(***************************************************************************)
(* The position follows from the fills, as long as no request has died:    *)
(* with no fill being applied, the history has one entry per fill, in      *)
(* order, each continues the one before it, and positions_current is the   *)
(* last.                                                                   *)
(***************************************************************************)
Applies(m) == m.step \in {"readPosition", "upsert", "recordHistory"}
Applying == \E a \in Actors : Applies(actor[a])

QtyBefore(k) == IF k = 1 THEN 0 ELSE history[k - 1].qty

PositionFollowsFills ==
  crashes = 0 /\ ~Applying =>
    /\ Len(history) = Len(fills)
    /\ \A k \in Rows(history) :
         /\ history[k].fill = k
         /\ history[k].qty = QtyBefore(k) + Signed(fills[k].side, fills[k].qty)
    /\ position.qty = QtyBefore(Len(history) + 1)
    /\ position.lastFill = Len(fills)

(***************************************************************************)
(* The event types tell the story of the quantities next to them, as long  *)
(* as no request has died.                                                 *)
(***************************************************************************)
Magnitude(x) == IF x < 0 THEN -x ELSE x

EventsTellHistory ==
  crashes = 0 => \A k \in Rows(history) :
    LET before == QtyBefore(k)
        after == history[k].qty
    IN  CASE history[k].event = "open" -> before = 0
          [] history[k].event = "close" -> before # 0 /\ after = 0
          [] history[k].event = "increase" ->
               SameSign(before, after) /\ Magnitude(after) > Magnitude(before)
          [] history[k].event = "reduce" ->
               SameSign(before, after) /\ Magnitude(after) < Magnitude(before)
          [] history[k].event = "flip" -> before # 0 /\ after # 0 /\ ~SameSign(before, after)

(***************************************************************************)
(* The invariant the proofs use.  The rows and the local variables of the  *)
(* actors refer to rows that exist, and                                    *)
(***************************************************************************)
RowsRefer ==
  /\ \A i \in Rows(intents) : intents[i].plan \in Rows(plans)
  /\ \A o \in Rows(orders) : /\ orders[o].intent \in Rows(intents)
                            /\ orders[o].filled <= orders[o].qty
  /\ \A f \in Rows(fills) : fills[f].order \in Rows(orders)
  /\ \A k \in Rows(history) : history[k].fill \in Rows(fills)
  /\ position.lastFill \in {0} \union Rows(fills)

Refers(m) ==
  /\ m.step \in {"readOrder", "recordClose", "recordEntry"} => m.plan \in Rows(plans)
  /\ m.step \in {"check", "insert"} => m.intent \in Rows(intents)
  /\ m.step \in {"update", "recordFill", "recordClose"} =>
       m.order \in Rows(orders) /\ m.filled <= orders[m.order].qty
  /\ m.step \in {"readPosition", "upsert", "recordHistory"} => m.fill \in Rows(fills)

ActorsRefer == \A a \in Actors : Refers(actor[a])

(***************************************************************************)
(* an order keeps the client id of its intent, no two orders share one,    *)
(* and the idempotency key of an intent tells an entry from a close.       *)
(***************************************************************************)
OrdersCarryClientIds ==
  /\ \A o \in Rows(orders) : orders[o].clientId = intents[orders[o].intent].clientId
  /\ \A o, q \in Rows(orders) : orders[o].clientId = orders[q].clientId => o = q

KeysNameActions == \A i \in Rows(intents) : intents[i].key[1] = intents[i].action

DeskInv ==
  TypeOK /\ RowsRefer /\ ActorsRefer /\ OrdersCarryClientIds /\ KeysNameActions
    /\ OneExitPerOrder

(***************************************************************************)
(* The invariant for one request at a time, as the run OrderDeskSerial     *)
(* has it.  The worker only submits; what a request is about to update is  *)
(* still as it saw it, and what it is about to fill has no fill yet.       *)
(***************************************************************************)
OneAtATime == \A r, q \in Requests : r = q

WorkerSubmits == actor[Worker].step \in {"idle", "recordEntry", "check", "insert"}

SnapshotHolds(m) ==
  /\ m.step = "update" =>
       /\ orders[m.order].status = m.status /\ orders[m.order].filled = m.filled
       /\ Reconcilable(m.kind, m.status, m.filled)
  /\ m.step = "recordFill" =>
       /\ orders[m.order].status = "filled"
       /\ \A f \in Rows(fills) : fills[f].order # m.order

SnapshotsHold == \A r \in Requests : SnapshotHolds(actor[r])

(***************************************************************************)
(* Until a process dies, each row of the history continues the one before  *)
(* it by the fill of its number; the last fill may still be on its way     *)
(* into the position and the history.                                      *)
(***************************************************************************)
HistoryFollows ==
  \A k \in Rows(history) :
    /\ k \in Rows(fills) /\ history[k].fill = k
    /\ history[k].qty = QtyBefore(k) + Signed(fills[k].side, fills[k].qty)
    /\ history[k].event = EventType(QtyBefore(k), history[k].qty)

LastQty == QtyBefore(Len(history) + 1)

AppliesLastFill(m) ==
  /\ Applies(m) =>
       /\ Len(fills) = Len(history) + 1 /\ m.fill = Len(fills)
       /\ m.step # "readPosition" => m.held = LastQty
  /\ m.step = "recordHistory" =>
       position = [qty |-> NextQty(m.held, fills[m.fill]), lastFill |-> m.fill]

PositionInOrder ==
  /\ HistoryFollows
  /\ \A r \in Requests : AppliesLastFill(actor[r])
  /\ (\A r \in Requests : ~Applies(actor[r])) => Len(fills) = Len(history)
  /\ (\A r \in Requests : actor[r].step # "recordHistory") =>
       position = [qty |-> LastQty, lastFill |-> Len(history)]

SerialInv ==
  DeskInv /\ WorkerSubmits /\ SnapshotsHold /\ FilledOnce
    /\ (crashes = 0 => PositionInOrder)
=============================================================================
