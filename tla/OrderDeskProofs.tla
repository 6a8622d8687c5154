--------------------------- MODULE OrderDeskProofs ---------------------------
(***************************************************************************)
(* However many requests race with the worker and whenever they die, an    *)
(* intent becomes one order at most and an order gets one exit at most.    *)
(***************************************************************************)
EXTENDS OrderDesk, WellFoundedInduction, TLAPS

USE DEF Rows

-----------------------------------------------------------------------------
(* Rows of a table *)

(***************************************************************************)
(* A non-empty set of row numbers has a last one, so that Latest, which    *)
(* chooses it, returns a member.                                           *)
(***************************************************************************)
LEMMA LatestIn ==
  ASSUME NEW n \in Nat, NEW S \in SUBSET (1..n), S # {}
  PROVE  Latest(S) \in S
<1> DEFINE T == {m \in Nat : n - m \in S}
<1> DEFINE Less == {p \in Nat \X Nat : p[1] < p[2]}
<1>1. PICK t \in T : \A m \in T : <<m, t>> \notin Less
  <2>1. PICK s \in S : TRUE
    OBVIOUS
  <2>2. n - s \in Nat /\ n - (n - s) = s
    OBVIOUS
  <2>3. T \subseteq Nat /\ T # {}
    BY <2>2
  <2>4. Less = OpToRel(<, Nat)
    BY DEF OpToRel
  <2>5. IsWellFoundedOn(Less, Nat)
    BY <2>4, NatLessThanWellFounded
  <2> HIDE DEF Less, T
  <2> QED
    BY <2>3, <2>5, WFMin
<1>2. \A m \in T : t <= m
  <2> SUFFICES ASSUME NEW m \in T PROVE t <= m
    OBVIOUS
  <2>1. <<m, t>> \in Nat \X Nat
    OBVIOUS
  <2> QED
    BY <1>1, <2>1
<1>3. \A k \in S : k <= n - t
  <2> SUFFICES ASSUME NEW k \in S PROVE k <= n - t
    OBVIOUS
  <2>1. n - k \in Nat /\ n - (n - k) = k /\ k \in Nat
    OBVIOUS
  <2>2. n - k \in T
    BY <2>1
  <2>3. t <= n - k /\ t \in Nat
    BY <1>2, <2>2
  <2> QED
    BY <2>1, <2>3
<1> QED
  BY <1>3 DEF Latest

LEMMA LatestRow ==
  ASSUME NEW n \in Nat, NEW S \in SUBSET (1..n)
  PROVE  Latest(S) = 0 \/ Latest(S) \in S
<1>1. CASE S = {}
  BY <1>1 DEF Latest
<1>2. CASE S # {}
  BY <1>2, LatestIn
<1> QED
  BY <1>1, <1>2

(* What an insert does to a table. *)
LEMMA AppendRow ==
  ASSUME NEW R, NEW t \in Seq(R), NEW x \in R
  PROVE  /\ Append(t, x) \in Seq(R)
         /\ Rows(Append(t, x)) = Rows(t) \union {Len(t) + 1}
         /\ Len(t) + 1 \notin Rows(t)
         /\ \A i \in Rows(t) : Append(t, x)[i] = t[i]
         /\ Append(t, x)[Len(t) + 1] = x
         /\ Len(t) \in Nat
OBVIOUS

-----------------------------------------------------------------------------
(* Initial states, and the steps that only read *)

LEMMA InitInv == Init => DeskInv
BY DeskAssumption DEF Init, DeskInv, TypeOK, RowsRefer, ActorsRefer, Refers,
   OrdersCarryClientIds, KeysNameActions, OneExitPerOrder, Idle, ActorState, Steps,
   Kinds, OrderState

LEMMA IdleState == Idle \in ActorState /\ Idle.step = "idle"
BY DEF Idle, ActorState, Steps, Kinds, OrderState

(***************************************************************************)
(* Tables only grow, and an order keeps its quantity: what the other       *)
(* actors remember stays true of them.                                     *)
(***************************************************************************)
LEMMA OthersRefer ==
  ASSUME TypeOK, ActorsRefer, NEW a \in Actors, NEW m \in ActorState,
         actor' = [actor EXCEPT ![a] = m],
         Rows(plans) \subseteq Rows(plans'), Rows(intents) \subseteq Rows(intents'),
         Rows(orders) \subseteq Rows(orders'), Rows(fills) \subseteq Rows(fills'),
         \A o \in Rows(orders) : orders'[o].qty = orders[o].qty,
         Refers(actor[a])'
  PROVE  actor' \in [Actors -> ActorState] /\ ActorsRefer'
<1>1. actor' \in [Actors -> ActorState]
  BY DEF TypeOK
<1>2. ASSUME NEW b \in Actors PROVE Refers(actor[b])'
  <2>1. CASE b = a
    BY <2>1
  <2>2. CASE b # a
    BY <2>2 DEF TypeOK, ActorsRefer, Refers
  <2> QED
    BY <2>1, <2>2
<1> QED
  BY <1>1, <1>2 DEF ActorsRefer

LEMMA ReadInv ==
  ASSUME DeskInv, UNCHANGED tables, crashes' \in Nat,
         NEW a \in Actors, NEW m \in ActorState, actor' = [actor EXCEPT ![a] = m],
         Refers(actor[a])'
  PROVE  DeskInv'
<1> USE DEF DeskInv, tables
<1>1. actor' \in [Actors -> ActorState] /\ ActorsRefer'
  BY OthersRefer
<1>2. TypeOK'
  BY <1>1 DEF TypeOK
<1>3. RowsRefer' /\ OrdersCarryClientIds' /\ KeysNameActions' /\ OneExitPerOrder'
  BY DEF RowsRefer, OrdersCarryClientIds, KeysNameActions, OneExitPerOrder
<1> QED
  BY <1>1, <1>2, <1>3

LEMMA FinishInv ==
  ASSUME DeskInv, UNCHANGED tables, crashes' \in Nat, NEW a \in Actors, Finish(a)
  PROVE  DeskInv'
<1>1. actor'[a] = Idle
  BY DEF DeskInv, TypeOK, Finish
<1>2. Refers(actor[a])'
  BY <1>1, IdleState DEF Refers
<1> QED
  BY <1>2, IdleState, ReadInv DEF Finish

LEMMA GotoInv ==
  ASSUME DeskInv, UNCHANGED <<tables, crashes>>, NEW a \in Actors, NEW step \in Steps,
         Goto(a, step), Refers(actor[a])'
  PROVE  DeskInv'
<1>1. [actor[a] EXCEPT !.step = step] \in ActorState
  BY DEF DeskInv, TypeOK, ActorState
<1>2. crashes' \in Nat
  BY DEF DeskInv, TypeOK
<1> QED
  BY <1>1, <1>2, ReadInv DEF Goto

LEMMA BeginRequestInv ==
  ASSUME DeskInv, NEW r \in Requests, NEW kind \in Kinds, BeginRequest(r, kind)
  PROVE  DeskInv'
<1> DEFINE m == [Idle EXCEPT !.step = "readIntent", !.kind = kind]
<1>1. m \in ActorState /\ m.step = "readIntent"
  <2>1. "readIntent" \in Steps
    BY DEF Steps
  <2> QED
    BY <2>1, IdleState DEF ActorState
<1>2. r \in Actors /\ actor' = [actor EXCEPT ![r] = m]
  BY DEF BeginRequest, Actors
<1> HIDE DEF m
<1>3. Refers(actor[r])'
  BY <1>1, <1>2 DEF DeskInv, TypeOK, Refers
<1> QED
  BY <1>1, <1>2, <1>3, ReadInv DEF BeginRequest, DeskInv, TypeOK

LEMMA ReadIntentInv ==
  ASSUME DeskInv, NEW r \in Requests, ReadIntent(r)
  PROVE  DeskInv'
<1> DEFINE i == LatestIntentOf(Len(plans))
           step == IF actor[r].kind = "submit" THEN "check" ELSE "readOrder"
           m == [actor[r] EXCEPT !.plan = Len(plans), !.intent = i, !.step = step]
<1>t. r \in Actors /\ TypeOK /\ crashes' \in Nat /\ UNCHANGED tables
  BY DEF Actors, DeskInv, TypeOK, ReadIntent
<1>1. CASE i = 0
  <2>1. Finish(r)
    BY <1>1 DEF ReadIntent, Finish
  <2> QED
    BY <2>1, <1>t, FinishInv
<1>2. CASE i # 0
  <2>1. i \in Rows(intents) /\ intents[i].plan = Len(plans)
    <3>1. {k \in Rows(intents) : intents[k].plan = Len(plans)} \subseteq 1..Len(intents)
      BY <1>t DEF TypeOK
    <3>2. Len(intents) \in Nat
      BY <1>t DEF TypeOK
    <3> QED
      BY <3>1, <3>2, <1>2, LatestRow DEF LatestIntentOf
  <2>2. Len(plans) \in Rows(plans)
    BY <2>1 DEF DeskInv, RowsRefer
  <2>3. actor' = [actor EXCEPT ![r] = m]
    BY <1>2, <1>t DEF ReadIntent, TypeOK
  <2>4. i \in Nat
    BY <2>1, <1>t DEF TypeOK
  <2>s. step \in {"check", "readOrder"} /\ step \in Steps
    BY DEF Steps
  <2>n. Len(plans) \in Nat
    BY <1>t DEF TypeOK
  <2> HIDE DEF i, step
  <2>5. m \in ActorState
    BY <1>t, <2>4, <2>s, <2>n DEF TypeOK, ActorState
  <2>6. m.plan \in Rows(plans) /\ m.intent \in Rows(intents) /\ m.step \in {"check", "readOrder"}
    BY <1>t, <2>1, <2>2, <2>s DEF TypeOK, ActorState
  <2>7. actor'[r] = m
    BY <1>t, <2>3 DEF TypeOK
  <2> HIDE DEF m
  <2>8. Refers(actor[r])'
    BY <1>t, <2>6, <2>7 DEF Refers, tables
  <2> QED
    BY <1>t, <2>3, <2>5, <2>8, ReadInv
<1> QED
  BY <1>1, <1>2

LEMMA LatestOrderRow ==
  ASSUME TypeOK, NEW i, LatestOrderOf(i) # 0
  PROVE  LatestOrderOf(i) \in Rows(orders) /\ LatestOrderOf(i) \in Nat
<1> DEFINE S == {o \in Rows(orders) : orders[o].intent = i}
<1>1. S \in SUBSET (1..Len(orders)) /\ Len(orders) \in Nat
  BY DEF TypeOK
<1>2. Latest(S) # 0
  BY DEF LatestOrderOf
<1>3. Latest(S) \in S
  <2> HIDE DEF S
  <2> QED
    BY <1>1, <1>2, LatestRow
<1> QED
  BY <1>1, <1>3 DEF LatestOrderOf

LEMMA ReadOrderInv ==
  ASSUME DeskInv, NEW r \in Requests, ReadOrder(r)
  PROVE  DeskInv'
<1> DEFINE o == LatestOrderOf(actor[r].intent)
           m(step) == [actor[r] EXCEPT !.step = step, !.order = o,
                         !.status = orders[o].status, !.filled = orders[o].filled]
<1>t. r \in Actors /\ TypeOK /\ crashes' \in Nat /\ UNCHANGED tables
  BY DEF Actors, DeskInv, TypeOK, ReadOrder
<1>p. actor[r].plan \in Rows(plans)
  BY <1>t DEF DeskInv, ActorsRefer, Refers, ReadOrder
<1>1. CASE o # 0
  <2>1. o \in Rows(orders) /\ o \in Nat
    BY <1>t, <1>1, LatestOrderRow
  <2>2. orders[o] \in OrderRow /\ orders[o].filled <= orders[o].qty
    BY <1>t, <2>1 DEF DeskInv, TypeOK, RowsRefer
  <2>3. ASSUME NEW step \in {"update", "recordClose"}, actor' = [actor EXCEPT ![r] = m(step)]
        PROVE  DeskInv'
    <3>1. m(step) \in ActorState
      BY <1>t, <2>1, <2>2 DEF TypeOK, ActorState, Steps, OrderRow
    <3>2. /\ m(step).step = step /\ m(step).plan = actor[r].plan
          /\ m(step).order = o /\ m(step).filled = orders[o].filled
      BY <1>t DEF TypeOK, ActorState
    <3>3. actor'[r] = m(step)
      BY <1>t, <2>3 DEF TypeOK
    <3> HIDE DEF m, o
    <3>4. Refers(actor[r])'
      BY <1>t, <1>p, <2>1, <2>2, <3>2, <3>3 DEF Refers, tables
    <3> QED
      BY <1>t, <2>3, <3>1, <3>4, ReadInv
  <2>4. \/ actor' = [actor EXCEPT ![r] = m("update")]
        \/ actor' = [actor EXCEPT ![r] = m("recordClose")]
        \/ Finish(r)
    BY <1>1 DEF ReadOrder, Finish
  <2> QED
    BY <2>3, <2>4, <1>t, FinishInv
<1>2. CASE o = 0
  <2>1. Finish(r)
    BY <1>2 DEF ReadOrder, Finish
  <2> QED
    BY <2>1, <1>t, FinishInv
<1> QED
  BY <1>1, <1>2

LEMMA CheckSubmittedInv ==
  ASSUME DeskInv, NEW a \in Actors, CheckSubmitted(a)
  PROVE  DeskInv'
<1>1. CASE Finish(a)
  BY <1>1, FinishInv DEF CheckSubmitted, DeskInv, TypeOK
<1>2. CASE Goto(a, "insert")
  <2>1. Refers(actor[a])'
    BY <1>2 DEF DeskInv, TypeOK, ActorsRefer, Refers, CheckSubmitted, Goto, ActorState, tables
  <2> QED
    BY <1>2, <2>1, GotoInv DEF CheckSubmitted, Steps
<1> QED
  BY <1>1, <1>2 DEF CheckSubmitted

LEMMA ReadPositionInv ==
  ASSUME DeskInv, NEW r \in Requests, ReadPosition(r)
  PROVE  DeskInv'
<1> DEFINE m == [actor[r] EXCEPT !.step = "upsert", !.held = position.qty]
<1>t. r \in Actors /\ TypeOK /\ crashes' \in Nat /\ UNCHANGED tables
  BY DEF Actors, DeskInv, TypeOK, ReadPosition
<1>1. m \in ActorState /\ m.step = "upsert" /\ m.fill = actor[r].fill
  BY <1>t DEF TypeOK, ActorState, Steps
<1>2. actor' = [actor EXCEPT ![r] = m] /\ actor'[r] = m
  BY <1>t DEF ReadPosition, TypeOK
<1>3. actor[r].fill \in Rows(fills)
  BY <1>t DEF ReadPosition, DeskInv, ActorsRefer, Refers
<1> HIDE DEF m
<1>4. Refers(actor[r])'
  BY <1>t, <1>1, <1>2, <1>3 DEF Refers, tables
<1> QED
  BY <1>t, <1>1, <1>2, <1>4, ReadInv

-----------------------------------------------------------------------------
(* The steps that write *)

(***************************************************************************)
(* The order that is inserted has a client id no order had.                *)
(***************************************************************************)
LEMMA SubmitInv ==
  ASSUME DeskInv, NEW a \in Actors, SubmitPaperOrder(a)
  PROVE  DeskInv'
<1> DEFINE i == actor[a].intent
           row == AckedOrder(i)
<1>t. TypeOK /\ crashes' \in Nat /\ UNCHANGED <<plans, intents, fills, position, history>>
  BY DEF DeskInv, TypeOK, SubmitPaperOrder
<1>i. i \in Rows(intents) /\ intents[i] \in IntentRow /\ i \in Nat
  BY <1>t DEF DeskInv, TypeOK, ActorsRefer, Refers, SubmitPaperOrder
<1>1. CASE ~InsertsOrder(a)
  BY <1>1, <1>t, FinishInv DEF SubmitPaperOrder, tables
<1>2. CASE InsertsOrder(a)
  <2>1. orders' = Append(orders, row)
    BY <1>2 DEF SubmitPaperOrder
  <2>2. /\ row \in OrderRow /\ row.intent = i /\ row.clientId = intents[i].clientId
        /\ row.filled = 0 /\ row.qty \in Qty
    BY <1>i DEF AckedOrder, OrderRow, IntentRow, OrderState
  <2> HIDE DEF row
  <2>3. /\ orders' \in Seq(OrderRow)
        /\ Rows(orders') = Rows(orders) \union {Len(orders) + 1}
        /\ Len(orders) + 1 \notin Rows(orders)
        /\ \A o \in Rows(orders) : orders'[o] = orders[o]
        /\ orders'[Len(orders) + 1] = row
    BY <1>t, <2>1, <2>2, AppendRow DEF TypeOK
  <2>4. Refers(actor[a])'
    BY IdleState DEF SubmitPaperOrder, Finish, DeskInv, TypeOK, Refers
  <2>5. actor' \in [Actors -> ActorState] /\ ActorsRefer'
    BY <1>t, <2>3, <2>4, IdleState, OthersRefer DEF SubmitPaperOrder, Finish, DeskInv
  <2>6. TypeOK'
    BY <1>t, <2>3, <2>5 DEF TypeOK
  <2>7. RowsRefer'
    BY <1>t, <1>i, <2>2, <2>3 DEF DeskInv, RowsRefer, Qty
  <2>8. OrdersCarryClientIds'
    BY <1>t, <1>2, <1>i, <2>2, <2>3 DEF DeskInv, RowsRefer, OrdersCarryClientIds, InsertsOrder
  <2>9. KeysNameActions' /\ OneExitPerOrder'
    BY <1>t, <2>3 DEF DeskInv, KeysNameActions, OneExitPerOrder
  <2> QED
    BY <2>5, <2>6, <2>7, <2>8, <2>9 DEF DeskInv
<1> QED
  BY <1>1, <1>2

(***************************************************************************)
(* An update leaves everything of its order but status and filled.         *)
(***************************************************************************)
LEMMA UpdateInv ==
  ASSUME DeskInv, NEW r \in Requests, UpdateOrderStatus(r)
  PROVE  DeskInv'
<1> DEFINE o == actor[r].order
           outcome == Outcome(actor[r].kind)
           filled == IF outcome = "filled" THEN orders[o].qty ELSE actor[r].filled
           row == [orders[o] EXCEPT !.status = outcome, !.filled = filled]
<1>t. /\ r \in Actors /\ TypeOK /\ crashes' \in Nat
      /\ UNCHANGED <<plans, intents, fills, position, history>>
  BY DEF Actors, DeskInv, TypeOK, UpdateOrderStatus
<1>o. o \in Rows(orders) /\ orders[o] \in OrderRow /\ actor[r].filled <= orders[o].qty
  BY <1>t DEF DeskInv, TypeOK, ActorsRefer, Refers, UpdateOrderStatus
<1>f. filled \in Nat /\ filled <= orders[o].qty
  <2>1. orders[o].qty \in Nat /\ orders[o].qty <= orders[o].qty
    BY <1>o DEF OrderRow, Qty
  <2>2. actor[r].filled \in Nat
    BY <1>t DEF TypeOK, ActorState
  <2> QED
    BY <1>o, <2>1, <2>2
<1>u. outcome \in OrderState
  BY DEF Outcome, OrderState
<1>1. orders' = [orders EXCEPT ![o] = row]
  BY DEF UpdateOrderStatus
<1> HIDE DEF filled, outcome
<1>2. /\ row \in OrderRow /\ row.intent = orders[o].intent /\ row.qty = orders[o].qty
      /\ row.clientId = orders[o].clientId /\ row.filled = filled
  BY <1>o, <1>f, <1>u DEF OrderRow
<1> HIDE DEF row
<1>3. /\ orders' \in Seq(OrderRow) /\ Rows(orders') = Rows(orders)
      /\ orders'[o] = row /\ \A q \in Rows(orders) : q # o => orders'[q] = orders[q]
  BY <1>t, <1>o, <1>1, <1>2 DEF TypeOK
<1>4. \A q \in Rows(orders) : /\ orders'[q].intent = orders[q].intent
                              /\ orders'[q].qty = orders[q].qty
                              /\ orders'[q].clientId = orders[q].clientId
  BY <1>2, <1>3
<1>5. actor' \in [Actors -> ActorState] /\ ActorsRefer'
  <2>1. CASE Finish(r)
    <3>1. Refers(actor[r])'
      BY <2>1, <1>t, IdleState DEF Finish, TypeOK, Refers
    <3> QED
      BY <2>1, <3>1, <1>t, <1>3, <1>4, IdleState, OthersRefer DEF Finish, DeskInv
  <2>2. CASE Goto(r, "recordFill")
    <3> DEFINE m == [actor[r] EXCEPT !.step = "recordFill"]
    <3>1. m \in ActorState /\ m.step = "recordFill" /\ m.order = o /\ m.filled = actor[r].filled
      BY <1>t DEF TypeOK, ActorState, Steps
    <3>2. actor' = [actor EXCEPT ![r] = m] /\ actor'[r] = m
      BY <2>2, <1>t DEF Goto, TypeOK
    <3> HIDE DEF m
    <3>3. Refers(actor[r])'
      BY <3>1, <3>2, <1>o, <1>3, <1>4 DEF Refers
    <3> QED
      BY <3>1, <3>2, <3>3, <1>t, <1>3, <1>4, OthersRefer DEF DeskInv
  <2> QED
    BY <2>1, <2>2 DEF UpdateOrderStatus
<1>6. TypeOK'
  BY <1>t, <1>3, <1>5 DEF TypeOK
<1>7. RowsRefer'
  BY <1>t, <1>o, <1>f, <1>2, <1>3, <1>4 DEF DeskInv, RowsRefer
<1>8. OrdersCarryClientIds'
  BY <1>t, <1>3, <1>4 DEF DeskInv, OrdersCarryClientIds
<1>9. KeysNameActions' /\ OneExitPerOrder'
  BY <1>t, <1>3, <1>4 DEF DeskInv, KeysNameActions, OneExitPerOrder
<1> QED
  BY <1>5, <1>6, <1>7, <1>8, <1>9 DEF DeskInv

LEMMA RecordFillInv ==
  ASSUME DeskInv, NEW r \in Requests, RecordFill(r)
  PROVE  DeskInv'
<1> DEFINE o == actor[r].order
           row == [order |-> o, side |-> orders[o].side, qty |-> orders[o].qty]
           m == [actor[r] EXCEPT !.step = "readPosition", !.fill = Len(fills) + 1]
<1>t. /\ r \in Actors /\ TypeOK /\ crashes' \in Nat
      /\ UNCHANGED <<plans, intents, orders, position, history>>
  BY DEF Actors, DeskInv, TypeOK, RecordFill
<1>o. o \in Rows(orders) /\ o \in Nat /\ orders[o] \in OrderRow
  BY <1>t DEF DeskInv, TypeOK, ActorsRefer, Refers, RecordFill
<1>1. fills' = Append(fills, row) /\ row \in FillRow /\ row.order = o
  BY <1>o DEF RecordFill, OrderRow, FillRow
<1>2. m \in ActorState /\ m.step = "readPosition" /\ m.fill = Len(fills) + 1
  <2>1. Len(fills) + 1 \in Nat /\ "readPosition" \in Steps
    BY <1>t DEF TypeOK, Steps
  <2>2. actor[r] \in ActorState
    BY <1>t DEF TypeOK
  <2> QED
    BY <2>1, <2>2 DEF ActorState
<1>3. actor' = [actor EXCEPT ![r] = m] /\ actor'[r] = m
  BY <1>t DEF RecordFill, TypeOK
<1> HIDE DEF row, m
<1>4. /\ fills' \in Seq(FillRow)
      /\ Rows(fills') = Rows(fills) \union {Len(fills) + 1}
      /\ \A f \in Rows(fills) : fills'[f] = fills[f]
      /\ fills'[Len(fills) + 1] = row
  BY <1>t, <1>1, AppendRow DEF TypeOK
<1>5. Refers(actor[r])'
  BY <1>2, <1>3, <1>4 DEF Refers
<1>6. actor' \in [Actors -> ActorState] /\ ActorsRefer'
  BY <1>t, <1>2, <1>3, <1>4, <1>5, OthersRefer DEF DeskInv
<1>7. TypeOK'
  BY <1>t, <1>4, <1>6 DEF TypeOK
<1>8. RowsRefer'
  BY <1>t, <1>o, <1>1, <1>4 DEF DeskInv, RowsRefer
<1>9. OrdersCarryClientIds' /\ KeysNameActions' /\ OneExitPerOrder'
  BY <1>t DEF DeskInv, OrdersCarryClientIds, KeysNameActions, OneExitPerOrder
<1> QED
  BY <1>6, <1>7, <1>8, <1>9 DEF DeskInv

LEMMA UpsertInv ==
  ASSUME DeskInv, NEW r \in Requests, UpsertCurrentPosition(r)
  PROVE  DeskInv'
<1> DEFINE fill == fills[actor[r].fill]
           next == NextQty(actor[r].held, fill)
           m == [actor[r] EXCEPT !.step = "recordHistory"]
<1>t. /\ r \in Actors /\ TypeOK /\ crashes' \in Nat
      /\ UNCHANGED <<plans, intents, orders, fills, history>>
  BY DEF Actors, DeskInv, TypeOK, UpsertCurrentPosition
<1>f. actor[r].fill \in Rows(fills) /\ fill \in FillRow /\ actor[r] \in ActorState
  BY <1>t DEF DeskInv, TypeOK, ActorsRefer, Refers, UpsertCurrentPosition
<1>1. next \in Int
  BY <1>f DEF NextQty, Signed, FillRow, Qty, ActorState
<1>2. position' \in [qty : Int, lastFill : Nat] /\ position'.lastFill \in Rows(fills)
  <2>1. actor[r].fill \in Nat
    BY <1>f DEF ActorState
  <2>2. position' = [qty |-> next, lastFill |-> actor[r].fill]
    BY DEF UpsertCurrentPosition
  <2> HIDE DEF next
  <2> QED
    BY <1>f, <1>1, <2>1, <2>2
<1>3. m \in ActorState /\ m.step = "recordHistory" /\ m.fill = actor[r].fill
  BY <1>f DEF ActorState, Steps
<1>4. actor' = [actor EXCEPT ![r] = m] /\ actor'[r] = m
  BY <1>t DEF UpsertCurrentPosition, Goto, TypeOK
<1> HIDE DEF m
<1>5. Refers(actor[r])'
  BY <1>t, <1>f, <1>3, <1>4 DEF Refers
<1>6. actor' \in [Actors -> ActorState] /\ ActorsRefer'
  BY <1>t, <1>3, <1>4, <1>5, OthersRefer DEF DeskInv
<1>7. TypeOK'
  BY <1>t, <1>2, <1>6 DEF TypeOK
<1>8. RowsRefer'
  BY <1>t, <1>2 DEF DeskInv, RowsRefer
<1>9. OrdersCarryClientIds' /\ KeysNameActions' /\ OneExitPerOrder'
  BY <1>t DEF DeskInv, OrdersCarryClientIds, KeysNameActions, OneExitPerOrder
<1> QED
  BY <1>6, <1>7, <1>8, <1>9 DEF DeskInv

LEMMA EventTyped ==
  ASSUME NEW held \in Int, NEW next \in Int
  PROVE  EventType(held, next) \in EventTypes
<1>1. CASE held = 0
  BY <1>1 DEF EventType, EventTypes
<1>2. CASE held # 0 /\ next = 0
  BY <1>2 DEF EventType, EventTypes
<1>3. CASE held # 0 /\ next # 0
  BY <1>3, SameSign(held, next - held) \/ ~SameSign(held, next - held)
     DEF EventType, EventTypes
<1> QED
  BY <1>1, <1>2, <1>3

LEMMA RecordHistoryInv ==
  ASSUME DeskInv, NEW r \in Requests, RecordPositionHistory(r)
  PROVE  DeskInv'
<1> DEFINE fill == fills[actor[r].fill]
           next == NextQty(actor[r].held, fill)
           row == [fill |-> actor[r].fill, qty |-> next,
                   event |-> EventType(actor[r].held, next)]
<1>t. /\ r \in Actors /\ TypeOK /\ crashes' \in Nat
      /\ UNCHANGED <<plans, intents, orders, fills, position>>
  BY DEF Actors, DeskInv, TypeOK, RecordPositionHistory
<1>f. actor[r].fill \in Rows(fills) /\ fill \in FillRow /\ actor[r] \in ActorState
  BY <1>t DEF DeskInv, TypeOK, ActorsRefer, Refers, RecordPositionHistory
<1>1. next \in Int /\ actor[r].held \in Int /\ actor[r].fill \in Nat
  BY <1>f DEF NextQty, Signed, FillRow, Qty, ActorState
<1>2. row \in HistoryRow /\ row.fill = actor[r].fill
  <2> HIDE DEF next
  <2> QED
    BY <1>1, EventTyped DEF HistoryRow
<1>3. history' = Append(history, row)
  BY DEF RecordPositionHistory
<1> HIDE DEF row
<1>4. /\ history' \in Seq(HistoryRow)
      /\ Rows(history') = Rows(history) \union {Len(history) + 1}
      /\ \A k \in Rows(history) : history'[k] = history[k]
      /\ history'[Len(history) + 1] = row
  BY <1>t, <1>2, <1>3, AppendRow DEF TypeOK
<1>5. Refers(actor[r])'
  BY <1>t, IdleState DEF RecordPositionHistory, Finish, TypeOK, Refers
<1>6. actor' \in [Actors -> ActorState] /\ ActorsRefer'
  BY <1>t, <1>5, IdleState, OthersRefer DEF RecordPositionHistory, Finish, DeskInv
<1>7. TypeOK'
  BY <1>t, <1>4, <1>6 DEF TypeOK
<1>8. RowsRefer'
  BY <1>t, <1>f, <1>2, <1>4 DEF DeskInv, RowsRefer
<1>9. OrdersCarryClientIds' /\ KeysNameActions' /\ OneExitPerOrder'
  BY <1>t DEF DeskInv, OrdersCarryClientIds, KeysNameActions, OneExitPerOrder
<1> QED
  BY <1>6, <1>7, <1>8, <1>9 DEF DeskInv

(***************************************************************************)
(* What a new intent has to bring along, entry or close.                   *)
(***************************************************************************)
LEMMA NewIntentInv ==
  ASSUME DeskInv, NEW a \in Actors, NEW row \in IntentRow, NEW m \in ActorState,
         UNCHANGED <<plans, orders, fills, position, history, crashes>>,
         intents' = Append(intents, row),
         row.plan \in Rows(plans), row.key[1] = row.action,
         row.action = "close" =>
           /\ row.key[2] \in Rows(orders)
           /\ row.qty <= orders[row.key[2]].qty
           /\ \A k \in Rows(intents) : intents[k].key # row.key,
         actor' = [actor EXCEPT ![a] = m],
         m.step \in {"check", "insert"}, m.intent = Len(intents) + 1
  PROVE  DeskInv'
<1>t. TypeOK
  BY DEF DeskInv
<1>1. /\ intents' \in Seq(IntentRow)
      /\ Rows(intents') = Rows(intents) \union {Len(intents) + 1}
      /\ \A i \in Rows(intents) : intents'[i] = intents[i]
      /\ intents'[Len(intents) + 1] = row
  BY <1>t, AppendRow DEF TypeOK
<1>2. Refers(actor[a])'
  BY <1>t, <1>1 DEF TypeOK, Refers
<1>3. actor' \in [Actors -> ActorState] /\ ActorsRefer'
  BY <1>1, <1>2, OthersRefer DEF DeskInv
<1>4. TypeOK'
  BY <1>t, <1>1, <1>3 DEF TypeOK
<1>5. RowsRefer'
  BY <1>1 DEF DeskInv, RowsRefer
<1>6. OrdersCarryClientIds'
  BY <1>1 DEF DeskInv, RowsRefer, OrdersCarryClientIds
<1>7. KeysNameActions'
  BY <1>1 DEF DeskInv, KeysNameActions
<1>8. OneExitPerOrder'
  <2>1. \A i \in Rows(intents) : intents[i].key = row.key => intents[i].action = row.action
    BY DEF DeskInv, KeysNameActions
  <2> QED
    BY <1>1, <2>1 DEF DeskInv, OneExitPerOrder
<1> QED
  BY <1>3, <1>4, <1>5, <1>6, <1>7, <1>8 DEF DeskInv

LEMMA RecordCloseInv ==
  ASSUME DeskInv, NEW r \in Requests, RecordCloseIntent(r)
  PROVE  DeskInv'
<1> DEFINE o == actor[r].order
           row == CloseIntent(actor[r].plan, o, actor[r].filled)
           m == [actor[r] EXCEPT !.step = "insert", !.intent = Len(intents) + 1]
<1>t. r \in Actors /\ TypeOK /\ crashes' \in Nat
  BY DEF Actors, DeskInv, TypeOK, RecordCloseIntent
<1>a. /\ actor[r] \in ActorState /\ actor[r].plan \in Rows(plans)
      /\ o \in Rows(orders) /\ orders[o] \in OrderRow /\ actor[r].filled <= orders[o].qty
  BY <1>t DEF DeskInv, TypeOK, ActorsRefer, Refers, RecordCloseIntent
<1>1. CASE ~CloseKeyFree(o)
  BY <1>1, <1>t, FinishInv DEF RecordCloseIntent, tables
<1>2. CASE CloseKeyFree(o)
  <2>1. /\ actor[r].plan \in PlanRef /\ plans[actor[r].plan] \in Nat
        /\ o \in Nat /\ actor[r].filled \in Nat
    BY <1>t, <1>a DEF TypeOK, ActorState, PlanRef
  <2>2. row \in IntentRow
    BY <1>a, <2>1 DEF CloseIntent, IntentRow, OrderRow, Qty, ClientId, Action, Opposite, Side
  <2>3. /\ row.plan = actor[r].plan /\ row.action = "close" /\ row.key = <<"close", o>>
        /\ row.qty <= orders[o].qty
    BY <1>a, <2>1 DEF CloseIntent, OrderRow, Qty
  <2>4. \A k \in Rows(intents) : intents[k].key # row.key
    BY <1>2, <2>3 DEF CloseKeyFree
  <2>5. /\ intents' = Append(intents, row) /\ actor' = [actor EXCEPT ![r] = m]
        /\ UNCHANGED <<plans, orders, fills, position, history, crashes>>
    BY <1>2, <1>t DEF RecordCloseIntent, TypeOK
  <2>6. Len(intents) + 1 \in Nat /\ "insert" \in Steps
    BY <1>t DEF TypeOK, Steps
  <2>7. m \in ActorState /\ m.step = "insert" /\ m.intent = Len(intents) + 1
    BY <1>a, <2>6 DEF ActorState
  <2>8. row.key[1] = "close" /\ row.key[2] = o
    BY <2>3
  <2> HIDE DEF row, m
  <2> QED
    BY <1>t, <1>a, <2>2, <2>3, <2>4, <2>5, <2>7, <2>8, NewIntentInv
<1> QED
  BY <1>1, <1>2

LEMMA RecordEntryInv ==
  ASSUME DeskInv, NEW side \in Side, NEW qty \in EntryQtys, RecordEntryIntent(side, qty)
  PROVE  DeskInv'
<1> DEFINE row == EntryIntent(actor[Worker].plan, side, qty)
           m == [actor[Worker] EXCEPT !.step = "check", !.intent = Len(intents) + 1]
<1>t. Worker \in Actors /\ TypeOK
  BY DEF Actors, DeskInv
<1>a. actor[Worker] \in ActorState /\ actor[Worker].plan \in Rows(plans)
  BY <1>t DEF DeskInv, TypeOK, ActorsRefer, Refers, RecordEntryIntent
<1>1. /\ actor[Worker].plan \in PlanRef /\ plans[actor[Worker].plan] \in Nat
      /\ actor[Worker].plan \in Nat /\ qty \in Qty
  BY <1>t, <1>a, DeskAssumption DEF TypeOK, ActorState, PlanRef, Qty
<1>2. row \in IntentRow
  BY <1>1 DEF EntryIntent, IntentRow, ClientId, Action
<1>3. row.plan = actor[Worker].plan /\ row.action = "open" /\ row.key[1] = "open"
  BY DEF EntryIntent
<1>4. /\ intents' = Append(intents, row) /\ actor' = [actor EXCEPT ![Worker] = m]
      /\ UNCHANGED <<plans, orders, fills, position, history, crashes>>
  BY <1>t DEF RecordEntryIntent, TypeOK
<1>5. Len(intents) + 1 \in Nat /\ "check" \in Steps
  BY <1>t DEF TypeOK, Steps
<1>6. m \in ActorState /\ m.step = "check" /\ m.intent = Len(intents) + 1
  BY <1>a, <1>5 DEF ActorState
<1> HIDE DEF row, m
<1> QED
  BY <1>t, <1>a, <1>2, <1>3, <1>4, <1>6, NewIntentInv

LEMMA RecordPlanInv ==
  ASSUME DeskInv, NEW n \in 1..MaxPlans, RecordPlanVersion(n)
  PROVE  DeskInv'
<1> DEFINE m == [Idle EXCEPT !.step = "recordEntry", !.plan = Len(plans) + 1]
<1>t. /\ Worker \in Actors /\ TypeOK /\ crashes' \in Nat
      /\ UNCHANGED <<intents, orders, fills, position, history>>
  BY DEF Actors, DeskInv, TypeOK, RecordPlanVersion
<1>1. n \in Nat \ {0} /\ Len(plans) + 1 \in Nat /\ "recordEntry" \in Steps
  BY <1>t, DeskAssumption DEF TypeOK, Steps
<1>2. plans' = Append(plans, n) /\ actor' = [actor EXCEPT ![Worker] = m]
  BY DEF RecordPlanVersion
<1>3. m \in ActorState /\ m.step = "recordEntry" /\ m.plan = Len(plans) + 1
  BY <1>1, IdleState DEF ActorState
<1> HIDE DEF m
<1>4. plans' \in Seq(Nat \ {0}) /\ Rows(plans') = Rows(plans) \union {Len(plans) + 1}
  BY <1>t, <1>1, <1>2, AppendRow DEF TypeOK
<1>5. Refers(actor[Worker])'
  BY <1>t, <1>2, <1>3, <1>4 DEF TypeOK, Refers
<1>6. actor' \in [Actors -> ActorState] /\ ActorsRefer'
  BY <1>t, <1>2, <1>3, <1>4, <1>5, OthersRefer DEF DeskInv
<1>7. TypeOK'
  BY <1>t, <1>4, <1>6 DEF TypeOK
<1>8. RowsRefer'
  BY <1>t, <1>4 DEF DeskInv, RowsRefer
<1>9. OrdersCarryClientIds' /\ KeysNameActions' /\ OneExitPerOrder'
  BY <1>t DEF DeskInv, OrdersCarryClientIds, KeysNameActions, OneExitPerOrder
<1> QED
  BY <1>6, <1>7, <1>8, <1>9 DEF DeskInv

-----------------------------------------------------------------------------
(* The theorems *)

LEMMA StepInv == DeskInv /\ [Next]_vars => DeskInv'
<1> SUFFICES ASSUME DeskInv, [Next]_vars PROVE DeskInv'
  OBVIOUS
<1>1. ASSUME NEW r \in Requests, HandleRequest(r) PROVE DeskInv'
  BY <1>1, BeginRequestInv, ReadIntentInv, ReadOrderInv, UpdateInv, RecordFillInv,
     ReadPositionInv, UpsertInv, RecordHistoryInv, RecordCloseInv DEF HandleRequest
<1>2. ASSUME NEW a \in Actors, Submit(a) PROVE DeskInv'
  BY <1>2, CheckSubmittedInv, SubmitInv DEF Submit
<1>3. ASSUME NEW a \in Actors, Crash(a) PROVE DeskInv'
  BY <1>3, FinishInv DEF Crash, DeskInv, TypeOK
<1>4. CASE ProcessSignal
  <2>1. CASE RecordNoIntent
    BY <2>1, FinishInv DEF RecordNoIntent, DeskInv, TypeOK, Actors
  <2> QED
    BY <1>4, <2>1, RecordPlanInv, RecordEntryInv DEF ProcessSignal
<1>5. CASE UNCHANGED vars
  BY <1>5 DEF vars, DeskInv, TypeOK, RowsRefer, ActorsRefer, Refers,
     OrdersCarryClientIds, KeysNameActions, OneExitPerOrder
<1> QED
  BY <1>1, <1>2, <1>3, <1>4, <1>5 DEF Next

(***************************************************************************)
(* Every row and every local variable keeps its type: an order that a      *)
(* request writes from its snapshot has a status of the state machine.     *)
(***************************************************************************)
THEOREM DeskTyped == Spec => []TypeOK
<1>1. DeskInv => TypeOK
  BY DEF DeskInv
<1> QED
  BY <1>1, InitInv, StepInv, PTL DEF Spec

(***************************************************************************)
(* Two submissions of one intent, both past their check, insert one order: *)
(* the unique (venue, client_order_id) decides.                            *)
(***************************************************************************)
THEOREM IntentsPlacedOnce == Spec => []OneOrderPerIntent
<1>1. DeskInv => OneOrderPerIntent
  BY DEF DeskInv, OrdersCarryClientIds, OneOrderPerIntent
<1> QED
  BY <1>1, InitInv, StepInv, PTL DEF Spec

(***************************************************************************)
(* Flatten requests that race on one order leave one close intent, for no  *)
(* more than the quantity of the order.                                    *)
(***************************************************************************)
THEOREM ExitsPlacedOnce == Spec => []OneExitPerOrder
<1>1. DeskInv => OneExitPerOrder
  BY DEF DeskInv
<1> QED
  BY <1>1, InitInv, StepInv, PTL DEF Spec
-----------------------------------------------------------------------------
(* One request at a time *)

LEMMA RequestsApart == \A r \in Requests : r \in Actors /\ r # Worker
BY WorkerAssumption DEF Actors

LEMMA SerialStart == Init => SerialInv
<1> SUFFICES ASSUME Init PROVE SerialInv
  OBVIOUS
<1>1. \A a \in Actors : actor[a].step = "idle"
  BY IdleState DEF Init
<1>2. WorkerSubmits /\ SnapshotsHold
  BY <1>1, RequestsApart DEF WorkerSubmits, SnapshotsHold, SnapshotHolds, Actors
<1>3. FilledOnce /\ HistoryFollows /\ LastQty = 0
  BY DEF Init, FilledOnce, HistoryFollows, LastQty, QtyBefore
<1>4. PositionInOrder
  BY <1>1, <1>3, RequestsApart DEF Init, PositionInOrder, AppliesLastFill, Applies
<1> QED
  BY <1>2, <1>3, <1>4, InitInv DEF SerialInv

(* What a request does, leaves the worker where it is. *)
LEMMA WorkerStays ==
  ASSUME SerialInv, NEW r \in Requests, NEW m, actor' = [actor EXCEPT ![r] = m]
  PROVE  WorkerSubmits'
BY RequestsApart DEF SerialInv, DeskInv, TypeOK, WorkerSubmits, Actors

(***************************************************************************)
(* Steps that write neither a row of an order nor a fill, and that bring   *)
(* no request to an update.                                                *)
(***************************************************************************)
LEMMA OrdersQuiet ==
  ASSUME SerialInv, UNCHANGED fills,
         \A o \in Rows(orders) : orders'[o] = orders[o],
         \A r \in Requests : \/ actor'[r] = actor[r]
                             \/ actor'[r].step \notin {"update", "recordFill"}
  PROVE  SnapshotsHold' /\ FilledOnce'
<1>1. \A f \in Rows(fills) : fills[f].order \in Rows(orders)
  BY DEF SerialInv, DeskInv, RowsRefer
<1>2. FilledOnce'
  BY <1>1 DEF SerialInv, FilledOnce
<1>3. ASSUME NEW r \in Requests PROVE SnapshotHolds(actor[r])'
  <2>1. CASE actor'[r].step \notin {"update", "recordFill"}
    BY <2>1 DEF SnapshotHolds
  <2>2. CASE actor'[r] = actor[r] /\ actor[r].step \in {"update", "recordFill"}
    <3>1. actor[r].order \in Rows(orders)
      BY <2>2, RequestsApart DEF SerialInv, DeskInv, ActorsRefer, Refers
    <3>2. SnapshotHolds(actor[r])
      BY DEF SerialInv, SnapshotsHold
    <3> QED
      BY <2>2, <3>1, <3>2 DEF SnapshotHolds
  <2> QED
    BY <2>1, <2>2
<1> QED
  BY <1>2, <1>3 DEF SnapshotsHold

(***************************************************************************)
(* Steps that change neither the fills nor what is made of them.           *)
(***************************************************************************)
LEMMA PositionQuiet ==
  ASSUME SerialInv, UNCHANGED <<fills, position, history>>,
         crashes' = crashes \/ crashes' = crashes + 1,
         crashes' = crashes =>
           \A r \in Requests : \/ actor'[r] = actor[r]
                               \/ ~Applies(actor[r]) /\ ~Applies(actor'[r])
  PROVE  crashes' = 0 => PositionInOrder'
<1> SUFFICES ASSUME crashes' = 0 PROVE PositionInOrder'
  OBVIOUS
<1>1. crashes = 0 /\ crashes' = crashes
  BY DEF SerialInv, DeskInv, TypeOK
<1>2. PositionInOrder
  BY <1>1 DEF SerialInv
<1>3. HistoryFollows' /\ LastQty' = LastQty
  BY <1>2 DEF PositionInOrder, HistoryFollows, LastQty, QtyBefore
<1>4. \A r \in Requests : /\ Applies(actor'[r]) <=> Applies(actor[r])
                          /\ actor'[r].step = "recordHistory" <=> actor[r].step = "recordHistory"
  BY <1>1 DEF Applies
<1>5. \A r \in Requests : AppliesLastFill(actor[r])'
  BY <1>1, <1>2, <1>3, <1>4 DEF PositionInOrder, AppliesLastFill, Applies
<1> QED
  BY <1>2, <1>3, <1>4, <1>5 DEF PositionInOrder, Applies

SerialRest ==
  WorkerSubmits /\ SnapshotsHold /\ FilledOnce /\ (crashes = 0 => PositionInOrder)

(***************************************************************************)
(* Most steps: an actor reads, submits, records an intent, ends or dies.   *)
(***************************************************************************)
LEMMA QuietStep ==
  ASSUME SerialInv, NEW a \in Actors, NEW m, actor' = [actor EXCEPT ![a] = m],
         \/ m.step \in {"idle", "recordEntry", "check", "insert"}
         \/ a \in Requests /\ m.step \in {"readIntent", "readOrder", "recordClose"},
         \/ crashes' = crashes /\ ~Applies(actor[a])
         \/ crashes' = crashes + 1,
         UNCHANGED <<fills, position, history>>,
         \A o \in Rows(orders) : orders'[o] = orders[o]
  PROVE  SerialRest'
<1>1. actor'[a] = m /\ \A b \in Actors : b # a => actor'[b] = actor[b]
  BY DEF SerialInv, DeskInv, TypeOK
<1>2. m.step \notin {"update", "recordFill"} /\ ~Applies(m)
  BY DEF Applies
<1>3. WorkerSubmits'
  BY <1>1, RequestsApart DEF SerialInv, WorkerSubmits, Actors
<1>4. SnapshotsHold' /\ FilledOnce'
  BY <1>1, <1>2, RequestsApart, OrdersQuiet
<1>5. crashes' = crashes => ~Applies(actor[a])
  BY DEF SerialInv, DeskInv, TypeOK
<1>6. crashes' = 0 => PositionInOrder'
  <2>1. crashes' = crashes =>
          \A r \in Requests : \/ actor'[r] = actor[r]
                              \/ ~Applies(actor[r]) /\ ~Applies(actor'[r])
    BY <1>1, <1>2, <1>5, RequestsApart
  <2> QED
    BY <2>1, PositionQuiet
<1> QED
  BY <1>3, <1>4, <1>6 DEF SerialRest

(* The quiet steps of an actor that ends. *)
LEMMA FinishSerial ==
  ASSUME SerialInv, NEW a \in Actors, Finish(a),
         \/ crashes' = crashes /\ ~Applies(actor[a])
         \/ crashes' = crashes + 1,
         UNCHANGED <<fills, position, history>>,
         \A o \in Rows(orders) : orders'[o] = orders[o]
  PROVE  SerialRest'
BY IdleState, QuietStep DEF Finish

LEMMA BeginSerial ==
  ASSUME SerialInv, NEW r \in Requests, NEW kind \in Kinds, BeginRequest(r, kind)
  PROVE  SerialRest'
<1> DEFINE m == [Idle EXCEPT !.step = "readIntent", !.kind = kind]
<1>1. m.step = "readIntent" /\ actor' = [actor EXCEPT ![r] = m] /\ r \in Actors
  BY RequestsApart DEF BeginRequest, Idle
<1>2. ~Applies(actor[r]) /\ UNCHANGED <<tables, crashes>>
  BY DEF BeginRequest, Applies
<1> HIDE DEF m
<1> QED
  BY <1>1, <1>2, QuietStep DEF tables

LEMMA ReadIntentSerial ==
  ASSUME SerialInv, NEW r \in Requests, ReadIntent(r)
  PROVE  SerialRest'
<1> DEFINE i == LatestIntentOf(Len(plans))
           step == IF actor[r].kind = "submit" THEN "check" ELSE "readOrder"
           m == [actor[r] EXCEPT !.plan = Len(plans), !.intent = i, !.step = step]
<1>1. r \in Actors /\ ~Applies(actor[r]) /\ UNCHANGED <<tables, crashes>>
  BY RequestsApart DEF ReadIntent, Applies
<1>2. CASE i = 0
  <2>1. Finish(r)
    BY <1>2 DEF ReadIntent, Finish
  <2> QED
    BY <1>1, <2>1, FinishSerial DEF tables
<1>3. CASE i # 0
  <2>1. actor' = [actor EXCEPT ![r] = m]
    BY <1>1, <1>3 DEF ReadIntent, SerialInv, DeskInv, TypeOK
  <2>2. m.step \in {"check", "readOrder"}
    BY <1>1 DEF SerialInv, DeskInv, TypeOK, ActorState
  <2> HIDE DEF m
  <2> QED
    BY <1>1, <2>1, <2>2, QuietStep DEF tables
<1> QED
  BY <1>2, <1>3

LEMMA CheckSerial ==
  ASSUME SerialInv, NEW a \in Actors, CheckSubmitted(a)
  PROVE  SerialRest'
<1>1. ~Applies(actor[a]) /\ UNCHANGED <<tables, crashes>>
  BY DEF CheckSubmitted, Applies
<1>2. CASE Finish(a)
  BY <1>1, <1>2, FinishSerial DEF tables
<1>3. CASE Goto(a, "insert")
  <2> DEFINE m == [actor[a] EXCEPT !.step = "insert"]
  <2>1. m.step = "insert" /\ actor' = [actor EXCEPT ![a] = m]
    BY <1>3 DEF Goto, SerialInv, DeskInv, TypeOK, ActorState
  <2> HIDE DEF m
  <2> QED
    BY <1>1, <2>1, QuietStep DEF tables
<1> QED
  BY <1>2, <1>3 DEF CheckSubmitted

LEMMA SubmitSerial ==
  ASSUME SerialInv, NEW a \in Actors, SubmitPaperOrder(a)
  PROVE  SerialRest'
<1>1. /\ ~Applies(actor[a]) /\ Finish(a)
      /\ UNCHANGED <<fills, position, history, crashes>>
  BY DEF SubmitPaperOrder, Applies
<1>2. \A o \in Rows(orders) : orders'[o] = orders[o]
  <2>1. orders \in Seq(OrderRow)
    BY DEF SerialInv, DeskInv, TypeOK
  <2> QED
    BY <2>1 DEF SubmitPaperOrder
<1> QED
  BY <1>1, <1>2, FinishSerial

LEMMA RecordCloseSerial ==
  ASSUME SerialInv, NEW r \in Requests, RecordCloseIntent(r)
  PROVE  SerialRest'
<1> DEFINE m == [actor[r] EXCEPT !.step = "insert", !.intent = Len(intents) + 1]
<1>1. /\ r \in Actors /\ ~Applies(actor[r])
      /\ UNCHANGED <<orders, fills, position, history, crashes>>
  BY RequestsApart DEF RecordCloseIntent, Applies
<1>2. CASE Finish(r)
  BY <1>1, <1>2, FinishSerial
<1>3. CASE actor' = [actor EXCEPT ![r] = m]
  <2>1. m.step = "insert"
    BY <1>1 DEF SerialInv, DeskInv, TypeOK, ActorState
  <2> HIDE DEF m
  <2> QED
    BY <1>1, <1>3, <2>1, QuietStep
<1>4. actor \in [Actors -> ActorState]
  BY DEF SerialInv, DeskInv, TypeOK
<1> QED
  BY <1>1, <1>2, <1>3, <1>4 DEF RecordCloseIntent

LEMMA SignalSerial ==
  ASSUME SerialInv, ProcessSignal
  PROVE  SerialRest'
<1> DEFINE m == [Idle EXCEPT !.step = "recordEntry", !.plan = Len(plans) + 1]
           x == [actor[Worker] EXCEPT !.step = "check", !.intent = Len(intents) + 1]
<1>1. Worker \in Actors /\ actor \in [Actors -> ActorState]
  BY DEF Actors, SerialInv, DeskInv, TypeOK
<1>2. /\ ~Applies(actor[Worker])
      /\ UNCHANGED <<orders, fills, position, history, crashes>>
  BY DEF ProcessSignal, RecordPlanVersion, RecordEntryIntent, RecordNoIntent, Applies, tables
<1>3. m.step = "recordEntry" /\ x.step = "check"
  BY <1>1 DEF Idle, ActorState
<1>4. \/ actor' = [actor EXCEPT ![Worker] = m]
      \/ actor' = [actor EXCEPT ![Worker] = x]
      \/ Finish(Worker)
  BY <1>1 DEF ProcessSignal, RecordPlanVersion, RecordEntryIntent, RecordNoIntent
<1> HIDE DEF m, x
<1> QED
  BY <1>1, <1>2, <1>3, <1>4, QuietStep, FinishSerial

(***************************************************************************)
(* A request that goes on to the update has just read what it will need.   *)
(***************************************************************************)
LEMMA ReadOrderSerial ==
  ASSUME SerialInv, NEW r \in Requests, ReadOrder(r)
  PROVE  SerialRest'
<1> DEFINE o == LatestOrderOf(actor[r].intent)
           m(step) == [actor[r] EXCEPT !.step = step, !.order = o,
                         !.status = orders[o].status, !.filled = orders[o].filled]
<1>1. /\ r \in Actors /\ ~Applies(actor[r]) /\ UNCHANGED <<tables, crashes>>
      /\ actor \in [Actors -> ActorState]
  BY RequestsApart DEF ReadOrder, Applies, SerialInv, DeskInv, TypeOK
<1>2. CASE Finish(r)
  BY <1>1, <1>2, FinishSerial DEF tables
<1>3. CASE actor' = [actor EXCEPT ![r] = m("recordClose")]
  <2>1. m("recordClose").step = "recordClose"
    BY <1>1 DEF ActorState
  <2> HIDE DEF m
  <2> QED
    BY <1>1, <1>3, <2>1, QuietStep DEF tables
<1>4. CASE /\ actor' = [actor EXCEPT ![r] = m("update")]
           /\ Reconcilable(actor[r].kind, orders[o].status, orders[o].filled)
  <2>1. /\ actor'[r] = m("update") /\ m("update").step = "update"
        /\ m("update").order = o /\ m("update").kind = actor[r].kind
        /\ m("update").status = orders[o].status /\ m("update").filled = orders[o].filled
    BY <1>1, <1>4 DEF ActorState
  <2>2. \A b \in Actors : b # r => actor'[b] = actor[b]
    BY <1>1, <1>4
  <2> HIDE DEF m, o
  <2>3. SnapshotsHold'
    <3>1. SnapshotHolds(actor[r])'
      BY <1>1, <1>4, <2>1 DEF SnapshotHolds, tables
    <3>2. ASSUME NEW q \in Requests, q # r PROVE SnapshotHolds(actor[q])'
      BY <1>1, <2>2, <3>2, RequestsApart
         DEF SerialInv, SnapshotsHold, SnapshotHolds, tables
    <3> QED
      BY <3>1, <3>2 DEF SnapshotsHold
  <2>4. FilledOnce'
    BY <1>1 DEF SerialInv, FilledOnce, tables
  <2>5. WorkerSubmits'
    BY <2>2, RequestsApart DEF SerialInv, WorkerSubmits, Actors
  <2>6. crashes' = 0 => PositionInOrder'
    <3>1. ~Applies(actor'[r])
      BY <2>1 DEF Applies
    <3> QED
      BY <1>1, <2>2, <3>1, RequestsApart, PositionQuiet DEF tables
  <2> QED
    BY <2>3, <2>4, <2>5, <2>6 DEF SerialRest
<1> QED
  BY <1>1, <1>2, <1>3, <1>4 DEF ReadOrder, Finish

(***************************************************************************)
(* An update finds the order as the request saw it, which is open.         *)
(***************************************************************************)
LEMMA UpdatesOpenOrder ==
  ASSUME SerialInv, NEW r \in Requests, actor[r].step = "update"
  PROVE  /\ actor[r].order \in Rows(orders)
         /\ orders[actor[r].order].status \notin {"filled", "canceled"}
<1>1. SnapshotHolds(actor[r])
  BY DEF SerialInv, SnapshotsHold
<1>2. actor[r].order \in Rows(orders)
  BY RequestsApart DEF SerialInv, DeskInv, ActorsRefer, Refers
<1> QED
  BY <1>1, <1>2 DEF SnapshotHolds, Reconcilable

LEMMA UpdateSerial ==
  ASSUME OneAtATime, SerialInv, NEW r \in Requests, UpdateOrderStatus(r)
  PROVE  SerialRest'
<1> DEFINE o == actor[r].order
           outcome == Outcome(actor[r].kind)
           m == IF outcome = "filled" THEN [actor[r] EXCEPT !.step = "recordFill"] ELSE Idle
<1>1. /\ r \in Actors /\ ~Applies(actor[r]) /\ actor[r] \in ActorState
      /\ UNCHANGED <<plans, intents, fills, position, history, crashes>>
  BY RequestsApart DEF UpdateOrderStatus, Applies, SerialInv, DeskInv, TypeOK
<1>2. /\ o \in Rows(orders) /\ orders[o].status \notin {"filled", "canceled"}
      /\ orders \in Seq(OrderRow) /\ orders[o] \in OrderRow
  BY UpdatesOpenOrder DEF UpdateOrderStatus, SerialInv, DeskInv, TypeOK
<1>3. /\ Rows(orders') = Rows(orders) /\ orders'[o].status = outcome
      /\ \A q \in Rows(orders) : q # o => orders'[q] = orders[q]
  BY <1>2 DEF UpdateOrderStatus, OrderRow
<1>4. \A f \in Rows(fills) : fills[f].order \in Rows(orders) /\ fills[f].order # o
  BY <1>2 DEF SerialInv, FilledOnce, DeskInv, RowsRefer
<1>5. /\ actor' = [actor EXCEPT ![r] = m] /\ actor'[r] = m
      /\ \A b \in Actors : b # r => actor'[b] = actor[b]
  BY <1>1 DEF UpdateOrderStatus, Goto, Finish, SerialInv, DeskInv, TypeOK
<1>6. /\ ~Applies(m) /\ m.step # "update"
      /\ m.step = "recordFill" => m.order = o /\ outcome = "filled"
  BY <1>1, IdleState DEF ActorState, Applies
<1> HIDE DEF m, outcome
<1>7. FilledOnce'
  BY <1>1, <1>3, <1>4 DEF SerialInv, FilledOnce
<1>8. SnapshotsHold'
  <2>1. SnapshotHolds(actor[r])'
    BY <1>1, <1>3, <1>4, <1>5, <1>6 DEF SnapshotHolds
  <2> QED
    BY <2>1 DEF OneAtATime, SnapshotsHold
<1>9. WorkerSubmits'
  BY <1>5, WorkerStays
<1>10. crashes' = 0 => PositionInOrder'
  BY <1>1, <1>5, <1>6, RequestsApart, PositionQuiet
<1> QED
  BY <1>7, <1>8, <1>9, <1>10 DEF SerialRest

(***************************************************************************)
(* A fill is the first of its order, and the next row of the history.      *)
(***************************************************************************)
LEMMA RecordFillSerial ==
  ASSUME OneAtATime, SerialInv, NEW r \in Requests, RecordFill(r)
  PROVE  SerialRest'
<1> DEFINE o == actor[r].order
           row == [order |-> o, side |-> orders[o].side, qty |-> orders[o].qty]
           m == [actor[r] EXCEPT !.step = "readPosition", !.fill = Len(fills) + 1]
<1>1. /\ r \in Actors /\ actor[r].step = "recordFill" /\ actor \in [Actors -> ActorState]
      /\ UNCHANGED <<plans, intents, orders, position, history, crashes>>
      /\ fills \in Seq(FillRow)
  BY RequestsApart DEF RecordFill, SerialInv, DeskInv, TypeOK
<1>2. o \in Rows(orders) /\ orders[o] \in OrderRow /\ o \in Nat
  BY <1>1 DEF SerialInv, DeskInv, TypeOK, ActorsRefer, Refers
<1>3. orders[o].status = "filled" /\ \A f \in Rows(fills) : fills[f].order # o
  BY <1>1 DEF SerialInv, SnapshotsHold, SnapshotHolds
<1>4. fills' = Append(fills, row) /\ row \in FillRow /\ row.order = o
  BY <1>2 DEF RecordFill, OrderRow, FillRow
<1>5. /\ actor' = [actor EXCEPT ![r] = m] /\ actor'[r] = m
      /\ m.step = "readPosition" /\ m.fill = Len(fills) + 1
  BY <1>1 DEF RecordFill, ActorState
<1> HIDE DEF row, m
<1>6. /\ Rows(fills') = Rows(fills) \union {Len(fills) + 1} /\ Len(fills') = Len(fills) + 1
      /\ \A f \in Rows(fills) : fills'[f] = fills[f]
      /\ fills'[Len(fills) + 1] = row
  BY <1>1, <1>4, AppendRow
<1>7. FilledOnce'
  BY <1>1, <1>3, <1>4, <1>6 DEF SerialInv, FilledOnce
<1>8. SnapshotsHold'
  BY <1>5 DEF OneAtATime, SnapshotsHold, SnapshotHolds
<1>9. WorkerSubmits'
  BY <1>5, WorkerStays
<1>10. ASSUME crashes' = 0 PROVE PositionInOrder'
  <2>1. PositionInOrder /\ \A q \in Requests : q = r
    BY <1>1, <1>10 DEF SerialInv, OneAtATime
  <2>2. /\ Len(fills) = Len(history)
        /\ position = [qty |-> LastQty, lastFill |-> Len(history)]
    BY <1>1, <2>1 DEF PositionInOrder, Applies
  <2>3. HistoryFollows' /\ LastQty' = LastQty
    BY <1>1, <1>6, <2>1 DEF PositionInOrder, HistoryFollows, LastQty, QtyBefore
  <2>4. AppliesLastFill(actor[r])'
    BY <1>1, <1>5, <1>6, <2>2 DEF AppliesLastFill, Applies
  <2>5. Applies(actor[r])'
    BY <1>5 DEF Applies
  <2> QED
    BY <1>1, <1>5, <2>1, <2>2, <2>3, <2>4, <2>5 DEF PositionInOrder
<1> QED
  BY <1>7, <1>8, <1>9, <1>10 DEF SerialRest

LEMMA ReadPositionSerial ==
  ASSUME OneAtATime, SerialInv, NEW r \in Requests, ReadPosition(r)
  PROVE  SerialRest'
<1> DEFINE m == [actor[r] EXCEPT !.step = "upsert", !.held = position.qty]
<1>1. /\ r \in Actors /\ actor[r].step = "readPosition" /\ UNCHANGED <<tables, crashes>>
      /\ actor \in [Actors -> ActorState]
  BY RequestsApart DEF ReadPosition, SerialInv, DeskInv, TypeOK
<1>2. /\ actor' = [actor EXCEPT ![r] = m] /\ actor'[r] = m /\ m.step = "upsert"
      /\ m.fill = actor[r].fill /\ m.held = position.qty
  BY <1>1 DEF ReadPosition, ActorState
<1> HIDE DEF m
<1>3. \A q \in Requests : q = r
  BY DEF OneAtATime
<1>4. SnapshotsHold' /\ FilledOnce'
  BY <1>1, <1>2, <1>3, OrdersQuiet DEF tables
<1>5. WorkerSubmits'
  BY <1>2, WorkerStays
<1>6. ASSUME crashes' = 0 PROVE PositionInOrder'
  <2>1. PositionInOrder
    BY <1>1, <1>6 DEF SerialInv
  <2>2. /\ Len(fills) = Len(history) + 1 /\ actor[r].fill = Len(fills)
        /\ position = [qty |-> LastQty, lastFill |-> Len(history)]
    BY <1>1, <1>3, <2>1 DEF PositionInOrder, AppliesLastFill, Applies
  <2>3. HistoryFollows' /\ LastQty' = LastQty
    BY <1>1, <2>1 DEF PositionInOrder, HistoryFollows, LastQty, QtyBefore, tables
  <2>4. AppliesLastFill(actor[r])'
    BY <1>1, <1>2, <2>2, <2>3 DEF AppliesLastFill, tables
  <2>5. Applies(actor[r])'
    BY <1>2 DEF Applies
  <2> QED
    BY <1>1, <1>2, <1>3, <2>2, <2>3, <2>4, <2>5 DEF PositionInOrder, tables
<1> QED
  BY <1>4, <1>5, <1>6 DEF SerialRest

LEMMA UpsertSerial ==
  ASSUME OneAtATime, SerialInv, NEW r \in Requests, UpsertCurrentPosition(r)
  PROVE  SerialRest'
<1> DEFINE m == [actor[r] EXCEPT !.step = "recordHistory"]
<1>1. /\ r \in Actors /\ actor[r].step = "upsert"
      /\ UNCHANGED <<plans, intents, orders, fills, history, crashes>>
      /\ actor \in [Actors -> ActorState]
  BY RequestsApart DEF UpsertCurrentPosition, SerialInv, DeskInv, TypeOK
<1>2. /\ actor' = [actor EXCEPT ![r] = m] /\ actor'[r] = m /\ m.step = "recordHistory"
      /\ m.fill = actor[r].fill /\ m.held = actor[r].held
  BY <1>1 DEF UpsertCurrentPosition, Goto, ActorState
<1> HIDE DEF m
<1>3. \A q \in Requests : q = r
  BY DEF OneAtATime
<1>4. SnapshotsHold' /\ FilledOnce'
  BY <1>1, <1>2, <1>3, OrdersQuiet
<1>5. WorkerSubmits'
  BY <1>2, WorkerStays
<1>6. ASSUME crashes' = 0 PROVE PositionInOrder'
  <2>1. PositionInOrder
    BY <1>1, <1>6 DEF SerialInv
  <2>2. Len(fills) = Len(history) + 1 /\ actor[r].fill = Len(fills) /\ actor[r].held = LastQty
    BY <1>1, <2>1 DEF PositionInOrder, AppliesLastFill, Applies
  <2>3. HistoryFollows' /\ LastQty' = LastQty
    BY <1>1, <2>1 DEF PositionInOrder, HistoryFollows, LastQty, QtyBefore
  <2>4. position' = [qty |-> NextQty(m.held, fills'[m.fill]), lastFill |-> m.fill]
    BY <1>1, <1>2 DEF UpsertCurrentPosition
  <2>5. AppliesLastFill(actor[r])' /\ Applies(actor[r])'
    BY <1>1, <1>2, <2>2, <2>3, <2>4 DEF AppliesLastFill, Applies
  <2> QED
    BY <1>2, <1>3, <2>3, <2>5 DEF PositionInOrder
<1> QED
  BY <1>4, <1>5, <1>6 DEF SerialRest

(***************************************************************************)
(* The history goes on from its last row by the fill that was applied.     *)
(***************************************************************************)
LEMMA RecordHistorySerial ==
  ASSUME OneAtATime, SerialInv, NEW r \in Requests, RecordPositionHistory(r)
  PROVE  SerialRest'
<1> DEFINE n == Len(history) + 1
           next == NextQty(actor[r].held, fills[actor[r].fill])
           row == [fill |-> actor[r].fill, qty |-> next,
                   event |-> EventType(actor[r].held, next)]
<1>1. /\ r \in Actors /\ actor[r].step = "recordHistory" /\ Finish(r)
      /\ UNCHANGED <<plans, intents, orders, fills, position, crashes>>
      /\ actor \in [Actors -> ActorState] /\ history \in Seq(HistoryRow)
      /\ history' = Append(history, row)
      /\ fills \in Seq(FillRow)
  BY RequestsApart DEF RecordPositionHistory, SerialInv, DeskInv, TypeOK
<1>2. /\ actor' = [actor EXCEPT ![r] = Idle] /\ actor'[r] = Idle /\ Idle.step = "idle"
      /\ ~Applies(Idle)
  BY <1>1, IdleState DEF Finish, Applies
<1>3. \A q \in Requests : q = r
  BY DEF OneAtATime
<1>4. SnapshotsHold' /\ FilledOnce'
  BY <1>1, <1>2, <1>3, OrdersQuiet
<1>5. WorkerSubmits'
  BY <1>2, WorkerStays
<1>6. ASSUME crashes' = 0 PROVE PositionInOrder'
  <2>1. PositionInOrder
    BY <1>1, <1>6 DEF SerialInv
  <2>2. /\ Len(fills) = n /\ actor[r].fill = n /\ actor[r].held = LastQty
        /\ position = [qty |-> next, lastFill |-> n]
    BY <1>1, <2>1 DEF PositionInOrder, AppliesLastFill, Applies
  <2>3. /\ Len(history') = n /\ Rows(history') = Rows(history) \union {n}
        /\ history'[n] = row /\ \A k \in Rows(history) : history'[k] = history[k]
        /\ n \in Rows(fills) /\ Len(history) \in Nat /\ Rows(history) = 1..Len(history)
    <3> HIDE DEF row
    <3> QED
      BY <1>1, <2>2
  <2>4. \A k \in 1..n : QtyBefore(k)' = QtyBefore(k)
    BY <2>3 DEF QtyBefore
  <2>5. LastQty = QtyBefore(n) /\ LastQty' = next
    BY <2>3 DEF LastQty, QtyBefore
  <2>6. HistoryFollows'
    <3> SUFFICES ASSUME NEW k \in Rows(history')
                 PROVE  /\ k \in Rows(fills) /\ history'[k].fill = k
                        /\ history'[k].qty
                             = QtyBefore(k)' + Signed(fills[k].side, fills[k].qty)
                        /\ history'[k].event = EventType(QtyBefore(k)', history'[k].qty)
      BY <1>1 DEF HistoryFollows, EventType, SameSign, Signed
    <3>1. CASE k \in Rows(history)
      BY <2>1, <2>3, <2>4, <3>1 DEF PositionInOrder, HistoryFollows
    <3>2. CASE k = n
      <4>1. k \in 1..n
        BY <2>3, <3>2
      <4>2. QtyBefore(k)' = LastQty
        BY <2>4, <2>5, <3>2, <4>1
      <4>3. next = LastQty + Signed(fills[n].side, fills[n].qty)
        BY <2>2 DEF NextQty
      <4>4. row.fill = n /\ row.qty = next /\ row.event = EventType(LastQty, next)
        BY <2>2
      <4> HIDE DEF row, next, n
      <4> QED
        BY <2>3, <3>2, <4>2, <4>3, <4>4
    <3> QED
      BY <2>3, <3>1, <3>2
  <2>7. AppliesLastFill(actor[r])'
    BY <1>2 DEF AppliesLastFill
  <2> QED
    BY <1>1, <1>2, <1>3, <2>2, <2>3, <2>5, <2>6, <2>7 DEF PositionInOrder
<1> QED
  BY <1>4, <1>5, <1>6 DEF SerialRest

LEMMA SerialStep ==
  ASSUME OneAtATime, SerialInv, [Next]_vars
  PROVE  SerialInv'
<1>1. ASSUME NEW r \in Requests, HandleRequest(r) PROVE SerialRest'
  BY <1>1, BeginSerial, ReadIntentSerial, ReadOrderSerial, UpdateSerial, RecordFillSerial,
     ReadPositionSerial, UpsertSerial, RecordHistorySerial, RecordCloseSerial
     DEF HandleRequest
<1>2. ASSUME NEW a \in Actors, Submit(a) PROVE SerialRest'
  BY <1>2, CheckSerial, SubmitSerial DEF Submit
<1>3. ASSUME NEW a \in Actors, Crash(a) PROVE SerialRest'
  BY <1>3, FinishSerial DEF Crash, tables
<1>4. ASSUME UNCHANGED vars PROVE SerialRest'
  <2>1. /\ UNCHANGED <<actor, crashes, tables>>
        /\ UNCHANGED <<orders, fills, position, history>>
    BY <1>4 DEF vars, tables
  <2>2. SnapshotsHold' /\ FilledOnce'
    BY <2>1, OrdersQuiet
  <2>3. crashes' = 0 => PositionInOrder'
    BY <2>1, PositionQuiet
  <2> QED
    BY <2>1, <2>2, <2>3 DEF SerialRest, SerialInv, WorkerSubmits
<1>5. DeskInv'
  BY StepInv DEF SerialInv
<1>6. SerialRest'
  BY <1>1, <1>2, <1>3, <1>4, SignalSerial DEF Next
<1> QED
  BY <1>5, <1>6 DEF SerialInv, SerialRest

(* What an event type says of the quantities, if the fill is not empty. *)
LEMMA EventTells ==
  ASSUME NEW before \in Int, NEW after \in Int, after # before,
         NEW event, event = EventType(before, after)
  PROVE  CASE event = "open" -> before = 0
           [] event = "close" -> before # 0 /\ after = 0
           [] event = "increase" ->
                SameSign(before, after) /\ Magnitude(after) > Magnitude(before)
           [] event = "reduce" ->
                SameSign(before, after) /\ Magnitude(after) < Magnitude(before)
           [] event = "flip" -> before # 0 /\ after # 0 /\ ~SameSign(before, after)
<1>1. CASE before = 0
  BY <1>1 DEF EventType
<1>2. CASE before # 0 /\ after = 0
  BY <1>2 DEF EventType
<1>3. CASE before # 0 /\ after # 0 /\ SameSign(before, after - before)
  <2>1. event = "increase"
    BY <1>3 DEF EventType
  <2>2. SameSign(before, after) /\ Magnitude(after) > Magnitude(before)
    BY <1>3 DEF SameSign, Magnitude
  <2> QED
    BY <2>1, <2>2
<1>4. CASE before # 0 /\ after # 0 /\ ~SameSign(before, after - before)
  <2>1. CASE SameSign(before, after)
    <3>1. event = "reduce"
      BY <1>4, <2>1 DEF EventType
    <3>2. Magnitude(after) < Magnitude(before)
      BY <1>4, <2>1 DEF SameSign, Magnitude
    <3> QED
      BY <2>1, <3>1, <3>2
  <2>2. CASE ~SameSign(before, after)
    <3>1. event = "flip"
      BY <1>4, <2>2 DEF EventType
    <3> QED
      BY <1>4, <2>2, <3>1
  <2> QED
    BY <2>1, <2>2
<1> QED
  BY <1>1, <1>2, <1>3, <1>4

(***************************************************************************)
(* For any number of versions, orders and crashes: while requests come one *)
(* at a time, a fill has an order of its own, and that order is filled.    *)
(***************************************************************************)
THEOREM OrdersFilledOnce == ASSUME OneAtATime PROVE Spec => []FilledOnce
<1>1. SerialInv => FilledOnce
  BY DEF SerialInv
<1> QED
  BY <1>1, SerialStart, SerialStep, PTL DEF Spec

(***************************************************************************)
(* No request moves an order out of filled or canceled, because none finds *)
(* its order changed since it read it.                                     *)
(***************************************************************************)
THEOREM TerminalStays == ASSUME OneAtATime PROVE Spec => TerminalOrdersStay
<1> DEFINE Stays == \A o \in Rows(orders) :
             orders[o].status \in {"filled", "canceled"} =>
               /\ orders'[o].status = orders[o].status
               /\ orders'[o].filled = orders[o].filled
<1>1. SerialInv /\ [Next]_vars => [Stays]_vars
  <2> SUFFICES ASSUME SerialInv, Next PROVE Stays
    BY DEF vars
  <2>t. orders \in Seq(OrderRow)
    BY DEF SerialInv, DeskInv, TypeOK
  <2>1. CASE orders' = orders
    BY <2>1
  <2>2. ASSUME NEW a \in Actors, SubmitPaperOrder(a) PROVE Stays
    BY <2>t, <2>2 DEF SubmitPaperOrder
  <2>3. ASSUME NEW r \in Requests, UpdateOrderStatus(r) PROVE Stays
    <3>1. /\ actor[r].order \in Rows(orders)
          /\ orders[actor[r].order].status \notin {"filled", "canceled"}
      BY <2>3, UpdatesOpenOrder DEF UpdateOrderStatus
    <3>2. \A o \in Rows(orders) : o # actor[r].order => orders'[o] = orders[o]
      BY <2>3, <2>t DEF UpdateOrderStatus
    <3> QED
      BY <3>1, <3>2
  <2>4. \/ orders' = orders
        \/ \E a \in Actors : SubmitPaperOrder(a)
        \/ \E r \in Requests : UpdateOrderStatus(r)
    BY DEF Next, HandleRequest, Submit, ProcessSignal, Crash, BeginRequest, ReadIntent,
       ReadOrder, RecordFill, ReadPosition, UpsertCurrentPosition, RecordPositionHistory,
       RecordCloseIntent, CheckSubmitted, RecordPlanVersion, RecordEntryIntent,
       RecordNoIntent, tables
  <2> QED
    BY <2>1, <2>2, <2>3, <2>4
<1> QED
  BY <1>1, SerialStart, SerialStep, PTL DEF Spec, TerminalOrdersStay

(***************************************************************************)
(* While nothing has died, the history and the position are what the fills *)
(* make of them, whenever no fill is being applied.                        *)
(***************************************************************************)
THEOREM PositionIsTheFills == ASSUME OneAtATime PROVE Spec => []PositionFollowsFills
<1>1. SerialInv => PositionFollowsFills
  <2> SUFFICES ASSUME SerialInv, crashes = 0, ~Applying
               PROVE  /\ Len(history) = Len(fills)
                      /\ \A k \in Rows(history) :
                           /\ history[k].fill = k
                           /\ history[k].qty
                                = QtyBefore(k) + Signed(fills[k].side, fills[k].qty)
                      /\ position.qty = QtyBefore(Len(history) + 1)
                      /\ position.lastFill = Len(fills)
    BY DEF PositionFollowsFills
  <2>1. PositionInOrder
    BY DEF SerialInv
  <2>2. \A r \in Requests : ~Applies(actor[r])
    BY RequestsApart DEF Applying
  <2>3. Len(fills) = Len(history) /\ position = [qty |-> LastQty, lastFill |-> Len(history)]
    BY <2>1, <2>2 DEF PositionInOrder, Applies
  <2> QED
    BY <2>1, <2>3 DEF PositionInOrder, HistoryFollows, LastQty
<1> QED
  BY <1>1, SerialStart, SerialStep, PTL DEF Spec

(***************************************************************************)
(* While nothing has died, an event type tells what its fill did to the    *)
(* position; a fill is never empty, so that none of them is idle.          *)
(***************************************************************************)
THEOREM HistoryTells == ASSUME OneAtATime PROVE Spec => []EventsTellHistory
<1>1. SerialInv => EventsTellHistory
  <2> SUFFICES ASSUME SerialInv, crashes = 0 PROVE EventsTellHistory
    BY DEF EventsTellHistory
  <2>1. /\ HistoryFollows
        /\ history \in Seq(HistoryRow) /\ fills \in Seq(FillRow)
    BY DEF SerialInv, PositionInOrder, DeskInv, TypeOK
  <2>2. ASSUME NEW k \in Rows(history)
        PROVE  /\ QtyBefore(k) \in Int /\ history[k].qty \in Int
               /\ history[k].qty # QtyBefore(k)
               /\ history[k].event = EventType(QtyBefore(k), history[k].qty)
    <3>1. QtyBefore(k) \in Int /\ history[k].qty \in Int
      <4>1. ASSUME NEW i \in Rows(history) PROVE history[i].qty \in Int
        <5>1. history[i] \in HistoryRow
          BY <2>1
        <5> QED
          BY <5>1 DEF HistoryRow
      <4>2. k # 1 => k - 1 \in Rows(history)
        BY <2>1
      <4> QED
        BY <4>1, <4>2 DEF QtyBefore
    <3>2. fills[k] \in FillRow
      BY <2>1 DEF HistoryFollows
    <3>3. Signed(fills[k].side, fills[k].qty) \in Int \ {0}
      BY <3>2 DEF FillRow, Signed, Qty
    <3> QED
      BY <2>1, <3>1, <3>3 DEF HistoryFollows
  <2> QED
    BY <2>2, EventTells DEF EventsTellHistory
<1> QED
  BY <1>1, SerialStart, SerialStep, PTL DEF Spec
=============================================================================
