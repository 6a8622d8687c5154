------------------------------ MODULE RiskGate -------------------------------
(***************************************************************************)
(* From a plan to an opening order, without agents: the deterministic      *)
(* planner answers a signal (PlannerInput), or the model proposes any plan *)
(* that the schema allows; evaluateDeterministicRiskVerdict decides on the *)
(* recorded plan version under a risk policy; and                          *)
(* buildExecutionIntentFromApprovedRiskVerdict turns an approval into an   *)
(* opening intent or refuses to.                                           *)
(*                                                                         *)
(* Prices count ticks and those of a plan are even, so that the middle of  *)
(* an entry zone needs no rounding where the code keeps six decimals;      *)
(* percentages count 1/RiskUnit of the equity, and a quantity counts       *)
(* 1/QtyScale, to which the code rounds it (six decimals).                 *)
(***************************************************************************)
EXTENDS PlannerInput

CONSTANTS
  Plans,     \* the model's plans: action, state, bias, low, high, riskPct
  Policies,  \* risk policies
  QtyScale   \* grains of a quantity of one

Intents == [side : {"buy", "sell"}, qty : Nat, price : Int, stop : Int]

ASSUME GateAssumption ==
  QtyScale \in Nat \ {0} /\ Cent % 2 = 0 /\ None \notin Intents

(***************************************************************************)
(* The schema bounds riskPct from below, lets either end of the zone be    *)
(* null and knows three biases; a policy read from the environment may     *)
(* have a zero equity.                                                     *)
(***************************************************************************)
Price(x) == x \in Int /\ x % 2 = 0

ASSUME PlansAssumption ==
  \A p \in Plans : /\ p.low = None \/ Price(p.low)
                   /\ p.high = None \/ Price(p.high)
                   /\ p.bias \in {"long", "short", "neutral"}
                   /\ p.riskPct \in Nat

ASSUME PoliciesAssumption ==
  \A q \in Policies : /\ q.equity \in Nat /\ q.maxRiskPct \in Nat
                      /\ q.maxNotional \in Nat
                      /\ {q.dailyLoss, q.lossStreak, q.leverage, q.killSwitch}
                           \subseteq BOOLEAN

VARIABLES
  plan,     \* the plan version; None before it is generated
  policy,   \* the policy snapshot of the job; None before it is read
  verdict,  \* the risk verdict; None before it is evaluated
  intent,   \* the execution intent; None if there is none
  step      \* "plan", "evaluate", "build" or "done"

vars == <<history, latest, signal, input, plan, policy, verdict, intent, step>>

-----------------------------------------------------------------------------

OpenCandidate(p) ==
  p.action \in {"create", "patch"} /\ p.state \in {"armed", "pending_entry"}

Zoned(p) == p.low # None /\ p.high # None

HasEntryZone(p) == Zoned(p) /\ p.low <= p.high

EntryPrice(p) == IF Zoned(p) THEN (p.low + p.high) \div 2 ELSE None

StopPriceFarEnd(p) == \* mutant: the stop at the far end of the zone
  CASE Zoned(p) /\ p.bias = "long" -> p.high
    [] Zoned(p) /\ p.bias = "short" -> p.low
    [] ~Zoned(p) \/ p.bias = "neutral" -> None
StopPrice(p) ==
  CASE Zoned(p) /\ p.bias = "long" -> p.low
    [] Zoned(p) /\ p.bias = "short" -> p.high
    [] ~Zoned(p) \/ p.bias = "neutral" -> None

HasStop(p) ==
  StopPrice(p) # None /\ EntryPrice(p) # None /\ StopPrice(p) # EntryPrice(p)

(* The nearest integer to a / b. *)
RoundedRatio(a, b) == (2 * a + b) \div (2 * b)

CalculateQty(equity, riskPct, entry, stop) ==
  IF entry = stop THEN None
  ELSE RoundedRatio(equity * riskPct * QtyScale, RiskUnit * Distance(entry, stop))

ApprovedRiskPctUncapped(p, q) == IF OpenCandidate(p) THEN p.riskPct ELSE 0 \* mutant
ApprovedRiskPct(p, q) ==
  IF ~OpenCandidate(p) THEN 0
  ELSE IF p.riskPct < q.maxRiskPct THEN p.riskPct ELSE q.maxRiskPct

ApprovedQty(p, q) ==
  IF OpenCandidate(p) /\ EntryPrice(p) # None /\ StopPrice(p) # None
  THEN CalculateQty(q.equity, ApprovedRiskPct(p, q), EntryPrice(p), StopPrice(p))
  ELSE None

(***************************************************************************)
(* qty * entry <= maxNotional; the code rounds the product to six          *)
(* decimals.                                                               *)
(***************************************************************************)
WithinNotional(p, q) ==
  ApprovedQty(p, q) # None =>
    ApprovedQty(p, q) * EntryPrice(p) <= q.maxNotional * QtyScale

(***************************************************************************)
(* The checks of an open candidate that fail, and those that only warn.    *)
(* Every check passes for any other plan.                                  *)
(***************************************************************************)
Broken(p, q) ==
  [REQUIRE_STOP           |-> ~HasStop(p),
   ENTRY_ZONE_READY       |-> ~HasEntryZone(p),
   MAX_DAILY_LOSS         |-> q.dailyLoss,
   MAX_CONSECUTIVE_LOSSES |-> q.lossStreak,
   MAX_LEVERAGE           |-> q.leverage,
   KILL_SWITCH            |-> q.killSwitch]

FailCodes(p, q) ==
  IF OpenCandidate(p) THEN {c \in DOMAIN Broken(p, q) : Broken(p, q)[c]} ELSE {}

Warned(p, q) ==
  OpenCandidate(p) /\ (p.riskPct > q.maxRiskPct \/ ~WithinNotional(p, q))

Evaluate(p, q) ==
  IF FailCodes(p, q) # {}
  THEN [verdict |-> "reject", qty |-> None, stop |-> None]
  ELSE [verdict |-> IF Warned(p, q) THEN "approve_with_reduction" ELSE "approve",
        qty |-> ApprovedQty(p, q), stop |-> StopPrice(p)]

(***************************************************************************)
(* The cases that buildExecutionIntentFromApprovedRiskVerdict accepts; for *)
(* the others it throws and the pipeline goes on without an intent.        *)
(***************************************************************************)
Buildable(p, v) ==
  /\ v.verdict # "reject"
  /\ p.state \in {"armed", "pending_entry"}
  /\ p.bias # "neutral"
  /\ v.qty # None /\ v.qty > 0

(***************************************************************************)
(* The price of the intent is the middle of the zone to two decimals; of   *)
(* two equally near ones the binary fraction decides.                      *)
(***************************************************************************)
IntentPrices(x) == {Cent * y : y \in Nearest(x, Cent)}

OpenIntent(p, v, price) ==
  [side |-> IF p.bias = "long" THEN "buy" ELSE "sell",
   qty |-> v.qty, price |-> price, stop |-> v.stop]

-----------------------------------------------------------------------------

(***************************************************************************)
(* A signal that the deterministic planner answers, or a plan of the       *)
(* model, which may be anything whatever its input was.                    *)
(***************************************************************************)
Init ==
  /\ history = << >> /\ signal = None /\ input = None
  /\ latest \in LatestPlans
  /\ \/ plan = None /\ step = "plan"
     \/ plan \in Plans /\ step = "evaluate"
  /\ policy = None
  /\ verdict = None
  /\ intent = None

gate == <<plan, policy, verdict, intent, step>>

ReadMarket ==
  /\ step = "plan"
  /\ \/ \E t \in Times, c \in Contexts : RecordMarketState(t, c)
     \/ \E t \in Times, c \in Contexts, s \in Signals : ReceiveSignal(t, c, s)
     \/ BuildPlannerInput
  /\ UNCHANGED gate

GenerateDeterministicTradePlan ==
  /\ step = "plan"
  /\ input # None
  /\ plan' \in DeterministicPlans(signal, input.activePlan)
  /\ step' = "evaluate"
  /\ UNCHANGED <<history, latest, signal, input, policy, verdict, intent>>

(* Rows are only inserted; what the insert returns goes on to the next step. *)
RecordRiskVerdict(v) == verdict' = v
RecordExecutionIntent(i) == intent' = i

EvaluateAndRecordVerdict ==
  /\ step = "evaluate"
  /\ \E q \in Policies : policy' = q /\ RecordRiskVerdict(Evaluate(plan, q))
  /\ step' = "build"
  /\ UNCHANGED <<history, latest, signal, input, plan, intent>>

MaybeBuildAndRecordIntent ==
  /\ step = "build"
  /\ \/ /\ Buildable(plan, verdict)
        /\ \E price \in IntentPrices(EntryPrice(plan)) :
             RecordExecutionIntent(OpenIntent(plan, verdict, price))
     \/ /\ ~Buildable(plan, verdict)
        /\ UNCHANGED intent
  /\ step' = "done"
  /\ UNCHANGED <<history, latest, signal, input, plan, policy, verdict>>

Next ==
  \/ ReadMarket
  \/ GenerateDeterministicTradePlan
  \/ EvaluateAndRecordVerdict
  \/ MaybeBuildAndRecordIntent

Spec == Init /\ [][Next]_vars

-----------------------------------------------------------------------------
(* Properties *)

(***************************************************************************)
(* The types; a recorded rejection approves neither quantity nor stop.     *)
(***************************************************************************)
Verdicts ==
  [verdict : {"reject"}, qty : {None}, stop : {None}]
    \union [verdict : {"approve", "approve_with_reduction"},
            qty : Nat \union {None}, stop : Int \union {None}]

TypeOK ==
  /\ latest \in LatestPlans
  /\ policy \in Policies \union {None}
  /\ verdict \in Verdicts \union {None}
  /\ intent \in Intents \union {None}
  /\ step \in {"plan", "evaluate", "build", "done"}

(***************************************************************************)
(* Entered at the price the gate evaluated and stopped out at its stop, an *)
(* opening intent loses no more than the policy's share of the equity, up  *)
(* to the rounding of the quantity, whatever risk the plan asked for.      *)
(***************************************************************************)
RiskWithinPolicy ==
  intent # None =>
    LET distance == Distance(EntryPrice(plan), intent.stop)
    IN  2 * RiskUnit * intent.qty * distance <=
          2 * policy.equity * policy.maxRiskPct * QtyScale + RiskUnit * distance

(***************************************************************************)
(* An opening intent comes from a plan that creates or patches an armed    *)
(* setup with an ordered zone, under a policy with no breached limit and   *)
(* no kill switch, on the side of the plan's bias.  If the zone is wider   *)
(* than a cent, rounding the price leaves the stop on its losing side; a   *)
(* narrower one may lose the distance that the gate has checked.  A kept   *)
(* armed plan is approved, and still opens nothing.                        *)
(***************************************************************************)
Blocked(q) == q.dailyLoss \/ q.lossStreak \/ q.leverage \/ q.killSwitch

OpensOnlySetups ==
  intent # None =>
    /\ plan.action \in {"create", "patch"} /\ plan.state # "watch"
    /\ ~Blocked(policy)
    /\ intent.side = "buy" <=> plan.bias = "long"
    /\ plan.high - plan.low > Cent =>
         /\ intent.side = "buy" => intent.stop < intent.price
         /\ intent.side = "sell" => intent.stop > intent.price

(***************************************************************************)
(* A tradable signal is not lost between the planner and the gate: unless  *)
(* the policy blocks it, or half an ATR is no more than a cent (the zone   *)
(* may then be rounded to a point, and every plan of a market with small   *)
(* prices is rejected), or the quantity rounds to nothing, it opens.       *)
(***************************************************************************)
TradableOpens ==
  (step = "done" /\ signal # None /\ ~ShouldSkip(signal.asked)) =>
    \/ intent # None
    \/ Blocked(policy)
    \/ signal.context.atr <= 2 * Cent
    \/ 2 * policy.equity * ApprovedRiskPct(plan, policy) * QtyScale
         < RiskUnit * Distance(EntryPrice(plan), StopPrice(plan))

-----------------------------------------------------------------------------
(* The inductive invariant behind them *)

(* The plan is the model's, or the deterministic planner's answer to the signal. *)
PlanHasOrigin ==
  step # "plan" =>
    IF signal = None THEN plan \in Plans
    ELSE plan \in DeterministicPlans(signal, HasActivePlan)

(* The verdict is that on the plan under the recorded policy. *)
VerdictIsGates ==
  /\ step \in {"plan", "evaluate"} => policy = None /\ verdict = None
  /\ step \in {"build", "done"} =>
       policy \in Policies /\ verdict = Evaluate(plan, policy)

(* The intent opens what was approved, once the verdict is recorded. *)
IntentIsApproved ==
  /\ step # "done" => intent = None
  /\ step = "done" =>
       IF Buildable(plan, verdict)
       THEN \E price \in IntentPrices(EntryPrice(plan)) :
              intent = OpenIntent(plan, verdict, price)
       ELSE intent = None

GateInv ==
  /\ TypeOK
  /\ MarketRead
  /\ PlanHasOrigin
  /\ VerdictIsGates
  /\ IntentIsApproved
  /\ WindowIsRecent
  /\ SummaryTellsWindow
=============================================================================
