--------------------------- MODULE RiskGateProofs ----------------------------
(***************************************************************************)
(* Proofs about RiskGate and the PlannerInput that it extends: for any     *)
(* plans, policies, bars and signals, an opening intent stays within the   *)
(* policy and comes from a setup, a tradable signal is not lost, the       *)
(* planner sees the newest bars, and what the summary says of them is      *)
(* true.  First the arithmetic of the roundings, then the plans, the       *)
(* verdict and the intent, then the bars, and last the steps.              *)
(***************************************************************************)
EXTENDS RiskGate, FiniteSetTheorems, SequenceTheorems, WellFoundedInduction, TLAPS

-----------------------------------------------------------------------------
(* Rounding *)

LEMMA DivBounds ==
  ASSUME NEW a \in Int, NEW b \in Nat \ {0}
  PROVE  /\ a \div b \in Int
         /\ b * (a \div b) <= a
         /\ a < b * (a \div b) + b
BY SMT

LEMMA TimesMonotonic ==
  ASSUME NEW a \in Int, NEW b \in Int, NEW c \in Nat, a <= b
  PROVE  a * c <= b * c
BY SMT

(***************************************************************************)
(* A rounded ratio exceeds the exact one by half a unit at most, and is    *)
(* positive as soon as that one reaches a half.                            *)
(***************************************************************************)
LEMMA RatioBounds ==
  ASSUME NEW a \in Nat, NEW b \in Nat \ {0}
  PROVE  /\ RoundedRatio(a, b) \in Nat
         /\ 2 * b * RoundedRatio(a, b) <= 2 * a + b
         /\ 2 * a >= b => RoundedRatio(a, b) > 0
<1> DEFINE q == (2 * a + b) \div (2 * b)
<1>1. 2 * a + b \in Int /\ 2 * b \in Nat \ {0}
  OBVIOUS
<1>2. /\ q \in Int /\ (2 * b) * q <= 2 * a + b
      /\ 2 * a + b < (2 * b) * q + 2 * b
  <2> HIDE DEF q
  <2> QED
    BY <1>1, DivBounds DEF q
<1> HIDE DEF q
<1>3. q >= 0
  BY <1>2
<1>4. 2 * a >= b => q > 0
  BY <1>2
<1> QED
  BY <1>2, <1>3, <1>4 DEF RoundedRatio, q

(* Cent times a nearest integer is off by half a cent at most. *)
LEMMA NearestBounds ==
  ASSUME NEW n \in Int, NEW d \in Nat \ {0}, NEW y \in Nearest(n, d)
  PROVE  /\ y \in Int
         /\ 2 * n - d <= 2 * (y * d)
         /\ 2 * (y * d) <= 2 * n + d
<1>1. n \div d \in Int
  BY DivBounds
<1>2. y \in Int
  BY <1>1 DEF Nearest
<1>3. y * d \in Int /\ 2 * Distance(n, y * d) <= d
  BY <1>2 DEF Nearest
<1> QED
  BY <1>2, <1>3 DEF Distance

LEMMA IntentPriceBounds ==
  ASSUME NEW x \in Int, NEW price \in IntentPrices(x)
  PROVE  /\ price \in Int
         /\ 2 * x - Cent <= 2 * price
         /\ 2 * price <= 2 * x + Cent
<1>1. PICK y \in Nearest(x, Cent) : price = Cent * y
  BY DEF IntentPrices
<1>2. Cent \in Nat \ {0}
  BY InputAssumption
<1>3. /\ y \in Int
      /\ 2 * x - Cent <= 2 * (y * Cent)
      /\ 2 * (y * Cent) <= 2 * x + Cent
  BY <1>2, NearestBounds
<1>4. price = y * Cent
  BY <1>1, <1>2, <1>3
<1> QED
  BY <1>2, <1>3, <1>4

(* The end of a zone is a price of a plan, and off by half a cent at most. *)
LEMMA ZoneEndBounds ==
  ASSUME NEW x \in Int, NEW end \in ZoneEnds(x)
  PROVE  /\ Price(end)
         /\ x - 2 * Cent <= 4 * end
         /\ 4 * end <= x + 2 * Cent
<1>1. PICK y \in Nearest(x, 4 * Cent) : end = Cent * y
  BY DEF ZoneEnds
<1>2. Cent \in Nat \ {0} /\ 4 * Cent \in Nat \ {0} /\ Cent % 2 = 0
  BY InputAssumption, GateAssumption
<1>3. /\ y \in Int
      /\ 2 * x - 4 * Cent <= 2 * (y * (4 * Cent))
      /\ 2 * (y * (4 * Cent)) <= 2 * x + 4 * Cent
  BY <1>2, NearestBounds
<1>4. end \in Int /\ y * (4 * Cent) = 4 * end
  BY <1>1, <1>2, <1>3
<1>5. end % 2 = 0
  <2>1. Cent = 2 * (Cent \div 2)
    BY <1>2
  <2>2. Cent \div 2 \in Int
    BY <1>2
  <2> DEFINE h == Cent \div 2
  <2> HIDE DEF h
  <2>3. h * y \in Int /\ end = 2 * (h * y)
    BY <1>1, <1>3, <2>1, <2>2 DEF h
  <2> QED
    BY <2>3
<1> QED
  BY <1>2, <1>3, <1>4, <1>5 DEF Price
-----------------------------------------------------------------------------
(* Plans *)

WellFormed(p) ==
  /\ p.low = None \/ Price(p.low)
  /\ p.high = None \/ Price(p.high)
  /\ p.bias \in {"long", "short", "neutral"}
  /\ p.riskPct \in Nat

Asked == [asked : Signals, context : Contexts]

(***************************************************************************)
(* What the deterministic planner arms for a tradable signal: either end   *)
(* of the zone is half an ATR's half away from the average, to half a cent. *)
(***************************************************************************)
LEMMA ArmedPlan ==
  ASSUME NEW sig \in Asked, NEW active \in BOOLEAN, ~ShouldSkip(sig.asked),
         NEW p \in DeterministicPlans(sig, active)
  PROVE  /\ p.action \in {"create", "patch"} /\ p.state = "armed"
         /\ p.bias = sig.asked.direction /\ p.bias \in {"long", "short"}
         /\ p.riskPct \in Nat
         /\ Price(p.low) /\ Price(p.high)
         /\ 4 * p.low <= 4 * sig.context.ema50 - sig.context.atr + 2 * Cent
         /\ 4 * p.high >= 4 * sig.context.ema50 + sig.context.atr - 2 * Cent
<1> DEFINE c == sig.context
<1> DEFINE s == sig.asked
<1>1. PICK zone \in EntryZones(c, s.direction) :
        p = [action |-> IF active THEN "patch" ELSE "create", state |-> "armed",
             bias |-> s.direction, low |-> zone.low, high |-> zone.high,
             riskPct |-> InferRiskPct(s)]
  BY DEF DeterministicPlans
<1>2. /\ c.ema50 \in Nat /\ c.atr \in Nat /\ s.direction \in {"long", "short"}
      /\ 4 * c.ema50 - c.atr \in Int /\ 4 * c.ema50 + c.atr \in Int
  BY InputAssumption DEF Asked
<1>3. /\ zone.low \in ZoneEnds(4 * c.ema50 - c.atr)
      /\ zone.high \in ZoneEnds(4 * c.ema50 + c.atr)
  BY DEF EntryZones
<1>4. Price(zone.low) /\ 4 * zone.low <= 4 * c.ema50 - c.atr + 2 * Cent
  BY <1>2, <1>3, ZoneEndBounds
<1>5. Price(zone.high) /\ (4 * c.ema50 + c.atr) - 2 * Cent <= 4 * zone.high
  BY <1>2, <1>3, ZoneEndBounds
<1>6. InferRiskPct(s) \in Nat
  BY InputAssumption DEF InferRiskPct
<1>7. Cent \in Nat /\ zone.high \in Int
  BY <1>5, InputAssumption DEF Price
<1> QED
  BY <1>1, <1>2, <1>4, <1>5, <1>6, <1>7

LEMMA SkippedPlan ==
  ASSUME NEW sig, NEW active \in BOOLEAN, ShouldSkip(sig.asked),
         NEW p \in DeterministicPlans(sig, active)
  PROVE  /\ p.state = "watch" /\ p.bias = "neutral"
         /\ p.low = None /\ p.high = None /\ p.riskPct = 0
BY DEF DeterministicPlans

LEMMA PlannedWellFormed ==
  ASSUME NEW sig \in Asked, NEW active \in BOOLEAN,
         NEW p \in DeterministicPlans(sig, active)
  PROVE  WellFormed(p)
<1>1. CASE ShouldSkip(sig.asked)
  BY <1>1, SkippedPlan DEF WellFormed
<1>2. CASE ~ShouldSkip(sig.asked)
  BY <1>2, ArmedPlan DEF WellFormed
<1> QED
  BY <1>1, <1>2

(* The plan at the gate, whoever made it. *)
LEMMA PlanAtGate ==
  ASSUME MarketRead, PlanHasOrigin, step # "plan"
  PROVE  WellFormed(plan)
<1>1. CASE signal = None
  BY <1>1, PlansAssumption DEF PlanHasOrigin, WellFormed
<1>2. CASE signal # None
  <2>1. signal \in Asked /\ HasActivePlan \in BOOLEAN
    BY <1>2 DEF MarketRead, Asked, HasActivePlan
  <2>2. plan \in DeterministicPlans(signal, HasActivePlan)
    BY <1>2 DEF PlanHasOrigin
  <2> QED
    BY <2>1, <2>2, PlannedWellFormed
<1> QED
  BY <1>1, <1>2

-----------------------------------------------------------------------------
(* The verdict *)

(* The middle of a zone of two prices is exact. *)
LEMMA Middle ==
  ASSUME NEW p, WellFormed(p), Zoned(p)
  PROVE  /\ Price(p.low) /\ Price(p.high)
         /\ EntryPrice(p) \in Int
         /\ 2 * EntryPrice(p) = p.low + p.high
<1>1. Price(p.low) /\ Price(p.high)
  BY DEF WellFormed, Zoned
<1>2. EntryPrice(p) = (p.low + p.high) \div 2
  BY DEF EntryPrice
<1>3. (p.low + p.high) % 2 = 0
  BY <1>1 DEF Price
<1> QED
  BY <1>1, <1>2, <1>3 DEF Price

LEMMA Stops ==
  ASSUME NEW p, WellFormed(p)
  PROVE  /\ Zoned(p) /\ p.bias = "long" => StopPrice(p) = p.low
         /\ Zoned(p) /\ p.bias = "short" => StopPrice(p) = p.high
         /\ ~Zoned(p) \/ p.bias = "neutral" => StopPrice(p) = None
BY DEF StopPrice, Zoned, WellFormed

(***************************************************************************)
(* A zone that has a stop away from its middle: the stop is the end of the *)
(* zone on the losing side.                                                *)
(***************************************************************************)
LEMMA StopFacts ==
  ASSUME NEW p, WellFormed(p), HasStop(p)
  PROVE  /\ Zoned(p) /\ p.bias # "neutral"
         /\ StopPrice(p) \in Int /\ EntryPrice(p) \in Int
         /\ Distance(EntryPrice(p), StopPrice(p)) \in Nat \ {0}
         /\ EntryPrice(p) # None /\ StopPrice(p) # None
<1>1. Zoned(p) /\ p.bias # "neutral"
  BY Stops DEF HasStop
<1>2. Price(p.low) /\ Price(p.high) /\ EntryPrice(p) \in Int
  BY <1>1, Middle
<1>3. StopPrice(p) \in Int
  BY <1>1, <1>2, Stops DEF WellFormed, Price
<1>4. Distance(EntryPrice(p), StopPrice(p)) \in Nat \ {0}
  BY <1>2, <1>3 DEF HasStop, Distance
<1> QED
  BY <1>1, <1>2, <1>3, <1>4 DEF HasStop

LEMMA ApprovedRiskBounds ==
  ASSUME NEW p, WellFormed(p), NEW q \in Policies
  PROVE  /\ ApprovedRiskPct(p, q) \in Nat
         /\ ApprovedRiskPct(p, q) <= q.maxRiskPct
         /\ q.equity \in Nat /\ q.maxRiskPct \in Nat
BY PoliciesAssumption DEF ApprovedRiskPct, WellFormed

(* The quantity of a setup with a stop: its rounding, and when it vanishes. *)
LEMMA QtyBounds ==
  ASSUME NEW p, WellFormed(p), NEW q \in Policies, OpenCandidate(p), HasStop(p)
  PROVE  LET qty == ApprovedQty(p, q)
             share == q.equity * ApprovedRiskPct(p, q) * QtyScale
             loss == RiskUnit * Distance(EntryPrice(p), StopPrice(p))
         IN  /\ qty \in Nat
             /\ 2 * loss * qty <= 2 * share + loss
             /\ 2 * share >= loss => qty > 0
             /\ share \in Nat /\ loss \in Nat \ {0}
<1> DEFINE share == q.equity * ApprovedRiskPct(p, q) * QtyScale
<1> DEFINE loss == RiskUnit * Distance(EntryPrice(p), StopPrice(p))
<1>1. /\ Distance(EntryPrice(p), StopPrice(p)) \in Nat \ {0}
      /\ EntryPrice(p) # None /\ StopPrice(p) # None
  BY StopFacts
<1>2. EntryPrice(p) # StopPrice(p)
  BY DEF HasStop
<1>3. ApprovedQty(p, q) = RoundedRatio(share, loss)
  BY <1>1, <1>2 DEF ApprovedQty, CalculateQty
<1>4. /\ q.equity \in Nat /\ ApprovedRiskPct(p, q) \in Nat
      /\ QtyScale \in Nat /\ RiskUnit \in Nat \ {0}
  BY ApprovedRiskBounds, GateAssumption, InputAssumption
<1>5. share \in Nat
  BY <1>4
<1>6. loss \in Nat \ {0}
  BY <1>1, <1>4
<1>7. /\ RoundedRatio(share, loss) \in Nat
      /\ 2 * loss * RoundedRatio(share, loss) <= 2 * share + loss
      /\ 2 * share >= loss => RoundedRatio(share, loss) > 0
  <2> HIDE DEF share, loss
  <2> QED
    BY <1>5, <1>6, RatioBounds
<1> QED
  BY <1>3, <1>5, <1>6, <1>7

(***************************************************************************)
(* No check fails exactly if the setup has its stop and its zone, and no   *)
(* limit is breached.                                                      *)
(***************************************************************************)
LEMMA ChecksPass ==
  ASSUME NEW p, NEW q \in Policies, OpenCandidate(p)
  PROVE  FailCodes(p, q) = {} <=> HasStop(p) /\ HasEntryZone(p) /\ ~Blocked(q)
<1>1. DOMAIN Broken(p, q) =
        {"REQUIRE_STOP", "ENTRY_ZONE_READY", "MAX_DAILY_LOSS",
         "MAX_CONSECUTIVE_LOSSES", "MAX_LEVERAGE", "KILL_SWITCH"}
  BY DEF Broken
<1>2. /\ Broken(p, q)["REQUIRE_STOP"] = ~HasStop(p)
      /\ Broken(p, q)["ENTRY_ZONE_READY"] = ~HasEntryZone(p)
      /\ Broken(p, q)["MAX_DAILY_LOSS"] = q.dailyLoss
      /\ Broken(p, q)["MAX_CONSECUTIVE_LOSSES"] = q.lossStreak
      /\ Broken(p, q)["MAX_LEVERAGE"] = q.leverage
      /\ Broken(p, q)["KILL_SWITCH"] = q.killSwitch
  BY DEF Broken
<1>3. FailCodes(p, q) = {c \in DOMAIN Broken(p, q) : Broken(p, q)[c]}
  BY DEF FailCodes
<1>4. FailCodes(p, q) = {} <=> \A c \in DOMAIN Broken(p, q) : ~Broken(p, q)[c]
  BY <1>3
<1>5. FailCodes(p, q) = {} <=>
        /\ ~Broken(p, q)["REQUIRE_STOP"] /\ ~Broken(p, q)["ENTRY_ZONE_READY"]
        /\ ~Broken(p, q)["MAX_DAILY_LOSS"] /\ ~Broken(p, q)["MAX_CONSECUTIVE_LOSSES"]
        /\ ~Broken(p, q)["MAX_LEVERAGE"] /\ ~Broken(p, q)["KILL_SWITCH"]
  BY <1>1, <1>4
<1> QED
  BY <1>2, <1>5 DEF Blocked

(* What an approval that opens an intent rests on. *)
LEMMA BuildableFacts ==
  ASSUME NEW p, WellFormed(p), NEW q \in Policies, Buildable(p, Evaluate(p, q))
  PROVE  /\ OpenCandidate(p) /\ HasStop(p) /\ HasEntryZone(p) /\ ~Blocked(q)
         /\ Evaluate(p, q).qty = ApprovedQty(p, q)
         /\ Evaluate(p, q).stop = StopPrice(p)
<1>1. FailCodes(p, q) = {}
  BY DEF Buildable, Evaluate
<1>2. /\ Evaluate(p, q).qty = ApprovedQty(p, q)
      /\ Evaluate(p, q).stop = StopPrice(p)
  BY <1>1 DEF Evaluate
<1>3. OpenCandidate(p)
  BY <1>2 DEF Buildable, ApprovedQty
<1> QED
  BY <1>1, <1>2, <1>3, ChecksPass

(***************************************************************************)
(* The opposite direction: an armed setup with a bias and an ordered zone  *)
(* that is approved for a quantity opens.                                  *)
(***************************************************************************)
LEMMA SetupOpens ==
  ASSUME NEW p, WellFormed(p), NEW q \in Policies,
         OpenCandidate(p), HasStop(p), HasEntryZone(p), ~Blocked(q),
         2 * (q.equity * ApprovedRiskPct(p, q) * QtyScale)
           >= RiskUnit * Distance(EntryPrice(p), StopPrice(p))
  PROVE  Buildable(p, Evaluate(p, q))
<1>1. FailCodes(p, q) = {}
  BY ChecksPass
<1>2. /\ Evaluate(p, q).qty = ApprovedQty(p, q)
      /\ Evaluate(p, q).verdict # "reject"
  BY <1>1 DEF Evaluate
<1>3. ApprovedQty(p, q) \in Nat /\ ApprovedQty(p, q) > 0
  BY QtyBounds
<1>4. ApprovedQty(p, q) # None
  BY <1>3, InputAssumption
<1>5. p.bias # "neutral"
  BY StopFacts
<1> QED
  BY <1>2, <1>3, <1>4, <1>5 DEF Buildable, OpenCandidate

LEMMA VerdictTyped ==
  ASSUME NEW p, WellFormed(p), NEW q \in Policies
  PROVE  Evaluate(p, q) \in Verdicts
<1>1. CASE FailCodes(p, q) # {}
  BY <1>1 DEF Evaluate, Verdicts
<1>2. CASE FailCodes(p, q) = {}
  <2>1. ApprovedQty(p, q) \in Nat \union {None}
    <3>1. CASE OpenCandidate(p)
      BY <1>2, <3>1, ChecksPass, QtyBounds
    <3>2. CASE ~OpenCandidate(p)
      BY <3>2 DEF ApprovedQty
    <3> QED
      BY <3>1, <3>2
  <2>2. StopPrice(p) \in Int \union {None}
    BY Stops DEF WellFormed, Zoned, Price
  <2>3. Evaluate(p, q) =
          [verdict |-> IF Warned(p, q) THEN "approve_with_reduction" ELSE "approve",
           qty |-> ApprovedQty(p, q), stop |-> StopPrice(p)]
    BY <1>2 DEF Evaluate
  <2> QED
    BY <2>1, <2>2, <2>3 DEF Verdicts
<1> QED
  BY <1>1, <1>2

-----------------------------------------------------------------------------
(* The intent *)

(***************************************************************************)
(* An opening intent in full: what it is made of, what it may lose, and    *)
(* the side on which its stop is.                                          *)
(***************************************************************************)
LEMMA OpenedIntent ==
  ASSUME NEW p, WellFormed(p), NEW q \in Policies, Buildable(p, Evaluate(p, q)),
         NEW price \in IntentPrices(EntryPrice(p))
  PROVE  LET i == OpenIntent(p, Evaluate(p, q), price)
             distance == Distance(EntryPrice(p), i.stop)
         IN  /\ i \in Intents /\ i # None
             /\ i.side = "buy" <=> p.bias = "long"
             /\ 2 * RiskUnit * i.qty * distance <=
                  2 * q.equity * q.maxRiskPct * QtyScale + RiskUnit * distance
             /\ p.high - p.low > Cent =>
                  /\ i.side = "buy" => i.stop < i.price
                  /\ i.side = "sell" => i.stop > i.price
<1> DEFINE i == OpenIntent(p, Evaluate(p, q), price)
<1> DEFINE qty == ApprovedQty(p, q)
<1> DEFINE distance == Distance(EntryPrice(p), StopPrice(p))
<1> DEFINE share == q.equity * ApprovedRiskPct(p, q) * QtyScale
<1>1. /\ OpenCandidate(p) /\ HasStop(p) /\ HasEntryZone(p)
      /\ i.qty = qty /\ i.stop = StopPrice(p) /\ i.price = price
      /\ i.side = IF p.bias = "long" THEN "buy" ELSE "sell"
  BY BuildableFacts DEF OpenIntent
<1>2. /\ Zoned(p) /\ p.bias \in {"long", "short"}
      /\ StopPrice(p) \in Int /\ EntryPrice(p) \in Int /\ distance \in Nat \ {0}
  BY <1>1, StopFacts DEF WellFormed
<1>3. /\ price \in Int
      /\ 2 * EntryPrice(p) - Cent <= 2 * price
      /\ 2 * price <= 2 * EntryPrice(p) + Cent
  BY <1>2, IntentPriceBounds
<1>4. /\ qty \in Nat /\ share \in Nat
      /\ 2 * (RiskUnit * distance) * qty <= 2 * share + RiskUnit * distance
  BY <1>1, QtyBounds
<1>5. i \in Intents
  BY <1>1, <1>2, <1>3, <1>4 DEF OpenIntent, Intents
<1>6. i # None
  BY <1>5, GateAssumption
<1>7. i.side = "buy" <=> p.bias = "long"
  BY <1>1, <1>2
<1>8. 2 * RiskUnit * qty * distance <=
        2 * q.equity * q.maxRiskPct * QtyScale + RiskUnit * distance
  <2>1. /\ ApprovedRiskPct(p, q) \in Nat /\ ApprovedRiskPct(p, q) <= q.maxRiskPct
        /\ q.equity \in Nat /\ q.maxRiskPct \in Nat /\ QtyScale \in Nat
        /\ RiskUnit \in Nat
    BY ApprovedRiskBounds, GateAssumption, InputAssumption
  <2>2. q.equity * QtyScale \in Nat
    BY <2>1
  <2>3. ApprovedRiskPct(p, q) * (q.equity * QtyScale) <= q.maxRiskPct * (q.equity * QtyScale)
    BY <2>1, <2>2, TimesMonotonic
  <2>4. share = ApprovedRiskPct(p, q) * (q.equity * QtyScale)
    BY <2>1
  <2>5. q.equity * q.maxRiskPct * QtyScale = q.maxRiskPct * (q.equity * QtyScale)
    BY <2>1
  <2>6. 2 * q.equity * q.maxRiskPct * QtyScale = 2 * (q.equity * q.maxRiskPct * QtyScale)
    BY <2>1
  <2>7. 2 * RiskUnit * qty * distance = 2 * (RiskUnit * distance) * qty
    BY <1>2, <1>4, <2>1
  <2>8. /\ q.maxRiskPct * (q.equity * QtyScale) \in Int
        /\ RiskUnit * distance \in Int /\ 2 * (RiskUnit * distance) * qty \in Int
    BY <1>2, <1>4, <2>1
  <2> QED
    BY <1>4, <2>3, <2>4, <2>5, <2>6, <2>7, <2>8
<1>9. p.high - p.low > Cent => /\ i.side = "buy" => i.stop < i.price
                               /\ i.side = "sell" => i.stop > i.price
  <2>1. /\ p.low \in Int /\ p.high \in Int /\ 2 * EntryPrice(p) = p.low + p.high
    BY <1>2, Middle DEF Price
  <2>2. /\ p.bias = "long" => StopPrice(p) = p.low
        /\ p.bias = "short" => StopPrice(p) = p.high
    BY <1>2, Stops
  <2>3. Cent \in Nat
    BY InputAssumption
  <2> QED
    BY <1>1, <1>2, <1>3, <2>1, <2>2, <2>3
<1> QED
  BY <1>1, <1>5, <1>6, <1>7, <1>8, <1>9

-----------------------------------------------------------------------------
(* What the invariant says *)

(* An intent is one that the gate's verdict on a well-formed plan allows. *)
LEMMA IntentAtGate ==
  ASSUME GateInv, intent # None
  PROVE  /\ step = "done" /\ WellFormed(plan) /\ policy \in Policies
         /\ verdict = Evaluate(plan, policy) /\ Buildable(plan, Evaluate(plan, policy))
         /\ \E price \in IntentPrices(EntryPrice(plan)) :
              intent = OpenIntent(plan, Evaluate(plan, policy), price)
<1>1. step = "done"
  BY DEF GateInv, IntentIsApproved
<1>2. WellFormed(plan)
  BY <1>1, PlanAtGate DEF GateInv
<1>3. policy \in Policies /\ verdict = Evaluate(plan, policy)
  BY <1>1 DEF GateInv, VerdictIsGates
<1>4. /\ Buildable(plan, verdict)
      /\ \E price \in IntentPrices(EntryPrice(plan)) : intent = OpenIntent(plan, verdict, price)
  BY <1>1 DEF GateInv, IntentIsApproved
<1> QED
  BY <1>1, <1>2, <1>3, <1>4

LEMMA InvKeepsRisk == GateInv => RiskWithinPolicy
<1> SUFFICES ASSUME GateInv, intent # None PROVE RiskWithinPolicy
  BY DEF RiskWithinPolicy
<1>1. PICK price \in IntentPrices(EntryPrice(plan)) :
        intent = OpenIntent(plan, Evaluate(plan, policy), price)
  BY IntentAtGate
<1>2. /\ WellFormed(plan) /\ policy \in Policies
      /\ Buildable(plan, Evaluate(plan, policy))
  BY IntentAtGate
<1> QED
  BY <1>1, <1>2, OpenedIntent DEF RiskWithinPolicy

LEMMA InvOpensSetups == GateInv => OpensOnlySetups
<1> SUFFICES ASSUME GateInv, intent # None PROVE OpensOnlySetups
  BY DEF OpensOnlySetups
<1>1. PICK price \in IntentPrices(EntryPrice(plan)) :
        intent = OpenIntent(plan, Evaluate(plan, policy), price)
  BY IntentAtGate
<1>2. /\ WellFormed(plan) /\ policy \in Policies
      /\ Buildable(plan, Evaluate(plan, policy))
  BY IntentAtGate
<1>3. OpenCandidate(plan) /\ ~Blocked(policy)
  BY <1>2, BuildableFacts
<1> QED
  BY <1>1, <1>2, <1>3, OpenedIntent DEF OpensOnlySetups, OpenCandidate

(***************************************************************************)
(* A plan that was armed for a signal has its ends on either side of the   *)
(* average as soon as half an ATR is more than a cent, so it has a zone    *)
(* and a stop; the rest is SetupOpens.                                     *)
(***************************************************************************)
LEMMA InvOpensTradable == GateInv => TradableOpens
<1> SUFFICES ASSUME GateInv, step = "done", signal # None, ~ShouldSkip(signal.asked),
                    ~Blocked(policy), ~(signal.context.atr <= 2 * Cent),
                    ~(2 * policy.equity * ApprovedRiskPct(plan, policy) * QtyScale
                        < RiskUnit * Distance(EntryPrice(plan), StopPrice(plan)))
             PROVE  intent # None
  BY DEF TradableOpens
<1>1. /\ signal \in Asked /\ HasActivePlan \in BOOLEAN
      /\ plan \in DeterministicPlans(signal, HasActivePlan)
  BY DEF GateInv, MarketRead, Asked, HasActivePlan, PlanHasOrigin
<1>2. WellFormed(plan) /\ policy \in Policies /\ verdict = Evaluate(plan, policy)
  BY PlanAtGate DEF GateInv, VerdictIsGates
<1>3. /\ plan.action \in {"create", "patch"} /\ plan.state = "armed"
      /\ plan.bias \in {"long", "short"}
      /\ Price(plan.low) /\ Price(plan.high)
      /\ 4 * plan.low <= 4 * signal.context.ema50 - signal.context.atr + 2 * Cent
      /\ 4 * plan.high >= 4 * signal.context.ema50 + signal.context.atr - 2 * Cent
  BY <1>1, ArmedPlan
<1>4. /\ signal.context.ema50 \in Nat /\ signal.context.atr \in Nat /\ Cent \in Nat
      /\ plan.low \in Int /\ plan.high \in Int
  BY <1>1, <1>3, InputAssumption DEF Asked, Price
<1>5. plan.low < plan.high
  BY <1>3, <1>4
<1>6. Zoned(plan)
  BY <1>4, InputAssumption DEF Zoned
<1>7. HasEntryZone(plan) /\ OpenCandidate(plan)
  BY <1>3, <1>4, <1>5, <1>6 DEF HasEntryZone, OpenCandidate
<1>8. HasStop(plan)
  <2>1. EntryPrice(plan) \in Int /\ 2 * EntryPrice(plan) = plan.low + plan.high
    BY <1>2, <1>6, Middle
  <2>2. StopPrice(plan) \in {plan.low, plan.high}
    BY <1>2, <1>3, <1>6, Stops
  <2>3. StopPrice(plan) # EntryPrice(plan)
    BY <1>4, <1>5, <2>1, <2>2
  <2> QED
    BY <1>4, <2>1, <2>2, <2>3, InputAssumption DEF HasStop
<1>9. 2 * (policy.equity * ApprovedRiskPct(plan, policy) * QtyScale)
        >= RiskUnit * Distance(EntryPrice(plan), StopPrice(plan))
  <2>1. /\ ApprovedRiskPct(plan, policy) \in Nat /\ policy.equity \in Nat
        /\ QtyScale \in Nat /\ RiskUnit \in Nat
    BY <1>2, ApprovedRiskBounds, GateAssumption, InputAssumption
  <2>2. Distance(EntryPrice(plan), StopPrice(plan)) \in Nat
    BY <1>2, <1>8, StopFacts
  <2>3. 2 * policy.equity * ApprovedRiskPct(plan, policy) * QtyScale
          = 2 * (policy.equity * ApprovedRiskPct(plan, policy) * QtyScale)
    BY <2>1
  <2>4. /\ policy.equity * ApprovedRiskPct(plan, policy) * QtyScale \in Int
        /\ RiskUnit * Distance(EntryPrice(plan), StopPrice(plan)) \in Int
    BY <2>1, <2>2
  <2> QED
    BY <2>3, <2>4
<1>10. Buildable(plan, Evaluate(plan, policy))
  BY <1>2, <1>7, <1>8, <1>9, SetupOpens
<1>11. PICK price \in IntentPrices(EntryPrice(plan)) :
         intent = OpenIntent(plan, Evaluate(plan, policy), price)
  BY <1>2, <1>10 DEF GateInv, IntentIsApproved
<1> QED
  BY <1>2, <1>10, <1>11, OpenedIntent

(***************************************************************************)
(* The reviser's tests and the planner's, about one signal: a rank is an   *)
(* integer, so the one's >= 3 is the other's not <= 2.                     *)
(***************************************************************************)
LEMMA InvRevisionAgrees == GateInv => RevisionAgrees
<1> SUFFICES ASSUME GateInv, signal # None, HasActivePlan, latest.bias # "neutral",
                    NEW held \in BOOLEAN, NEW extended \in BOOLEAN,
                    NEW p \in DeterministicPlans(signal, TRUE)
             PROVE  LET says == DeterministicRevision(signal.asked, latest, held, extended)
                        rearms == p.state = "armed" /\ p.bias = latest.bias
                    IN  /\ latest.state \in {"armed", "pending_entry"} =>
                             (says \in {"keep", "tighten"} <=> rearms)
                        /\ latest.state = "watch" => (says = "upgrade" <=> rearms)
  BY DEF RevisionAgrees
<1>1. signal \in Asked
  BY DEF GateInv, MarketRead, Asked
<1>2. /\ signal.asked.rank \in 1..4 /\ signal.asked.gain \in Nat
      /\ signal.asked.pain \in Nat
      /\ signal.asked.direction \in {"long", "short"}
  BY <1>1, InputAssumption DEF Asked
<1>3. ShouldSkip(signal.asked) <=> ~TradableSignal(signal.asked)
  BY <1>2 DEF ShouldSkip, TradableSignal
<1>4. CASE ShouldSkip(signal.asked)
  <2>1. p.state = "watch"
    BY <1>4, SkippedPlan
  <2> QED
    BY <1>3, <1>4, <2>1 DEF DeterministicRevision
<1>5. CASE ~ShouldSkip(signal.asked)
  <2>1. p.state = "armed" /\ p.bias = signal.asked.direction
    BY <1>1, <1>5, ArmedPlan
  <2>2. signal.asked.alignment = "align"
    BY <1>5 DEF ShouldSkip
  <2>3. SameDirection(signal.asked, latest) <=> p.bias = latest.bias
    BY <2>1 DEF SameDirection
  <2>4. Conflicts(signal.asked, latest) <=> p.bias # latest.bias
    BY <2>2, <2>3 DEF Conflicts
  <2> QED
    BY <1>3, <1>5, <2>1, <2>3, <2>4 DEF DeterministicRevision
<1> QED
  BY <1>4, <1>5

-----------------------------------------------------------------------------
(* The window *)

Below(S, t) == {u \in S : u < t}

(***************************************************************************)
(* In a finite set of times every rank from none to all but one is that of *)
(* exactly one time: ranks are distinct, and there are as many of them.    *)
(***************************************************************************)
LEMMA Ranks ==
  ASSUME NEW S \in SUBSET Nat, IsFiniteSet(S)
  PROVE  /\ Cardinality(S) \in Nat
         /\ \A t \in S : Cardinality(Below(S, t)) \in 0..(Cardinality(S) - 1)
         /\ \A t, u \in S : t < u => Cardinality(Below(S, t)) < Cardinality(Below(S, u))
         /\ \A k \in 0..(Cardinality(S) - 1) : \E t \in S : Cardinality(Below(S, t)) = k
<1> DEFINE n == Cardinality(S)
<1>1. n \in Nat
  BY FS_CardinalityType
<1>2. \A t \in S : IsFiniteSet(Below(S, t)) /\ Cardinality(Below(S, t)) \in 0..(n - 1)
  <2> SUFFICES ASSUME NEW t \in S
               PROVE  IsFiniteSet(Below(S, t)) /\ Cardinality(Below(S, t)) \in 0..(n - 1)
    OBVIOUS
  <2>1. Below(S, t) \subseteq S \ {t} /\ Below(S, t) \subseteq S
    BY DEF Below
  <2>2. IsFiniteSet(S \ {t}) /\ Cardinality(S \ {t}) = n - 1
    BY FS_RemoveElement
  <2>3. IsFiniteSet(Below(S, t)) /\ Cardinality(Below(S, t)) <= n - 1
    BY <2>1, <2>2, FS_Subset
  <2>4. Cardinality(Below(S, t)) \in Nat
    BY <2>3, FS_CardinalityType
  <2> QED
    BY <1>1, <2>3, <2>4
<1>3. \A t, u \in S : t < u => Cardinality(Below(S, t)) < Cardinality(Below(S, u))
  <2> SUFFICES ASSUME NEW t \in S, NEW u \in S, t < u
               PROVE  Cardinality(Below(S, t)) < Cardinality(Below(S, u))
    OBVIOUS
  <2>1. Below(S, t) \union {t} \subseteq Below(S, u) /\ t \notin Below(S, t)
    <3>1. t \in Nat /\ u \in Nat /\ t \in Below(S, u) /\ t \notin Below(S, t)
      BY DEF Below
    <3>2. ASSUME NEW x \in Below(S, t) PROVE x \in Below(S, u)
      <4>1. x \in S /\ x \in Nat /\ x < t
        BY DEF Below
      <4>2. x < u
        BY <3>1, <4>1
      <4> QED
        BY <4>1, <4>2 DEF Below
    <3> QED
      BY <3>1, <3>2
  <2>2. Cardinality(Below(S, t) \union {t}) = Cardinality(Below(S, t)) + 1
    BY <1>2, <2>1, FS_AddElement
  <2>3. Cardinality(Below(S, t) \union {t}) <= Cardinality(Below(S, u))
    BY <1>2, <2>1, FS_Subset
  <2> QED
    BY <1>2, <2>2, <2>3
<1>4. \A k \in 0..(n - 1) : \E t \in S : Cardinality(Below(S, t)) = k
  <2> DEFINE rank == [t \in S |-> Cardinality(Below(S, t))]
  <2>1. rank \in [S -> 0..(n - 1)]
    BY <1>2
  <2>2. \A t, u \in S : rank[t] = rank[u] => t = u
    BY <1>2, <1>3
  <2>3. rank \in Injection(S, 0..(n - 1))
    BY <2>1, <2>2 DEF Injection, IsInjective
  <2>4. IsFiniteSet(0..(n - 1)) /\ Cardinality(0..(n - 1)) = n
    <3>1. 0 \in Int /\ n - 1 \in Int /\ n - 1 - 0 + 1 = n /\ (0 > n - 1 => n = 0)
      BY <1>1
    <3> HIDE DEF n
    <3> QED
      BY <3>1, FS_Interval
  <2>5. rank \in Surjection(S, 0..(n - 1))
    BY <2>3, <2>4, FS_Injection
  <2> QED
    BY <2>5 DEF Surjection
<1> QED
  BY <1>1, <1>2, <1>3, <1>4

(* The times are enumerated in order, each once. *)
LEMMA TimesSorted ==
  ASSUME MarketRead
  PROVE  LET S == DOMAIN history
             n == Cardinality(S)
         IN  /\ n \in Nat /\ S \subseteq Nat
             /\ SortedTimes \in Seq(S) /\ Len(SortedTimes) = n
             /\ \A i, j \in 1..n : i < j => SortedTimes[i] < SortedTimes[j]
             /\ \A t \in S : \E i \in 1..n : SortedTimes[i] = t
<1> DEFINE S == DOMAIN history
<1> DEFINE n == Cardinality(S)
<1>1. S \in SUBSET Nat /\ IsFiniteSet(S)
  BY InputAssumption DEF MarketRead
<1>2. \A t \in S : Older(t) = Below(S, t)
  BY DEF Older, Below
<1>3. /\ n \in Nat
      /\ \A t \in S : Cardinality(Older(t)) \in 0..(n - 1)
      /\ \A t, u \in S : t < u => Cardinality(Older(t)) < Cardinality(Older(u))
      /\ \A k \in 0..(n - 1) : \E t \in S : Cardinality(Older(t)) = k
  <2> HIDE DEF S
  <2> QED
    BY <1>1, <1>2, Ranks
<1>4. SortedTimes = [i \in 1..n |-> CHOOSE t \in S : Cardinality(Older(t)) = i - 1]
  BY DEF SortedTimes
<1> HIDE DEF S, n
<1>5. \A i \in 1..n : SortedTimes[i] \in S /\ Cardinality(Older(SortedTimes[i])) = i - 1
  <2> SUFFICES ASSUME NEW i \in 1..n
               PROVE  SortedTimes[i] \in S /\ Cardinality(Older(SortedTimes[i])) = i - 1
    OBVIOUS
  <2>1. i - 1 \in 0..(n - 1)
    BY <1>3
  <2>2. \E t \in S : Cardinality(Older(t)) = i - 1
    BY <1>3, <2>1
  <2>3. SortedTimes[i] = CHOOSE t \in S : Cardinality(Older(t)) = i - 1
    BY <1>4
  <2> QED
    BY <2>2, <2>3
<1>6. SortedTimes \in [1..n -> S]
  BY <1>4, <1>5
<1>7. SortedTimes \in Seq(S) /\ Len(SortedTimes) = n
  BY <1>3, <1>6
<1>8. \A i, j \in 1..n : i < j => SortedTimes[i] < SortedTimes[j]
  <2> SUFFICES ASSUME NEW i \in 1..n, NEW j \in 1..n, i < j
               PROVE  SortedTimes[i] < SortedTimes[j]
    OBVIOUS
  <2>1. /\ SortedTimes[i] \in S /\ SortedTimes[j] \in S
        /\ Cardinality(Older(SortedTimes[i])) = i - 1
        /\ Cardinality(Older(SortedTimes[j])) = j - 1
    BY <1>5
  <2>2. SortedTimes[i] \in Nat /\ SortedTimes[j] \in Nat
    BY <1>1, <2>1
  <2>3. SortedTimes[i] # SortedTimes[j]
    BY <1>3, <2>1
  <2>4. ~(SortedTimes[j] < SortedTimes[i])
    BY <1>3, <2>1
  <2> QED
    BY <2>2, <2>3, <2>4
<1>9. \A t \in S : \E i \in 1..n : SortedTimes[i] = t
  <2> SUFFICES ASSUME NEW t \in S PROVE \E i \in 1..n : SortedTimes[i] = t
    OBVIOUS
  <2>1. PICK i \in 1..n : Cardinality(Older(t)) = i - 1
    <3>1. Cardinality(Older(t)) \in 0..(n - 1)
      BY <1>3
    <3>2. Cardinality(Older(t)) + 1 \in 1..n
      BY <1>3, <3>1
    <3> QED
      BY <3>1, <3>2
  <2>2. SortedTimes[i] \in S /\ Cardinality(Older(SortedTimes[i])) = i - 1
    BY <1>5
  <2>3. SortedTimes[i] \in Nat /\ t \in Nat
    BY <1>1, <2>2
  <2>4. ~(SortedTimes[i] < t) /\ ~(t < SortedTimes[i])
    BY <1>3, <2>1, <2>2
  <2> QED
    BY <2>3, <2>4
<1> QED
  BY <1>1, <1>3, <1>7, <1>8, <1>9 DEF S, n

LEMMA MinOfTwo ==
  ASSUME NEW a \in Int, NEW b \in Int
  PROVE  Min({a, b}) = IF a <= b THEN a ELSE b
BY DEF Min

LEMMA MaxOfTwo ==
  ASSUME NEW a \in Int, NEW b \in Int
  PROVE  Max({a, b}) = IF a >= b THEN a ELSE b
BY DEF Max

(* The last k of them are the newest. *)
LEMMA WindowNewest ==
  ASSUME MarketRead, NEW k \in Nat \ {0}
  PROVE  LET S == DOMAIN history
             n == Cardinality(S)
             w == RecentTimes(k)
         IN  /\ w \in Seq(S) /\ Len(w) = Min({k, n}) /\ n \in Nat
             /\ DOMAIN w = 1..Len(w)
             /\ \A i, j \in DOMAIN w : i < j => w[i] < w[j]
             /\ \A t \in S \ ToSet(w), u \in ToSet(w) : t < u
<1> DEFINE S == DOMAIN history
<1> DEFINE n == Cardinality(S)
<1> DEFINE w == RecentTimes(k)
<1> DEFINE m == Max({1, n - k + 1})
<1>1. /\ n \in Nat /\ S \subseteq Nat
      /\ SortedTimes \in Seq(S) /\ Len(SortedTimes) = n
      /\ \A i, j \in 1..n : i < j => SortedTimes[i] < SortedTimes[j]
      /\ \A t \in S : \E i \in 1..n : SortedTimes[i] = t
      /\ \A i \in 1..n : SortedTimes[i] \in S
  BY TimesSorted
<1>2. w = SubSeq(SortedTimes, m, n)
  BY <1>1 DEF RecentTimes
<1> HIDE DEF S, n, w
<1>3. m = IF 1 >= n - k + 1 THEN 1 ELSE n - k + 1
  BY <1>1, MaxOfTwo
<1> HIDE DEF m
<1>4. m \in Nat \ {0} /\ n - m + 1 \in Nat /\ \A i \in m..n : SortedTimes[i] \in S
  BY <1>1, <1>3
<1>5. /\ w \in Seq(S) /\ Len(w) = n - m + 1
      /\ \A i \in 1..(n - m + 1) : w[i] = SortedTimes[m + i - 1]
  <2>1. /\ SubSeq(SortedTimes, m, n) \in Seq(S)
        /\ Len(SubSeq(SortedTimes, m, n)) = IF m <= n THEN n - m + 1 ELSE 0
        /\ \A i \in 1..(n - m + 1) : SubSeq(SortedTimes, m, n)[i] = SortedTimes[m + i - 1]
    BY <1>1, <1>4, SubSeqProperties
  <2> QED
    BY <1>1, <1>2, <1>4, <2>1
<1>6. Len(w) = Min({k, n})
  BY <1>1, <1>3, <1>5, MinOfTwo
<1>7. DOMAIN w = 1..(n - m + 1)
  BY <1>5
<1>8. \A i, j \in DOMAIN w : i < j => w[i] < w[j]
  <2> SUFFICES ASSUME NEW i \in DOMAIN w, NEW j \in DOMAIN w, i < j PROVE w[i] < w[j]
    OBVIOUS
  <2>1. m + i - 1 \in 1..n /\ m + j - 1 \in 1..n /\ m + i - 1 < m + j - 1
    BY <1>1, <1>4, <1>7
  <2> QED
    BY <1>1, <1>5, <1>7, <2>1
<1>9. \A t \in S \ ToSet(w), u \in ToSet(w) : t < u
  <2> SUFFICES ASSUME NEW t \in S \ ToSet(w), NEW u \in ToSet(w) PROVE t < u
    OBVIOUS
  <2>1. PICK j \in 1..(n - m + 1) : u = w[j]
    BY <1>7 DEF ToSet
  <2>2. PICK i \in 1..n : SortedTimes[i] = t
    BY <1>1
  <2>3. u = SortedTimes[m + j - 1] /\ m + j - 1 \in m..n
    BY <1>1, <1>4, <1>5, <2>1
  <2>4. i < m
    <3> SUFFICES ASSUME i >= m PROVE FALSE
      BY <1>4
    <3>1. i - m + 1 \in 1..(n - m + 1) /\ m + (i - m + 1) - 1 = i
      BY <1>1, <1>4
    <3>2. w[i - m + 1] = t
      BY <1>5, <2>2, <3>1
    <3> QED
      BY <1>7, <3>1, <3>2 DEF ToSet
  <2>5. i < m + j - 1 /\ m + j - 1 \in 1..n
    BY <1>1, <1>4, <2>3, <2>4
  <2> QED
    BY <1>1, <2>2, <2>3, <2>5
<1> QED
  BY <1>1, <1>5, <1>6, <1>7, <1>8, <1>9 DEF S, n, w

-----------------------------------------------------------------------------
(* The summary of the window *)

LEMMA LeastNat ==
  ASSUME NEW T \in SUBSET Nat, T # {}
  PROVE  \E m \in T : \A k \in T : m <= k
<1> DEFINE Less == {p \in Nat \X Nat : p[1] < p[2]}
<1>1. Less = OpToRel(<, Nat)
  BY DEF OpToRel
<1>2. PICK m \in T : \A k \in T : <<k, m>> \notin Less
  <2>1. IsWellFoundedOn(Less, Nat)
    BY <1>1, NatLessThanWellFounded
  <2> HIDE DEF Less
  <2> QED
    BY <2>1, WFMin
<1>3. \A k \in T : m <= k
  <2> SUFFICES ASSUME NEW k \in T PROVE m <= k
    OBVIOUS
  <2>1. <<k, m>> \in Nat \X Nat
    OBVIOUS
  <2> QED
    BY <1>2, <2>1
<1> QED
  BY <1>3

Values(v, n) == n \in Nat \ {0} /\ v \in [1..n -> Int]

(***************************************************************************)
(* Among finitely many values there is a largest: the first prefix without *)
(* one would be longer than one, and its last value would settle it.       *)
(***************************************************************************)
LEMMA LargestValue ==
  ASSUME NEW v, NEW n, Values(v, n)
  PROVE  \E k \in 1..n : \A i \in 1..n : v[i] <= v[k]
<1> DEFINE Has(m) == \E k \in 1..m : \A i \in 1..m : v[i] <= v[k]
<1> DEFINE T == {m \in 1..n : ~Has(m)}
<1>0. n \in Nat \ {0} /\ \A i \in 1..n : v[i] \in Int
  BY DEF Values
<1> SUFFICES ASSUME ~Has(n) PROVE FALSE
  OBVIOUS
<1>1. n \in T /\ T \in SUBSET Nat
  BY <1>0
<1>2. PICK m \in T : \A k \in T : m <= k
  <2> HIDE DEF T
  <2> QED
    BY <1>1, LeastNat
<1>3. m \in 1..n /\ ~Has(m)
  OBVIOUS
<1>4. m # 1
  <2> SUFFICES ASSUME m = 1 PROVE FALSE
    OBVIOUS
  <2>1. \A i \in 1..1 : v[i] <= v[1]
    BY <1>0, <1>3
  <2> QED
    BY <1>3, <2>1
<1>5. m - 1 \in 1..n /\ m - 1 < m
  BY <1>0, <1>3, <1>4
<1>6. m - 1 \notin T
  BY <1>2, <1>5
<1>7. PICK k \in 1..(m - 1) : \A i \in 1..(m - 1) : v[i] <= v[k]
  BY <1>5, <1>6
<1>8. k \in 1..m /\ m \in 1..m /\ v[k] \in Int /\ v[m] \in Int
  BY <1>0, <1>3, <1>5
<1>9. \A i \in 1..m : i \in 1..(m - 1) \/ i = m
  BY <1>3
<1>10. CASE v[m] <= v[k]
  <2>1. \A i \in 1..m : v[i] <= v[k]
    BY <1>7, <1>9, <1>10
  <2> QED
    BY <1>3, <1>8, <2>1
<1>11. CASE v[k] <= v[m]
  <2>1. \A i \in 1..m : v[i] <= v[m]
    <3> SUFFICES ASSUME NEW i \in 1..m PROVE v[i] <= v[m]
      OBVIOUS
    <3>1. v[i] \in Int
      BY <1>0, <1>3
    <3> QED
      BY <1>7, <1>8, <1>9, <1>11, <3>1
  <2> QED
    BY <1>3, <1>8, <2>1
<1> QED
  BY <1>8, <1>10, <1>11

Negated(v, n) == [i \in 1..n |-> -v[i]]

LEMMA NegatedValues ==
  ASSUME NEW v, NEW n, Values(v, n)
  PROVE  Values(Negated(v, n), n) /\ \A i \in 1..n : Negated(v, n)[i] = -v[i] /\ v[i] \in Int
BY DEF Values, Negated

LEMMA SmallestValue ==
  ASSUME NEW v, NEW n, Values(v, n)
  PROVE  \E k \in 1..n : \A i \in 1..n : v[k] <= v[i]
<1>1. PICK k \in 1..n : \A i \in 1..n : Negated(v, n)[i] <= Negated(v, n)[k]
  BY NegatedValues, LargestValue
<1>2. \A i \in 1..n : v[k] <= v[i]
  BY <1>1, NegatedValues
<1> QED
  BY <1>2

(* Values without a step up never rise. *)
LEMMA NeverRise ==
  ASSUME NEW v, NEW n, Values(v, n), \A i \in 2..n : ~(v[i] > v[i - 1])
  PROVE  \A j \in 1..n : \A i \in 1..j : v[j] <= v[i]
<1> DEFINE T == {j \in 1..n : \E i \in 1..j : ~(v[j] <= v[i])}
<1>0. n \in Nat \ {0} /\ \A i \in 1..n : v[i] \in Int
  BY DEF Values
<1> SUFFICES ASSUME T # {} PROVE FALSE
  OBVIOUS
<1>1. PICK j \in T : \A k \in T : j <= k
  <2>1. T \in SUBSET Nat
    BY <1>0
  <2> HIDE DEF T
  <2> QED
    BY <2>1, LeastNat
<1>2. j \in 1..n
  OBVIOUS
<1>3. PICK i \in 1..j : ~(v[j] <= v[i])
  OBVIOUS
<1>4. i # j /\ v[i] \in Int /\ v[j] \in Int
  BY <1>0, <1>2, <1>3
<1>5. j \in 2..n /\ j - 1 \in 1..n /\ i \in 1..(j - 1)
  BY <1>0, <1>2, <1>4
<1>6. j - 1 \notin T
  BY <1>1, <1>5
<1>7. v[j - 1] <= v[i] /\ v[j - 1] \in Int
  BY <1>0, <1>5, <1>6
<1>8. v[j] <= v[j - 1]
  BY <1>4, <1>5, <1>7
<1> QED
  BY <1>3, <1>4, <1>7, <1>8

LEMMA NeverFall ==
  ASSUME NEW v, NEW n, Values(v, n), \A i \in 2..n : ~(v[i] < v[i - 1])
  PROVE  \A j \in 1..n : \A i \in 1..j : v[i] <= v[j]
<1>0. n \in Nat \ {0}
  BY DEF Values
<1>1. \A i \in 2..n : ~(Negated(v, n)[i] > Negated(v, n)[i - 1])
  <2> SUFFICES ASSUME NEW i \in 2..n PROVE ~(Negated(v, n)[i] > Negated(v, n)[i - 1])
    OBVIOUS
  <2>1. i \in 1..n /\ i - 1 \in 1..n
    BY <1>0
  <2> QED
    BY <2>1, NegatedValues
<1>2. \A j \in 1..n : \A i \in 1..j : Negated(v, n)[j] <= Negated(v, n)[i]
  BY <1>1, NegatedValues, NeverRise
<1> SUFFICES ASSUME NEW j \in 1..n, NEW i \in 1..j PROVE v[i] <= v[j]
  OBVIOUS
<1>3. i \in 1..n
  BY <1>0
<1> QED
  BY <1>2, <1>3, NegatedValues

(***************************************************************************)
(* If no step of a kind is counted there is none; and steps up and down    *)
(* together are fewer than the values.                                     *)
(***************************************************************************)
LEMMA StepsCounted ==
  ASSUME NEW v, NEW n, Values(v, n)
  PROVE  /\ CountUpSteps(v) = 0 => \A j \in 1..n : \A i \in 1..j : v[j] <= v[i]
         /\ CountDownSteps(v) = 0 => \A j \in 1..n : \A i \in 1..j : v[i] <= v[j]
         /\ CountUpSteps(v) + CountDownSteps(v) < n
<1> DEFINE Up == {i \in 2..n : v[i] > v[i - 1]}
<1> DEFINE Down == {i \in 2..n : v[i] < v[i - 1]}
<1>0. n \in Nat \ {0} /\ Len(v) = n /\ \A i \in 1..n : v[i] \in Int
  BY DEF Values
<1>1. CountUpSteps(v) = Cardinality(Up) /\ CountDownSteps(v) = Cardinality(Down)
  BY <1>0 DEF CountUpSteps, CountDownSteps
<1>2. IsFiniteSet(2..n) /\ Cardinality(2..n) = n - 1
  <2>1. 2 \in Int /\ n \in Int /\ n - 2 + 1 = n - 1 /\ (2 > n => n - 1 = 0)
    BY <1>0
  <2> QED
    BY <2>1, FS_Interval
<1>3. Up \subseteq 2..n /\ Down \subseteq 2..n /\ IsFiniteSet(Up) /\ IsFiniteSet(Down)
  <2>1. Up \subseteq 2..n /\ Down \subseteq 2..n
    OBVIOUS
  <2> HIDE DEF Up, Down
  <2> QED
    BY <1>2, <2>1, FS_Subset
<1>4. Up \intersect Down = {}
  <2> SUFFICES ASSUME NEW i \in 2..n, v[i] > v[i - 1], v[i] < v[i - 1] PROVE FALSE
    OBVIOUS
  <2>1. v[i] \in Int /\ v[i - 1] \in Int
    BY <1>0
  <2> QED
    BY <2>1
<1>5. CountUpSteps(v) = 0 => \A j \in 1..n : \A i \in 1..j : v[j] <= v[i]
  <2> SUFFICES ASSUME Cardinality(Up) = 0
               PROVE  \A j \in 1..n : \A i \in 1..j : v[j] <= v[i]
    BY <1>1
  <2>1. Up = {}
    BY <1>3, FS_EmptySet
  <2>2. \A i \in 2..n : ~(v[i] > v[i - 1])
    BY <2>1
  <2> QED
    BY <2>2, NeverRise
<1>6. CountDownSteps(v) = 0 => \A j \in 1..n : \A i \in 1..j : v[i] <= v[j]
  <2> SUFFICES ASSUME Cardinality(Down) = 0
               PROVE  \A j \in 1..n : \A i \in 1..j : v[i] <= v[j]
    BY <1>1
  <2>1. Down = {}
    BY <1>3, FS_EmptySet
  <2>2. \A i \in 2..n : ~(v[i] < v[i - 1])
    BY <2>1
  <2> QED
    BY <2>2, NeverFall
<1>7. Cardinality(Up) + Cardinality(Down) <= n - 1
  <2> HIDE DEF Up, Down
  <2>1. Cardinality(Up \union Down)
          = Cardinality(Up) + Cardinality(Down) - Cardinality(Up \intersect Down)
    BY <1>3, FS_Union
  <2>2. Cardinality(Up \intersect Down) = 0
    BY <1>4, FS_EmptySet
  <2>3. Cardinality(Up \union Down) <= n - 1
    BY <1>2, <1>3, FS_Subset
  <2>4. Cardinality(Up) \in Nat /\ Cardinality(Down) \in Nat
    BY <1>3, FS_CardinalityType
  <2> QED
    BY <2>1, <2>2, <2>3, <2>4
<1>8. Cardinality(Up) \in Nat /\ Cardinality(Down) \in Nat
  BY <1>3, FS_CardinalityType
<1> QED
  BY <1>0, <1>1, <1>5, <1>6, <1>7, <1>8

LEMMA LocationInRange ==
  ASSUME NEW close \in Int, NEW low \in Int, NEW high \in Int, low <= close, close <= high
  PROVE  CloseLocationInRange(close, low, high) \in 0..100
<1>1. CASE high = low
  BY <1>1 DEF CloseLocationInRange
<1>2. CASE high # low
  <2> DEFINE a == 100 * (close - low)
  <2> DEFINE b == high - low
  <2> DEFINE q == a \div b
  <2>1. a \in Int /\ b \in Nat \ {0} /\ 0 <= a /\ a <= 100 * b
    BY <1>2
  <2>2. CloseLocationInRange(close, low, high) = q
    BY <1>2 DEF CloseLocationInRange
  <2> HIDE DEF a, b
  <2>3. q \in Int /\ b * q <= a /\ a < b * q + b
    BY <2>1, DivBounds
  <2> HIDE DEF q
  <2>4. q >= 0
    <3> SUFFICES ASSUME q + 1 <= 0 PROVE FALSE
      BY <2>3
    <3>1. (q + 1) * b <= 0 * b
      BY <2>1, <2>3, TimesMonotonic
    <3>2. (q + 1) * b = b * q + b
      BY <2>1, <2>3
    <3> QED
      BY <2>1, <2>3, <3>1, <3>2
  <2>5. q <= 100
    <3> SUFFICES ASSUME 101 <= q PROVE FALSE
      BY <2>3
    <3>1. 101 * b <= q * b
      BY <2>1, <2>3, TimesMonotonic
    <3>2. q * b = b * q /\ b * q \in Int
      BY <2>1, <2>3
    <3> QED
      BY <2>1, <2>3, <3>1, <3>2
  <2> QED
    BY <2>2, <2>3, <2>4, <2>5
<1> QED
  BY <1>1, <1>2

(* The range of the bars, from the values of their highs and lows. *)
LEMMA RangeOfBars ==
  ASSUME NEW v, NEW n, Values(v, n)
  PROVE  /\ Max(ToSet(v)) \in Int /\ Min(ToSet(v)) \in Int
         /\ \A i \in 1..n : Min(ToSet(v)) <= v[i] /\ v[i] <= Max(ToSet(v))
         /\ \A k \in 1..n : (\A i \in 1..n : v[i] <= v[k]) => Max(ToSet(v)) = v[k]
         /\ \A k \in 1..n : (\A i \in 1..n : v[k] <= v[i]) => Min(ToSet(v)) = v[k]
<1>1. /\ n \in Nat \ {0} /\ \A i \in 1..n : v[i] \in Int
      /\ ToSet(v) = {v[i] : i \in 1..n}
  BY DEF Values, ToSet
<1>2. PICK k \in 1..n : \A i \in 1..n : v[i] <= v[k]
  BY LargestValue
<1>3. PICK l \in 1..n : \A i \in 1..n : v[l] <= v[i]
  BY SmallestValue
<1>4. \E x \in ToSet(v) : \A y \in ToSet(v) : x >= y
  BY <1>1, <1>2
<1>5. \E x \in ToSet(v) : \A y \in ToSet(v) : x <= y
  BY <1>1, <1>3
<1>6. Max(ToSet(v)) \in ToSet(v) /\ \A y \in ToSet(v) : Max(ToSet(v)) >= y
  BY <1>4 DEF Max
<1>7. Min(ToSet(v)) \in ToSet(v) /\ \A y \in ToSet(v) : Min(ToSet(v)) <= y
  BY <1>5 DEF Min
<1>8. PICK i \in 1..n : Max(ToSet(v)) = v[i]
  BY <1>1, <1>6
<1>9. PICK j \in 1..n : Min(ToSet(v)) = v[j]
  BY <1>1, <1>7
<1>10. \A h \in 1..n : v[h] \in ToSet(v)
  BY <1>1
<1>11. \A h \in 1..n : v[h] <= v[i] /\ v[j] <= v[h]
  BY <1>1, <1>6, <1>7, <1>8, <1>9, <1>10
<1>12. ASSUME NEW h \in 1..n, \A g \in 1..n : v[g] <= v[h]
       PROVE  v[i] = v[h]
  BY <1>1, <1>11, <1>12
<1>13. ASSUME NEW h \in 1..n, \A g \in 1..n : v[h] <= v[g]
       PROVE  v[j] = v[h]
  BY <1>1, <1>11, <1>13
<1> QED
  BY <1>1, <1>8, <1>9, <1>11, <1>12, <1>13

LEMMA ColumnValues ==
  ASSUME NEW bars \in Seq(Contexts), Len(bars) >= 1
  PROVE  /\ Values(Highs(bars), Len(bars)) /\ Values(Lows(bars), Len(bars))
         /\ \A i \in 1..Len(bars) :
              /\ Highs(bars)[i] = bars[i].high /\ Lows(bars)[i] = bars[i].low
              /\ {bars[i].low, bars[i].close, bars[i].high} \subseteq Int
              /\ bars[i].low <= bars[i].close /\ bars[i].close <= bars[i].high
<1>1. Len(bars) \in Nat \ {0} /\ DOMAIN bars = 1..Len(bars)
  BY LenProperties
<1>2. ASSUME NEW i \in 1..Len(bars)
      PROVE  /\ bars[i].low \in Int /\ bars[i].close \in Int /\ bars[i].high \in Int
             /\ bars[i].low <= bars[i].close /\ bars[i].close <= bars[i].high
  <2>1. bars[i] \in Contexts
    BY <1>1, ElementOfSeq
  <2> QED
    BY <2>1, InputAssumption
<1>3. /\ Highs(bars) = [i \in 1..Len(bars) |-> bars[i].high]
      /\ Lows(bars) = [i \in 1..Len(bars) |-> bars[i].low]
  BY <1>1 DEF Highs, Lows, Column
<1> QED
  BY <1>1, <1>2, <1>3 DEF Values

LEMMA SummaryTrue ==
  ASSUME NEW bars \in Seq(Contexts), Len(bars) >= 1
  PROVE  LET sum == Summarize(bars)
             last == bars[Len(bars)]
         IN  /\ sum.closeLocation \in 0..100
             /\ sum.higherHighs = 0 => sum.rangeHigh = bars[1].high
             /\ sum.lowerHighs = 0 => sum.rangeHigh = last.high
             /\ sum.higherLows = 0 => sum.rangeLow = last.low
             /\ sum.lowerLows = 0 => sum.rangeLow = bars[1].low
             /\ sum.higherHighs + sum.lowerHighs < sum.count
             /\ sum.higherLows + sum.lowerLows < sum.count
             /\ sum.lowerLows = 0 => last.close >= bars[1].low
<1> DEFINE n == Len(bars)
<1> DEFINE sum == Summarize(bars)
<1> DEFINE highs == Highs(bars)
<1> DEFINE lows == Lows(bars)
<1> DEFINE top == Max(ToSet(highs))
<1> DEFINE bottom == Min(ToSet(lows))
<1>1. /\ sum.count = n /\ sum.rangeHigh = top /\ sum.rangeLow = bottom
      /\ sum.closeLocation = CloseLocationInRange(bars[n].close, bottom, top)
      /\ sum.higherHighs = CountUpSteps(highs) /\ sum.lowerHighs = CountDownSteps(highs)
      /\ sum.higherLows = CountUpSteps(lows) /\ sum.lowerLows = CountDownSteps(lows)
  BY DEF Summarize
<1>2. /\ Values(highs, n) /\ Values(lows, n)
      /\ \A i \in 1..n : /\ highs[i] = bars[i].high /\ lows[i] = bars[i].low
                         /\ {bars[i].low, bars[i].close, bars[i].high} \subseteq Int
                         /\ bars[i].low <= bars[i].close /\ bars[i].close <= bars[i].high
  BY ColumnValues
<1> HIDE DEF n, sum, highs, lows, top, bottom
<1>3. n \in Nat \ {0} /\ 1 \in 1..n /\ n \in 1..n /\ \A i \in 1..n : i \in 1..n /\ 1 \in 1..i
  BY <1>2 DEF Values
<1>4. /\ top \in Int /\ \A i \in 1..n : highs[i] <= top
      /\ \A k \in 1..n : (\A i \in 1..n : highs[i] <= highs[k]) => top = highs[k]
  BY <1>2, RangeOfBars DEF top
<1>5. /\ bottom \in Int /\ \A i \in 1..n : bottom <= lows[i]
      /\ \A k \in 1..n : (\A i \in 1..n : lows[k] <= lows[i]) => bottom = lows[k]
  BY <1>2, RangeOfBars DEF bottom
<1>6. /\ CountUpSteps(highs) = 0 => \A j \in 1..n : \A i \in 1..j : highs[j] <= highs[i]
      /\ CountDownSteps(highs) = 0 => \A j \in 1..n : \A i \in 1..j : highs[i] <= highs[j]
      /\ CountUpSteps(highs) + CountDownSteps(highs) < n
  BY <1>2, StepsCounted
<1>7. /\ CountUpSteps(lows) = 0 => \A j \in 1..n : \A i \in 1..j : lows[j] <= lows[i]
      /\ CountDownSteps(lows) = 0 => \A j \in 1..n : \A i \in 1..j : lows[i] <= lows[j]
      /\ CountUpSteps(lows) + CountDownSteps(lows) < n
  BY <1>2, StepsCounted
<1>8. sum.closeLocation \in 0..100
  <2>1. /\ bars[n].close \in Int /\ bars[n].low \in Int /\ bars[n].high \in Int
        /\ bottom <= bars[n].low /\ bars[n].high <= top
        /\ bars[n].low <= bars[n].close /\ bars[n].close <= bars[n].high
    BY <1>2, <1>3, <1>4, <1>5
  <2>2. bottom <= bars[n].close /\ bars[n].close <= top
    BY <1>4, <1>5, <2>1
  <2>3. top \in Int /\ bottom \in Int
    BY <1>4, <1>5
  <2>4. CloseLocationInRange(bars[n].close, bottom, top) \in 0..100
    BY <2>1, <2>2, <2>3, LocationInRange
  <2>5. sum.closeLocation = CloseLocationInRange(bars[n].close, bottom, top)
    BY <1>1
  <2> QED
    BY <2>4, <2>5
<1>9. sum.higherHighs = 0 => sum.rangeHigh = bars[1].high
  BY <1>1, <1>2, <1>3, <1>4, <1>6
<1>10. sum.lowerHighs = 0 => sum.rangeHigh = bars[n].high
  BY <1>1, <1>2, <1>3, <1>4, <1>6
<1>11. sum.higherLows = 0 => sum.rangeLow = bars[n].low
  BY <1>1, <1>2, <1>3, <1>5, <1>7
<1>12. sum.lowerLows = 0 => sum.rangeLow = bars[1].low
  BY <1>1, <1>2, <1>3, <1>5, <1>7
<1>13. sum.lowerLows = 0 => bars[n].close >= bars[1].low
  <2>1. /\ bars[n].close \in Int /\ bars[n].low \in Int /\ bars[1].low \in Int
        /\ bars[n].low <= bars[n].close /\ lows[n] = bars[n].low /\ lows[1] = bars[1].low
    BY <1>2, <1>3
  <2>2. sum.lowerLows = 0 => bars[1].low <= bars[n].low
    BY <1>1, <1>3, <1>7, <2>1
  <2> QED
    BY <2>1, <2>2
<1> QED
  BY <1>1, <1>6, <1>7, <1>8, <1>9, <1>10, <1>11, <1>12, <1>13 DEF n, sum

-----------------------------------------------------------------------------
(* The steps of the market *)

market == <<history, latest, signal, input>>
MarketInv == MarketRead /\ WindowIsRecent /\ SummaryTellsWindow

LEMMA MarketStays ==
  ASSUME MarketInv, UNCHANGED market
  PROVE  MarketInv'
BY DEF MarketInv, market, MarketRead, WindowIsRecent, SummaryTellsWindow, HasActivePlan

LEMMA HistoryGrows ==
  ASSUME MarketRead, NEW t \in Times, NEW c \in Contexts, history' = Recorded(t, c)
  PROVE  /\ DOMAIN history' = DOMAIN history \union {t}
         /\ IsFiniteSet(DOMAIN history') /\ DOMAIN history' \subseteq Times
         /\ history' \in [DOMAIN history' -> Contexts]
         /\ DOMAIN history' # {}
<1>1. DOMAIN history' = DOMAIN history \union {t}
  BY DEF Recorded
<1>2. IsFiniteSet(DOMAIN history \union {t})
  BY FS_AddElement DEF MarketRead
<1>3. history' \in [DOMAIN history \union {t} -> Contexts]
  BY DEF Recorded, MarketRead
<1> QED
  BY <1>1, <1>2, <1>3 DEF MarketRead

LEMMA RecordStep ==
  ASSUME MarketInv, NEW t \in Times, NEW c \in Contexts, RecordMarketState(t, c)
  PROVE  MarketInv'
<1>1. history' = Recorded(t, c) /\ input = None /\ UNCHANGED <<latest, signal, input>>
  BY DEF RecordMarketState
<1>2. MarketRead'
  BY <1>1, HistoryGrows DEF MarketInv, MarketRead, HasActivePlan
<1> QED
  BY <1>1, <1>2 DEF MarketInv, WindowIsRecent, SummaryTellsWindow

LEMMA ReceiveStep ==
  ASSUME MarketInv, NEW t \in Times, NEW c \in Contexts, NEW s \in Signals,
         ReceiveSignal(t, c, s)
  PROVE  MarketInv'
<1>1. /\ history' = Recorded(t, c) /\ signal = None
      /\ signal' = [asked |-> s, context |-> c] /\ UNCHANGED <<latest, input>>
  BY DEF ReceiveSignal
<1>2. input = None
  BY <1>1 DEF MarketInv, MarketRead
<1>3. MarketRead'
  BY <1>1, <1>2, HistoryGrows DEF MarketInv, MarketRead
<1> QED
  BY <1>1, <1>2, <1>3 DEF MarketInv, WindowIsRecent, SummaryTellsWindow

LEMMA BuildStep ==
  ASSUME MarketInv, BuildPlannerInput
  PROVE  MarketInv'
<1> DEFINE w == RecentTimes(WindowSize)
<1> DEFINE bars == [i \in DOMAIN w |-> history[w[i]]]
<1> DEFINE S == DOMAIN history
<1>1. /\ signal # None /\ UNCHANGED <<history, latest, signal>>
      /\ input' = [times |-> w, bars |-> bars, activePlan |-> HasActivePlan,
                   summary |-> IF bars = << >> THEN EmptySummary ELSE Summarize(bars)]
  BY DEF BuildPlannerInput
<1>2. MarketRead /\ WindowSize \in Nat \ {0}
  BY InputAssumption DEF MarketInv
<1>3. /\ w \in Seq(S) /\ Len(w) = Min({WindowSize, Cardinality(S)})
      /\ Cardinality(S) \in Nat
      /\ DOMAIN w = 1..Len(w)
      /\ \A i, j \in DOMAIN w : i < j => w[i] < w[j]
      /\ \A t \in S \ ToSet(w), u \in ToSet(w) : t < u
  BY <1>2, WindowNewest
<1> HIDE DEF w
<1>4. /\ input'.times = w /\ input'.bars = bars /\ input'.activePlan = HasActivePlan
      /\ input'.summary = IF bars = << >> THEN EmptySummary ELSE Summarize(bars)
  BY <1>1
<1>5. MarketRead'
  BY <1>1, <1>2, <1>4 DEF MarketRead, HasActivePlan
<1>6. WindowIsRecent'
  <2>1. history' = history /\ \A i \in DOMAIN w : bars[i] = history[w[i]]
    BY <1>1
  <2> QED
    BY <1>3, <1>4, <2>1 DEF WindowIsRecent
<1>7. bars \in Seq(Contexts) /\ Len(bars) = Len(w) /\ Len(w) >= 1
  <2>1. \A i \in 1..Len(w) : w[i] \in S
    BY <1>3, ElementOfSeq
  <2>2. \A i \in 1..Len(w) : history[w[i]] \in Contexts
    BY <1>2, <2>1 DEF MarketRead
  <2>3. Len(w) \in Nat
    BY <1>3, LenProperties
  <2>4. bars \in [1..Len(w) -> Contexts]
    BY <1>3, <2>2
  <2>5. bars \in Seq(Contexts) /\ Len(bars) = Len(w)
    BY <2>3, <2>4
  <2>6. Cardinality(S) # 0
    BY <1>1, <1>2, FS_EmptySet DEF MarketRead
  <2>7. Len(w) >= 1
    BY <1>2, <1>3, <2>6, MinOfTwo
  <2> QED
    BY <2>5, <2>7
<1>8. input'.summary = Summarize(bars)
  BY <1>4, <1>7
<1>9. SummaryTellsWindow'
  <2> HIDE DEF bars
  <2> QED
    BY <1>4, <1>7, <1>8, SummaryTrue DEF SummaryTellsWindow
<1> QED
  BY <1>5, <1>6, <1>9 DEF MarketInv

-----------------------------------------------------------------------------
(* The steps of the gate *)

LEMMA GateInit == Init => GateInv
<1> SUFFICES ASSUME Init PROVE GateInv
  OBVIOUS
<1>1. /\ history = << >> /\ signal = None /\ input = None /\ latest \in LatestPlans
      /\ policy = None /\ verdict = None /\ intent = None
      /\ step = "plan" \/ (plan \in Plans /\ step = "evaluate")
  BY DEF Init
<1>2. DOMAIN history = {} /\ history \in [DOMAIN history -> Contexts]
  BY <1>1
<1>3. MarketRead
  BY <1>1, <1>2, FS_EmptySet DEF MarketRead
<1>4. TypeOK /\ PlanHasOrigin /\ VerdictIsGates /\ IntentIsApproved
  BY <1>1 DEF TypeOK, PlanHasOrigin, VerdictIsGates, IntentIsApproved
<1> QED
  BY <1>1, <1>3, <1>4 DEF GateInv, WindowIsRecent, SummaryTellsWindow

LEMMA ReadStep ==
  ASSUME GateInv, ReadMarket
  PROVE  GateInv'
<1>1. step = "plan" /\ UNCHANGED gate
  BY DEF ReadMarket
<1>2. MarketInv
  BY DEF GateInv, MarketInv
<1>3. MarketInv'
  BY <1>2, RecordStep, ReceiveStep, BuildStep DEF ReadMarket
<1>4. (PlanHasOrigin /\ VerdictIsGates /\ IntentIsApproved)'
  BY <1>1 DEF gate, GateInv, PlanHasOrigin, VerdictIsGates, IntentIsApproved
<1>5. TypeOK'
  BY <1>1, <1>3 DEF gate, GateInv, TypeOK, MarketInv, MarketRead
<1> QED
  BY <1>3, <1>4, <1>5 DEF GateInv, MarketInv

LEMMA GenerateStep ==
  ASSUME GateInv, GenerateDeterministicTradePlan
  PROVE  GateInv'
<1>1. /\ step = "plan" /\ step' = "evaluate" /\ input # None
      /\ plan' \in DeterministicPlans(signal, input.activePlan)
      /\ UNCHANGED <<history, latest, signal, input, policy, verdict, intent>>
  BY DEF GenerateDeterministicTradePlan
<1>2. MarketInv'
  BY <1>1, MarketStays DEF GateInv, MarketInv, market
<1>3. PlanHasOrigin'
  <2>1. signal # None /\ input.activePlan = HasActivePlan
    BY <1>1 DEF GateInv, MarketRead
  <2>2. HasActivePlan' = HasActivePlan
    BY <1>1 DEF HasActivePlan
  <2>3. plan' \in DeterministicPlans(signal, HasActivePlan)
    BY <1>1, <2>1
  <2>4. DeterministicPlans(signal, HasActivePlan)' = DeterministicPlans(signal, HasActivePlan)
    BY <1>1, <2>2 DEF DeterministicPlans, EntryZones, ZoneEnds
  <2> QED
    BY <1>1, <2>1, <2>3, <2>4 DEF PlanHasOrigin
<1>4. (TypeOK /\ VerdictIsGates /\ IntentIsApproved)'
  BY <1>1 DEF GateInv, TypeOK, VerdictIsGates, IntentIsApproved
<1> QED
  BY <1>2, <1>3, <1>4 DEF GateInv, MarketInv

LEMMA EvaluateStep ==
  ASSUME GateInv, EvaluateAndRecordVerdict
  PROVE  GateInv'
<1>1. PICK q \in Policies : policy' = q /\ verdict' = Evaluate(plan, q)
  BY DEF EvaluateAndRecordVerdict, RecordRiskVerdict
<1>2. /\ step = "evaluate" /\ step' = "build"
      /\ UNCHANGED <<history, latest, signal, input, plan, intent>>
  BY DEF EvaluateAndRecordVerdict
<1>3. MarketInv'
  BY <1>2, MarketStays DEF GateInv, MarketInv, market
<1>4. PlanHasOrigin'
  BY <1>2 DEF GateInv, PlanHasOrigin, HasActivePlan
<1>5. VerdictIsGates'
  <2>1. policy' \in Policies /\ verdict' = Evaluate(plan', policy')
    BY <1>1, <1>2
  <2> QED
    BY <1>2, <2>1 DEF VerdictIsGates
<1>6. IntentIsApproved'
  BY <1>2 DEF GateInv, IntentIsApproved
<1>7. TypeOK'
  <2>1. WellFormed(plan)
    BY <1>2, PlanAtGate DEF GateInv
  <2>2. verdict' \in Verdicts
    BY <1>1, <2>1, VerdictTyped
  <2> QED
    BY <1>1, <1>2, <2>2 DEF GateInv, TypeOK
<1> QED
  BY <1>3, <1>4, <1>5, <1>6, <1>7 DEF GateInv, MarketInv

LEMMA IntentStep ==
  ASSUME GateInv, MaybeBuildAndRecordIntent
  PROVE  GateInv'
<1>1. /\ step = "build" /\ step' = "done"
      /\ UNCHANGED <<history, latest, signal, input, plan, policy, verdict>>
  BY DEF MaybeBuildAndRecordIntent
<1>2. MarketInv'
  BY <1>1, MarketStays DEF GateInv, MarketInv, market
<1>3. PlanHasOrigin'
  BY <1>1 DEF GateInv, PlanHasOrigin, HasActivePlan
<1>4. VerdictIsGates'
  BY <1>1 DEF GateInv, VerdictIsGates
<1>5. /\ WellFormed(plan) /\ policy \in Policies /\ verdict = Evaluate(plan, policy)
      /\ intent = None
  BY <1>1, PlanAtGate DEF GateInv, VerdictIsGates, IntentIsApproved
<1>6. CASE Buildable(plan, verdict)
  <2>1. PICK price \in IntentPrices(EntryPrice(plan)) :
          intent' = OpenIntent(plan, verdict, price)
    BY <1>6 DEF MaybeBuildAndRecordIntent, RecordExecutionIntent
  <2>2. intent' \in Intents
    BY <1>5, <1>6, <2>1, OpenedIntent
  <2>3. IntentIsApproved'
    BY <1>1, <1>6, <2>1 DEF IntentIsApproved
  <2>4. TypeOK'
    BY <1>1, <2>2 DEF GateInv, TypeOK
  <2> QED
    BY <1>2, <1>3, <1>4, <2>3, <2>4 DEF GateInv, MarketInv
<1>7. CASE ~Buildable(plan, verdict)
  <2>1. intent' = None
    BY <1>5, <1>7 DEF MaybeBuildAndRecordIntent
  <2>2. IntentIsApproved'
    BY <1>1, <1>7, <2>1 DEF IntentIsApproved
  <2>3. TypeOK'
    BY <1>1, <2>1 DEF GateInv, TypeOK
  <2> QED
    BY <1>2, <1>3, <1>4, <2>2, <2>3 DEF GateInv, MarketInv
<1> QED
  BY <1>6, <1>7

LEMMA GateStep == GateInv /\ [Next]_vars => GateInv'
<1> SUFFICES ASSUME GateInv, [Next]_vars PROVE GateInv'
  OBVIOUS
<1>1. CASE ReadMarket
  BY <1>1, ReadStep
<1>2. CASE GenerateDeterministicTradePlan
  BY <1>2, GenerateStep
<1>3. CASE EvaluateAndRecordVerdict
  BY <1>3, EvaluateStep
<1>4. CASE MaybeBuildAndRecordIntent
  BY <1>4, IntentStep
<1>5. CASE UNCHANGED vars
  <2>1. MarketInv'
    BY <1>5, MarketStays DEF GateInv, MarketInv, market, vars
  <2>2. (TypeOK /\ PlanHasOrigin /\ VerdictIsGates /\ IntentIsApproved)'
    BY <1>5 DEF vars, GateInv, TypeOK, PlanHasOrigin, HasActivePlan, VerdictIsGates,
       IntentIsApproved
  <2> QED
    BY <2>1, <2>2 DEF GateInv, MarketInv
<1> QED
  BY <1>1, <1>2, <1>3, <1>4, <1>5 DEF Next

(***************************************************************************)
(* The inductive invariant: the plan has an origin, the verdict is the     *)
(* gate's on it, the intent is what was approved, and the planner's input  *)
(* tells the newest bars.                                                  *)
(***************************************************************************)
THEOREM GateSafe == Spec => []GateInv
BY GateInit, GateStep, PTL DEF Spec

(***************************************************************************)
(* Verdicts, intents and policies are of their kinds, for any plans and    *)
(* policies of the schema and any number of bars.                          *)
(***************************************************************************)
THEOREM GateTyped == Spec => []TypeOK
<1>1. GateInv => TypeOK
  BY DEF GateInv
<1> QED
  BY <1>1, GateSafe, PTL

(***************************************************************************)
(* No opening intent risks more than the policy's share of the equity, up  *)
(* to the rounding of its quantity, for any plan of the model, any policy, *)
(* and any units of price and quantity.                                    *)
(***************************************************************************)
THEOREM RiskStaysWithinPolicy == Spec => []RiskWithinPolicy
BY GateSafe, InvKeepsRisk, PTL

(***************************************************************************)
(* Only an armed setup with an ordered zone opens, under no breached       *)
(* limit, with its stop on the losing side when the zone is wider than a   *)
(* cent.                                                                   *)
(***************************************************************************)
THEOREM OnlySetupsOpen == Spec => []OpensOnlySetups
BY GateSafe, InvOpensSetups, PTL

(***************************************************************************)
(* A tradable signal opens unless the policy blocks it, half an ATR is a   *)
(* cent at most, or its quantity rounds to nothing: the roundings lose it  *)
(* in no other case, at any price.                                         *)
(***************************************************************************)
THEOREM TradableIsNotLost == Spec => []TradableOpens
BY GateSafe, InvOpensTradable, PTL

(***************************************************************************)
(* The deterministic planner and the deterministic reviser agree about     *)
(* every signal and every active plan.                                     *)
(***************************************************************************)
THEOREM PlannersAgree == Spec => []RevisionAgrees
BY GateSafe, InvRevisionAgrees, PTL

(***************************************************************************)
(* However many bars came and in whatever order, the planner sees the      *)
(* newest WindowSize of them, in order.                                    *)
(***************************************************************************)
THEOREM WindowStaysRecent == Spec => []WindowIsRecent
<1>1. GateInv => WindowIsRecent
  BY DEF GateInv
<1> QED
  BY <1>1, GateSafe, PTL

(***************************************************************************)
(* What the summary counts and locates is true of the bars, for any window *)
(* of bars.                                                                *)
(***************************************************************************)
THEOREM SummaryStaysTrue == Spec => []SummaryTellsWindow
<1>1. GateInv => SummaryTellsWindow
  BY DEF GateInv
<1> QED
  BY <1>1, GateSafe, PTL

=============================================================================
