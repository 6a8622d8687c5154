----------------------------- MODULE MCRiskGate ------------------------------
(***************************************************************************)
(* Every plan and policy over a few prices, risks and limits; three market *)
(* contexts and signals on both sides of every test of the deterministic   *)
(* planner.                                                                *)
(***************************************************************************)
EXTENDS RiskGate

CONSTANT Prices  \* ticks

SomePlans ==
  [action : {"create", "patch", "keep"}, state : {"watch", "armed", "pending_entry"},
   bias : {"long", "short", "neutral"}, low : Prices \union {None},
   high : Prices \union {None}, riskPct : {0, 3, 8}]

(* At most one limit is breached. *)
SomePolicies ==
  {[equity |-> e, maxRiskPct |-> r, maxNotional |-> 8, dailyLoss |-> l = "daily",
    lossStreak |-> l = "streak", leverage |-> l = "leverage", killSwitch |-> l = "kill"] :
     e \in {0, 300}, r \in {2, 4}, l \in {"none", "daily", "streak", "leverage", "kill"}}

Bar(low, close, high, ema20, ema50, ema100, atr, momentum, osc) ==
  [low |-> low, close |-> close, high |-> high, ema20 |-> ema20, ema50 |-> ema50,
   ema100 |-> ema100, ema200 |-> 8, atr |-> atr, momentum |-> momentum, osc |-> osc]

SomeContexts ==
  {Bar(8, 16, 20, 14, 12, 10, 16, "bull", "bull"),
   Bar(4, 6, 16, 4, 6, 8, 6, "bear", "neutral"),
   Bar(10, 10, 10, 9, 12, 11, 10, "neutral", "bear")}

Ask(direction, alignment, rank, gain, pain) ==
  [direction |-> direction, alignment |-> alignment, rank |-> rank, gain |-> gain,
   pain |-> pain]

SomeSignals ==
  {Ask("long", "align", 4, 4, 2), Ask("short", "align", 3, 3, 2),
   Ask("long", "align", 2, 4, 2), Ask("short", "counter", 4, 4, 2),
   Ask("long", "align", 4, 2, 2)}

Latest(state, bias) == [state |-> state, bias |-> bias]

SomeLatestPlans ==
  {None, Latest("armed", "long"), Latest("watch", "short"), Latest("watch", "neutral"),
   Latest("expired", "long")}
=============================================================================
