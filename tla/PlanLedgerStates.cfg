\* One worker, an armed plan and then a weak signal.
SPECIFICATION Spec
CONSTANTS
  s1 = s1  s2 = s2  hermesA = hermesA  hermesB = hermesB
  None = None
  Jobs <- TwoSignals
  Holders = {hermesA}
  MaxAttempts <- TwoAttempts
  Strong <- OneStrong
  MaxCrashes = 0
  Planner = "deterministic"
  Proposable = {}
INVARIANTS PlanStatesLegal
CHECK_DEADLOCK FALSE
