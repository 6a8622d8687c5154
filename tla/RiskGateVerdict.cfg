\* Every combination of a plan and a policy over four prices; a signal among
\* the bars of four times, of which the planner sees three.
SPECIFICATION Spec
CONSTANTS
  None = None
  Times = {1, 2, 3, 4}
  Contexts <- SomeContexts
  Signals <- SomeSignals
  WindowSize = 3
  LatestPlans <- SomeLatestPlans
  Prices = {2, 4, 8, 12}
  Plans <- SomePlans
  Policies <- SomePolicies
  RiskUnit = 400
  QtyScale = 10
  Cent = 4
INVARIANTS RiskWithinPolicy OpensOnlySetups TradableOpens WindowIsRecent SummaryTellsWindow RevisionAgrees
CHECK_DEADLOCK FALSE
