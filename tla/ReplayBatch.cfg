\* Two batches one after the other, a Hermes worker beside them, one crash.
SPECIFICATION Spec
CONSTANTS
  btc = btc  aapl = aapl
  None = None
  Jobs <- ReplayJobs
  MaxAttempts <- Attempts
  Holders = {"batch", "hermes"}
  MaxBatches = 2
  FixturesOf <- TwoLists
  MarketOf <- Markets
  TimeframeOf <- Timeframes
  Model <- TwoModels
  Accepts <- AcceptedMarkets
  Answers <- TwoAnswers
  MaxIdleRuns = 3
  RateUnit = 2
  MaxCrashes = 1
INVARIANTS TypeOK ReportHolds ResultsTraced ComparisonWhole
PROPERTIES UntriedOnlyAfterAllPolls
CHECK_DEADLOCK FALSE
