\* Two jobs of different priority, two workers with distinct ids; j2 has one
\* attempt and no handler.
SPECIFICATION FairSpec
CONSTANTS
  j1 = j1  j2 = j2  w1 = w1  w2 = w2  hermesA = hermesA  hermesB = hermesB
  None = None
  Jobs <- TwoJobs
  Workers <- TwoWorkers
  Ids = {hermesA, hermesB}
  WorkerId <- DistinctWorkerId
  Accepts <- AcceptSplit
  Handled <- OneJob
  Priority <- ReplayLast
  MaxAttempts <- OneAndTwoAttempts
  LockTtl = 1
  RetryBase = 1
  RetryMax = 2
INVARIANTS TypeOK LockConsistent AttemptsAccounted FencedOwnership LeaseExclusive
PROPERTIES SettledIsFinal ImplementsLifecycle EventuallySettled
