\* The worker records two plans that both begin with version 1.
SPECIFICATION Spec
CONSTANTS
  r1 = r1
  Requests = {r1}
  EntryQtys = {1}
  MaxPlans = 2
  MaxCrashes = 0
INVARIANTS ClientIdsUnique
CHECK_DEADLOCK FALSE
