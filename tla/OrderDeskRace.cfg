\* Two requests and the worker race.
SPECIFICATION Spec
CONSTANTS
  r1 = r1  r2 = r2
  Requests = {r1, r2}
  EntryQtys = {1}
  MaxPlans = 1
  MaxCrashes = 1
SYMMETRY RequestSymmetry
INVARIANTS OneOrderPerIntent OneExitPerOrder
CHECK_DEADLOCK FALSE
