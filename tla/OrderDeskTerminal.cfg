\* Two reconcile requests race on one order.
SPECIFICATION Spec
CONSTANTS
  r1 = r1  r2 = r2
  Requests = {r1, r2}
  EntryQtys = {1}
  MaxPlans = 1
  MaxCrashes = 0
PROPERTIES TerminalOrdersStay
CHECK_DEADLOCK FALSE
