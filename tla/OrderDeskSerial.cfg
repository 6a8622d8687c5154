\* One request at a time beside the worker, two plan versions, two quantities;
\* two processes die between two statements.
SPECIFICATION Spec
CONSTANTS
  r1 = r1
  Requests = {r1}
  EntryQtys = {1, 2}
  MaxPlans = 2
  MaxCrashes = 2
INVARIANTS TypeOK PositionFollowsFills EventsTellHistory FilledOnce
PROPERTIES TerminalOrdersStay
CHECK_DEADLOCK FALSE
