\* Two requests in flight, redelivery, two workers, locks that expire.
SPECIFICATION Spec
CONSTANTS
  a = a  b = b  c = c  r1 = r1  r2 = r2  hermesA = hermesA  hermesB = hermesB
  None = None
  Payloads <- ThreePayloads
  Signals <- TwoSignals
  Bar <- TwoBars
  Jobs = {2}
  MaxAttempts <- TwoAttempts
  Requests = {r1, r2}
  Holders = {hermesA, hermesB}
  MaxDeliveries = 1
SYMMETRY ActorSymmetry
INVARIANTS AcceptedIsQueued StatusTellsProgress SettledIsShown
CHECK_DEADLOCK FALSE
