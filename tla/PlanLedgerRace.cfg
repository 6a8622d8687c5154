\* Two workers race on two signals; the model's answers arm and end plans.
SPECIFICATION Spec
CONSTANTS
  s1 = s1  s2 = s2  hermesA = hermesA  hermesB = hermesB
  None = None
  Jobs <- TwoSignals
  Holders = {hermesA, hermesB}
  MaxAttempts <- TwoAndOneAttempts
  Strong <- OneStrong
  MaxCrashes = 1
  Planner = "openai"
  Proposable <- ArmOrEnd
SYMMETRY WorkerSymmetry
INVARIANTS TypeOK VersionsContiguous SuccessExplained AuditComplete RepeatsCharged OneThesis
CHECK_DEADLOCK FALSE
