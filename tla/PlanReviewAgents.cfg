\* Two workers on a review, its curation (two attempts) and a revision.
SPECIFICATION Spec
CONSTANTS
  rev = rev  cur = cur  sug = sug  hermesA = hermesA  hermesB = hermesB
  None = None
  Jobs <- AllJobs
  Kind <- AllKinds
  MaxAttempts <- CurationTwice
  Holders = {hermesA, hermesB}
  MaxItems = 2
  MaxPlans = 1
SYMMETRY WorkerSymmetry
INVARIANTS CompletedIsWhole AttemptsTraced HalfDoneIsShown DuplicatesCharged
CHECK_DEADLOCK FALSE
