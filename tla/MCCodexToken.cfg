\* Four calls share a login, two crashes, and answers that get lost.
SPECIFICATION FairSpec
CONSTANTS
  Calls = {c1, c2, c3, c4}
  NoCall = NoCall
  MaxLogins = 4
  MaxCrashes = 2
INVARIANTS LoginSurvives MemoryIsCurrent UnsavedIsReported
PROPERTIES TokenReturns
CHECK_DEADLOCK FALSE
