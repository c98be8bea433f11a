\* Three calls of Lock on two session ids, with Forget.
SPECIFICATION FairSpec
CONSTANTS
  Calls = {c1, c2, c3}
  Ids = {s1, s2}
  NoMutex = NoMutex
INVARIANTS MutualExclusion LockedIffOwned
PROPERTIES LockAnswers LockerContract
CHECK_DEADLOCK FALSE
