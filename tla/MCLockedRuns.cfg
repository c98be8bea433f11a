\* Two runs on one session.
SPECIFICATION LockedFairSpec
CONSTANTS
  Runs = {r1, r2}
  Calls = {r1, r2}
  Session = s1
  Ids = {s1}
  NoMutex = NoMutex
  NoRun = NoRun
  MaxTurns = 1
  OutCap = 1
  MaxDeltas = 0
  MaxCalls = 0
  UserEnds = {}
  HistoryFails = FALSE
INVARIANTS NoStaleAppend
PROPERTIES RunsAreLocked RunsAreSerial RunEnds
CHECK_DEADLOCK FALSE
