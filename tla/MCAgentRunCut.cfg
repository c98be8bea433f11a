\* A reply cut short by the LLMCallTimeout is recorded.
SPECIFICATION Spec
CONSTANTS
  Runs = {r1}
  NoRun = NoRun
  MaxTurns = 1
  OutCap = 16
  MaxDeltas = 1
  MaxCalls = 1
  UserEnds = {"canceled"}
  HistoryFails = FALSE
INVARIANTS OnlyWholeReplies
CHECK_DEADLOCK FALSE
