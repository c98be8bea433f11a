\* One run in all detail: several tools per reply, a slow consumer.
SPECIFICATION Spec
CONSTANTS
  Runs = {r1}
  NoRun = NoRun
  MaxTurns = 2
  OutCap = 2
  MaxDeltas = 1
  MaxCalls = 2
  UserEnds = {"canceled", "deadline"}
  HistoryFails = TRUE
INVARIANTS EndsOnceAndLast EventsTellTranscript RecordedIffGood DrainIsTranscript
PROPERTIES FailureIsBlamedOnContext RunnerContract
CHECK_DEADLOCK FALSE
