\* The context ends while the stream is read.
SPECIFICATION Spec
CONSTANTS
  OutCap = 2
  HttpAttempts = 2
  Indexes = {1, 2}
  Chunks <- SomeChunks
  MaxChunks = 2
  CtxEnds = {"canceled"}
INVARIANTS OnlyWholeAnswers
CHECK_DEADLOCK FALSE
