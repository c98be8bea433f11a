\* Two streams at most, each after two requests at most, with every mix of three
\* chunks, two tool calls in fragments, and a channel of two events, which what
\* follows an error just fills.
SPECIFICATION RFairSpec
CONSTANTS
  OutCap = 2
  HttpAttempts = 2
  MaxAttempts = 2
  Indexes = {1, 2}
  Chunks <- SomeChunks
  MaxChunks = 3
  CtxEnds = {"canceled"}
INVARIANTS CollectIsWhole
PROPERTIES StreamIsOrderly NothingIsRetriedInVain RetryReturns
CHECK_DEADLOCK FALSE
