\* One call of each client: three attempts of a request, an answer of three
\* events on a channel of one, a code that lives for six units of time and is
\* asked for every two, three callers of the test double for two scripts.
SPECIFICATION CallsFairSpec
CONSTANTS
  HttpAttempts = 3
  Statuses = {200, 202, 302, 400, 401, 402, 403, 404, 408, 429, 500}
  CtxEnds = {"canceled"}
  OutCap = 1
  MaxSaid = 3
  Interval = 2
  ExpiresAt = 6
  MaxDelay = 1
  Answers <- SomeAnswers
  Aspects <- SomeAspects
  RefSizes = {2}
  MaxRefs = 1
  Budget = 2
  MaxImages = 2
  Questions = {"q1", "q2"}
  Callers = {1, 2, 3}
  Scripts <- SomeScripts
  MaxScripts = 1
  Endpoints = {"images", "speech"}
  StubCtxEnds = {"canceled"}
INVARIANTS CompleteIsWhole LoginIsTimely JobIsNotLost AnswersAreComplete FrameFits
PROPERTIES CallReturns StreamContract
CHECK_DEADLOCK FALSE
