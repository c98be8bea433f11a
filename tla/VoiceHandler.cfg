\* A turn of three sentences for one place of synthesis and one of the queue (the
\* emitter holds the first, the queue the second, and the turn waits with the
\* third), a delta and a tool call, through a channel of one event to a client
\* that may stop or go away; deltas, calls and sentences are four at most.
SPECIFICATION HFairSpec
CONSTANTS
  OutCap = 1
  QueueCap = 1
  Concurrency = 1
  MaxDeltas = 1
  MaxCalls = 1
  MaxChunks = 3
  MaxParts = 4
  CtxEnds = {"deadline"}
INVARIANTS EventsInOrder DoneTellsAll
PROPERTIES DoneIsNotDropped ServedTurnEnds
CHECK_DEADLOCK FALSE
