SPECIFICATION MCSpec
CONSTANTS
  r1 = r1
  NULL = NULL
  NumSources = 2
  MaxFrames = 2
  kMaxQueueSize = 2
  MaxPosts = 5
INVARIANTS OnceInOrder NoUseAfterFree BookkeepingMatches UnitsAreWritten
PROPERTIES NotifiedIsHandled ReaderReturns SourcesEnd
CHECK_DEADLOCK FALSE
