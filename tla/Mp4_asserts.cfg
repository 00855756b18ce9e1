SPECIFICATION Spec
CONSTANTS
  Files <- MCPastTheLast
  MaxSources = 2
  MaxTracks = 3
  MaxSeeks <- MCMaxSeeks
  Second = 1000
  Forever = 1000000
  Word = 65536
  SizeT = 8
  Uninitialised = 99
INVARIANT NoAssertionFails
CHECK_DEADLOCK FALSE
