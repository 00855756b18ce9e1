SPECIFICATION MCSpec
CONSTANTS
  Files <- MCFiles
  MaxSources = 2
  MaxTracks = 3
  MaxSeeks <- MCMaxSeeks
  Second = 1000
  Forever = 1000000
  Word = 65536
  SizeT = 8
  Uninitialised = 99
INVARIANTS SamplesInOrder SeeksLand FileIsRead StoresAreRight FormatsAreRead
PROPERTY ReadingAdvances
CHECK_DEADLOCK FALSE
