SPECIFICATION MCSpec
CONSTANTS
  CountModulus = 16
  CounterModulus = 16
  Anchors <- MCAnchors
  Files <- MCFiles
  MaxSyncPoints = 3
  TrimmedSyncPoints = 1
  MaxDurations = 1
  DurationToleranceUs = 100
  SeekTimes = {0, 200, 900}
  SeekModes = {"PREVIOUS_SYNC", "NEXT_SYNC"}
  MaxSeeks = 2
INVARIANTS UnitsRead SeeksLandOnSync
PROPERTY FeedsRead
