SPECIFICATION Spec
CONSTANTS
  creator = creator
  other = other
  third = third
  Threads <- MCThreads3
  Creator = creator
  InitialStrong = 20
  MaxHeld = 1
  Beginnings <- MCBothFromRaw
INVARIANT NoUnderflow
CHECK_DEADLOCK FALSE
SYMMETRY Others
