SPECIFICATION MCSpec
CONSTANTS
  t1 = t1
  t2 = t2
  creator = creator
  va = va
  vb = vb
  vs = vs
  p1 = p1
  p2 = p2
  c1 = c1
  NoOwner = NoOwner
  NoBuffer = NoBuffer
  None = None
  Sharers <- MCHolders
  Creator = creator
  InitialStrong = 20
  MaxHeld = 1
  Origins <- MCOrigins
  Pooled <- MCPooled
  Private <- MCPrivate
  MaxRefs = 2
  Threads <- MCThreads
  Plain <- MCPlain
  Sorted <- MCSorted
  SharedBuffers <- MCBuffers
  Items <- MCItems
  Arrays <- MCArrays
  Beginnings <- MCBeginnings
  kMinVectorCapacity = 2
  MaxSize = 3
  MaxOps = 3
INVARIANTS CountsAgree ChangesAlone StorageIsRight ReferencesAreRight GroupIsRight
PROPERTIES Implements AcquiredIsAlone
SYMMETRY MCSym
CHECK_DEADLOCK FALSE
