SPECIFICATION Spec
CONSTANTS
  ElementCapacity = 3
  Tracks <- MCTracks
  Source <- MCSource
  Scale <- MCScale
  SecondUs = 3
  MaxCtts = 3
  Codec <- MCCodec
  Csd <- MCCsd
  Confs <- MCConfs
  CanFail = {"audio"}
INVARIANTS SamplesWhereTablesSay TimesAreTrue FileWellFormed CallsReturn
CHECK_DEADLOCK FALSE
