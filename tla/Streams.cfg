SPECIFICATION Spec
CONSTANTS
  MaxBlocks = 3
  SeqModulus = 2
  MaxDirect = 1
  Methods = {"ibb", "socks", "none"}
  MayDisturb = TRUE
  Cycle = 4
  Minimum = 2
  Maximum = 3
  Tones = {"1"}
  MaxTones = 2
  MaxLate = 1
  MaxLosses = 1
  PacketMax = 2
  MaxSize = 5
  MaxFrames = 3
  MaxUnderway = 2
  MaxMishaps = 2
INVARIANTS FileIntact TypesAgree MediaWhole
PROPERTIES KeepsPromise StreamsSettle
CHECK_DEADLOCK FALSE
