SPECIFICATION Spec
CONSTANTS
  Enough = 4
  MaxLoss = 1
  Translated = {"a", "b"}
  Peers = {"p", "q"}
  Lifetimes = {30, 600}
  MaxTries = 2
  MaxFaults = 1
  MaxChannels = 2
  MaxPending = 2
  MaxNet = 2
INVARIANTS BeliefsHold AttemptsSucceed
PROPERTIES ImplementsPhase Settles
CHECK_DEADLOCK FALSE
