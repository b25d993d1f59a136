SPECIFICATION WindowSpec
CONSTANTS
  Nicks = {"alice", "bob"}
  EmptyNick = TRUE
  Powers = {"none"}
  MaxQueue = 3
  MaxLogoutClicks = 2
  Streams = {"radio-t", "roks"}
  Default = "radio-t"
  Playlists = {"radio-t"}
  MaxReplies = 2
  MaxWorkers = 2
  MaxClosers = 1
INVARIANTS WindowTypeOK WindowAgrees DeviceHasOwner DisplayAgrees OneSource
PROPERTIES UserServed PlayerReturns
