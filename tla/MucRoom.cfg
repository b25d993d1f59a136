SPECIFICATION RoomFairSpec
CONSTANTS
  Nicks = {"alice", "bob"}
  EmptyNick = TRUE
  Powers = {"none", "owner"}
  MaxQueue = 2
INVARIANTS RoomTypeOK RoomAgrees NoGhosts
PROPERTIES JoinsEnd
