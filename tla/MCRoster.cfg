SPECIFICATION RosterFairSpec
CONSTANTS
  Networks <- OneNetwork
  Peers <- OnePeer
  Refreshers <- OneRefresher
  Calls <- TwoCalls
  NoTask = NoTask
  MaxChanges = 2
  MaxFailures = 1
INVARIANTS RosterTypeOK DroppedWasLeft
PROPERTIES NeverOlderPeers PeersConverge LeftIsDroppedOnReconnect
CHECK_DEADLOCK FALSE
