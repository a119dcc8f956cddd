SPECIFICATION FairSpec
CONSTANTS
  Policies <- FreeAndPins
  Endpoints <- TwoEndpoints
  NoEndpoint = NoEndpoint
  Conns <- OneConn
  NoConn = NoConn
  DeadAfter = 1
  MaxChanges = 2
INVARIANT UdpMeansPong
PROPERTIES NoPullUnderRelayPin Recovers FindsDirect
CHECK_DEADLOCK FALSE
