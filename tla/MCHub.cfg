SPECIFICATION HubFairSpec
CONSTANTS
  Devices <- OneDevice
  MaxUnsent = 1
  Networks <- OneNetwork
  Sockets <- ThreeSockets
  NoSocket = NoSocket
  MaxWs = 2
INVARIANTS SocketsCounted RegistryExplained OnlineIsSeen
PROPERTY KickedEnds
CHECK_DEADLOCK FALSE
