SPECIFICATION Spec
CONSTANTS
  Handlers <- ThreeHandlers
  Devices <- OneDevice
  NoHandler = NoHandler
  Queue = 1
  MaxPerIp = 2
  MaxTotal = 2
  Modulus = 4
INVARIANTS AdmissionsGivenBack OverIsUnlisted
CHECK_DEADLOCK FALSE
