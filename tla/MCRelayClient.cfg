SPECIFICATION ClientFairSpec
CONSTANTS
  Warmers <- OneWarmer
  MaxConns = 2
  InboxLimit = 1
INVARIANTS ClientTypeOK DeadSlotExplained
PROPERTIES LossDetected NothingLingers
CHECK_DEADLOCK FALSE
