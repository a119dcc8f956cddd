SPECIFICATION ClientSpec
CONSTANTS
  Warmers <- OneWarmer
  MaxConns = 2
  InboxLimit = 1
CHECK_DEADLOCK FALSE
INVARIANT SlotIsHeard
