SPECIFICATION Spec
CONSTANTS
  Ports <- TwoPorts
  Failures = TRUE
  MaxLaunches = 2
INVARIANTS StoppedWasAsked NothingOutlivesMaster
PROPERTIES StopsObeyed QuickEndsSlowDown
