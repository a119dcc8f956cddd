\* Two configurations published at most, two concurrent fetches.
SPECIFICATION FairSpec
CONSTANTS
  HotVals <- OneHot
  DefaultHot = "h0"
  BootVals <- GoodAndBad
  DefaultBoot = "b0"
  Broken <- Bad
  Unmanaged = Unmanaged
  NoAnchor = NoAnchor
  Tasks <- TwoTasks
  MaxPuts = 2
  MaxFaults = 1
INVARIANTS AnchorVerified ConvergedBoot
PROPERTY Converges
CHECK_DEADLOCK FALSE
