SPECIFICATION FairSpec
CONSTANTS
  Conns <- TwoConns
  NoFlow = NoFlow
  MaxOpens = 2
  MaxWrites = 2
  MaxReplies = 2
INVARIANTS DataInOrder OneDialAtATime
PROPERTIES DialEnds PipeSpec
CHECK_DEADLOCK FALSE
