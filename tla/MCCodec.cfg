SPECIFICATION Spec
CONSTANTS
  Window <- SmallWindow
  Generations <- FewGenerations
  Nothing = Nothing
  MaxBoots = 3
  MaxSends = 4
  MaxTaken = 5
  MaxRenewals = 1
INVARIANTS FreshAccepted LossNotOverstated
PROPERTY ChannelSpec
CHECK_DEADLOCK FALSE
