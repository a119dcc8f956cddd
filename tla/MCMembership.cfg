SPECIFICATION Spec
CONSTANTS
  n1 = n1
  n2 = n2
  d1 = d1
  d2 = d2
  d3 = d3
  Networks = {n1, n2}
  Devices = {d1, d2, d3}
  Tokens = {t1}
  Requested <- MCRequested
  Wanted = {5, 7}
  NoAddr = NoAddr
  Managed = {d1}
  Uses = {1, 3}
  MaxInFlight = 1
SYMMETRY Symmetry
INVARIANTS MembershipsValid UsesAreAdmissions
PROPERTY LastMembershipKept
