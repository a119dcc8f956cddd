SPECIFICATION FairSpec
CONSTANTS
  Clients = {d1}
  Endpoints = {e1, e2}
  Nonces = {n1, n2}
  Nowhere = Nowhere
  MaxFaults = 2
INVARIANTS AdmittedOnce ObservedIsRegistered DeletedIsOut
PROPERTY AddressConverges
CHECK_DEADLOCK FALSE
