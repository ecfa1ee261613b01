SPECIFICATION Spec
CONSTANTS
  VMs = {a, b, c}
  Terminals = {t1}
  PortMin = 1
  PortMax = 2
  NoPort = NoPort
  Torn = Torn
  NoVM = NoVM
  ListingFails = FALSE
INVARIANTS DistinctIdentity RecordAgrees
PROPERTY KeepsSlot
