SPECIFICATION Spec
CONSTANTS
  VMs = {a, b}
  Terminals = {t1}
  Port = {1, 2}
  NoPort = NoPort
  NoVM = NoVM
  ListingFails = FALSE
  SyncDies = FALSE
INVARIANTS VerifiedIsClamped TokenVerified HasEgress OwnListOnly DepartedUnserved
PROPERTY NeverUnderSandbox
