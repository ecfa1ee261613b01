SPECIFICATION Spec
CONSTANTS
  Keys <- MCKeys
  VMKeys <- MCVMKeys
  Others <- MCOthers
  Words <- MCWords
  Empty = ""
  Unset = "unset"
  Default <- MCDefault
  Environ <- MCEnviron
  HostVar <- MCHostVar
  On = {"yes"}
  Off = {"no", ""}
  Number <- MCNumber
  WellFormed <- MCWellFormed
  Image <- MCImage
  HostWord <- MCHostWord
  Repos = {r1, r2}
  Example <- MCExample
  Mains <- MCMains
  Edits <- MCEdits
  Answers = {"silent", "m1", "m2"}
  Served = {"m1", "m2"}
  HostServices = TRUE
  MountInConfig = TRUE
  ListingFails = FALSE
  MaxEdits = 2
INVARIANT MountKnown
PROPERTIES BuiltIsShown ListFollowsBuilt StartsHooksOff
SYMMETRY SameName
