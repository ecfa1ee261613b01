SPECIFICATION Spec
CONSTANTS
  Keys <- MCKeys
  VMKeys <- MCVMKeys
  Others <- MCOthers
  Words <- MCWords
  Empty = ""
  Unset = "unset"
  Default <- MCDefault
  Environ <- MCEnviron
  HostVar <- MCHostVar
  On = {"yes"}
  Off = {"no", ""}
  Number <- MCNumber
  WellFormed <- MCWellFormed
  Image <- MCImage
  HostWord <- MCHostWord
  Example <- MCExample
  Hosts <- MCHosts
  Invocations <- MCInvocations
  Found <- MCFound
  Edits <- MCEdits
  SameSecond = FALSE
  MaxRuns = 2
  MaxEdits = 1
  MaxActs = 2
INVARIANTS Recoverable CompleteIsSo
PROPERTY SettingsKept
CHECK_DEADLOCK FALSE
