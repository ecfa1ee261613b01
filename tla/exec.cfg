SPECIFICATION FairSpec
CONSTANTS
  NL = NL
  Glyph <- MCGlyph
  RawLimit = 1
  Hosts <- MCHosts
  Prints <- MCPrints
  Complains <- MCComplains
  Cap = 1
  MaxSession = 2
  MaxClock = 2
  MaxCommands = 3
CHECK_DEADLOCK FALSE
INVARIANTS OkMeansWhole LeftByFailed ShownAndReplayed
PROPERTIES SessionKept Returns
