SPECIFICATION Spec
CONSTANTS
  a = a
  b = b
  blank = blank
  good = good
  bad = bad
  Sandboxes = {a, b}
  Ports = {p1}
  Bodies = {blank, good, bad}
  Blank = blank
  Versions = {v1, v2, v3}
  Stock = Stock
  Refused = {bad, v3}
  Seed <- MCSeed
  Template = Template
  Access = Access
  Conf = Conf
  Rank <- MCRank
  Absent = Absent
  NoPort = NoPort
  Nothing = Nothing
  Down = Down
  Interrupts = TRUE
  CatLies = FALSE
  MaxEdits = 3
INVARIANTS ReportsHold RejectedRestores
PROPERTY KeepsServing
