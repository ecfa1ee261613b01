SPECIFICATION Spec
CONSTANTS
  base = base
  d = d
  sub = sub
  VMs = {a, b}
  Terminals = {t1}
  Domains = {base, d, sub}
  Template = {base}
  Refused <- MCRefused
  nofile = nofile
  Absent <- MCAbsent
  Down = Down
  NoVM = NoVM
  MaxChanges = 3
INVARIANTS ListComplete ReportedServed
PROPERTIES AppendKeeps RefusalUndone
