SPECIFICATION GroupSpec
CONSTANTS
  node = node
  uv = uv
  onUv = onUv
  onEither = onEither
  api = api
  pypi = pypi
  cdn = cdn
  own = own
  nolist = nolist
  Features = {node, uv}
  Labels = {onUv, onEither}
  Needs <- MCNeeds
  Entries = {api, pypi, cdn, own}
  Added = {own, pypi}
  Templates <- ShippedTemplates
  NoList <- MCNoList
  MaxEdits = 2
  MaxLines = 12
INVARIANTS GroupTypeOK SeedAgrees OffMeansGone Idempotent
PROPERTY PersonsKept
