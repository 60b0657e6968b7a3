SPECIFICATION RaceSpec
CONSTANTS
  a1 = a1
  a2 = a2
  osv = osv
  migrated = migrated
  npm = npm
  cut = cut
  d1 = d1
  sbom1 = sbom1
  empty = empty
  NoDigest = NoDigest
  Advisory = {a1, a2}
  Source = {osv, migrated}
  NoSource = migrated
  Registry = {npm}
  Limit = {cut}
  Sbom = {empty, sbom1}
  EmptySbom = empty
  Digest = {NoDigest, d1}
  Entry = {}
  NoReport = NoReport
  NoContent = NoContent
  Racer = {r1, r2, r3}
  Written <- EveryWrite
INVARIANTS
  OneRowPerAdvisory
  OrderInsensitive
  LaterOfTwoWins
SYMMETRY RacerSymmetry
CHECK_DEADLOCK FALSE
