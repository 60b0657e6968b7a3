SPECIFICATION FairSpec
CONSTANTS
  a1 = a1
  osv = osv
  migrated = migrated
  npm = npm
  cut = cut
  d1 = d1
  sbom1 = sbom1
  empty = empty
  NoDigest = NoDigest
  Advisory = {a1}
  Source = {osv, migrated}
  NoSource = migrated
  Registry = {npm}
  Limit = {cut}
  Sbom = {empty, sbom1}
  EmptySbom = empty
  Digest = {NoDigest, d1}
  NoReport = NoReport
  w1 = w1
  w2 = w2
  Writer = {w1, w2}
  MaxRetries = 1
  MaxEvents = 3
  MaxRevoke = 0
  Entry = {}
  Foreign = {x1}
  Fresh <- BothScans
  Records <- OneRecord
INVARIANTS
  TypeOK
PROPERTIES
  RaceLoserKeepsWinner
  CommitCarriesIntent
  ImplementsLedger
  WriteReturns
CHECK_DEADLOCK FALSE
