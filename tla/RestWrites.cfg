SPECIFICATION Spec
CONSTANTS
  a1 = a1
  osv = osv
  migrated = migrated
  npm = npm
  cut = cut
  sbom1 = sbom1
  empty = empty
  NoDigest = NoDigest
  Advisory = {a1}
  Source = {osv, migrated}
  NoSource = migrated
  Registry = {npm}
  Limit = {cut}
  Sbom = {empty, sbom1}
  EmptySbom = empty
  Digest = {NoDigest}
  NoReport = NoReport
  w1 = w1
  w2 = w2
  Writer = {w1, w2}
  MaxRetries = 1
  MaxEvents = 5
  MaxRevoke = 0
  Entry = {}
  Foreign = {}
  Fresh <- OneScan
  Records = {}
  Hooks = {FALSE}
INVARIANTS
  AcknowledgedStays
PROPERTIES
  ImplementsStore
CHECK_DEADLOCK FALSE
SYMMETRY WriterSymmetry
