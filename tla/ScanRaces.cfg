SPECIFICATION ScanSpec
CONSTANTS
  a1 = a1
  osv = osv
  migrated = migrated
  npm = npm
  cut = cut
  empty = empty
  w1 = w1
  w2 = w2
  NoDigest = NoDigest
  Source = {osv, migrated}
  NoSource = migrated
  Osv = osv
  Registry = {npm}
  Limit = {cut}
  CutShort = cut
  Sbom = {empty}
  EmptySbom = empty
  Digest = {NoDigest}
  Entry = {}
  NoReport = NoReport
  Foreign = {}
  Fresh <- AnyReport
  Records <- AnyRecord
  Writer = {w1, w2}
  Advisory = {a1}
  Fetches <- FetchOnly
  MaxEvents = 3
  MaxRetries = 1
  MaxRevoke = 1
  MaxHeld = 1
INVARIANTS
  CursorCovered
  CutShortDisclosed
PROPERTIES
  ScanWithholds
  FirstHoldNeverLater
  UnracedCutStaysNew
SYMMETRY WriterSymmetry
CHECK_DEADLOCK FALSE
