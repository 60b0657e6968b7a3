SPECIFICATION CleanupSpec
CONSTANTS
  none = none
  npm = npm
  empty = empty
  w1 = w1
  w2 = w2
  NoDigest = NoDigest
  Advisory = {}
  Source = {none}
  NoSource = none
  Registry = {}
  Limit = {}
  Sbom = {empty}
  EmptySbom = empty
  Digest = {NoDigest}
  Entry = {}
  NoReport = NoReport
  Foreign = {}
  Fresh = {}
  Records = {}
  Writer = {w1, w2}
  Linked = {w1, w2}
  MaxAnswers = 4
  MaxEvents = 7
  MaxRetries = 1
  MaxRevoke = 4
INVARIANTS
  TwoRevokesBehindLadder
PROPERTIES
  StreakBrokenOnlyByActive
  RefOutlivesFile
SYMMETRY RunSymmetry
CHECK_DEADLOCK FALSE
