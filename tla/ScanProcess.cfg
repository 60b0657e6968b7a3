SPECIFICATION Spec
CONSTANTS
  a = a
  b = b
  c = c
  osv = osv
  migrated = migrated
  local = local
  comment = comment
  Advisory = {a, b, c}
  Source = {osv, migrated}
  NoSource = migrated
  Work <- TwoKeys
  Baselines <- SomeBaselines
  Gaps <- SomeGaps
  Sinks <- SinkList
  BestEffort = {comment}
  Idle = Idle
  MaxSignals = 2
  MaxSbom = 2
INVARIANTS
  RefutationsEarned
  EveryAdvisoryAnswered
  CutCountTrue
  TruncationSaid
  OutageContained
PROPERTIES
  UnracedSbomKept
  StoppedScanEnds
CHECK_DEADLOCK FALSE
