SPECIFICATION FairSpec
CONSTANTS
  c1 = c1
  c2 = c2
  e1 = e1
  e2 = e2
  v1 = v1
  v2 = v2
  Caller = {c1, c2}
  Key = {"callgraph"}
  KeyOf <- TheKeys
  NoCall = NoCall
  Entry = {e1, e2}
  Size <- TheSizes
  Cap = 3
  Worker = {v1, v2}
  NoEntry = NoEntry
INVARIANTS
  RunOnce
  CapHolds
  SharedGraphWhole
PROPERTIES
  FailureNotInherited
  EveryCallerReturns
CHECK_DEADLOCK FALSE
