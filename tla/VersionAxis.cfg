SPECIFICATION Spec
CONSTANTS
  stdlib = stdlib
  net = net
  http = http
  npm = npm
  npm2 = npm2
  Package = {stdlib, net, http, npm, npm2}
  Toolchain = stdlib
  Coordinate = {npm, npm2}
  Version = {1, 2, 3}
  Advisory <- TheAdvisories
  NoPackage = NoPackage
  Owned <- TheOwned
  Bounds = {"exact", "minimum", "none"}
  Manifests = {"full", "pruned", "unread"}
INVARIANTS
  ClearedMeansClear
  AffectedPathCounts
CHECK_DEADLOCK FALSE
