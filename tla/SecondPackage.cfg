SPECIFICATION Spec
CONSTANTS
  stdlib = stdlib
  net = net
  http = http
  npm = npm
  npm2 = npm2
  Package = {stdlib, net, http}
  Toolchain = stdlib
  Coordinate = {}
  Version = {1, 2, 3}
  Advisory <- TheAdvisories
  NoPackage = NoPackage
  Owned <- TheOwned
  Bounds = {"exact", "minimum", "none"}
  Manifests = {"full"}
INVARIANT EveryCarriedClear
CHECK_DEADLOCK FALSE
