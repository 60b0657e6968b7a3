SPECIFICATION Spec
CONSTANTS
  a1 = a1
  a2 = a2
  d1 = d1
  d2 = d2
  c1 = c1
  c2 = c2
  Advisory = {a1, a2}
  Digest = {d1, d2}
  NoDigest = NoDigest
  Caller = {c1, c2}
  NoCaller = NoCaller
  Manifest <- TheManifests
  Broken = Broken
  Gone = Gone
  NotLoaded = NotLoaded
  MaxChanges = 3
INVARIANTS
  NilMeansCurrent
  OneManifestPerBatch
PROPERTIES
  GoodStaysServed
SYMMETRY CallerSymmetry
