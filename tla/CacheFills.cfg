SPECIFICATION FairSpec
CONSTANTS
  r1 = r1
  r2 = r2
  open = open
  priv = priv
  w1 = w1
  w2 = w2
  w3 = w3
  Run = {r1, r2}
  Worker = {w1, w2, w3}
  Pin = {open, priv}
  RunOf <- TheRunOf
  PinOf <- ThePinOf
  Credentialed = {w2}
  Fetching = {r1, r2}
  Split = TRUE
  Seeds <- TheSeeds
  AcquireWorkers = 1
  MaxFetchAttempts = 2
  MaxCrashes = 1
INVARIANTS
  CredentialedGone
  VerifiedStays
  EvidenceKept
PROPERTIES
  BadNeverPublished
  EveryPinAnswered
CHECK_DEADLOCK FALSE
