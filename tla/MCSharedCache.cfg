CONSTANTS
  c1 = c1
  c2 = c2
  f1 = f1
  f2 = f2
  m1 = m1
  m2 = m2
  m3 = m3
  a1 = a1
  a2 = a2
  Client = {c1, c2}
  NoClient = NoClient
  Fingerprint = {f1, f2}
  Result = {m1, m2, m3}
  None = None
  FingerprintOf <- Fingerprints
  Artifact = {a1, a2}
  ArtifactOf <- Artifacts
  Budget = 4
  Band = 1
  MaxOperations = 3
  MaxFaults = 1
SPECIFICATION CacheSpec
SYMMETRY Symmetry
INVARIANTS CacheIsConsistent NoCircularWait
PROPERTY WholeResultsStay
CHECK_DEADLOCK FALSE
