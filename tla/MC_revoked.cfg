SPECIFICATION Spec
CONSTANTS
  Proposals = {p1}
  Snapshots = {s1, s2}
  None = None
  Threads = {t1}
  RacyEvidence = TRUE
  SavesMayFail = FALSE
  SplitInstances = TRUE
SYMMETRY Interchangeable
INVARIANTS
  RevokedIsNotShown
