SPECIFICATION Spec
CONSTANTS
  Proposals = {p1, p2}
  Snapshots = {s1, s2}
  None = None
  Threads = {t1}
  RacyEvidence = FALSE
  SavesMayFail = FALSE
  SplitInstances = FALSE
SYMMETRY Interchangeable
INVARIANTS
  ReadsAreAllowed
  CachesMatchStore
  ApprovalIsForLastDryRun
PROPERTIES
  ImplementsEvidence
