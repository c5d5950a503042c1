SPECIFICATION Spec
CONSTANTS
  Proposals = {p1}
  Snapshots = {s1, s2}
  None = None
  Threads = {t1, t2}
  RacyEvidence = TRUE
  SavesMayFail = TRUE
  SplitInstances = TRUE
SYMMETRY Interchangeable
INVARIANTS
  TypeOK
  ReadsAreAllowed
  HandedOutIsDurable
PROPERTIES
  ImplementsEvidence
