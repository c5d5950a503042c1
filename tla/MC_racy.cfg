SPECIFICATION Spec
CONSTANTS
  Attempts = {a1, a2}
  Executions = {e1}
  HumanRetries = {}
  Bodies = {b1, b2}
  Structures = {"s1", "s2"}
  StructureOf <- OtherShape
  Settings = {unset, tuned}
  Unset = unset
  FirstBody = b1
  LossyPersist = FALSE
  MaxVersion = 1
  Proposals = {p1}
  None = None
  ExecOf <- OneExecution
  PatchOf <- TunesNode
  GateSettings = {{"mutation", "retry"}}
  RacyEvidence = TRUE
  SlowAttempts = FALSE
  b1 = b1
  b2 = b2
  unset = unset
  tuned = tuned
  e1 = e1
SYMMETRY AnyCall
INVARIANTS
  WritesAreApproved
CHECK_DEADLOCK FALSE
