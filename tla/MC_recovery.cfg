SPECIFICATION Spec
CONSTANTS
  Attempts = {a1, a2, a3}
  Executions = {e1}
  HumanRetries = {h1}
  Bodies = {b1}
  Structures = {"s1", "s2"}
  StructureOf <- SameShape
  Settings = {unset, tuned}
  Unset = unset
  FirstBody = b1
  LossyPersist = FALSE
  MaxVersion = 0
  Proposals = {p1}
  None = None
  ExecOf <- OneExecution
  PatchOf <- TunesNode
  GateSettings = {{"mutation", "retry"}}
  RacyEvidence = FALSE
  SlowAttempts = FALSE
  b1 = b1
  b2 = b2
  unset = unset
  tuned = tuned
  e1 = e1
SYMMETRY AnyCall
INVARIANTS
  SingleAttempt
  RetryRunsApprovedDefinition
PROPERTIES
  KeepsPromise
CHECK_DEADLOCK FALSE
