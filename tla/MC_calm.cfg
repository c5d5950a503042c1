SPECIFICATION CalmSpec
CONSTANTS
  Attempts = {a1, a2, a3}
  Executions = {e1}
  HumanRetries = {}
  Bodies = {b1}
  Structures = {"s1", "s2"}
  StructureOf <- SameShape
  Settings = {unset, tuned}
  Unset = unset
  FirstBody = b1
  LossyPersist = FALSE
  MaxVersion = 3
  Proposals = {p1}
  None = None
  ExecOf <- OneExecution
  PatchOf <- TunesNode
  GateSettings = {{"mutation", "retry"}}
  RacyEvidence = FALSE
  SlowAttempts = FALSE
  PageSize = 1
  MaxPages = 3
  MaxListed = 5
  b1 = b1
  b2 = b2
  unset = unset
  tuned = tuned
  e1 = e1
INVARIANT
  LookupTypeOK
PROPERTIES
  LookupImplementsFind
  LeaseIsFreed
  RecoversOrStops
  FoundRetryIsUsed
CHECK_DEADLOCK FALSE
