SPECIFICATION RouteSpec
CONSTANTS
  Attempts = {a1, a2}
  Executions = {e1}
  HumanRetries = {}
  Bodies = {b1}
  Structures = {"s1", "s2"}
  StructureOf <- SameShape
  Settings = {unset, tuned}
  Unset = unset
  FirstBody = b1
  LossyPersist = TRUE
  MaxVersion = 1
  Proposals = {p1}
  None = None
  ExecOf <- OneExecution
  PatchOf <- TunesNode
  GateSettings = {{"mutation", "retry"}, {"mutation"}}
  RacyEvidence = FALSE
  SlowAttempts = TRUE
  b1 = b1
  b2 = b2
  unset = unset
  tuned = tuned
  e1 = e1
SYMMETRY AnyCall
INVARIANTS
  TypeOK
  AtMostOneRetry
  RecordedFirst
  RefusalMeansUntouched
PROPERTIES
  ClosedGateMeansNoRequest
  StageNeverRegresses
CHECK_DEADLOCK FALSE
