SPECIFICATION Spec
CONSTANTS
  None = None
  AiEnabled = TRUE
  Threshold = 93
  WorkflowId = w1
  NoId = NoId
  Missing = Missing
  NoResult = NoResult
  Failures <- AnyFailure
  Executions <- AnyExecution
  Replies <- ShortReplies
  Workflows <- SmallWorkflows
  Limits = {2, 8}
INVARIANTS
  OnlyFailedNodeChanges
  PatchIffRetrySafe
  GoodWorkflowPasses
  AdviceIsTheOnlyObject
  EvidenceOfLastRun
PROPERTIES
  OnlyTheLimitRefuses
