SPECIFICATION ClockSpec
CONSTANTS
  Proposals = {p1, p2}
  Tokens = {o1, o2}
  Prints = {}
  RetryIds = {x1}
  None = None
  Lease = 3
  Busy = 2
  MaxTime = 7
SYMMETRY Interchangeable
INVARIANTS
  RunsTypeOK
  OneRowPerToken
PROPERTIES
  ClockImplementsRuns
  OwnerKeepsLease
  LostTokenStaysLost
  CompletedRowIsFinal
CHECK_DEADLOCK FALSE
