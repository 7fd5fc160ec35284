SPECIFICATION Spec
CONSTANTS
  Flows = {f1}
  CheckSuccess = {f1}
  GivenGas = {}
  CustomExpiry = {}
  ExpireAt = 3
  ExpSecs = 2
  TimeoutSecs = 2
  MaxTime = 2
  None = None
INVARIANT TimeoutThrowsWaitError
CHECK_DEADLOCK FALSE
