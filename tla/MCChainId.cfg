SPECIFICATION RetrySpec
CONSTANTS
  Objects = {o1}
  Keys = {k1}
  Callers = {c1, c2}
  Promises = {p1, p2}
  Tags = {gas_estimates, other}
  MethodTags = {}
  Ttl = 0
  MaxTime = 3
  MaxVersion = 2
  None = None
  Idle = Idle
  Failed = Failed
PROPERTIES AnswersAfterOutage
CHECK_DEADLOCK FALSE
