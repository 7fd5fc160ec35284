SPECIFICATION FairSpec
CONSTANTS
  Objects = {o1, o2}
  Keys = {k1}
  Callers = {c1, c2}
  Promises = {p1, p2}
  Tags = {gas_estimates, other}
  MethodTags = {gas_estimates}
  Ttl = 1
  MaxTime = 3
  MaxVersion = 2
  None = None
  Idle = Idle
  Failed = Failed
INVARIANTS IInv ServedFresh OneRequestPerWindow
PROPERTIES ImplementsTtlRead CallsReturn
CHECK_DEADLOCK FALSE
