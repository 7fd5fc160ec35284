SPECIFICATION FairSpec
CONSTANTS
  Flows = {f1, f2}
  CheckSuccess = {f1}
  GivenGas = {f2}
  CustomExpiry = {f2}
  ExpireAt = 3
  ExpSecs = 2
  TimeoutSecs = 2
  MaxTime = 2
  None = None
INVARIANTS OutcomeSound TimeoutIsFinal OneReportPerSequence IInv
PROPERTIES ImplementsTxnOutcome CallsEnd
CHECK_DEADLOCK FALSE
