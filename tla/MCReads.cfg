SPECIFICATION ReadsSpec
CONSTANTS
  NumKeys = 3
  Values = {1, 2}
  Limit = 2
  MaxVersion = 2
  Absent = 0
  Generated = {g}
  Coin = {c}
  Rotations = {r}
  Asks = {g, c, r}
  Asked = 2
  SeqGiven = {g}
  GivenSeq = 1
  ExpSecs = 1
  MaxTime = 2
  MaxSeq = 2
  None = None
  Unset = Unset
INVARIANTS IInv PinnedSnapshot LatestLoosely
           RequestInv OneFate AbortReaches
           BuildInv ExpirationBounded RotationRace
PROPERTIES CallEnds CancelStops Settles
CHECK_DEADLOCK FALSE
