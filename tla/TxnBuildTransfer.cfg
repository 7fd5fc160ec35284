SPECIFICATION BuildSpec
CONSTANTS
  Generated = {g}
  Coin = {c}
  Rotations = {r}
  Asks = {g, c, r}
  Asked = 2
  SeqGiven = {}
  GivenSeq = 1
  ExpSecs = 1
  MaxTime = 2
  MaxSeq = 2
  Unset = Unset
INVARIANT ExpirationKept
CHECK_DEADLOCK FALSE
