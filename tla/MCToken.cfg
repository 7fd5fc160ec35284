SPECIFICATION Spec
CONSTANTS
  c1 = c1
  c2 = c2
  Calls = {c1, c2}
  Plans <- MCPlans
  Hashes = {"h1", "h2"}
  Own = "h1"
  Settings <- TokenSettings
  Absent = Absent
  MaxVersion = 3
INVARIANT ResolvesWithValue
CHECK_DEADLOCK FALSE
