SPECIFICATION FairSpec
CONSTANTS
  c1 = c1
  c2 = c2
  Calls = {c1, c2}
  Plans <- MCPlans
  Hashes = {"h1", "h2"}
  Own = "h1"
  Settings <- MCSettings
  Absent = Absent
  MaxVersion = 3
INVARIANTS IInv AnswersHeld NothingMeansMissing NoncesApart MintSawFree NumbersFresh Funded
PROPERTIES CallsEnd
CHECK_DEADLOCK FALSE
