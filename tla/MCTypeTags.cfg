SPECIFICATION Spec
CONSTANTS
  Fuel <- AbiRoots
  Cuts = {0}
  TextLengths <- MCTextLengths
  KeyCounts = {1, 2}
  Samples <- ByPlace
INVARIANT TagsSurvive
CHECK_DEADLOCK FALSE
