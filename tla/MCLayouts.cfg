SPECIFICATION Spec
CONSTANTS
  Fuel <- AllRoots
  Cuts = {0, 1, 9}
  TextLengths <- MCTextLengths
  KeyCounts = {1, 2}
  Samples <- ByPlace
INVARIANTS IInv RoundTrip PrefixRefused
CHECK_DEADLOCK FALSE
