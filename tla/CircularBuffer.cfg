SPECIFICATION RingSpec
CONSTANTS
  N = 3
  Values = {Default, x, y}
  Default = Default
  Raw = Raw
INVARIANTS
  HoldsRecent
