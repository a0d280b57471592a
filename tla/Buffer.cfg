\* A vector of 5 bytes, 2 of them for prepending, that may double in size.
SPECIFICATION Spec
CONSTANTS
  kCheapPrepend = 2
  initialSize = 3
  ExtraBuf = 2
  Bytes = {0, 1}
  Zero = 0
  MaxChunk = 3
  MaxSize = 9
INVARIANT ActsAsByteQueue
PROPERTY GrowthBounded
