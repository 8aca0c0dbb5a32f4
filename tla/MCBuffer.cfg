CONSTANTS
  Bytes = {0, 1}
  Zero = 0
  kCheapPrepend = 1
  kInitialSize = 2
  ExtraSize = 2
  MaxLen = 3
  MaxReadable = 4

SPECIFICATION Spec

INVARIANTS
  TypeOK
  IndicesOrdered

PROPERTIES
  GrowsOnlyWhenFull
  ImplementsByteQueue
  CallsAreExact
