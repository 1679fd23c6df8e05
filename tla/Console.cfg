SPECIFICATION Spec
CONSTANTS
  Capacity = 2
  Fifo = 3
  Trigger = 2
  MaxKeys = 4
  Nested = 3
  MaxProcs = 5
INVARIANT TypedIsRead
PROPERTY AllIsRead
