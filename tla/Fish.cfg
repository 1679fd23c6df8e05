SPECIFICATION Spec
CONSTANTS
  NoSem = NoSem
  Limit = 10
INVARIANT FishesInOrder
PROPERTY FishTestDone
