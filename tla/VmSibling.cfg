SPECIFICATION Spec
CONSTANTS
  NoFrame = NoFrame
  MaxPid = 3
  NumFrames = 14
  STACK_MAX_PAGES = 3
  Slots = 5
  CodePages = 1
  HEAP_PAGES = 1
  PAGE_SIZE = 2
  Brks = {}
INVARIANT FaultHandled
