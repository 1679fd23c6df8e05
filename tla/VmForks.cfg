SPECIFICATION Spec
CONSTANTS
  NoFrame = NoFrame
  MaxPid = 3
  NumFrames = 8
  STACK_MAX_PAGES = 3
  Slots = 5
  CodePages = 1
  HEAP_PAGES = 1
  PAGE_SIZE = 2
  Brks = {1, 2}
INVARIANT TypeOK
INVARIANT FramesApart
INVARIANT StacksApart
INVARIANT SharedMapped
INVARIANT NoFrameLost
