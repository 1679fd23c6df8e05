SPECIFICATION Spec
CONSTANTS
  NoSem = NoSem
  Threads = 4
  Rounds = 3
  SIZE = 2
INVARIANT PopFindsMessage
PROPERTY ChannelImplemented
PROPERTY TestPasses
