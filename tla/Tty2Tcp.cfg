SPECIFICATION Spec
CONSTANTS
  Sources <- DefaultSources
  Size <- FourTwo
  W = 3
  Std = {0, 1, 2}
  MaxFd = 6
INVARIANTS TypeOK BytesInOrder NoFdLeak
PROPERTY ImplementsStream
