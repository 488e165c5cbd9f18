SPECIFICATION Spec
CONSTANTS
  Sources <- DefaultSources
  Size <- ThreeTwo
  W = 3
  Std = {0, 1, 2}
  MaxFd = 6
INVARIANT NothingCorrupted
