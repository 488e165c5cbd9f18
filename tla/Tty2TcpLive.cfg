SPECIFICATION FairSpec
CONSTANTS
  Sources <- LeakySources
  Size <- TwoTwo
  W = 2
  Std = {0, 1, 2}
  MaxFd = 5
PROPERTIES NoStall QuitEnds
