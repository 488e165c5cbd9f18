SPECIFICATION FairSpec
CONSTANTS
  Dual = FALSE
  Loop = TRUE
  HasAuth = FALSE
  MaxAddr = 2
  Fallible = {"start"}
  MaxLoss = 1
  MaxFlap = 0
  MaxPlug = 0
  MaxSig = 0
  MaxReset = 0
PROPERTY Served
