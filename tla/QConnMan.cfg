SPECIFICATION Spec
CONSTANTS
  Dual = TRUE
  Loop = TRUE
  HasAuth = TRUE
  MaxAddr = 2
  Fallible = {"client", "reg", "query", "ip", "start", "stop", "mode", "ind"}
  MaxLoss = 1
  MaxFlap = 1
  MaxPlug = 1
  MaxSig = 1
  MaxReset = 1
INVARIANTS TypeOK CleanExit ConfiguredWhenLinked
