SPECIFICATION AllSpec
CONSTANTS
  Size = 4
  Wrap = 8
  Limit = 2
  LinkChanges = TRUE
  MaxFail = 2
INVARIANTS TxRingOK RxRingOK
PROPERTIES StoppedBeforeClear TxGoesOn RxGoesOn
