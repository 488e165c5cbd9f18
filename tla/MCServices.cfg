SPECIFICATION AllSpec
CONSTANTS
  Ifaces = {"wan", "wan2"}
  Trackers = {1, 2, 3, 4}
  down = 2
  up = 2
  MaxFlips = 3
  MaxEvents = 2
  MaxAborts = 1
CHECK_DEADLOCK FALSE
INVARIANTS SwitchesAlone TablesOK PolicyOK ResetsOnTime SettingsRestored
PROPERTIES EveryoneRuns BridgeFollows FailsOver Registered
