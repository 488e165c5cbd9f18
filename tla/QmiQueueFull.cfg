SPECIFICATION FairSpec
CONSTANTS
  Clients = {ctl, wds}
  Ctl = ctl
  MaxCtlTid = 2
  MaxMuxTid = 2
  IndTids = {1}
  MaxLag = 2
  QueueCap = 1
  MaxReq = 2
  MaxInd = 2
  MaxSig = 1
CHECK_DEADLOCK FALSE
PROPERTY SignalReleases
