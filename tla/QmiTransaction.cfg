SPECIFICATION Spec
CONSTANTS
  Clients = {ctl, wds}
  Ctl = ctl
  MaxCtlTid = 2
  MaxMuxTid = 2
  IndTids = {1}
  MaxLag = 2
  QueueCap = 2
  MaxReq = 3
  MaxInd = 1
  MaxSig = 1
INVARIANTS TypeOK ResponseIsOwn RequestAlive WaiterIsRegistered NoOrphanWaiter
