CONSTANTS
  c1 = c1
  c2 = c2
  Clients = {c1, c2}
  Kinds = {"named", "other"}
  Machines <- MCMachines
  ClientNet <- MCClientNet
  None = None
  MaxBoots = 3
  MaxHosts = 2
  MaxWire = 1
SPECIFICATION Spec
INVARIANTS TabHasOwnConfig MeasuringIsRecorded BroadcastReachesHotspot
PROPERTIES BacklogServed ClientGetsTab
CHECK_DEADLOCK FALSE
