SPECIFICATION Spec
CONSTANTS
  Replica <- MCReplica
  Self <- MCSelf
  Wall <- MCWall
  RemoteEvent <- MCRemoteEvent
  Op = {o1, o2}
  Delivery = {d1}
  r1 = r1
  r2 = r2
  Async = TRUE
  MaxCrash = 0
CHECK_DEADLOCK FALSE
INVARIANT DistinctStamps
