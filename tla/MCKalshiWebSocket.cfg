\* Two subscribers, two drops.
CONSTANTS
  u1 = u1
  u2 = u2
  u3 = u3
  Users = {u1, u2}
  Subscription <- Wanted
  MaxReconnect = 2
  MaxDrops = 2
  MaxConnections = 5
SPECIFICATION FairStreamSpec
INVARIANTS
  ConnectionsSound
PROPERTIES
  LossIsHandled
CHECK_DEADLOCK FALSE
