CONSTANTS
  QoS0 = {z}
  QoS1 = {a}
  QoS2 = {c, d}
  Quota = 2
  MaxId = 4
  OfflineQoS0 = TRUE
  MaxConnections = 3
  None = None
  Pubrel = Pubrel
SPECIFICATION FairSpec
INVARIANTS Conserved
PROPERTIES QueuedIsSent
CHECK_DEADLOCK FALSE
