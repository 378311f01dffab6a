CONSTANTS
  l1 = l1  l2 = l2  a = a
  Listener = {l1, l2}
  Client = {a, b}
  ClientId = {1}
  MaxIncoming = 3
  PreSpawn = 2
  None = None
SPECIFICATION FairSpec
INVARIANTS ClosedInOrder
PROPERTIES Accepting ShutdownEnds
ACTION_CONSTRAINTS NumberedAsTheyCome OneChanges GoesOffLate
CHECK_DEADLOCK FALSE
