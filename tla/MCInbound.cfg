CONSTANTS
  a = a
  b = b
  c = c
  QoS1 = {c}
  QoS2 = {a, b}
  RxMax = 1
  Window = 2
  MaxRepeats = 1
  MaxId = 2
  MaxConnections = 2
  None = None
SPECIFICATION FairSpec
INVARIANTS ExactlyOnce CloseInOrder
PROPERTIES NeverRefused ReaderStops
ACTION_CONSTRAINT NumberedAsTheyCome
CHECK_DEADLOCK FALSE
