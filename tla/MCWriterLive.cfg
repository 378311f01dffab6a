CONSTANTS
  QoS0 = {z}
  QoS1 = {a}
  QoS2 = {}
  Quota = 1
  MaxId = 2
  Routine = {r1, r2}
  Reader = Reader
  Starter = Starter
  None = None
  Pubrel = Pubrel
  Breaks = FALSE
SPECIFICATION FairSpec
PROPERTIES Delivered CloseEnds
CHECK_DEADLOCK FALSE
