CONSTANTS
  QoS0 = {}
  QoS1 = {a, b}
  QoS2 = {c}
  Quota = 2
  MaxId = 2
  Routine = {r1, r2}
  Reader = Reader
  Starter = Starter
  None = None
  Pubrel = Pubrel
  Breaks = TRUE
SPECIFICATION Spec
INVARIANTS SingleWriter Balanced AcksFindTheirPacket NoLostWakeup InOrder NothingLost
PROPERTIES SilentAfterStop
SYMMETRY Names
