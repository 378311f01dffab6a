CONSTANTS
  Clean = {a}
  Durable = {b}
  Messages = 2
  Publisher = {p, q}
  MaxConnections = 2
  None = None
SPECIFICATION FairSpec
INVARIANTS OnceEach NoWriter
PROPERTIES OfflineEnds
CHECK_DEADLOCK FALSE
