CONSTANTS
  Client = {c1, c2}
  Retainer = Retainer
  Publisher = {}
  Filter <- Filters
  Topic <- Topics
  System = {}
  Message = {m}
  None = None
  MaxNodes = 5
  MaxRequests = 3
SPECIFICATION Spec
INVARIANTS AlwaysKept
SYMMETRY Clients
