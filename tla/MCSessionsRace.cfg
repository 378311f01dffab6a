CONSTANTS
  Conn = {1, 2, 3}
  ClientId = {1}
  Nil = Nil
  Cleans = {TRUE, FALSE}
  Stops = FALSE
SPECIFICATION Spec
INVARIANTS ChangesAlone
CHECK_DEADLOCK FALSE
