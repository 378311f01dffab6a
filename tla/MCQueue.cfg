CONSTANTS
  Elem = {a, b}
  Nil = Nil
  MinQueueLen = 2
  MaxLength = 5
SPECIFICATION Spec
INVARIANTS CapacityOK
PROPERTIES FifoSpec
CHECK_DEADLOCK FALSE
