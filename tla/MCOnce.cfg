CONSTANTS
  Caller = {c1, c2, c3, c4}
  Nobody = Nobody
  Waits = TRUE
  Panics = TRUE
SPECIFICATION FairSpec
INVARIANTS CalledOnce ReturnsAfterCall
PROPERTIES AlwaysReturns
CHECK_DEADLOCK FALSE
