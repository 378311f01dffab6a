CONSTANTS
  Conn = {1, 2, 3}
  ClientId = {1, 2}
  Nil = Nil
  Cleans = {TRUE, FALSE}
  Stops = TRUE
SPECIFICATION FairSpec
INVARIANTS IdLock SessionCurrent CountOK NeverFatal NoOrphan PresentOK
PROPERTIES OwnershipSpec DurableSurvives Answered StopTerminates
ACTION_CONSTRAINT NumberedAsTheyCome
CHECK_DEADLOCK FALSE
