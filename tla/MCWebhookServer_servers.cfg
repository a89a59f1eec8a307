SPECIFICATION FairSpec
CONSTANTS
  Nil = Nil
  Request = {"q1", "q2"}
  ClassesOf <- EveryClass
  MaxFailures = 2
  MaxStops = 1
INVARIANTS TypeOK NothingLeftRunning RequestsDrained FailureReported
PROPERTY Exits
CHECK_DEADLOCK FALSE
