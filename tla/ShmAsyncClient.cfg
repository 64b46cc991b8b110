SPECIFICATION Spec
CONSTANTS
  Fds = {1, 2, 3, 4, 5}
  MaxConns = 2
  MaxTimers = 1
  MaxMessages = 1
  Keeps = {1}
  ConnectFrom = {"poll", "callback", "closecb"}
INVARIANTS EveryCloseReported LoopMatches
PROPERTIES EndReported OwnCloseOutside
CHECK_DEADLOCK FALSE
