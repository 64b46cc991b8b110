SPECIFICATION Spec
CONSTANTS
  Fds = {1, 2, 3, 4, 5}
  MaxConns = 2
  MaxTimers = 1
  Keeps = {1}
  MaxMessages = 1
  ConnectFrom = {"poll", "closecb"}
PROPERTIES OwnClose
CHECK_DEADLOCK FALSE
