SPECIFICATION Spec
CONSTANTS
  Clients = {c1, c2, c3}
  NoClient = none
  max_clients = 2
  RestartFrom = {"poll", "callback", "closecb"}
  MaxStarts = 2
CHECK_DEADLOCK FALSE
INVARIANTS
  SeatLimit
  OneOwner
  CloseOnce
  StopComplete
  ReachableOutside
PROPERTIES
  StopReturns
  HandshakeResolved
