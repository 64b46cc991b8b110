CONSTANTS
  Clients = {1, 2}
  Unruly = {2}
  Fds = {1, 2, 3, 4, 5, 6, 7}
  kMaxClients = 2
  kMaxTicks = 1
  kMaxWrites = 2
  RingMessages = 1
SPECIFICATION Spec
INVARIANT MapMatchesLoop
PROPERTIES EndedIsRead EveryoneLeaves
CHECK_DEADLOCK FALSE
