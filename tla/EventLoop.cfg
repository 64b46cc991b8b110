CONSTANTS
  Fds = {1, 2}
  MaxRegs = 3
SPECIFICATION Spec
INVARIANTS EntriesMatchLive
PROPERTIES OwnCallback Served
