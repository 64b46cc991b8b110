SPECIFICATION Spec
CONSTANTS
  Capacity = 4
  Packages <- MCPackages
  Keepalive = {"server"}
  MaxSends <- MCMaxSends
CHECK_DEADLOCK FALSE
INVARIANTS
  NoLostWakeup
  NoPartialWrite
  LastDataDelivered
  CloseOnce
PROPERTIES
  BothClose
