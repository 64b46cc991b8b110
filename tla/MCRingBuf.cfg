SPECIFICATION Spec
CONSTANTS
  Capacity = 4
  Wrap = 8
  Byte = {0, 1}
  MaxLen = 3
  Messages <- MCMessages
INVARIANTS
  NoDataRace
  ReadsOldest
  PublishNotifies
  NeverOverfull
PROPERTIES
  ViewStable
  ImplementsByteStream
