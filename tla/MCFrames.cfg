CONSTANTS
  Capacity = 8
  BufSize = 3
  U32 = 16
  Streams <- MCStreams
  MaxSends = 4
SPECIFICATION Spec
INVARIANTS WholeFrames Received
PROPERTIES Settles LengthJudged
CHECK_DEADLOCK FALSE
