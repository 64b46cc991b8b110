SPECIFICATION Spec
CONSTANTS
  Capacity = 4
  Types <- MCTypes
  Registrations <- MCRegistrations
  Answers <- MCAnswers
  KeepAlive = {2}
  Initiators = {1}
  init_size = 1
  max_buffer_size_ = 3
  MaxSends = 3
INVARIANTS InOrder
PROPERTIES Delivered SendReturns
CHECK_DEADLOCK FALSE
