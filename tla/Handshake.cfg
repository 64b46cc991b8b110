SPECIFICATION Spec
INVARIANT Crossed
PROPERTIES NoHalfOpen
