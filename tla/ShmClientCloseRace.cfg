CONSTANTS
  Capacity = 2
  Lens = {1, 2}
  MaxBytes = 2
  MaxConnects = 2
SPECIFICATION Spec
INVARIANTS ClosesOwn
