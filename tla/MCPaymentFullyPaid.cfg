SPECIFICATION Spec
CONSTANTS
  Calls = {k1, k2, k3, k4, k5}
  NoCall = NoCall
  Total = 3
  Amounts = {1}
  MaxInFlight = 2
CHECK_DEADLOCK FALSE
INVARIANTS FullyPaidIsCompleted
SYMMETRY Symmetry
