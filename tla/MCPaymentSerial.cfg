SPECIFICATION Spec
CONSTANTS
  Calls = {k1, k2, k3, k4}
  NoCall = NoCall
  Total = 2
  Amounts = {1, 2}
  MaxInFlight = 1
CHECK_DEADLOCK FALSE
PROPERTIES ImplementsLifecycle
