SPECIFICATION Spec
CONSTANTS
  p1 = p1
  p2 = p2
  a = a
  b = b
  none = none
  Operators = {p1, p2}
  Asks <- OneOfEach
  PoolNames = {a, b}
  Unnamed = none
  Classes = {"small"}
  MaxReplicas = 1
  MaxControl = 3
  MaxPools = 2
  MaxTargets = 2
  MaxAttempts = 2
SYMMETRY Symmetric
INVARIANTS
  TypeOK
  StaysViable
PROPERTIES
  ImplementsEdits
CHECK_DEADLOCK FALSE
