CONSTANTS
  W = 5
  MaxOps = 2
  Divisors <- MCDivisors
  MemSizes = {33}
  StressVersions = {"V0", "V2", "V4"}
  MaxDepth = 8
SPECIFICATION Spec
INVARIANT StaysInRegion
CHECK_DEADLOCK FALSE
