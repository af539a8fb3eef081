CONSTANTS
  LastRegister = 1
  Delta = 1
  MaxOffset = 2
  EdgeImmediates <- MCEdges
  SmallImmediate = 1
  Inputs <- MCTwoInputs
  MaxMutations = 1
  MaxCalls = 2
SPECIFICATION Spec2
INVARIANTS SplicedRegionIsNew
CHECK_DEADLOCK FALSE
