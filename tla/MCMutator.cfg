CONSTANTS
  LastRegister = 1
  Delta = 1
  MaxOffset = 2
  EdgeImmediates <- MCEdges
  SmallImmediate = 1
  Inputs <- MCInputs
  MaxMutations = 3
SPECIFICATION Spec
INVARIANTS NoRegionVanishes SplicedCallsResolve SplicedCallsAcyclic SplicingOnlyAdds ExitConservation
CHECK_DEADLOCK FALSE
