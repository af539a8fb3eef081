SPECIFICATION Spec
CONSTANTS
  Memories <- MCMemories
  Outcomes <- MCOutcomes
  Engines <- MCEngines
INVARIANTS TypeOK NoFalseAlarm SuccessMeansSame
CHECK_DEADLOCK FALSE
PROPERTY ImplementsOracle
