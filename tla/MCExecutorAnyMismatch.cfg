SPECIFICATION Spec
CONSTANTS
  Memories <- MCMemories
  Outcomes <- MCOutcomes
  Engines <- MCEngines
INVARIANT PanicsOnAnyMismatch
CHECK_DEADLOCK FALSE
