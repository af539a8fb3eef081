CONSTANTS
  MaxLines = 4
  MaxFreshLines = 6
  Texts <- MCTexts
SPECIFICATION Spec
INVARIANTS TypeOK EveryInstructionOnce IdsUnique ProgramOrder
INVARIANTS RegionsSplitAtTerminators 
PROPERTIES ImplementsAsmText
CHECK_DEADLOCK FALSE
