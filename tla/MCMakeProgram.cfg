SPECIFICATION Spec
CONSTANTS
  Programs <- MCPrograms
  Versions <- MCVersions
  UsizeRange = 256
  I16Range = 16
INVARIANTS TypeOK LengthsAgree WalkEnds JumpsLand
CHECK_DEADLOCK FALSE
