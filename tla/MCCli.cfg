SPECIFICATION Spec
CONSTANTS
  MaxWords = 3
  MaxLongWords = 4
  CommandLines <- MCCommandLines
  Numbers <- MCNumbers
  JsonFiles <- MCJsonFiles
CHECK_DEADLOCK FALSE
INVARIANTS LineUnderstood DocumentedLines
