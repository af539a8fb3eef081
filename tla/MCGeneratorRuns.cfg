SPECIFICATION FairSpec
CONSTANTS
  Files <- MCFiles
  FirstDisks <- MCFirstDisks
  SmartCount = 2
  JitStressCount = 2
  AttemptsPerSeed = 2
  NumVersions = 2
  MaxRuns = 3
CHECK_DEADLOCK FALSE
INVARIANTS FinishedFamilyIsWhole EverySeedItsOwnFile
PROPERTY GeneratorEnds
