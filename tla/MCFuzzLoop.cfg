SPECIFICATION FairSpec
CONSTANTS
  Files <- MCFiles
  FirstDisks <- MCFirstDisks
  SmartCount = 1
  JitStressCount = 1
  AttemptsPerSeed = 1
  NumVersions = 1
  ReloadInterval = 1
  PlateauSecs = 1
  MaxCycleSecs = 1
  JitStressEvery = 2
  PipeCapacity = 1
  MaxCov = 1
  MaxTime = 4
INVARIANTS TypeOK SeedsPickedUp NeverWithoutSeeds
PROPERTIES RefreshOnlyOnPlateau FuzzerGoesOn PlateauIsNoticed ScriptEndsWithFuzzer
