CONSTANTS
  NumDetectors = 3
  DetectorName <- MCDetectorName
  Finds <- MCFinds
  Births <- MCBirths
  Options <- MCOptions
  PricingFiles <- MCPricingFiles
  StorageClasses <- MCStorageClasses
  Unreadable = Unreadable
  NoSize = NoSize
  NoCost = NoCost
  StartTime = 3
  MaxTime = 4
  Undecided = Undecided
ACTION_CONSTRAINT ClockMatters
SPECIFICATION Spec
INVARIANTS TypeOK EverySkipIsShown GracePeriodIsKept SectionsAreComplete ExitZeroIsWholeReport ZeroIsNeverAGuess
