CONSTANTS
  NumDetectors = 3
  Yields <- MCYields
  Errors <- MCErrors
SPECIFICATION CodeFairSpec
PROPERTY HungDetectorIsIsolated
