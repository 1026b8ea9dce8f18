CONSTANTS
  NumDetectors = 3
  Yields <- MCYields
  Errors <- MCErrors
SPECIFICATION FairSpec
INVARIANTS TypeOK ReportIsComplete
PROPERTIES SlotsAreNotRaced RunAllReturns ImplementsGather
