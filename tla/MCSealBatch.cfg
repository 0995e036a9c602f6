CONSTANTS
  MaxItems = 7
  MaxCores = 4
  NoResult = NoResult
SPECIFICATION FairSpec
CHECK_DEADLOCK FALSE
INVARIANTS PreservesInputOrder NeverPanics
PROPERTIES FilledOnce BatchReturns
