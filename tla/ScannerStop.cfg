SPECIFICATION ScannerSpec
CONSTANTS
  ScanPlans <- MCScanPlans
  ScanTargets <- MCScanTargets
  MaxOutput = 1
  NoScanner = NoScanner
INVARIANTS
  StopIsCancellation
CHECK_DEADLOCK FALSE
