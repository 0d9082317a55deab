SPECIFICATION DiscoverySpec
CONSTANTS
  d1 = d1
  a = a
  b = b
  RootDomain = d1
  Subdomains = {a, b}
  Selections <- MCSelections
  MaxDomains = 2
  MaxItems = 2
  MaxRuns = 2
  NoTool = NoTool
INVARIANT CompletedJobRecordsItsStages
CHECK_DEADLOCK FALSE
