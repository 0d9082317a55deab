SPECIFICATION Spec
CONSTANTS
  s1 = s1
  s2 = s2
  j1 = j1
  j2 = j2
  imported = imported
  c1 = c1
  Sessions = {s1, s2}
  Jobs = {j1, j2, imported}
  Ingested = {imported}
  Commits = {c1}
  CommitTime <- MCCommitTime
  Requests <- MCRequests
  Observations <- MCObservations
  MaxClock = 2
  MaxEvents = 3
  None = None
SYMMETRY Symmetry
INVARIANTS
  RegressionRefutesRemediation
  HistoryExplainsRow
  RegressionsCounted
PROPERTIES
  NeverBackToNew
  ScanKeepsDecision
CHECK_DEADLOCK FALSE
