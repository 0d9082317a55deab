SPECIFICATION Spec
CONSTANTS
  t1 = t1
  t2 = t2
  p1 = p1
  p2 = p2
  w1 = w1
  w2 = w2
  TaskIds = {t1}
  Publishers = {p1, p2}
  Workers = {w1, w2}
  MaxAttempts = 2
  PromptPublishers = FALSE
  ClaimBound = 4
  NoLease = NoLease
  Execution = Execution
  NoTask = NoTask
SYMMETRY Symmetry
INVARIANT
  RetryBudgetKept
CHECK_DEADLOCK FALSE
