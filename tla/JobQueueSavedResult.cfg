SPECIFICATION Spec
CONSTANTS
  nightly = nightly
  assessment = assessment
  w1 = w1
  w2 = w2
  e1 = e1
  e2 = e2
  Schedules = {assessment}
  Manual = {assessment}
  Workers = {w1}
  Enqueuers = {e1}
  Limit = 1
  MaxTasks = 1
  MaxAttempts = 2
  OperatorVerifies = TRUE
  NoWorker = NoWorker
  NoSchedule = NoSchedule
INVARIANTS
  CompletedKeepsResult
CHECK_DEADLOCK FALSE
