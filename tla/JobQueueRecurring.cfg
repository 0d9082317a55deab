SPECIFICATION Spec
CONSTANTS
  nightly = nightly
  assessment = assessment
  w1 = w1
  w2 = w2
  e1 = e1
  e2 = e2
  Schedules = {nightly}
  Manual = {}
  Workers = {w1, w2}
  Enqueuers = {e1, e2}
  Limit = 1
  MaxTasks = 3
  MaxAttempts = 2
  OperatorVerifies = FALSE
  NoWorker = NoWorker
  NoSchedule = NoSchedule
SYMMETRY Symmetry
INVARIANTS
  ActiveHoldsKey
  NoConcurrentExecution
  OneExecutionPerOccurrence
  FailureParksSchedule
  AttemptsBounded
PROPERTIES
  ReservedWhenDue
CHECK_DEADLOCK FALSE
