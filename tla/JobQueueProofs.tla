--------------------------- MODULE JobQueueProofs ---------------------------
(***************************************************************************)
(* Safety of JobQueue for any set of schedules, workers and enqueuers.     *)
(***************************************************************************)
EXTENDS JobQueue, TLAPS

-----------------------------------------------------------------------------
(* Type correctness.                                                       *)

\* A worker that goes on in its loop keeps its type and its task.
LEMMA WorkerType ==
  ASSUME TypeOK, NEW w \in Workers, NEW phase \in Phases, NEW fault \in Faults,
         Busy(w), Goto(w, phase, fault)
  PROVE  /\ worker' \in [Workers -> WorkerState]
         /\ \A v \in Workers : worker'[v].phase # "idle" => worker'[v].task # NoTask
BY DEF TypeOK, Goto, WorkerState, Busy

\* So does the pool when a worker leaves its task.
LEMMA LeaveType ==
  ASSUME TypeOK, NEW w \in Workers, Leave(w)
  PROVE  /\ worker' \in [Workers -> WorkerState]
         /\ \A v \in Workers : worker'[v].phase # "idle" => worker'[v].task # NoTask
BY DEF TypeOK, Leave, Idle, WorkerState, Phases, Faults

\* Settling a row changes its status and owner within their types.
LEMMA SettledRow ==
  ASSUME NEW row \in TaskRow, NEW status \in Status
  PROVE  [row EXCEPT !.status = status, !.owner = NoWorker] \in TaskRow
BY DEF TaskRow

\* Settling a task keeps the types of tasks and leases.
LEMMA SettleType ==
  ASSUME TypeOK, NEW t, NEW status \in Status, Settle(t, status)
  PROVE  task' \in [TaskIds -> TaskRow] /\ expired' \subseteq TaskIds
<1>1. task \in [TaskIds -> TaskRow] /\ expired \subseteq TaskIds
  BY DEF TypeOK
<1>2. ASSUME t \in TaskIds
      PROVE  [task[t] EXCEPT !.status = status, !.owner = NoWorker] \in TaskRow
  BY <1>1, <1>2, SettledRow
<1>3. task' = [task EXCEPT ![t] = [task[t] EXCEPT !.status = status, !.owner = NoWorker]]
  BY DEF Settle
<1>4. task' \in [TaskIds -> TaskRow]
  BY <1>1, <1>2, <1>3
<1>5. expired' \subseteq TaskIds
  BY <1>1 DEF Settle
<1> QED
  BY <1>4, <1>5

\* Releasing the execution key keeps its type.
LEMMA ReleaseType ==
  ASSUME TypeOK, NEW t, ReleaseKey(t)
  PROVE  execKey' \in [Schedules -> TaskIds \union {NoTask}]
BY DEF TypeOK, ReleaseKey

\* The due list and the places in it have their types.
DueList ==
  /\ due \subseteq Schedules
  /\ ahead \in [Schedules -> SUBSET Schedules]
  /\ \A s \in Schedules : ahead[s] \subseteq due

\* Advancing a schedule keeps the types of its columns and of the due list.
LEMMA AdvanceType ==
  ASSUME TypeOK, NEW s, Advance(s)
  PROVE  nextRun' \in [Schedules -> Nat] /\ DueList' /\ enabled' \subseteq Schedules
<1>1. nextRun \in [Schedules -> Nat] /\ DueList /\ enabled \subseteq Schedules
  BY DEF TypeOK, DueList
<1>2. nextRun' \in [Schedules -> Nat]
  <2>1. nextRun' = [nextRun EXCEPT ![s] = nextRun[s] + 1]
    BY DEF Advance
  <2>2. ASSUME s \in Schedules PROVE nextRun[s] + 1 \in Nat
    BY <1>1, <2>2
  <2> QED
    BY <1>1, <2>1, <2>2
<1>3. DueList'
  BY <1>1 DEF Advance, DueList
<1>4. enabled' \subseteq Schedules
  BY <1>1 DEF Advance
<1> QED
  BY <1>2, <1>3, <1>4

\* An enqueuer reads some of the due schedules, the scheduler loop those at the
\* front of the due list, or reserves one.
LEMMA EnqueuerActs ==
  ASSUME TypeOK, NEW e \in Enqueuers, EnqueuerStep(e)
  PROVE  (\E S \in SUBSET Schedules : ReadDue(e, S)) \/ Reserve(e)
<1>1. Front \in SUBSET Schedules
  BY DEF TypeOK, Front
<1> QED
  BY <1>1 DEF EnqueuerStep, Poll

\* A busy worker has a task.
LEMMA BusyTask ==
  ASSUME TypeOK, NEW w \in Workers, Busy(w)
  PROVE  worker[w].task \in TaskIds
BY DEF TypeOK, Busy, WorkerState

\* The types hold at the start.
LEMMA InitType == ConstantsAssumption /\ Init => TypeOK
<1> SUFFICES ASSUME Init PROVE TypeOK
  OBVIOUS
<1>1. Absent \in TaskRow
  BY DEF Absent, TaskRow, Status
<1>2. Idle \in WorkerState
  BY DEF Idle, WorkerState, Phases, Faults
<1>3. NoStop \in StopCall
  BY DEF NoStop, StopCall
<1> QED
  BY <1>1, <1>2, <1>3 DEF Init, TypeOK, Idle

\* Every step preserves the types.
LEMMA NextType == ConstantsAssumption /\ TypeOK /\ [Next]_vars => TypeOK'
<1> SUFFICES ASSUME ConstantsAssumption, TypeOK, [Next]_vars PROVE TypeOK'
  OBVIOUS
<1> USE DEF TypeOK, scheduleVars, taskVars, workerVars, operatorVars
<1>1. ASSUME NEW s \in Schedules, BecomeDue(s) PROVE TypeOK'
  BY <1>1 DEF BecomeDue
<1>2. ASSUME NEW t \in TaskIds, BackoffElapses(t) \/ LeaseExpires(t) PROVE TypeOK'
  BY <1>2 DEF BackoffElapses, LeaseExpires
<1>3. ASSUME NEW e \in Enqueuers, NEW S \in SUBSET Schedules, ReadDue(e, S) PROVE TypeOK'
  BY <1>3 DEF ReadDue
<1>4. ASSUME NEW e \in Enqueuers, Reserve(e) PROVE TypeOK'
  <2>1. PICK entry \in seen[e] :
          /\ seen' = [seen EXCEPT ![e] = @ \ {entry}]
          /\ \/ \E t \in TaskIds : NextId(t) /\ CreateTask(entry[1], t)
             \/ UNCHANGED <<task, ready, execKey>>
    BY <1>4 DEF Reserve
  <2>2. entry[1] \in Schedules
    BY <2>1
  <2>3. seen' \in [Enqueuers -> SUBSET (Schedules \X Nat)]
    BY <2>1
  <2>4. task' \in [TaskIds -> TaskRow] /\ ready' \subseteq TaskIds
        /\ execKey' \in [Schedules -> TaskIds \union {NoTask}]
    <3>1. CASE UNCHANGED <<task, ready, execKey>>
      BY <3>1
    <3>2. ASSUME NEW t \in TaskIds, CreateTask(entry[1], t)
          PROVE  task' \in [TaskIds -> TaskRow] /\ ready' \subseteq TaskIds
                 /\ execKey' \in [Schedules -> TaskIds \union {NoTask}]
      <4>1. [Absent EXCEPT !.status = "queued", !.sched = entry[1], !.run = nextRun[entry[1]]]
              \in TaskRow
        BY <2>2 DEF Absent, TaskRow, Status
      <4>2. task' \in [TaskIds -> TaskRow]
        BY <3>2, <4>1 DEF CreateTask
      <4> QED
        BY <3>2, <4>2 DEF CreateTask
    <3> QED
      BY <2>1, <3>1, <3>2
  <2> QED
    BY <1>4, <2>3, <2>4 DEF Reserve
<1>5. ASSUME NEW w \in Workers, NEW t \in TaskIds, Claim(w, t) PROVE TypeOK'
  BY <1>5 DEF Claim, Idle, TaskRow, Status, WorkerState, Phases, Faults
<1>6. ASSUME NEW w \in Workers, Begin(w) PROVE TypeOK'
  BY <1>6, WorkerType, LeaveType DEF Begin, Busy, Phases, Faults
<1>7. ASSUME NEW w \in Workers, NEW fault \in Faults \ {"none"}, Raise(w, fault) PROVE TypeOK'
  BY <1>7, WorkerType DEF Raise, Busy, Phases
<1>8. ASSUME NEW w \in Workers, Return(w) PROVE TypeOK'
  BY <1>8, WorkerType DEF Return, Busy, Phases, Faults
<1>9. ASSUME NEW w \in Workers, Finish(w) PROVE TypeOK'
  <2>1. UNCHANGED <<ready, cancelReq, seen, sawStop, operatorVars>>
    BY <1>9 DEF Finish
  <2>4. Busy(w)
    BY <1>9 DEF Finish, Busy
  <2>2. CASE /\ Goto(w, "failing", "permanent") \/ Goto(w, "failing", "cancelled")
             /\ UNCHANGED <<scheduleVars, task, expired, saved>>
    BY <2>1, <2>2, <2>4, WorkerType DEF Phases, Faults
  <2>3. CASE Owned(w) /\ Complete(w, worker[w].task)
    <3> DEFINE t == worker[w].task
    <3>1. /\ worker' \in [Workers -> WorkerState]
          /\ \A v \in Workers : worker'[v].phase # "idle" => worker'[v].task # NoTask
      BY <2>3, LeaveType DEF Complete
    <3>2. task' \in [TaskIds -> TaskRow] /\ expired' \subseteq TaskIds
      BY <2>3, SettleType DEF Complete, Status, Outcomes
    <3>3. execKey' \in [Schedules -> TaskIds \union {NoTask}]
      BY <2>3, ReleaseType DEF Complete
    <3>4. nextRun' \in [Schedules -> Nat] /\ DueList' /\ enabled' \subseteq Schedules
      BY <2>3, AdvanceType DEF Complete
    <3>5. t \in TaskIds
      BY <2>4, BusyTask
    <3>6. saved' \subseteq TaskIds
      BY <2>3, <3>5 DEF Complete
    <3> QED
      BY <2>1, <3>1, <3>2, <3>3, <3>4, <3>6 DEF DueList
  <2> QED
    BY <1>9, <2>2, <2>3 DEF Finish
<1>10. ASSUME NEW w \in Workers, FailRead(w) PROVE TypeOK'
  <2>1. UNCHANGED <<scheduleVars, taskVars, seen, operatorVars>> /\ sawStop' \subseteq Workers
    BY <1>10 DEF FailRead
  <2>2. /\ worker' \in [Workers -> WorkerState]
        /\ \A v \in Workers : worker'[v].phase # "idle" => worker'[v].task # NoTask
    BY <1>10, LeaveType DEF FailRead, WorkerState, Phases
  <2> QED
    BY <2>1, <2>2
<1>11. ASSUME NEW w \in Workers, FailWrite(w) PROVE TypeOK'
  <2> DEFINE t == worker[w].task
  <2>1. t \in TaskIds
    BY <1>11, BusyTask DEF FailWrite, Busy
  <2>2. Leave(w) /\ UNCHANGED <<due, ahead, nextRun, saved, seen, sawStop, operatorVars>>
    BY <1>11 DEF FailWrite
  <2>3. /\ worker' \in [Workers -> WorkerState]
        /\ \A v \in Workers : worker'[v].phase # "idle" => worker'[v].task # NoTask
    BY <2>2, LeaveType
  <2>4. CASE RecordCancelled(w, t)
    BY <2>2, <2>3, <2>4, SettleType, ReleaseType DEF RecordCancelled, Status, Outcomes
  <2>5. CASE RecordRetry(w, t)
    BY <2>1, <2>2, <2>3, <2>5, SettleType
       DEF RecordRetry, MarkRetry, RewriteMetadata, Status, Outcomes
  <2>6. CASE RecordFailed(w, t)
    BY <2>1, <2>2, <2>3, <2>6, SettleType DEF RecordFailed, RewriteMetadata, Status, Outcomes
  <2> QED
    BY <1>11, <2>4, <2>5, <2>6 DEF FailWrite
<1>12. ASSUME NEW w \in Workers, Crash(w) PROVE TypeOK'
  BY <1>12, LeaveType DEF Crash
<1>13. ASSUME NEW s \in Manual, NEW t \in TaskIds \union {NoTask}, StopRead(s, t) PROVE TypeOK'
  BY <1>13 DEF StopRead, Stoppable, Active, ConstantsAssumption, StopCall
<1>14. CASE StopWrite
  BY <1>14, SettleType, ReleaseType
     DEF StopWrite, StopPending, StopQueued, StopRunning, NoStop, StopCall, Status, Outcomes
<1>15. CASE RecoverRead
  BY <1>15 DEF RecoverRead, Stale
<1>16. CASE RecoverApply
  <2>1. \A t \in TaskIds : [task[t] EXCEPT !.status = "failed", !.owner = NoWorker] \in TaskRow
    BY SettledRow DEF Status, Outcomes
  <2>2. task' \in [TaskIds -> TaskRow]
    BY <1>16, <2>1 DEF RecoverApply
  <2> QED
    BY <1>16, <2>2 DEF RecoverApply
<1>17. CASE UNCHANGED vars
  BY <1>17 DEF vars
<1> QED
  BY <1>1, <1>2, <1>3, <1>4, <1>5, <1>6, <1>7, <1>8, <1>9, <1>10, <1>11, <1>12, <1>13,
     <1>14, <1>15, <1>16, <1>17, EnqueuerActs DEF Next, Process

-----------------------------------------------------------------------------
(* The inductive invariant, part by part.                                  *)

\* A row is blank until it is created, and belongs to a schedule from then on.
RowsWellFormed ==
  \A t \in TaskIds :
    /\ Exists(t) => task[t].sched \in Schedules
    /\ ~Exists(t) => task[t] = Absent

\* A key names a row of its own schedule, one not completed nor cancelled.
KeyNamesRow ==
  \A s \in Schedules : execKey[s] # NoTask =>
    /\ task[execKey[s]].sched = s
    /\ task[execKey[s]].status \in {"queued", "running", "failed"}

\* A worker inside an execution works for the key of its schedule; the row can
\* only have been quarantined meanwhile, and not even that by a careful operator.
WorkerHoldsKey ==
  \A w \in Workers : Busy(w) =>
    /\ task[worker[w].task].status \in {"running", "failed"}
    /\ OperatorVerifies => task[worker[w].task].status = "running"
    /\ execKey[task[worker[w].task].sched] = worker[w].task

\* No two workers are inside the same row.
OneWorkerPerTask ==
  \A v, w \in Workers :
    v # w /\ Busy(v) /\ Busy(w) => worker[v].task # worker[w].task

\* Rows lie in the past of their schedule; the one for its present occurrence
\* still holds the key, unless the schedule is disabled.
RunsBehindSchedule ==
  \A t \in TaskIds : Exists(t) =>
    /\ task[t].run <= nextRun[task[t].sched]
    /\ task[t].run = nextRun[task[t].sched] /\ task[t].sched \in enabled
         => execKey[task[t].sched] = t

\* A stop in progress addresses a row of its schedule.
StopAddressesRow ==
  stop # NoStop =>
    /\ stop.sched \in Schedules
    /\ stop.task # NoTask => Exists(stop.task) /\ task[stop.task].sched = stop.sched

\* What the operator has read as stale exists, and a careful operator has only
\* read what is abandoned for good.
QuarantineIsSafe ==
  \A q \in quarantine :
    /\ Exists(q)
    /\ OperatorVerifies => task[q].status = "running" /\ ~Live(q)

\* A due list is at most as new as its schedules: the occurrence it names is over,
\* or still due.
SeenWasDue ==
  \A e \in Enqueuers : \A entry \in seen[e] :
    /\ entry[2] <= nextRun[entry[1]]
    /\ entry[2] = nextRun[entry[1]] => entry[1] \in due

IInv ==
  /\ TypeOK
  /\ RowsWellFormed
  /\ ActiveHoldsKey
  /\ KeyNamesRow
  /\ WorkerHoldsKey
  /\ OneWorkerPerTask
  /\ FailureParksSchedule
  /\ AttemptsBounded
  /\ RunsBehindSchedule
  /\ OneExecutionPerOccurrence
  /\ StopAddressesRow
  /\ QuarantineIsSafe

\* The absence of a task is no task.
LEMMA NoTaskIsNoRow == NoTask \notin TaskIds
BY DEF NoTask, TaskIds

(* What the helpers do to the two tables, pointwise.                       *)

\* Settling a task changes its status and no other row.
LEMMA SettleEffect ==
  ASSUME TypeOK, NEW t \in TaskIds, NEW status, Settle(t, status)
  PROVE  /\ task'[t].status = status
         /\ task'[t].sched = task[t].sched
         /\ task'[t].run = task[t].run
         /\ task'[t].attempts = task[t].attempts
         /\ \A u \in TaskIds : u # t => task'[u] = task[u]
<1>1. task \in [TaskIds -> TaskRow]
  BY DEF TypeOK
<1>2. task' = [task EXCEPT ![t] = [task[t] EXCEPT !.status = status, !.owner = NoWorker]]
  BY DEF Settle
<1>3. task'[t] = [task[t] EXCEPT !.status = status, !.owner = NoWorker]
  BY <1>1, <1>2
<1> QED
  BY <1>1, <1>2, <1>3 DEF TaskRow

\* A key is released only by the task that holds it.
LEMMA ReleaseEffect ==
  ASSUME TypeOK, NEW t \in TaskIds, ReleaseKey(t)
  PROVE  \A s \in Schedules :
           execKey'[s] = IF s = task[t].sched /\ execKey[s] = t THEN NoTask ELSE execKey[s]
BY DEF ReleaseKey

\* A worker that leaves its task is idle, the others stay where they are.
LEMMA LeaveEffect ==
  ASSUME TypeOK, NEW w \in Workers, Leave(w)
  PROVE  /\ ~Busy(w)'
         /\ \A v \in Workers : v # w => worker'[v] = worker[v]
BY DEF TypeOK, Leave, Busy, Idle

\* A worker that goes on keeps its task, the others stay where they are.
LEMMA GotoEffect ==
  ASSUME TypeOK, NEW w \in Workers, NEW phase, NEW fault, Goto(w, phase, fault)
  PROVE  \A v \in Workers : /\ worker'[v].task = worker[v].task
                            /\ v # w => worker'[v] = worker[v]
<1>1. worker \in [Workers -> WorkerState]
  BY DEF TypeOK
<1>2. worker' = [worker EXCEPT ![w] = [worker[w] EXCEPT !.phase = phase, !.fault = fault]]
  BY DEF Goto
<1>3. [worker[w] EXCEPT !.phase = phase, !.fault = fault].task = worker[w].task
  BY <1>1 DEF WorkerState
<1> QED
  BY <1>1, <1>2, <1>3

-----------------------------------------------------------------------------
(* Steps that leave both tables, the stop and the recovery alone: at most  *)
(* some workers move on or leave.                                          *)

\* Steps that write no row and take up no task preserve the invariant.
LEMMA QuietStep ==
  ASSUME IInv, TypeOK',
         UNCHANGED <<task, execKey, nextRun, enabled, stop, quarantine>>,
         \A w \in Workers : Busy(w)' => Busy(w) /\ worker'[w].task = worker[w].task
  PROVE  IInv'
<1>1. RowsWellFormed' /\ ActiveHoldsKey' /\ KeyNamesRow' /\ FailureParksSchedule'
  BY DEF IInv, RowsWellFormed, ActiveHoldsKey, KeyNamesRow, FailureParksSchedule, Exists, Active
<1>2. AttemptsBounded' /\ RunsBehindSchedule' /\ OneExecutionPerOccurrence' /\ StopAddressesRow'
  BY DEF IInv, AttemptsBounded, RunsBehindSchedule, OneExecutionPerOccurrence,
         StopAddressesRow, Exists
<1>3. WorkerHoldsKey'
  BY DEF IInv, WorkerHoldsKey
<1>4. OneWorkerPerTask'
  BY DEF IInv, OneWorkerPerTask
<1>5. QuarantineIsSafe'
  BY DEF IInv, QuarantineIsSafe, Live, Exists
<1> QED
  BY <1>1, <1>2, <1>3, <1>4, <1>5 DEF IInv

-----------------------------------------------------------------------------
(* A new execution is reserved.                                            *)

\* A reservation preserves the invariant: its schedule had no task running.
LEMMA CreateStep ==
  ASSUME IInv, TypeOK', NEW s \in Schedules, NEW t \in TaskIds,
         ~Exists(t), Reservable(s, nextRun[s]), CreateTask(s, t),
         UNCHANGED <<nextRun, enabled, worker, stop, quarantine>>
  PROVE  IInv'
<1> USE NoTaskIsNoRow
<1>1. /\ task'[t].status = "queued"
      /\ task'[t].sched = s
      /\ task'[t].run = nextRun[s]
      /\ task'[t].attempts = 0
      /\ \A u \in TaskIds : u # t => task'[u] = task[u]
      /\ execKey'[s] = t
      /\ \A r \in Schedules : r # s => execKey'[r] = execKey[r]
  BY DEF IInv, TypeOK, CreateTask, Absent
<1>2. task[t].status = "absent" /\ execKey[s] = NoTask /\ s \in enabled
  BY DEF Exists, Reservable
<1>3. \A u \in TaskIds : u # t => (Exists(u)' <=> Exists(u)) /\ (Active(u)' <=> Active(u))
  BY <1>1 DEF Exists, Active
<1>4. Exists(t)' /\ Active(t)'
  BY <1>1 DEF Exists, Active
<1>5. \A u \in TaskIds : Exists(u) => task[u].sched \in Schedules
  BY DEF IInv, RowsWellFormed
<1>6. \A u \in TaskIds : Exists(u) /\ task[u].sched = s =>
        task[u].run <= nextRun[s] /\ task[u].run # nextRun[s]
  BY <1>2 DEF IInv, RunsBehindSchedule
<1>7. RowsWellFormed'
  BY <1>1, <1>3, <1>4 DEF IInv, RowsWellFormed
<1>8. ActiveHoldsKey'
  <2>1. \A u \in TaskIds : Active(u) => Exists(u) /\ task[u].sched # s
    BY <1>2 DEF IInv, ActiveHoldsKey, Active, Exists
  <2> QED
    BY <1>1, <1>3, <1>5, <2>1 DEF IInv, ActiveHoldsKey
<1>9. KeyNamesRow'
  <2>1. \A r \in Schedules : r # s /\ execKey[r] # NoTask => execKey[r] \in TaskIds /\ execKey[r] # t
    BY <1>2 DEF IInv, TypeOK, KeyNamesRow
  <2> QED
    BY <1>1, <2>1 DEF IInv, KeyNamesRow
<1>10. WorkerHoldsKey'
  <2> SUFFICES ASSUME NEW w \in Workers, Busy(w)'
               PROVE  /\ task'[worker'[w].task].status \in {"running", "failed"}
                      /\ OperatorVerifies => task'[worker'[w].task].status = "running"
                      /\ execKey'[task'[worker'[w].task].sched] = worker'[w].task
    BY DEF WorkerHoldsKey
  <2> DEFINE u == worker[w].task
  <2>1. Busy(w) /\ worker'[w].task = u
    BY DEF Busy
  <2>2. u \in TaskIds
    BY <2>1, BusyTask DEF IInv
  <2>3. /\ task[u].status \in {"running", "failed"}
        /\ OperatorVerifies => task[u].status = "running"
        /\ execKey[task[u].sched] = u
    BY <2>1 DEF IInv, WorkerHoldsKey
  <2>4. u # t /\ task[u].sched # s /\ task[u].sched \in Schedules
    BY <1>2, <1>5, <2>2, <2>3 DEF Exists
  <2> QED
    BY <1>1, <2>1, <2>2, <2>3, <2>4
<1>11. OneWorkerPerTask'
  BY DEF IInv, OneWorkerPerTask, Busy
<1>12. FailureParksSchedule'
  BY <1>1 DEF IInv, FailureParksSchedule
<1>13. AttemptsBounded'
  BY <1>1, ConstantsAssumption DEF IInv, AttemptsBounded
<1>14. RunsBehindSchedule'
  <2>1. nextRun[s] \in Nat
    BY DEF IInv, TypeOK
  <2> QED
    BY <1>1, <1>3, <1>5, <1>6, <2>1 DEF IInv, RunsBehindSchedule
<1>15. OneExecutionPerOccurrence'
  BY <1>1, <1>3, <1>6 DEF IInv, OneExecutionPerOccurrence
<1>16. StopAddressesRow'
  <2>1. stop.task \in TaskIds \union {NoTask}
    BY DEF IInv, TypeOK, StopCall
  <2> QED
    BY <1>1, <1>2, <1>3, <2>1 DEF IInv, StopAddressesRow, Exists
<1>17. QuarantineIsSafe'
  <2>1. quarantine \subseteq TaskIds
    BY DEF IInv, TypeOK
  <2> QED
    BY <1>1, <1>2, <1>3, <2>1 DEF IInv, QuarantineIsSafe, Live, Busy, Exists
<1> QED
  BY <1>7, <1>8, <1>9, <1>10, <1>11, <1>12, <1>13, <1>14, <1>15, <1>16, <1>17 DEF IInv

-----------------------------------------------------------------------------
(* A worker claims an execution.                                           *)

\* A claim preserves the invariant.
LEMMA ClaimStep ==
  ASSUME IInv, TypeOK', NEW w \in Workers, NEW t \in TaskIds, Claim(w, t)
  PROVE  IInv'
<1>1. /\ task'[t].status = "running"
      /\ task'[t].sched = task[t].sched
      /\ task'[t].run = task[t].run
      /\ task'[t].attempts = task[t].attempts + 1
      /\ \A u \in TaskIds : u # t => task'[u] = task[u]
  BY DEF IInv, TypeOK, TaskRow, Claim
<1>2. /\ worker'[w].task = t
      /\ \A v \in Workers : v # w => worker'[v] = worker[v]
  BY DEF IInv, TypeOK, Claim
<1>3. UNCHANGED <<enabled, nextRun, execKey, stop, quarantine>>
  BY DEF Claim, scheduleVars, operatorVars
<1>4. task[t].status = "queued"
  BY DEF Claim, Claimable
<1>5. \A u \in TaskIds : (Exists(u)' <=> Exists(u)) /\ (Active(u)' <=> Active(u))
                         /\ task'[u].sched = task[u].sched /\ task'[u].run = task[u].run
  BY <1>1, <1>4 DEF Exists, Active
<1>6. \A v \in Workers : Busy(v) => worker[v].task \in TaskIds /\ worker[v].task # t
  BY <1>4, BusyTask DEF IInv, WorkerHoldsKey
<1>7. execKey[task[t].sched] = t
  BY <1>4 DEF IInv, ActiveHoldsKey, Active
<1>8. RowsWellFormed'
  BY <1>1, <1>4, <1>5 DEF IInv, RowsWellFormed, Exists
<1>9. ActiveHoldsKey'
  BY <1>3, <1>5 DEF IInv, ActiveHoldsKey
<1>10. KeyNamesRow'
  <2>1. \A s \in Schedules : execKey[s] # NoTask => execKey[s] \in TaskIds
    BY DEF IInv, TypeOK
  <2> QED
    BY <1>1, <1>3, <1>5, <2>1 DEF IInv, KeyNamesRow
<1>11. WorkerHoldsKey'
  BY <1>1, <1>2, <1>3, <1>6, <1>7 DEF IInv, WorkerHoldsKey, Busy
<1>12. OneWorkerPerTask'
  BY <1>2, <1>6 DEF IInv, OneWorkerPerTask, Busy
<1>13. FailureParksSchedule'
  BY <1>1, <1>3, <1>5 DEF IInv, FailureParksSchedule
<1>14. AttemptsBounded'
  <2>1. task[t].attempts \in Nat /\ task[t].attempts < MaxAttempts /\ MaxAttempts \in Nat
    BY <1>4, ConstantsAssumption DEF IInv, TypeOK, TaskRow, AttemptsBounded
  <2>2. task'[t].attempts <= MaxAttempts
    BY <1>1, <2>1
  <2> QED
    BY <1>1, <2>2 DEF IInv, AttemptsBounded
<1>15. RunsBehindSchedule'
  BY <1>3, <1>5 DEF IInv, RunsBehindSchedule
<1>16. OneExecutionPerOccurrence'
  BY <1>5 DEF IInv, OneExecutionPerOccurrence
<1>17. StopAddressesRow'
  BY <1>3, <1>5 DEF IInv, TypeOK, StopCall, StopAddressesRow
<1>18. QuarantineIsSafe'
  <2>1. quarantine \subseteq TaskIds
    BY DEF IInv, TypeOK
  <2>2. OperatorVerifies => t \notin quarantine
    BY <1>4 DEF IInv, QuarantineIsSafe
  <2> QED
    BY <1>1, <1>2, <1>3, <1>5, <2>1, <2>2 DEF IInv, QuarantineIsSafe, Live, Busy
<1> QED
  BY <1>8, <1>9, <1>10, <1>11, <1>12, <1>13, <1>14, <1>15, <1>16, <1>17, <1>18 DEF IInv

-----------------------------------------------------------------------------
(* A worker records the outcome of its attempt.                            *)

\* The end of an attempt preserves the invariant, however it ends.
LEMMA OutcomeStep ==
  ASSUME IInv, TypeOK', NEW w \in Workers, Busy(w), Leave(w),
         NEW status \in {"completed", "cancelled", "queued", "failed"},
         Settle(worker[w].task, status),
         UNCHANGED <<stop, quarantine>>,
         status \in {"queued", "failed"} => UNCHANGED execKey,
         status \in {"completed", "cancelled"} => ReleaseKey(worker[w].task),
         status = "completed" => Advance(task[worker[w].task].sched),
         status # "completed" => UNCHANGED nextRun,
         status = "queued" => UNCHANGED enabled /\ task[worker[w].task].attempts < MaxAttempts,
         status \in {"failed", "cancelled"} => enabled' = enabled \ {task[worker[w].task].sched}
  PROVE  IInv'
<1> DEFINE t == worker[w].task
<1> USE NoTaskIsNoRow
<1>1. t \in TaskIds
  BY BusyTask DEF IInv
<1>2. /\ task'[t].status = status
      /\ task'[t].attempts = task[t].attempts
      /\ \A u \in TaskIds : u # t => task'[u] = task[u]
      /\ \A u \in TaskIds : task'[u].sched = task[u].sched /\ task'[u].run = task[u].run
  BY <1>1, SettleEffect DEF IInv
<1>3. \A v \in Workers : Busy(v)' => v # w /\ Busy(v) /\ worker'[v].task = worker[v].task
  BY LeaveEffect DEF IInv, Busy
<1>4. /\ task[t].status \in {"running", "failed"}
      /\ OperatorVerifies => task[t].status = "running"
      /\ execKey[task[t].sched] = t
  BY DEF IInv, WorkerHoldsKey
<1>5. task[t].sched \in Schedules
  BY <1>1, <1>4 DEF IInv, RowsWellFormed, Exists
<1>6. \A u \in TaskIds : Exists(u)' <=> Exists(u)
  BY <1>2, <1>4 DEF Exists
<1>7. \A s \in Schedules : execKey[s] # NoTask => execKey[s] \in TaskIds
  BY DEF IInv, TypeOK
\* Only the key of t's schedule may change, and only by being released.
<1>8. \A s \in Schedules :
        /\ s # task[t].sched => execKey'[s] = execKey[s]
        /\ status \in {"queued", "failed"} => execKey'[s] = execKey[s]
        /\ s = task[t].sched /\ status \in {"completed", "cancelled"} => execKey'[s] = NoTask
  BY <1>1, <1>4, ReleaseEffect DEF IInv
<1>9. enabled' \subseteq enabled
  BY DEF Advance
\* The occurrences only move forward.
<1>10. \A s \in Schedules :
         /\ nextRun[s] \in Nat
         /\ s # task[t].sched \/ status # "completed" => nextRun'[s] = nextRun[s]
         /\ s = task[t].sched /\ status = "completed" => nextRun'[s] = nextRun[s] + 1
  BY <1>5 DEF IInv, TypeOK, Advance
\* A row of t's schedule other than t does not hold the key.
<1>11. \A u \in TaskIds : u # t /\ execKey[task[u].sched] = u => task[u].sched # task[t].sched
  BY <1>4
<1>12. RowsWellFormed'
  BY <1>2, <1>4, <1>5, <1>6 DEF IInv, RowsWellFormed, Exists
<1>13. ActiveHoldsKey'
  <2> SUFFICES ASSUME NEW u \in TaskIds, Active(u)' PROVE execKey'[task'[u].sched] = u
    BY DEF ActiveHoldsKey
  <2>1. CASE u = t
    BY <1>2, <1>4, <1>5, <1>8, <2>1 DEF Active
  <2>2. CASE u # t
    <3>1. Active(u) /\ execKey[task[u].sched] = u
      BY <1>2, <2>2 DEF IInv, ActiveHoldsKey, Active
    <3>2. task[u].sched \in Schedules /\ task[u].sched # task[t].sched
      BY <1>11, <2>2, <3>1 DEF IInv, RowsWellFormed, Active, Exists
    <3> QED
      BY <1>2, <1>8, <3>1, <3>2
  <2> QED
    BY <2>1, <2>2
<1>14. KeyNamesRow'
  <2> SUFFICES ASSUME NEW s \in Schedules, execKey'[s] # NoTask
               PROVE  /\ task'[execKey'[s]].sched = s
                      /\ task'[execKey'[s]].status \in {"queued", "running", "failed"}
    BY DEF KeyNamesRow
  <2>1. execKey'[s] = execKey[s] /\ execKey[s] \in TaskIds
    BY <1>7, <1>8
  <2>2. task[execKey[s]].sched = s /\ task[execKey[s]].status \in {"queued", "running", "failed"}
    BY <2>1 DEF IInv, KeyNamesRow
  <2>3. execKey[s] = t => status \in {"queued", "failed"}
    BY <1>8, <2>1, <2>2
  <2> QED
    BY <1>2, <2>1, <2>2, <2>3
<1>15. WorkerHoldsKey'
  <2> SUFFICES ASSUME NEW v \in Workers, Busy(v)'
               PROVE  /\ task'[worker'[v].task].status \in {"running", "failed"}
                      /\ OperatorVerifies => task'[worker'[v].task].status = "running"
                      /\ execKey'[task'[worker'[v].task].sched] = worker'[v].task
    BY DEF WorkerHoldsKey
  <2> DEFINE u == worker[v].task
  <2>1. Busy(v) /\ worker'[v].task = u /\ u \in TaskIds /\ u # t
    BY <1>3, BusyTask DEF IInv, OneWorkerPerTask
  <2>2. /\ task[u].status \in {"running", "failed"}
        /\ OperatorVerifies => task[u].status = "running"
        /\ execKey[task[u].sched] = u
    BY <2>1 DEF IInv, WorkerHoldsKey
  <2>3. task[u].sched \in Schedules /\ task[u].sched # task[t].sched
    BY <1>11, <2>1, <2>2 DEF IInv, RowsWellFormed, Exists
  <2> QED
    BY <1>2, <1>8, <2>1, <2>2, <2>3
<1>16. OneWorkerPerTask'
  BY <1>3 DEF IInv, OneWorkerPerTask
<1>17. FailureParksSchedule'
  BY <1>1, <1>2, <1>9 DEF IInv, FailureParksSchedule
<1>18. AttemptsBounded'
  BY <1>1, <1>2 DEF IInv, AttemptsBounded
<1>19. RunsBehindSchedule'
  <2> SUFFICES ASSUME NEW u \in TaskIds, Exists(u)
               PROVE  /\ task[u].run <= nextRun'[task[u].sched]
                      /\ task[u].run = nextRun'[task[u].sched] /\ task[u].sched \in enabled'
                           => execKey'[task[u].sched] = u
    BY <1>2, <1>6 DEF RunsBehindSchedule
  <2> DEFINE s == task[u].sched
  <2>1. s \in Schedules /\ task[u].run \in Nat
    BY DEF IInv, RowsWellFormed, TypeOK, TaskRow
  <2>2. /\ task[u].run <= nextRun[s]
        /\ task[u].run = nextRun[s] /\ s \in enabled => execKey[s] = u
    BY DEF IInv, RunsBehindSchedule
  <2>3. CASE s # task[t].sched
    BY <1>8, <1>9, <1>10, <2>1, <2>2, <2>3
  <2>4. CASE s = task[t].sched /\ status = "completed"
    BY <1>10, <2>1, <2>2, <2>4
  <2>5. CASE s = task[t].sched /\ status = "cancelled"
    BY <1>10, <2>1, <2>2, <2>5
  <2>6. CASE status \in {"queued", "failed"}
    BY <1>8, <1>9, <1>10, <2>1, <2>2, <2>6
  <2> QED
    BY <2>3, <2>4, <2>5, <2>6
<1>20. OneExecutionPerOccurrence'
  BY <1>2, <1>6 DEF IInv, OneExecutionPerOccurrence
<1>21. StopAddressesRow'
  BY <1>2, <1>6 DEF IInv, TypeOK, StopCall, StopAddressesRow
<1>22. QuarantineIsSafe'
  <2>1. quarantine \subseteq TaskIds
    BY DEF IInv, TypeOK
  <2>2. OperatorVerifies => t \notin quarantine
    BY DEF IInv, QuarantineIsSafe, Live
  <2> QED
    BY <1>2, <1>3, <1>6, <2>1, <2>2 DEF IInv, QuarantineIsSafe, Live
<1> QED
  BY <1>12, <1>13, <1>14, <1>15, <1>16, <1>17, <1>18, <1>19, <1>20, <1>21, <1>22 DEF IInv

-----------------------------------------------------------------------------
(* The analyst stops a run.                                                *)

\* The first transaction of cancel_run preserves the invariant.
LEMMA StopReadStep ==
  ASSUME IInv, TypeOK', NEW s \in Manual, NEW t \in TaskIds \union {NoTask}, StopRead(s, t)
  PROVE  IInv'
<1> USE NoTaskIsNoRow
<1>1. UNCHANGED <<enabled, nextRun, execKey, task, worker, quarantine>>
  BY DEF StopRead, scheduleVars, taskVars, workerVars
<1>2. RowsWellFormed' /\ ActiveHoldsKey' /\ KeyNamesRow' /\ FailureParksSchedule'
  BY <1>1 DEF IInv, RowsWellFormed, ActiveHoldsKey, KeyNamesRow, FailureParksSchedule,
              Exists, Active
<1>3. AttemptsBounded' /\ RunsBehindSchedule' /\ OneExecutionPerOccurrence'
  BY <1>1 DEF IInv, AttemptsBounded, RunsBehindSchedule, OneExecutionPerOccurrence, Exists
<1>4. WorkerHoldsKey' /\ OneWorkerPerTask' /\ QuarantineIsSafe'
  BY <1>1 DEF IInv, WorkerHoldsKey, OneWorkerPerTask, QuarantineIsSafe, Live, Busy, Exists
<1>5. stop'.sched = s /\ stop'.task = t /\ s \in Schedules
  BY ConstantsAssumption DEF StopRead, ConstantsAssumption
<1>6. t # NoTask => task[t].sched = s /\ Exists(t)
  BY DEF StopRead, Latest, Stoppable, Active, Exists
<1>7. StopAddressesRow'
  BY <1>1, <1>5, <1>6 DEF StopAddressesRow, Exists
<1> QED
  BY <1>2, <1>3, <1>4, <1>7 DEF IInv

\* The rows stay as they are; at most the schedule of the run is disabled.
LEMMA StopScheduleStep ==
  ASSUME IInv, TypeOK', enabled' \subseteq enabled, stop' = NoStop,
         UNCHANGED <<nextRun, execKey, task, worker, quarantine>>
  PROVE  IInv'
<1>1. RowsWellFormed' /\ ActiveHoldsKey' /\ KeyNamesRow' /\ FailureParksSchedule'
  BY DEF IInv, RowsWellFormed, ActiveHoldsKey, KeyNamesRow, FailureParksSchedule, Exists, Active
<1>2. AttemptsBounded' /\ RunsBehindSchedule' /\ OneExecutionPerOccurrence'
  BY DEF IInv, AttemptsBounded, RunsBehindSchedule, OneExecutionPerOccurrence, Exists
<1>3. WorkerHoldsKey' /\ OneWorkerPerTask' /\ QuarantineIsSafe' /\ StopAddressesRow'
  BY DEF IInv, WorkerHoldsKey, OneWorkerPerTask, QuarantineIsSafe, StopAddressesRow, Live, Busy,
         Exists
<1> QED
  BY <1>1, <1>2, <1>3 DEF IInv

\* A queued row that nobody works on is cancelled.
LEMMA StopQueuedStep ==
  ASSUME IInv, TypeOK', NEW t \in TaskIds, task[t].status = "queued",
         Settle(t, "cancelled"), ReleaseKey(t), enabled' = enabled \ {task[t].sched},
         stop' = NoStop, UNCHANGED <<nextRun, worker, quarantine>>
  PROVE  IInv'
<1> USE NoTaskIsNoRow
<1>1. /\ task'[t].status = "cancelled"
      /\ task'[t].attempts = task[t].attempts
      /\ \A u \in TaskIds : u # t => task'[u] = task[u]
      /\ \A u \in TaskIds : task'[u].sched = task[u].sched /\ task'[u].run = task[u].run
  BY SettleEffect DEF IInv
<1>2. task[t].sched \in Schedules /\ execKey[task[t].sched] = t
  BY DEF IInv, RowsWellFormed, ActiveHoldsKey, Exists, Active
<1>3. \A u \in TaskIds : Exists(u)' <=> Exists(u)
  BY <1>1 DEF Exists
<1>4. \A s \in Schedules : execKey'[s] = IF s = task[t].sched THEN NoTask ELSE execKey[s]
  BY <1>2, ReleaseEffect DEF IInv
<1>5. \A u \in TaskIds : u # t /\ execKey[task[u].sched] = u => task[u].sched # task[t].sched
  BY <1>2
<1>6. \A v \in Workers : Busy(v) => worker[v].task \in TaskIds /\ worker[v].task # t
  BY BusyTask DEF IInv, WorkerHoldsKey
<1>7. RowsWellFormed'
  BY <1>1, <1>2, <1>3 DEF IInv, RowsWellFormed, Exists
<1>8. ActiveHoldsKey'
  <2>1. \A u \in TaskIds : Active(u)' => u # t /\ Active(u)
    BY <1>1 DEF Active
  <2>2. \A u \in TaskIds : Active(u) => execKey[task[u].sched] = u /\ task[u].sched \in Schedules
    BY DEF IInv, ActiveHoldsKey, RowsWellFormed, Active, Exists
  <2> QED
    BY <1>1, <1>4, <1>5, <2>1, <2>2 DEF ActiveHoldsKey
<1>9. KeyNamesRow'
  <2> SUFFICES ASSUME NEW s \in Schedules, execKey'[s] # NoTask
               PROVE  /\ task'[execKey'[s]].sched = s
                      /\ task'[execKey'[s]].status \in {"queued", "running", "failed"}
    BY DEF KeyNamesRow
  <2>1. execKey'[s] = execKey[s] /\ s # task[t].sched /\ execKey[s] \in TaskIds
    BY <1>4 DEF IInv, TypeOK
  <2>2. task[execKey[s]].sched = s /\ task[execKey[s]].status \in {"queued", "running", "failed"}
    BY <2>1 DEF IInv, KeyNamesRow
  <2> QED
    BY <1>1, <2>1, <2>2
<1>10. WorkerHoldsKey'
  <2> SUFFICES ASSUME NEW v \in Workers, Busy(v)
               PROVE  /\ task'[worker[v].task].status \in {"running", "failed"}
                      /\ OperatorVerifies => task'[worker[v].task].status = "running"
                      /\ execKey'[task'[worker[v].task].sched] = worker[v].task
    BY DEF WorkerHoldsKey, Busy
  <2>1. /\ task[worker[v].task].status \in {"running", "failed"}
        /\ OperatorVerifies => task[worker[v].task].status = "running"
        /\ execKey[task[worker[v].task].sched] = worker[v].task
    BY DEF IInv, WorkerHoldsKey
  <2>2. /\ task[worker[v].task].sched \in Schedules
        /\ task[worker[v].task].sched # task[t].sched
    BY <1>5, <1>6, <2>1 DEF IInv, RowsWellFormed, Exists
  <2> QED
    BY <1>1, <1>4, <1>6, <2>1, <2>2
<1>11. OneWorkerPerTask'
  BY DEF IInv, OneWorkerPerTask, Busy
<1>12. FailureParksSchedule'
  BY <1>1 DEF IInv, FailureParksSchedule
<1>13. AttemptsBounded'
  BY <1>1 DEF IInv, AttemptsBounded
<1>14. RunsBehindSchedule'
  <2>1. \A u \in TaskIds : Exists(u) => task[u].sched \in Schedules
    BY DEF IInv, RowsWellFormed
  <2> QED
    BY <1>1, <1>3, <1>4, <2>1 DEF IInv, RunsBehindSchedule
<1>15. OneExecutionPerOccurrence'
  BY <1>1, <1>3 DEF IInv, OneExecutionPerOccurrence
<1>16. StopAddressesRow'
  BY DEF StopAddressesRow
<1>17. QuarantineIsSafe'
  BY <1>1, <1>3 DEF IInv, TypeOK, QuarantineIsSafe, Live, Busy
<1> QED
  BY <1>7, <1>8, <1>9, <1>10, <1>11, <1>12, <1>13, <1>14, <1>15, <1>16, <1>17 DEF IInv

\* The second transaction of cancel_run preserves the invariant.
LEMMA StopWriteStep ==
  ASSUME IInv, TypeOK', StopWrite
  PROVE  IInv'
<1>1. enabled' = enabled \ {stop.sched} /\ stop' = NoStop
      /\ UNCHANGED <<nextRun, worker, quarantine>>
  BY DEF StopWrite, workerVars
<1>2. CASE StopPending \/ StopRunning
  BY <1>1, <1>2, StopScheduleStep DEF StopPending, StopRunning
<1>3. CASE StopQueued
  <2>1. stop.task \in TaskIds
    BY <1>3 DEF StopQueued, IInv, TypeOK, StopCall
  <2>2. task[stop.task].sched = stop.sched
    BY <1>3 DEF StopWrite, StopQueued, IInv, StopAddressesRow
  <2> QED
    BY <1>1, <1>3, <2>1, <2>2, StopQueuedStep DEF StopQueued
<1> QED
  BY <1>2, <1>3 DEF StopWrite

-----------------------------------------------------------------------------
(* The operator quarantines expired leases.                                *)

\* The selection of stale leases preserves the invariant.
LEMMA RecoverReadStep ==
  ASSUME IInv, TypeOK', RecoverRead
  PROVE  IInv'
<1>1. UNCHANGED <<enabled, nextRun, execKey, task, worker, stop>>
  BY DEF RecoverRead, scheduleVars, taskVars, workerVars
<1>2. RowsWellFormed' /\ ActiveHoldsKey' /\ KeyNamesRow' /\ FailureParksSchedule'
  BY <1>1 DEF IInv, RowsWellFormed, ActiveHoldsKey, KeyNamesRow, FailureParksSchedule,
              Exists, Active
<1>3. AttemptsBounded' /\ RunsBehindSchedule' /\ OneExecutionPerOccurrence' /\ StopAddressesRow'
  BY <1>1 DEF IInv, AttemptsBounded, RunsBehindSchedule, OneExecutionPerOccurrence,
              StopAddressesRow, Exists
<1>4. WorkerHoldsKey' /\ OneWorkerPerTask'
  BY <1>1 DEF IInv, WorkerHoldsKey, OneWorkerPerTask, Busy
<1>5. QuarantineIsSafe'
  BY <1>1 DEF RecoverRead, Stale, QuarantineIsSafe, Live, Busy, Exists
<1> QED
  BY <1>2, <1>3, <1>4, <1>5 DEF IInv

\* The quarantine of what was selected preserves the invariant.
LEMMA RecoverApplyStep ==
  ASSUME IInv, TypeOK', RecoverApply
  PROVE  IInv'
<1>1. /\ UNCHANGED <<nextRun, execKey, worker, stop>>
      /\ quarantine' = {}
      /\ enabled' = enabled \ {task[t].sched : t \in quarantine}
  BY DEF RecoverApply, workerVars
<1>2. /\ quarantine \subseteq TaskIds
      /\ \A q \in quarantine : Exists(q) /\ (OperatorVerifies => ~Live(q))
  BY DEF IInv, TypeOK, QuarantineIsSafe
<1>3. \A u \in TaskIds : u \notin quarantine => task'[u] = task[u]
  BY DEF RecoverApply
<1>4. \A u \in TaskIds : u \in quarantine => task'[u].status = "failed"
  BY DEF RecoverApply, IInv, TypeOK, TaskRow
<1>5. \A u \in TaskIds : /\ task'[u].sched = task[u].sched
                         /\ task'[u].run = task[u].run
                         /\ task'[u].attempts = task[u].attempts
  BY DEF RecoverApply, IInv, TypeOK, TaskRow
<1>6. \A u \in TaskIds : Exists(u)' <=> Exists(u)
  BY <1>2, <1>3, <1>4 DEF Exists
<1>7. \A s \in Schedules : execKey[s] # NoTask => execKey[s] \in TaskIds
  BY DEF IInv, TypeOK
<1>8. \A v \in Workers : Busy(v) => worker[v].task \in TaskIds
  BY BusyTask DEF IInv
<1>9. RowsWellFormed'
  BY <1>2, <1>3, <1>5, <1>6 DEF IInv, RowsWellFormed
<1>10. ActiveHoldsKey'
  <2>1. \A u \in TaskIds : Active(u)' => Active(u)
    BY <1>3, <1>4 DEF Active
  <2> QED
    BY <1>1, <1>5, <2>1 DEF IInv, ActiveHoldsKey
<1>11. KeyNamesRow'
  BY <1>1, <1>3, <1>4, <1>5, <1>7 DEF IInv, KeyNamesRow
<1>12. WorkerHoldsKey'
  <2>1. \A v \in Workers : Busy(v) /\ OperatorVerifies => worker[v].task \notin quarantine
    BY <1>2 DEF Live
  <2> QED
    BY <1>1, <1>3, <1>4, <1>5, <1>8, <2>1 DEF IInv, WorkerHoldsKey, Busy
<1>13. OneWorkerPerTask'
  BY <1>1 DEF IInv, OneWorkerPerTask, Busy
<1>14. FailureParksSchedule'
  BY <1>1, <1>3, <1>5 DEF IInv, FailureParksSchedule
<1>15. AttemptsBounded'
  BY <1>3, <1>4, <1>5 DEF IInv, AttemptsBounded
<1>16. RunsBehindSchedule'
  BY <1>1, <1>5, <1>6 DEF IInv, RunsBehindSchedule
<1>17. OneExecutionPerOccurrence'
  BY <1>5, <1>6 DEF IInv, OneExecutionPerOccurrence
<1>18. StopAddressesRow'
  BY <1>1, <1>5, <1>6 DEF IInv, TypeOK, StopCall, StopAddressesRow
<1>19. QuarantineIsSafe'
  BY <1>1 DEF QuarantineIsSafe
<1> QED
  BY <1>9, <1>10, <1>11, <1>12, <1>13, <1>14, <1>15, <1>16, <1>17, <1>18, <1>19 DEF IInv

-----------------------------------------------------------------------------
(* The invariant holds in every reachable state.                           *)

\* The invariant holds before anything is reserved.
LEMMA InitInv == ConstantsAssumption /\ Init => IInv
<1> SUFFICES ASSUME Init PROVE IInv
  OBVIOUS
<1>1. TypeOK
  BY InitType, ConstantsAssumption
<1>2. \A t \in TaskIds : task[t] = Absent /\ ~Exists(t) /\ ~Active(t) /\ task[t].attempts = 0
  BY DEF Init, Absent, Exists, Active
<1>3. \A w \in Workers : ~Busy(w)
  BY DEF Init, Busy, Idle
<1>4. RowsWellFormed /\ ActiveHoldsKey /\ RunsBehindSchedule /\ OneExecutionPerOccurrence
  BY <1>2 DEF RowsWellFormed, ActiveHoldsKey, RunsBehindSchedule, OneExecutionPerOccurrence
<1>5. KeyNamesRow /\ StopAddressesRow /\ QuarantineIsSafe
  BY DEF Init, KeyNamesRow, StopAddressesRow, QuarantineIsSafe
<1>6. WorkerHoldsKey /\ OneWorkerPerTask
  BY <1>3 DEF WorkerHoldsKey, OneWorkerPerTask
<1>7. FailureParksSchedule /\ AttemptsBounded
  BY <1>2, ConstantsAssumption DEF FailureParksSchedule, AttemptsBounded, Absent, ConstantsAssumption
<1> QED
  BY <1>1, <1>4, <1>5, <1>6, <1>7 DEF IInv

\* Every step preserves the invariant.
LEMMA NextInv == IInv /\ [Next]_vars => IInv'
<1> SUFFICES ASSUME IInv, [Next]_vars PROVE IInv'
  OBVIOUS
<1> USE DEF scheduleVars, taskVars, workerVars, operatorVars
<1>0. TypeOK'
  BY NextType, ConstantsAssumption DEF IInv
<1>1. ASSUME NEW s \in Schedules, BecomeDue(s) PROVE IInv'
  BY <1>0, <1>1, QuietStep DEF BecomeDue, Busy
<1>2. ASSUME NEW t \in TaskIds, BackoffElapses(t) \/ LeaseExpires(t) PROVE IInv'
  BY <1>0, <1>2, QuietStep DEF BackoffElapses, LeaseExpires, Busy
<1>3. ASSUME NEW e \in Enqueuers, NEW S \in SUBSET Schedules, ReadDue(e, S) PROVE IInv'
  BY <1>0, <1>3, QuietStep DEF ReadDue, Busy
<1>4. ASSUME NEW e \in Enqueuers, Reserve(e) PROVE IInv'
  <2>1. PICK entry \in seen[e] :
          \/ /\ Reservable(entry[1], entry[2])
             /\ \E t \in TaskIds : NextId(t) /\ CreateTask(entry[1], t)
          \/ UNCHANGED <<task, ready, execKey>>
    BY <1>4 DEF Reserve
  <2>2. UNCHANGED <<enabled, due, nextRun, worker, stop, quarantine>>
    BY <1>4 DEF Reserve
  <2>3. CASE UNCHANGED <<task, ready, execKey>>
    BY <1>0, <2>2, <2>3, QuietStep DEF Busy
  <2>4. CASE Reservable(entry[1], entry[2])
             /\ \E t \in TaskIds : NextId(t) /\ CreateTask(entry[1], t)
    <3>1. entry[1] \in Schedules
      BY DEF IInv, TypeOK
    <3>2. Reservable(entry[1], nextRun[entry[1]])
      BY <2>4 DEF Reservable
    <3>3. PICK t \in TaskIds : ~Exists(t) /\ CreateTask(entry[1], t)
      BY <2>4 DEF NextId
    <3> QED
      BY <1>0, <2>2, <3>1, <3>2, <3>3, CreateStep
  <2> QED
    BY <2>1, <2>3, <2>4
<1>5. ASSUME NEW w \in Workers, NEW t \in TaskIds, Claim(w, t) PROVE IInv'
  BY <1>0, <1>5, ClaimStep
\* The steps of a worker that only move or end its visit.
<1>6. ASSUME NEW w \in Workers, Busy(w),
             Leave(w) \/ \E phase, fault : Goto(w, phase, fault),
             UNCHANGED <<scheduleVars, task, stop, quarantine>>
      PROVE  IInv'
  <2>1. \A v \in Workers : Busy(v)' => Busy(v) /\ worker'[v].task = worker[v].task
    BY <1>6, LeaveEffect, GotoEffect DEF IInv, Busy
  <2> QED
    BY <1>0, <1>6, <2>1, QuietStep
<1>7. ASSUME NEW w \in Workers, Begin(w) PROVE IInv'
  BY <1>6, <1>7 DEF Begin, Busy
<1>8. ASSUME NEW w \in Workers, NEW fault \in Faults \ {"none"}, Raise(w, fault) PROVE IInv'
  BY <1>6, <1>8 DEF Raise, Busy
<1>9. ASSUME NEW w \in Workers, Return(w) PROVE IInv'
  BY <1>6, <1>9 DEF Return, Busy
<1>10. ASSUME NEW w \in Workers, Finish(w) PROVE IInv'
  <2>1. Busy(w) /\ UNCHANGED <<ready, cancelReq, seen, sawStop, operatorVars>>
    BY <1>10 DEF Finish, Busy
  <2>2. CASE /\ Goto(w, "failing", "permanent") \/ Goto(w, "failing", "cancelled")
             /\ UNCHANGED <<scheduleVars, task, expired, saved>>
    BY <1>6, <2>1, <2>2
  <2>3. CASE Complete(w, worker[w].task)
    BY <1>0, <2>1, <2>3, OutcomeStep DEF Complete
  <2> QED
    BY <1>10, <2>2, <2>3 DEF Finish
<1>11. ASSUME NEW w \in Workers, FailRead(w) PROVE IInv'
  <2>1. Busy(w) /\ UNCHANGED <<scheduleVars, task, stop, quarantine>>
    BY <1>11 DEF FailRead, Busy
  <2>2. \A v \in Workers : Busy(v)' => Busy(v) /\ worker'[v].task = worker[v].task
    BY <1>11 DEF FailRead, IInv, TypeOK, WorkerState, Leave, Busy, Idle
  <2> QED
    BY <1>0, <2>1, <2>2, QuietStep
<1>12. ASSUME NEW w \in Workers, FailWrite(w) PROVE IInv'
  <2>1. Busy(w) /\ Leave(w) /\ UNCHANGED <<nextRun, stop, quarantine>>
    BY <1>12 DEF FailWrite, Busy
  <2>2. CASE RecordCancelled(w, worker[w].task)
    BY <1>0, <2>1, <2>2, OutcomeStep DEF RecordCancelled
  <2>3. CASE RecordRetry(w, worker[w].task)
    BY <1>0, <2>1, <2>3, OutcomeStep DEF RecordRetry, MarkRetry
  <2>4. CASE RecordFailed(w, worker[w].task)
    BY <1>0, <2>1, <2>4, OutcomeStep DEF RecordFailed
  <2> QED
    BY <1>12, <2>2, <2>3, <2>4 DEF FailWrite
<1>13. ASSUME NEW w \in Workers, Crash(w) PROVE IInv'
  BY <1>6, <1>13 DEF Crash
<1>14. ASSUME NEW s \in Manual, NEW t \in TaskIds \union {NoTask}, StopRead(s, t) PROVE IInv'
  BY <1>0, <1>14, StopReadStep
<1>15. CASE StopWrite
  BY <1>0, <1>15, StopWriteStep
<1>16. CASE RecoverRead
  BY <1>0, <1>16, RecoverReadStep
<1>17. CASE RecoverApply
  BY <1>0, <1>17, RecoverApplyStep
<1>18. CASE UNCHANGED vars
  BY <1>0, <1>18, QuietStep DEF vars, Busy
<1> QED
  BY <1>1, <1>2, <1>3, <1>4, <1>5, <1>7, <1>8, <1>9, <1>10, <1>11, <1>12, <1>13, <1>14,
     <1>15, <1>16, <1>17, <1>18, EnqueuerActs DEF Next, Process, IInv

\* The inductive invariant of the queue holds in every reachable state.
LEMMA Invariance == Spec => []IInv
<1>1. Init => IInv
  BY InitInv, ConstantsAssumption
<1> QED
  BY <1>1, NextInv, PTL DEF Spec

\* Every reachable state has the types TypeOK gives the rows and processes.
THEOREM TypeCorrect == Spec => []TypeOK
<1>1. IInv => TypeOK
  BY DEF IInv
<1> QED
  BY <1>1, Invariance, PTL

\* The key of a schedule names its queued or running execution, for any number of
\* schedules, workers and enqueuers: no second execution can be reserved meanwhile.
THEOREM ExecutionHoldsKey == Spec => []ActiveHoldsKey
<1>1. IInv => ActiveHoldsKey
  BY DEF IInv
<1> QED
  BY <1>1, Invariance, PTL

\* No two workers are ever inside scans of one schedule, whatever leases expire
\* and whatever the operator quarantines.
THEOREM ScansAreExclusive == Spec => []NoConcurrentExecution
<1>1. IInv => NoConcurrentExecution
  BY DEF IInv, NoConcurrentExecution, WorkerHoldsKey, OneWorkerPerTask
<1> QED
  BY <1>1, Invariance, PTL

\* Each occurrence of a schedule gets at most one execution, however stale the
\* due lists the enqueuers work from.
THEOREM OccurrenceRunsOnce == Spec => []OneExecutionPerOccurrence
<1>1. IInv => OneExecutionPerOccurrence
  BY DEF IInv
<1> QED
  BY <1>1, Invariance, PTL

\* A failed or cancelled execution leaves its schedule disabled.
THEOREM FailuresArePersistent == Spec => []FailureParksSchedule
<1>1. IInv => FailureParksSchedule
  BY DEF IInv
<1> QED
  BY <1>1, Invariance, PTL

\* No execution has more attempts than its budget, or is queued with none left.
THEOREM RetryBudgetKept == Spec => []AttemptsBounded
<1>1. IInv => AttemptsBounded
  BY DEF IInv
<1> QED
  BY <1>1, Invariance, PTL

-----------------------------------------------------------------------------
(* What a step does to the status and the attempts of the rows: either     *)
(* nothing, or one step of the abstract life cycle.                        *)

RowsStay ==
  \A t \in TaskIds : task'[t].status = task[t].status /\ task'[t].attempts = task[t].attempts

\* Row t goes from one of the given statuses to the status to, the others stay.
RowMoves(t, from, to) ==
  /\ task[t].status \in from /\ task'[t].status = to
  /\ \A u \in TaskIds : u # t => task'[u].status = task[u].status
  /\ \A u \in TaskIds : task'[u].attempts = task[u].attempts

RowStarts(t) ==
  /\ task[t].status = "queued" /\ task'[t].status = "running"
  /\ task[t].attempts < MaxAttempts /\ task'[t].attempts = task[t].attempts + 1
  /\ \A u \in TaskIds : u # t =>
       task'[u].status = task[u].status /\ task'[u].attempts = task[u].attempts

\* An attempt at row t ends; only a careless operator had failed the row before.
AttemptEnds(t, to) ==
  /\ RowMoves(t, {"running", "failed"}, to)
  /\ OperatorVerifies => task[t].status = "running"

RowsQuarantined ==
  /\ OperatorVerifies => \A t \in quarantine : task[t].status = "running"
  /\ \A t \in TaskIds : task'[t].status = IF t \in quarantine THEN "failed" ELSE task[t].status
  /\ \A t \in TaskIds : task'[t].attempts = task[t].attempts

\* Every step moves no row, one row along its life cycle, or quarantines some.
LEMMA StepKinds ==
  ASSUME IInv, [Next]_vars
  PROVE  \/ RowsStay
         \/ \E t \in TaskIds :
              \/ RowMoves(t, {"absent"}, "queued") /\ \E e \in Enqueuers : Reserve(e)
              \/ RowStarts(t)
              \/ RowMoves(t, {"queued"}, "cancelled")
              \/ AttemptEnds(t, "completed")
              \/ AttemptEnds(t, "cancelled")
              \/ AttemptEnds(t, "queued") /\ task[t].attempts < MaxAttempts
              \/ AttemptEnds(t, "failed")
         \/ RowsQuarantined
<1> DEFINE Goal ==
         \/ RowsStay
         \/ \E t \in TaskIds :
              \/ RowMoves(t, {"absent"}, "queued") /\ \E e \in Enqueuers : Reserve(e)
              \/ RowStarts(t)
              \/ RowMoves(t, {"queued"}, "cancelled")
              \/ AttemptEnds(t, "completed")
              \/ AttemptEnds(t, "cancelled")
              \/ AttemptEnds(t, "queued") /\ task[t].attempts < MaxAttempts
              \/ AttemptEnds(t, "failed")
         \/ RowsQuarantined
<1> USE DEF taskVars
\* What ends an attempt of worker w settles the row it works on.
<1>1. ASSUME NEW w \in Workers, Busy(w), NEW status, Settle(worker[w].task, status)
      PROVE  worker[w].task \in TaskIds /\ AttemptEnds(worker[w].task, status)
  <2>1. /\ worker[w].task \in TaskIds
        /\ task[worker[w].task].status \in {"running", "failed"}
        /\ OperatorVerifies => task[worker[w].task].status = "running"
    BY <1>1, BusyTask DEF IInv, WorkerHoldsKey
  <2> QED
    BY <1>1, <2>1, SettleEffect DEF IInv, AttemptEnds, RowMoves
<1>2. ASSUME UNCHANGED task PROVE Goal
  BY <1>2 DEF RowsStay
<1>3. ASSUME NEW e \in Enqueuers, Reserve(e) PROVE Goal
  <2>1. UNCHANGED task \/ \E s \in Schedules, t \in TaskIds : ~Exists(t) /\ CreateTask(s, t)
    BY <1>3 DEF Reserve, NextId, IInv, TypeOK
  <2>2. ASSUME NEW s \in Schedules, NEW t \in TaskIds, ~Exists(t), CreateTask(s, t) PROVE Goal
    <3>1. task[t].attempts = 0
      BY <2>2 DEF IInv, RowsWellFormed, Absent
    <3>2. task'[t].status = "queued" /\ task'[t].attempts = 0
          /\ \A u \in TaskIds : u # t => task'[u] = task[u]
      BY <2>2 DEF CreateTask, IInv, TypeOK, Absent
    <3>3. RowMoves(t, {"absent"}, "queued")
      BY <2>2, <3>1, <3>2 DEF RowMoves, Exists
    <3> QED
      BY <1>3, <3>3
  <2> QED
    BY <1>2, <2>1, <2>2
<1>4. ASSUME NEW w \in Workers, NEW t \in TaskIds, Claim(w, t) PROVE Goal
  <2>1. task[t].status = "queued" /\ task[t].attempts < MaxAttempts
    BY <1>4 DEF Claim, Claimable, IInv, AttemptsBounded
  <2>2. task'[t].status = "running" /\ task'[t].attempts = task[t].attempts + 1
        /\ \A u \in TaskIds : u # t => task'[u] = task[u]
    BY <1>4 DEF Claim, IInv, TypeOK, TaskRow
  <2> QED
    BY <2>1, <2>2 DEF RowStarts
<1>5. ASSUME NEW w \in Workers, Finish(w) PROVE Goal
  <2>1. CASE UNCHANGED task
    BY <1>2, <2>1
  <2>2. CASE Complete(w, worker[w].task)
    <3>1. Busy(w) /\ Settle(worker[w].task, "completed")
      BY <1>5, <2>2 DEF Finish, Complete, Busy
    <3> QED
      BY <1>1, <3>1
  <2> QED
    BY <1>5, <2>1, <2>2 DEF Finish
<1>6. ASSUME NEW w \in Workers, FailWrite(w) PROVE Goal
  <2>1. Busy(w)
    BY <1>6 DEF FailWrite, Busy
  <2>2. CASE RecordCancelled(w, worker[w].task)
    BY <1>1, <2>1, <2>2 DEF RecordCancelled
  <2>3. CASE RecordRetry(w, worker[w].task)
    BY <1>1, <2>1, <2>3 DEF RecordRetry, MarkRetry
  <2>4. CASE RecordFailed(w, worker[w].task)
    BY <1>1, <2>1, <2>4 DEF RecordFailed
  <2> QED
    BY <1>6, <2>2, <2>3, <2>4 DEF FailWrite
<1>7. ASSUME StopWrite PROVE Goal
  <2>1. CASE UNCHANGED task
    BY <1>2, <2>1
  <2>2. CASE StopQueued
    <3>1. stop.task \in TaskIds
      BY <2>2 DEF StopQueued, IInv, TypeOK, StopCall
    <3>2. RowMoves(stop.task, {"queued"}, "cancelled")
      BY <2>2, <3>1, SettleEffect DEF StopQueued, IInv, RowMoves
    <3> QED
      BY <3>1, <3>2
  <2> QED
    BY <1>7, <2>1, <2>2 DEF StopWrite, StopPending, StopRunning
<1>8. ASSUME RecoverApply PROVE Goal
  <2>1. OperatorVerifies => \A t \in quarantine : task[t].status = "running"
    BY DEF IInv, QuarantineIsSafe
  <2>2. \A t \in TaskIds : /\ task'[t].status = IF t \in quarantine THEN "failed" ELSE task[t].status
                           /\ task'[t].attempts = task[t].attempts
    BY <1>8 DEF RecoverApply, IInv, TypeOK, TaskRow
  <2> QED
    BY <2>1, <2>2 DEF RowsQuarantined
<1>9. CASE UNCHANGED task
  BY <1>2, <1>9
<1>10. CASE \E w \in Workers : \/ Begin(w) \/ Return(w) \/ FailRead(w) \/ Crash(w)
                               \/ \E fault \in Faults : Raise(w, fault)
  BY <1>2, <1>10 DEF Begin, Return, FailRead, Crash, Raise
<1>11. CASE \/ \E s \in Schedules : BecomeDue(s)
            \/ \E t \in TaskIds : BackoffElapses(t) \/ LeaseExpires(t)
            \/ \E e \in Enqueuers, S \in SUBSET Schedules : ReadDue(e, S)
            \/ \E s \in Manual, t \in TaskIds \union {NoTask} : StopRead(s, t)
            \/ RecoverRead
  BY <1>2, <1>11 DEF BecomeDue, BackoffElapses, LeaseExpires, ReadDue, StopRead, RecoverRead
<1>12. CASE UNCHANGED vars
  BY <1>2, <1>12 DEF vars
<1> QED
  BY <1>3, <1>4, <1>5, <1>6, <1>7, <1>8, <1>10, <1>11, <1>12, EnqueuerActs
     DEF Next, Process, IInv

\* No list has been read at the start.
LEMMA InitSeen == Init => SeenWasDue
BY DEF Init, SeenWasDue

\* What an enqueuer read as due stays due until its schedule advances.
LEMMA NextSeen ==
  ASSUME TypeOK, TypeOK', SeenWasDue, [Next]_vars
  PROVE  SeenWasDue'
<1> USE DEF scheduleVars, taskVars, workerVars, operatorVars
\* Lists may shrink and schedules become due.
<1>1. ASSUME UNCHANGED nextRun, due \subseteq due', \A e \in Enqueuers : seen'[e] \subseteq seen[e]
      PROVE  SeenWasDue'
  BY <1>1 DEF SeenWasDue
<1>2. ASSUME NEW e \in Enqueuers, NEW S \in SUBSET Schedules, ReadDue(e, S) PROVE SeenWasDue'
  <2>1. /\ seen'[e] = {<<s, nextRun[s]>> : s \in S \intersect enabled \intersect due}
        /\ \A f \in Enqueuers : f # e => seen'[f] = seen[f]
        /\ UNCHANGED <<nextRun, due>>
    BY <1>2 DEF ReadDue, TypeOK
  <2>2. \A s \in Schedules : nextRun[s] \in Nat
    BY DEF TypeOK
  <2>3. ASSUME NEW entry \in seen'[e]
        PROVE  entry[2] = nextRun[entry[1]] /\ entry[1] \in due /\ entry[1] \in Schedules
    BY <2>1, <2>3
  <2> QED
    BY <2>1, <2>2, <2>3 DEF SeenWasDue
<1>3. ASSUME NEW e \in Enqueuers, Reserve(e) PROVE SeenWasDue'
  BY <1>1, <1>3 DEF Reserve, TypeOK
\* An occurrence is over once its schedule advances.
<1>4. ASSUME NEW w \in Workers, Finish(w) PROVE SeenWasDue'
  <2>1. UNCHANGED seen
    BY <1>4 DEF Finish
  <2>2. CASE UNCHANGED scheduleVars
    BY <1>1, <2>1, <2>2
  <2>3. CASE Complete(w, worker[w].task)
    <3> DEFINE r == task[worker[w].task].sched
    <3>1. \A s \in Schedules : /\ nextRun[s] \in Nat
                               /\ s # r => nextRun'[s] = nextRun[s] /\ (s \in due => s \in due')
                               /\ s = r => nextRun'[s] = nextRun[s] + 1
      BY <2>3 DEF Complete, Advance, TypeOK
    <3>2. \A e \in Enqueuers : \A entry \in seen[e] : entry[1] \in Schedules /\ entry[2] \in Nat
      BY DEF TypeOK
    <3> SUFFICES ASSUME NEW e \in Enqueuers, NEW entry \in seen[e]
                 PROVE  /\ entry[2] <= nextRun'[entry[1]]
                        /\ entry[2] = nextRun'[entry[1]] => entry[1] \in due'
      BY <2>1 DEF SeenWasDue
    <3>3. /\ entry[2] <= nextRun[entry[1]]
          /\ entry[2] = nextRun[entry[1]] => entry[1] \in due
      BY DEF SeenWasDue
    <3>4. CASE entry[1] = r
      BY <3>1, <3>2, <3>3, <3>4
    <3>5. CASE entry[1] # r
      BY <3>1, <3>2, <3>3, <3>5
    <3> QED
      BY <3>4, <3>5
  <2> QED
    BY <1>4, <2>2, <2>3 DEF Finish
<1>5. CASE \E w \in Workers : \/ Begin(w) \/ Return(w) \/ FailRead(w) \/ FailWrite(w) \/ Crash(w)
                              \/ \E t \in TaskIds : Claim(w, t)
                              \/ \E fault \in Faults : Raise(w, fault)
  BY <1>1, <1>5 DEF Begin, Return, FailRead, FailWrite, Crash, Claim, Raise
<1>6. CASE \/ \E s \in Schedules : BecomeDue(s)
           \/ \E t \in TaskIds : BackoffElapses(t) \/ LeaseExpires(t)
           \/ \E s \in Manual, t \in TaskIds \union {NoTask} : StopRead(s, t)
           \/ StopWrite \/ RecoverRead \/ RecoverApply
  BY <1>1, <1>6
     DEF BecomeDue, BackoffElapses, LeaseExpires, StopRead, StopWrite, RecoverRead, RecoverApply
<1>7. CASE UNCHANGED vars
  BY <1>1, <1>7 DEF vars
<1> QED
  BY <1>2, <1>3, <1>4, <1>5, <1>6, <1>7, EnqueuerActs DEF Next, Process

\* An execution is only reserved while its schedule is due.
THEOREM NoEarlyExecution == Spec => ReservedWhenDue
<1>1. ConstantsAssumption /\ Init => SeenWasDue
  BY InitSeen
<1>2. TypeOK /\ TypeOK' /\ SeenWasDue /\ [Next]_vars => SeenWasDue'
  BY NextSeen
<1>3. IInv /\ SeenWasDue /\ [Next]_vars
        => [\A t \in TaskIds : ~Exists(t) /\ Exists(t)' => task'[t].sched \in due]_vars
  <2> SUFFICES ASSUME IInv, SeenWasDue, [Next]_vars, NEW t \in TaskIds, ~Exists(t), Exists(t)'
               PROVE  task'[t].sched \in due
    OBVIOUS
  <2>1. task[t].status = "absent" /\ task'[t].status # "absent"
    BY DEF Exists
  <2>2. PICK e \in Enqueuers : Reserve(e)
    BY <2>1, StepKinds DEF RowsStay, RowMoves, RowStarts, AttemptEnds, RowsQuarantined, IInv,
       QuarantineIsSafe, Exists
  <2>3. PICK entry \in seen[e] : Reservable(entry[1], entry[2]) /\ \E u \in TaskIds : CreateTask(entry[1], u)
    BY <2>1, <2>2 DEF Reserve
  <2>4. entry[1] \in due
    BY <2>3 DEF SeenWasDue, Reservable
  <2>5. task'[t].sched = entry[1]
    BY <2>1, <2>3 DEF CreateTask, IInv, TypeOK, Absent
  <2> QED
    BY <2>4, <2>5
<1> QED
  BY <1>1, <1>2, <1>3, Invariance, TypeCorrect, ConstantsAssumption, PTL DEF Spec, ReservedWhenDue

\* The queue implements the abstract life cycle of its rows, provided that the
\* operator only quarantines executions whose workers have stopped.
THEOREM Refinement == OperatorVerifies /\ Spec => ImplementsLifecycle
<1> SUFFICES ASSUME OperatorVerifies PROVE Spec => ImplementsLifecycle
  OBVIOUS
<1> DEFINE status == [t \in TaskIds |-> task[t].status]
           attempts == [t \in TaskIds |-> task[t].attempts]
<1>1. Init => Lifecycle!Init
  BY DEF Init, Lifecycle!Init, Absent
<1>2. IInv /\ [Next]_vars => [Lifecycle!Next]_(Lifecycle!vars)
  <2> SUFFICES ASSUME IInv, [Next]_vars PROVE [Lifecycle!Next]_(Lifecycle!vars)
    OBVIOUS
  <2>1. CASE RowsStay
    BY <2>1 DEF RowsStay, Lifecycle!vars
  <2>2. ASSUME NEW t \in TaskIds, RowMoves(t, {"absent"}, "queued") PROVE Lifecycle!Reserve(t)
    BY <2>2 DEF RowMoves, Lifecycle!Reserve
  <2>3. ASSUME NEW t \in TaskIds, RowStarts(t) PROVE Lifecycle!Start(t)
    BY <2>3 DEF RowStarts, Lifecycle!Start
  <2>4. ASSUME NEW t \in TaskIds, RowMoves(t, {"queued"}, "cancelled") \/ AttemptEnds(t, "cancelled")
        PROVE  Lifecycle!Cancel(t)
    BY <2>4 DEF RowMoves, AttemptEnds, Lifecycle!Cancel
  <2>5. ASSUME NEW t \in TaskIds, AttemptEnds(t, "completed") PROVE Lifecycle!Complete(t)
    BY <2>5 DEF RowMoves, AttemptEnds, Lifecycle!Complete
  <2>6. ASSUME NEW t \in TaskIds, AttemptEnds(t, "queued"), task[t].attempts < MaxAttempts
        PROVE  Lifecycle!Requeue(t)
    BY <2>6 DEF RowMoves, AttemptEnds, Lifecycle!Requeue
  <2>7. ASSUME NEW t \in TaskIds, AttemptEnds(t, "failed") PROVE Lifecycle!Fail({t})
    BY <2>7 DEF RowMoves, AttemptEnds, Lifecycle!Fail
  <2>8. CASE RowsQuarantined
    <3>1. PICK T \in SUBSET TaskIds : T = quarantine
      BY DEF IInv, TypeOK
    <3>2. \A t \in T : status[t] = "running"
      BY <2>8, <3>1 DEF RowsQuarantined
    <3>3. status' = [t \in TaskIds |-> IF t \in T THEN "failed" ELSE status[t]]
      BY <2>8, <3>1 DEF RowsQuarantined
    <3>4. attempts' = attempts
      BY <2>8 DEF RowsQuarantined
    <3>5. Lifecycle!Fail(T)
      BY <3>2, <3>3, <3>4 DEF Lifecycle!Fail
    <3> QED
      BY <3>5 DEF Lifecycle!Next
  <2> QED
    BY <2>1, <2>2, <2>3, <2>4, <2>5, <2>6, <2>7, <2>8, StepKinds DEF Lifecycle!Next
<1> QED
  BY <1>1, <1>2, Invariance, PTL DEF Spec, ImplementsLifecycle, Lifecycle!Spec
=============================================================================
