------------------------------ MODULE JobQueue ------------------------------
(***************************************************************************)
(* The database-backed scan queue: rows of scheduled_scans and queue_tasks *)
(* and the processes that share them without any other coordination:       *)
(*   - enqueuers (the scheduler loop, a browser publication) that turn due *)
(*     schedules into durable executions;                                  *)
(*   - workers that claim an execution, scan, and record its outcome;      *)
(*   - an analyst who stops an assessment run (cancel_run);                *)
(*   - an operator who quarantines expired leases (recover_stale_tasks).   *)
(*                                                                         *)
(* One action is one database transaction, or one read whose result a      *)
(* later transaction uses.  Clocks are abstracted to the comparisons the   *)
(* code makes with them: a schedule is due or not, a task is ready         *)
(* (available_at <= now) or not, a lease is held or expired.               *)
(***************************************************************************)
EXTENDS Naturals, FiniteSets

CONSTANTS
  Schedules,         \* rows of scheduled_scans
  Manual,            \* those with cadence "manual", which every AssessmentRun has
  Workers,           \* worker identities (lease_owner)
  Enqueuers,         \* processes inside _reserve_due
  Limit,             \* how many due schedules a pass of the scheduler loop handles
  MaxTasks,          \* bound: rows of queue_tasks ever created
  MaxAttempts,       \* retry_limit + 1
  OperatorVerifies,  \* the operator checked that the affected workers stopped
  NoWorker, NoSchedule

TaskIds == 1..MaxTasks
NoTask == 0

ASSUME ConstantsAssumption ==
  /\ Manual \subseteq Schedules
  /\ Limit \in Nat \ {0}
  /\ MaxTasks \in Nat
  /\ MaxAttempts \in Nat \ {0}
  /\ OperatorVerifies \in BOOLEAN
  /\ NoWorker \notin Workers
  /\ NoSchedule \notin Schedules

VARIABLES
  \* scheduled_scans
  enabled,     \* the schedules with enabled = true
  due,         \* the schedules with next_run_at <= now
  ahead,       \* for each of them the due schedules the due list names before it
  nextRun,     \* next_run_at of each schedule, as an occurrence number
  execKey,     \* queue_execution_key of each schedule, as the task it names
  \* queue_tasks
  task,        \* status, schedule, occurrence, attempt_count and lease_owner of each row
  ready,       \* the rows with available_at <= now
  expired,     \* the rows with lease_expires_at <= now
  cancelReq,   \* the rows with metadata_json.cancel_requested_at
  saved,       \* the rows with metadata_json.result
  \* processes
  seen,        \* each enqueuer's list of due schedules, as it read them
  worker,      \* each worker's place in _execute_db_queue_task
  sawStop,     \* the workers whose last refresh of their row showed a stop request
  stop,        \* the cancel_run call in progress, with the row it read
  answered,    \* what cancel_run last answered for a schedule
  quarantine,  \* the rows recover_stale_tasks read as expired
  quarantineStop \* those of them that it read with a stop request

scheduleVars == <<enabled, due, ahead, nextRun, execKey>>
taskVars == <<task, ready, expired, cancelReq, saved>>
workerVars == <<worker, sawStop>>
operatorVars == <<stop, answered, quarantine, quarantineStop>>
vars == <<scheduleVars, taskVars, seen, workerVars, operatorVars>>

Outcomes == {"completed", "failed", "cancelled"}
Status == {"absent", "queued", "running"} \union Outcomes
Faults == {"none", "transient", "permanent", "cancelled"}
Phases == {"idle", "claimed", "scanning", "finishing", "failing", "recording"}

TaskRow ==
  [status   : Status,
   sched    : Schedules \union {NoSchedule},
   run      : Nat,
   attempts : Nat,
   owner    : Workers \union {NoWorker}]

WorkerState ==
  [phase : Phases,
   task  : TaskIds \union {NoTask},
   fault : Faults]                        \* classify_failure of the exception

StopCall ==
  [sched  : Schedules \union {NoSchedule},
   task   : TaskIds \union {NoTask},
   status : {"none", "queued", "running"}]

Absent == [status |-> "absent", sched |-> NoSchedule, run |-> 0, attempts |-> 0,
           owner |-> NoWorker]
Idle == [phase |-> "idle", task |-> NoTask, fault |-> "none"]
NoStop == [sched |-> NoSchedule, task |-> NoTask, status |-> "none"]

TypeOK ==
  /\ enabled \subseteq Schedules
  /\ due \subseteq Schedules
  /\ ahead \in [Schedules -> SUBSET Schedules] /\ \A s \in Schedules : ahead[s] \subseteq due
  /\ nextRun \in [Schedules -> Nat]
  /\ execKey \in [Schedules -> TaskIds \union {NoTask}]
  /\ task \in [TaskIds -> TaskRow]
  /\ ready \subseteq TaskIds
  /\ expired \subseteq TaskIds
  /\ cancelReq \subseteq TaskIds
  /\ saved \subseteq TaskIds
  /\ seen \in [Enqueuers -> SUBSET (Schedules \X Nat)]
  /\ worker \in [Workers -> WorkerState]
  /\ \A w \in Workers : worker[w].phase # "idle" => worker[w].task # NoTask
  /\ sawStop \subseteq Workers
  /\ stop \in StopCall
  /\ answered \in [Schedules -> {"no", "cancelled", "cancelling"}]
  /\ quarantine \subseteq TaskIds
  /\ quarantineStop \subseteq quarantine

\* order_by(next_run_at, id): of two due schedules one comes first.
Ordered(before) ==
  \A r, s \in Schedules :
    /\ r = s => r \notin before[s]
    /\ r # s => (r \in before[s] <=> s \notin before[r])
    /\ r \in before[s] => before[r] \subseteq before[s]

Init ==
  /\ enabled = Schedules
  /\ due = Schedules
  /\ ahead \in {before \in [Schedules -> SUBSET Schedules] : Ordered(before)}
  /\ nextRun = [s \in Schedules |-> 0]
  /\ execKey = [s \in Schedules |-> NoTask]
  /\ task = [t \in TaskIds |-> Absent]
  /\ ready = {} /\ expired = {} /\ cancelReq = {} /\ saved = {}
  /\ seen = [e \in Enqueuers |-> {}]
  /\ worker = [w \in Workers |-> Idle]
  /\ sawStop = {}
  /\ stop = NoStop
  /\ answered = [s \in Schedules |-> "no"]
  /\ quarantine = {} /\ quarantineStop = {}

-----------------------------------------------------------------------------
(* Helpers on the two tables.                                              *)

Exists(t) == task[t].status # "absent"
Active(t) == task[t].status \in {"queued", "running"}
Busy(w) == worker[w].phase # "idle"
Live(t) == \E w \in Workers : Busy(w) /\ worker[w].task = t
Owned(w) == LET t == worker[w].task IN
  task[t].status = "running" /\ task[t].owner = w

\* The identifier the next INSERT gets: the smallest unused one.
NextId(t) == ~Exists(t) /\ \A u \in TaskIds : u < t => Exists(u)

\* order_by(QueueTask.id.desc()): the newest row of a schedule, NoTask if none.
Latest(s, t) ==
  IF t = NoTask THEN \A u \in TaskIds : task[u].sched # s
  ELSE task[t].sched = s /\ \A u \in TaskIds : task[u].sched = s => u <= t

\* release_queue_execution: clears the key only if it is still this task's.
ReleaseKey(t) ==
  execKey' = [s \in Schedules |->
    IF s = task[t].sched /\ execKey[s] = t THEN NoTask ELSE execKey[s]]

-----------------------------------------------------------------------------
(* Time.                                                                   *)

\* next_run_at passes: those due already have an earlier one.
BecomeDue(s) ==
  /\ s \notin due
  /\ due' = due \union {s}
  /\ ahead' = [ahead EXCEPT ![s] = due]
  /\ UNCHANGED <<enabled, nextRun, execKey, taskVars, seen, workerVars, operatorVars>>

BackoffElapses(t) ==
  /\ task[t].status = "queued" /\ t \notin ready
  /\ ready' = ready \union {t}
  /\ UNCHANGED <<scheduleVars, task, expired, cancelReq, saved, seen, workerVars, operatorVars>>

\* Leases are never renewed, so one may run out under a worker still scanning.
LeaseExpires(t) ==
  /\ task[t].status = "running" /\ t \notin expired
  /\ expired' = expired \union {t}
  /\ UNCHANGED <<scheduleVars, task, ready, cancelReq, saved, seen, workerVars, operatorVars>>

-----------------------------------------------------------------------------
(* Enqueuers.                                                              *)

\* Reading the due list.  S stands for the schedule_ids of a browser publication,
\* whose limit is their number; a process that dies halfway through its list has
\* behaved like one given a smaller S.
ReadDue(e, S) ==
  /\ seen[e] = {}
  /\ seen' = [seen EXCEPT ![e] = {<<s, nextRun[s]>> : s \in S \intersect enabled \intersect due}]
  /\ UNCHANGED <<scheduleVars, taskVars, workerVars, operatorVars>>

\* due[:limit] of list_due_scheduled_scans, which does not look at the key: a
\* schedule whose execution is queued, running or abandoned keeps its place.
Front == {s \in enabled \intersect due : Cardinality(ahead[s] \intersect enabled) < Limit}

\* One pass of the scheduler loop, which names no schedule_ids.
Poll(e) == ReadDue(e, Front)

\* Mutant: the UPDATE does not compare next_run_at with the value read.
ReservableStale(s, run) == execKey[s] = NoTask /\ s \in enabled

\* Mutant: the UPDATE does not require a free key.
ReservableUnkeyed(s, run) == s \in enabled /\ nextRun[s] = run

\* The compare-and-set of reserve_queue_execution, against the row read above.
Reservable(s, run) ==
  /\ execKey[s] = NoTask
  /\ s \in enabled
  /\ nextRun[s] = run

\* INSERT of the execution and the schedule's key, in one transaction.
CreateTask(s, t) ==
  /\ task' = [task EXCEPT ![t] = [Absent EXCEPT !.status = "queued", !.sched = s,
                                                !.run = nextRun[s]]]
  /\ ready' = ready \union {t}
  /\ execKey' = [execKey EXCEPT ![s] = t]

Reserve(e) ==
  /\ \E entry \in seen[e] :
       /\ seen' = [seen EXCEPT ![e] = @ \ {entry}]
       /\ \/ /\ Reservable(entry[1], entry[2])
             /\ \E t \in TaskIds : NextId(t) /\ CreateTask(entry[1], t)
          \/ /\ ~Reservable(entry[1], entry[2])
             /\ UNCHANGED <<task, ready, execKey>>
  /\ UNCHANGED <<enabled, due, ahead, nextRun, expired, cancelReq, saved, workerVars, operatorVars>>

-----------------------------------------------------------------------------
(* Workers.                                                                *)

Goto(w, phase, fault) ==
  worker' = [worker EXCEPT ![w].phase = phase, ![w].fault = fault]

Leave(w) == worker' = [worker EXCEPT ![w] = Idle]

\* Mutant: an expired lease makes a running row claimable again.
ClaimableOrExpired(t) ==
  /\ \/ task[t].status = "queued" /\ t \in ready
     \/ task[t].status = "running" /\ t \in expired
  /\ task[t].attempts < MaxAttempts

Claimable(t) == task[t].status = "queued" /\ t \in ready

\* claim_queue_task: a conditional UPDATE, so of two workers one wins.
Claim(w, t) ==
  /\ ~Busy(w)
  /\ Claimable(t)
  /\ task' = [task EXCEPT ![t].status = "running", ![t].owner = w, ![t].attempts = @ + 1]
  /\ expired' = expired \ {t}
  /\ worker' = [worker EXCEPT ![w] = [Idle EXCEPT !.phase = "claimed", !.task = t]]
  /\ UNCHANGED <<scheduleVars, ready, cancelReq, saved, seen, sawStop, operatorVars>>

\* The second session: ownership check, then the check made on entering
\* cancellation_scope.
Begin(w) ==
  /\ worker[w].phase = "claimed"
  /\ \/ ~Owned(w) /\ Leave(w)
     \/ Owned(w) /\ worker[w].task \in cancelReq /\ Goto(w, "failing", "cancelled")
     \/ Owned(w) /\ worker[w].task \notin cancelReq /\ Goto(w, "scanning", "none")
  /\ UNCHANGED <<scheduleVars, taskVars, seen, sawStop, operatorVars>>

\* The scan raises: a transient or permanent fault, or a poll of the stop
\* request.  A permanent one may also come after the scan (no result).
Raise(w, fault) ==
  /\ worker[w].phase = "scanning"
  /\ fault = "cancelled" => worker[w].task \in cancelReq
  /\ Goto(w, "failing", fault)
  /\ UNCHANGED <<scheduleVars, taskVars, seen, sawStop, operatorVars>>

\* The scan returns and the check made on leaving cancellation_scope passes.
Return(w) ==
  /\ worker[w].phase = "scanning"
  /\ worker[w].task \notin cancelReq
  /\ Goto(w, "finishing", "none")
  /\ UNCHANGED <<scheduleVars, taskVars, seen, sawStop, operatorVars>>

\* Status and lease columns of a row whose attempt is over.
Settle(t, status) ==
  /\ task' = [task EXCEPT ![t].status = status, ![t].owner = NoWorker]
  /\ expired' = expired \ {t}

\* mark_scheduled_scan_run: the next occurrence, in the future for a cadence.
Advance(s) ==
  /\ nextRun' = [nextRun EXCEPT ![s] = @ + 1]
  /\ due' = due \ {s}
  /\ ahead' = [r \in Schedules |-> IF r = s THEN {} ELSE ahead[r] \ {s}]
  /\ enabled' = IF s \in Manual THEN enabled \ {s} ELSE enabled

\* Mutant: the completed execution keeps the schedule's key.
CompleteUnreleased(w, t) ==
  /\ Settle(t, "completed")
  /\ saved' = saved \union {t}
  /\ UNCHANGED execKey
  /\ Advance(task[t].sched)
  /\ Leave(w)

\* mark_scheduled_scan_run is flushed first and so takes the row lock (the write
\* lock on SQLite); the refresh, both checks and the commit follow under it.
Complete(w, t) ==
  /\ Settle(t, "completed")
  /\ saved' = saved \union {t}
  /\ ReleaseKey(t)
  /\ Advance(task[t].sched)
  /\ Leave(w)

StopSeen(w) == worker[w].task \in cancelReq

Finish(w) ==
  /\ worker[w].phase = "finishing"
  /\ \/ /\ ~Owned(w)
        /\ Goto(w, "failing", "permanent")
        /\ UNCHANGED <<scheduleVars, task, expired, saved>>
     \/ /\ Owned(w) /\ StopSeen(w)
        /\ Goto(w, "failing", "cancelled")
        /\ UNCHANGED <<scheduleVars, task, expired, saved>>
     \/ Owned(w) /\ ~StopSeen(w) /\ Complete(w, worker[w].task)
  /\ UNCHANGED <<ready, cancelReq, seen, sawStop, operatorVars>>

\* The exception handler: rollback, refresh, ownership check ...
FailRead(w) ==
  /\ worker[w].phase = "failing"
  /\ \/ ~Owned(w) /\ Leave(w) /\ UNCHANGED sawStop
     \/ /\ Owned(w)
        /\ worker' = [worker EXCEPT ![w].phase = "recording"]
        /\ sawStop' = IF worker[w].task \in cancelReq THEN sawStop \union {w} ELSE sawStop \ {w}
  /\ UNCHANGED <<scheduleVars, taskVars, seen, operatorVars>>

\* ... and then the outcome, written over whatever was committed in between.
\* metadata_json goes back to what the refresh saw, unless the failure recorded
\* is the one a former attempt already left there: equal JSON is not rewritten.
RewriteMetadata(w, t) ==
  \/ cancelReq' = IF w \in sawStop THEN cancelReq \union {t} ELSE cancelReq \ {t}
  \/ task[t].attempts > 1 /\ UNCHANGED cancelReq

RecordCancelled(w, t) ==
  /\ worker[w].fault = "cancelled"
  /\ Settle(t, "cancelled")
  /\ ReleaseKey(t)
  /\ enabled' = enabled \ {task[t].sched}
  /\ UNCHANGED <<ready, cancelReq>>

\* mark_queue_task_retry
MarkRetry(w, t) ==
  /\ Settle(t, "queued")
  /\ ready' = ready \ {t}
  /\ RewriteMetadata(w, t)

\* Mutant: the retry gives the schedule's key back.
RecordRetryReleasing(w, t) ==
  /\ worker[w].fault = "transient" /\ task[t].attempts < MaxAttempts
  /\ MarkRetry(w, t)
  /\ ReleaseKey(t)
  /\ UNCHANGED enabled

\* Mutant: one retry too many.
RecordRetryExtra(w, t) ==
  /\ worker[w].fault = "transient" /\ task[t].attempts <= MaxAttempts
  /\ MarkRetry(w, t)
  /\ UNCHANGED <<enabled, execKey>>

RecordRetry(w, t) ==
  /\ worker[w].fault = "transient" /\ task[t].attempts < MaxAttempts
  /\ MarkRetry(w, t)
  /\ UNCHANGED <<enabled, execKey>>

\* Mutant: the schedule of the failed execution stays enabled.
RecordFailedEnabled(w, t) ==
  /\ \/ worker[w].fault = "permanent"
     \/ worker[w].fault = "transient" /\ task[t].attempts >= MaxAttempts
  /\ Settle(t, "failed")
  /\ RewriteMetadata(w, t)
  /\ UNCHANGED <<enabled, ready, execKey>>

\* Mutant: the last attempt falls between the two branches.
RecordFailedLate(w, t) ==
  /\ \/ worker[w].fault = "permanent"
     \/ worker[w].fault = "transient" /\ task[t].attempts > MaxAttempts
  /\ Settle(t, "failed")
  /\ RewriteMetadata(w, t)
  /\ enabled' = enabled \ {task[t].sched}
  /\ UNCHANGED <<ready, execKey>>

\* mark_queue_task_failed: the schedule is disabled and its key stays taken.
RecordFailed(w, t) ==
  /\ \/ worker[w].fault = "permanent"
     \/ worker[w].fault = "transient" /\ task[t].attempts >= MaxAttempts
  /\ Settle(t, "failed")
  /\ RewriteMetadata(w, t)
  /\ enabled' = enabled \ {task[t].sched}
  /\ UNCHANGED <<ready, execKey>>

FailWrite(w) ==
  LET t == worker[w].task IN
  /\ worker[w].phase = "recording"
  /\ RecordCancelled(w, t) \/ RecordRetry(w, t) \/ RecordFailed(w, t)
  /\ Leave(w)
  /\ UNCHANGED <<due, ahead, nextRun, saved, seen, sawStop, operatorVars>>

\* The process dies.  Its task stays "running"; nothing claims it again.
Crash(w) ==
  /\ Busy(w)
  /\ Leave(w)
  /\ UNCHANGED <<scheduleVars, taskVars, seen, sawStop, operatorVars>>

-----------------------------------------------------------------------------
(* The analyst's stop, AssessmentJobs.cancel_run.                          *)

\* Only pending or active runs can be stopped.
Stoppable(s, t) == IF t = NoTask THEN s \in enabled ELSE Active(t)

StopRead(s, t) ==
  /\ stop = NoStop
  /\ Latest(s, t)
  /\ Stoppable(s, t)
  /\ stop' = [sched |-> s, task |-> t,
              status |-> IF t = NoTask THEN "none" ELSE task[t].status]
  /\ UNCHANGED <<scheduleVars, taskVars, seen, workerVars, answered, quarantine, quarantineStop>>

\* The run had no execution, or one that was no longer queued or running when
\* the conditional UPDATE missed: only the schedule is written.
StopPending ==
  /\ \/ stop.task = NoTask
     \/ stop.task # NoTask /\ stop.status = "queued" /\ ~Active(stop.task)
  /\ answered' = [answered EXCEPT ![stop.sched] = "cancelled"]
  /\ UNCHANGED <<execKey, task, expired, cancelReq, saved>>

\* Mutant: the UPDATE has no condition on the status.
StopQueuedBlind ==
  /\ stop.task # NoTask /\ stop.status = "queued"
  /\ Settle(stop.task, "cancelled")
  /\ ReleaseKey(stop.task)
  /\ answered' = [answered EXCEPT ![stop.sched] = "cancelled"]
  /\ UNCHANGED <<cancelReq, saved>>

\* Conditional UPDATE on status = 'queued'.
StopQueued ==
  /\ stop.task # NoTask /\ stop.status = "queued" /\ task[stop.task].status = "queued"
  /\ Settle(stop.task, "cancelled")
  /\ ReleaseKey(stop.task)
  /\ answered' = [answered EXCEPT ![stop.sched] = "cancelled"]
  /\ UNCHANGED <<cancelReq, saved>>

\* metadata_json is rewritten from the copy the call holds: a fresh one when the
\* conditional UPDATE missed, otherwise the one StopRead saw, without a result.
StopRunning ==
  /\ stop.task # NoTask
  /\ \/ stop.status = "running"
     \/ stop.status = "queued" /\ task[stop.task].status = "running"
  /\ cancelReq' = cancelReq \union {stop.task}
  /\ saved' = saved \ {stop.task}
  /\ answered' = [answered EXCEPT ![stop.sched] = "cancelling"]
  /\ UNCHANGED <<execKey, task, expired>>

StopWrite ==
  /\ stop # NoStop
  /\ StopPending \/ StopQueued \/ StopRunning
  /\ enabled' = enabled \ {stop.sched}
  /\ stop' = NoStop
  /\ UNCHANGED <<due, ahead, nextRun, ready, seen, workerVars, quarantine, quarantineStop>>

-----------------------------------------------------------------------------
(* The operator's recovery, recover_stale_tasks(apply=True).               *)

Stale == {t \in expired : task[t].status = "running"}

RecoverRead ==
  /\ quarantine = {} /\ Stale # {}
  /\ OperatorVerifies => \A t \in Stale : ~Live(t)
  /\ quarantine' = Stale
  /\ quarantineStop' = Stale \intersect cancelReq
  /\ UNCHANGED <<scheduleVars, taskVars, seen, workerVars, stop, answered>>

\* Every row read is failed without looking at it again, its metadata_json going
\* back to what was read.  The key is kept.
RecoverApply ==
  /\ quarantine # {}
  /\ task' = [t \in TaskIds |->
       IF t \in quarantine
       THEN [task[t] EXCEPT !.status = "failed", !.owner = NoWorker] ELSE task[t]]
  /\ expired' = expired \ quarantine
  /\ cancelReq' = (cancelReq \ quarantine) \union quarantineStop
  /\ saved' = saved \ quarantine
  /\ enabled' = enabled \ {task[t].sched : t \in quarantine}
  /\ quarantine' = {} /\ quarantineStop' = {}
  /\ UNCHANGED <<due, ahead, nextRun, execKey, ready, seen, workerVars, stop, answered>>

-----------------------------------------------------------------------------

EnqueuerStep(e) == (\E S \in SUBSET Schedules : ReadDue(e, S)) \/ Poll(e) \/ Reserve(e)

Process(w) == \/ Begin(w) \/ Return(w) \/ Finish(w) \/ FailRead(w) \/ FailWrite(w)
              \/ \E fault \in Faults \ {"none"} : Raise(w, fault)

Next ==
  \/ \E s \in Schedules : BecomeDue(s)
  \/ \E t \in TaskIds : BackoffElapses(t) \/ LeaseExpires(t)
  \/ \E e \in Enqueuers : EnqueuerStep(e)
  \/ \E w \in Workers : \/ \E t \in TaskIds : Claim(w, t)
                        \/ Process(w)
                        \/ Crash(w)
  \/ \E s \in Manual : \E t \in TaskIds \union {NoTask} : StopRead(s, t)
  \/ StopWrite
  \/ RecoverRead
  \/ RecoverApply

Spec == Init /\ [][Next]_vars

-----------------------------------------------------------------------------
(* Properties.                                                             *)

\* A queued or running execution is the one its schedule's key names, so a
\* second one cannot be reserved while it lives (reserve_queue_execution).
ActiveHoldsKey ==
  \A t \in TaskIds : Active(t) => execKey[task[t].sched] = t

\* Two workers are never inside the same schedule's scan, even when a lease runs
\* out under a slow worker and the operator quarantines its task (docs: recovery
\* "never launches speculative concurrent recovery").
NoConcurrentExecution ==
  \A v, w \in Workers :
    v # w /\ Busy(v) /\ Busy(w)
      => task[worker[v].task].sched # task[worker[w].task].sched

\* However many enqueuers read the same due list, and however late they act on
\* it, one occurrence of a schedule gets one durable execution.
OneExecutionPerOccurrence ==
  \A t, u \in TaskIds :
    Exists(t) /\ Exists(u) /\ t # u /\ task[t].sched = task[u].sched
      => task[t].run # task[u].run

\* An execution is only reserved while its schedule is due, although the due list
\* it comes from may be older than the schedule's last completion.
ReservedWhenDue ==
  [][\A t \in TaskIds : ~Exists(t) /\ Exists(t)' => task'[t].sched \in due]_vars

\* A failed or stopped execution leaves its schedule disabled, so that polling
\* cannot restart the same work (docs: "disable the schedule").
FailureParksSchedule ==
  \A t \in TaskIds :
    task[t].status \in {"failed", "cancelled"} => task[t].sched \notin enabled

\* The retry budget: no attempt beyond max_attempts, and none pending once the
\* budget is used, although the claim itself never looks at max_attempts.
AttemptsBounded ==
  \A t \in TaskIds :
    /\ task[t].attempts <= MaxAttempts
    /\ task[t].status = "queued" => task[t].attempts < MaxAttempts

\* Each row of queue_tasks follows the abstract life cycle, outcomes being final.
\* It needs the operator's check that the affected workers have stopped.
Lifecycle == INSTANCE QueueTaskLifecycle WITH
  status <- [t \in TaskIds |-> task[t].status],
  attempts <- [t \in TaskIds |-> task[t].attempts]
ImplementsLifecycle == Lifecycle!Spec

\* docs/job-reliability.md: "Completed tasks return saved results on replay".
\* cancel_run writes back a metadata_json it read before the completion.
CompletedKeepsResult ==
  \A t \in TaskIds : task[t].status = "completed" => t \in saved

\* docs/job-reliability.md: the browser action stops "pending/queued schedules
\* immediately".  cancel_run reads that no execution exists, an enqueuer reserves
\* one, and only then is the schedule disabled.
StoppedPendingNeverStarts ==
  [][\A t \in TaskIds :
       task[t].status = "queued" /\ task'[t].status = "running"
         => answered[task[t].sched] # "cancelled"]_vars

\* docs/job-reliability.md: the stop action does "persist a stop request for
\* running QueueTasks".  The failure handler refreshes the row, cancel_run commits
\* its request and is answered, the handler writes back the metadata_json it
\* refreshed, and the retry completes the run that was being stopped.
StoppedRunNeverCompletes ==
  [][\A t \in TaskIds :
       task[t].status = "running" /\ task'[t].status = "completed"
         => answered[task[t].sched] # "cancelling"]_vars

-----------------------------------------------------------------------------
(* Liveness.  Clocks advance, workers keep polling, scans are bounded by    *)
(* their timeouts, and the passes of the scheduler loop recur among the     *)
(* browser's publications (hence SF); each sees the front of the due list   *)
(* only.  Nothing is assumed of the browser, of the analyst, of the         *)
(* operator, of leases or of crashes.                                       *)

Fairness ==
  /\ \A s \in Schedules : WF_vars(BecomeDue(s))
  /\ \A t \in TaskIds : WF_vars(BackoffElapses(t))
  /\ \A e \in Enqueuers : SF_vars(Poll(e)) /\ WF_vars(Reserve(e))
  /\ \A t \in TaskIds : WF_vars(\E w \in Workers : Claim(w, t))
  /\ \A w \in Workers : WF_vars(Process(w))

FairSpec == Spec /\ Fairness

\* Every execution ends, or is left running by a worker that died: nothing else
\* strands it, whatever retries, stops and quarantines happen meanwhile.
ExecutionsEnd ==
  \A t \in TaskIds :
    Active(t) ~> \/ task[t].status \in Outcomes
                 \/ task[t].status = "running" /\ ~Live(t)

\* A schedule whose execution a dead worker left behind: due, enabled and keyed
\* until an operator quarantines the execution.
Stranded(s) ==
  s \in enabled /\ \E t \in TaskIds : task[t].sched = s /\ task[t].status = "running" /\ ~Live(t)

\* A due schedule that stays enabled is eventually held by an execution (or the
\* bound on queue_tasks rows is used up): no stale list, lost race or place in the
\* due list forgets it.  Only Limit schedules before it, all stranded by workers
\* that died, starve it; running, retried and stopped ones give way.
DueIsReserved ==
  \A s \in Schedules :
    s \in due /\ s \in enabled
      ~> \/ s \notin enabled
         \/ \E t \in TaskIds : Active(t) /\ task[t].sched = s
         \/ \A t \in TaskIds : Exists(t)
         \/ Limit <= Cardinality({r \in ahead[s] : Stranded(r)})
=============================================================================
