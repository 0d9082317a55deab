------------------------------ MODULE RqQueue ------------------------------
(***************************************************************************)
(* The Redis/RQ backend of the scan queue.  A reserved row of queue_tasks  *)
(* is an outbox entry: publishers turn it into an RQ job under a short     *)
(* lease, RQ delivers the job at least once, and the worker that gets it   *)
(* claims the row before it scans.  The row and the RQ job each count      *)
(* retries, and publishers, workers and the connection between them fail.  *)
(*                                                                         *)
(* Every execution has its schedule to itself here; schedules, due lists   *)
(* and the finer races of cancel_run are the subject of JobQueue.  RQ is   *)
(* external: the actions marked so are what the code relies on.            *)
(***************************************************************************)
EXTENDS Naturals

CONSTANTS
  TaskIds,           \* reserved executions, each of a schedule of its own
  Publishers,        \* processes inside enqueue_due_scheduled_scans
  Workers,           \* RQ workers
  MaxAttempts,       \* retry_limit + 1
  PromptPublishers,  \* no publisher outlives the 60 s lease it took
  ClaimBound,        \* bound on the claims of a row, which a slow publisher can renew
  NoLease, Execution, NoTask

ASSUME RqAssumption ==
  /\ MaxAttempts \in Nat \ {0}
  /\ PromptPublishers \in BOOLEAN
  /\ ClaimBound \in Nat /\ ClaimBound > MaxAttempts
  /\ NoLease \notin Publishers /\ Execution \notin Publishers /\ NoLease # Execution
  /\ NoTask \notin TaskIds

VARIABLES
  row,         \* status, attempt_count and lease_owner of each row
  ready,       \* the rows with available_at <= now
  expired,     \* the rows whose publication lease ran out
  published,   \* the rows with metadata_json.published
  cancelReq,   \* the rows with metadata_json.cancel_requested_at
  held,        \* the rows whose schedule's key still names them
  enabled,     \* the rows whose schedule is enabled
  list,        \* the unpublished rows each publisher has read and not handled
  pub,         \* each publisher's place in its loop
  job,         \* RQ's record of each job: state and retries_left
  deliveries,  \* how often each job is in RQ's queue or its retry timer
  worker       \* each worker's place in execute_scheduled_scan_job

rowVars == <<row, ready, expired, published, cancelReq, held, enabled>>
pubVars == <<list, pub>>
jobVars == <<job, deliveries>>
vars == <<rowVars, pubVars, jobVars, worker>>

Outcomes == {"completed", "failed", "cancelled"}
Status == {"absent", "queued", "running"} \union Outcomes
Faults == {"none", "transient", "permanent", "cancelled"}

TypeOK ==
  /\ row \in [TaskIds -> [status : Status, attempts : Nat,
                          lease : Publishers \union {NoLease, Execution}]]
  /\ \A t \in TaskIds :
       /\ row[t].lease = Execution <=> row[t].status = "running"
       /\ row[t].lease \in Publishers => row[t].status = "queued"
  /\ ready \subseteq TaskIds
  /\ expired \subseteq TaskIds
  /\ published \subseteq TaskIds
  /\ cancelReq \subseteq TaskIds
  /\ held \subseteq TaskIds
  /\ enabled \subseteq TaskIds
  /\ list \in [Publishers -> SUBSET TaskIds]
  /\ pub \in [Publishers -> [phase : {"idle", "leased", "fetched", "enqueued"},
                             task : TaskIds \union {NoTask}, found : BOOLEAN]]
  /\ job \in [TaskIds -> [state : {"none", "live", "finished", "failed"},
                          retries : 0..(MaxAttempts - 1)]]
  /\ deliveries \in [TaskIds -> Nat]
  /\ worker \in [Workers -> [phase : {"idle", "delivered", "scanning", "failing",
                                      "succeeded", "raised"},
                             task : TaskIds \union {NoTask},
                             retries : 0..(MaxAttempts - 1), fault : Faults]]

Waiting == [phase |-> "idle", task |-> NoTask, found |-> FALSE]
Idle == [phase |-> "idle", task |-> NoTask, retries |-> 0, fault |-> "none"]

Init ==
  /\ row = [t \in TaskIds |-> [status |-> "absent", attempts |-> 0, lease |-> NoLease]]
  /\ ready = {} /\ expired = {} /\ published = {} /\ cancelReq = {}
  /\ held = {} /\ enabled = TaskIds
  /\ list = [p \in Publishers |-> {}]
  /\ pub = [p \in Publishers |-> Waiting]
  /\ job = [t \in TaskIds |-> [state |-> "none", retries |-> 0]]
  /\ deliveries = [t \in TaskIds |-> 0]
  /\ worker = [w \in Workers |-> Idle]

Active(t) == row[t].status \in {"queued", "running"}
Busy(w) == worker[w].phase # "idle"
Live(t) == \E w \in Workers : Busy(w) /\ worker[w].task = t

\* Status and lease columns of a row.
Write(t, status, lease) ==
  row' = [row EXCEPT ![t].status = status, ![t].lease = lease]

DropLease(t) == row' = [row EXCEPT ![t].lease = NoLease] /\ expired' = expired \ {t}

\* _reserve_due: the outbox entry.
Reserve(t) ==
  /\ row[t].status = "absent" /\ t \in enabled
  /\ Write(t, "queued", NoLease)
  /\ ready' = ready \union {t}
  /\ held' = held \union {t}
  /\ UNCHANGED <<expired, published, cancelReq, enabled, pubVars, jobVars, worker>>

BackoffElapses(t) ==
  /\ row[t].status = "queued" /\ t \notin ready
  /\ ready' = ready \union {t}
  /\ UNCHANGED <<row, expired, published, cancelReq, held, enabled, pubVars, jobVars, worker>>

LeaseExpires(t) ==
  /\ row[t].lease \in Publishers /\ t \notin expired
  /\ PromptPublishers => \A p \in Publishers : pub[p].task # t
  /\ expired' = expired \union {t}
  /\ UNCHANGED <<row, ready, published, cancelReq, held, enabled, pubVars, jobVars, worker>>

-----------------------------------------------------------------------------
(* Publishers.                                                             *)

PubRead(p) ==
  /\ pub[p] = Waiting /\ list[p] = {}
  /\ list' = [list EXCEPT ![p] = {t \in TaskIds : row[t].status = "queued" /\ t \notin published}]
  /\ list'[p] # {}
  /\ UNCHANGED <<rowVars, pub, jobVars, worker>>

\* Mutant: the lease is taken whoever holds it.
LeasableAny(t) == row[t].status = "queued"

Leasable(t) ==
  row[t].status = "queued" /\ (row[t].lease = NoLease \/ t \in expired)

\* The conditional UPDATE; when it misses, the loop goes on with the next row.
PubLease(p, t) ==
  /\ pub[p] = Waiting /\ t \in list[p]
  /\ list' = [list EXCEPT ![p] = @ \ {t}]
  /\ \/ /\ Leasable(t)
        /\ Write(t, "queued", p)
        /\ expired' = expired \ {t}
        /\ pub' = [pub EXCEPT ![p] = [phase |-> "leased", task |-> t, found |-> FALSE]]
     \/ ~Leasable(t) /\ UNCHANGED <<row, expired, pub>>
  /\ UNCHANGED <<ready, published, cancelReq, held, enabled, jobVars, worker>>

\* Mutant: the row is marked published before the job goes out.
PubFetchMarking(p) ==
  /\ pub[p].phase = "leased"
  /\ pub' = [pub EXCEPT ![p].phase = "fetched", ![p].found = job[pub[p].task].state # "none"]
  /\ published' = published \union {pub[p].task}
  /\ UNCHANGED <<row, ready, expired, cancelReq, held, enabled, list, jobVars, worker>>

\* queue.fetch_job
PubFetch(p) ==
  /\ pub[p].phase = "leased"
  /\ pub' = [pub EXCEPT ![p].phase = "fetched", ![p].found = job[pub[p].task].state # "none"]
  /\ UNCHANGED <<rowVars, list, jobVars, worker>>

\* queue.enqueue under the execution key, unless the job was there.
PubEnqueue(p) ==
  LET t == pub[p].task IN
  /\ pub[p].phase = "fetched"
  /\ pub' = [pub EXCEPT ![p].phase = "enqueued"]
  /\ \/ pub[p].found /\ UNCHANGED jobVars
     \/ /\ ~pub[p].found
        /\ job' = [job EXCEPT ![t] = [state |-> "live", retries |-> MaxAttempts - 1]]
        /\ deliveries' = [deliveries EXCEPT ![t] = @ + 1]
  /\ UNCHANGED <<rowVars, list, worker>>

HoldsLease(p) == row[pub[p].task].status = "queued" /\ row[pub[p].task].lease = p

\* Never overwrites state committed by a fast worker.
PubMark(p) ==
  LET t == pub[p].task IN
  /\ pub[p].phase = "enqueued"
  /\ \/ /\ HoldsLease(p)
        /\ DropLease(t)
        /\ published' = published \union {t}
        /\ cancelReq' = cancelReq \ {t}
     \/ ~HoldsLease(p) /\ UNCHANGED <<row, published, cancelReq, expired>>
  /\ pub' = [pub EXCEPT ![p] = Waiting]
  /\ UNCHANGED <<ready, held, enabled, list, jobVars, worker>>

\* Mutant: the error path marks the row as well.
PubErrorMarking(p) ==
  LET t == pub[p].task IN
  /\ pub[p] # Waiting /\ HoldsLease(p)
  /\ DropLease(t)
  /\ published' = published \union {t}
  /\ pub' = [pub EXCEPT ![p] = Waiting]
  /\ list' = [list EXCEPT ![p] = {}]
  /\ UNCHANGED <<ready, cancelReq, held, enabled, jobVars, worker>>

\* Redis or the database fails the publisher, before or after the job went out:
\* the lease is given back and the rest of the list abandoned.
PubError(p) ==
  /\ pub[p] # Waiting
  /\ \/ HoldsLease(p) /\ DropLease(pub[p].task)
     \/ ~HoldsLease(p) /\ UNCHANGED <<row, expired>>
  /\ pub' = [pub EXCEPT ![p] = Waiting]
  /\ list' = [list EXCEPT ![p] = {}]
  /\ UNCHANGED <<ready, published, cancelReq, held, enabled, jobVars, worker>>

PubCrash(p) ==
  /\ pub[p] # Waiting
  /\ pub' = [pub EXCEPT ![p] = Waiting]
  /\ list' = [list EXCEPT ![p] = {}]
  /\ UNCHANGED <<rowVars, jobVars, worker>>

-----------------------------------------------------------------------------
(* Workers.                                                                *)

Goto(w, phase) == worker' = [worker EXCEPT ![w].phase = phase]

\* External: RQ hands a job out, and with it the retries_left of its record.  A
\* retry timer may fire a little before the row's available_at.
Deliver(w, t) ==
  /\ ~Busy(w) /\ deliveries[t] > 0
  /\ deliveries' = [deliveries EXCEPT ![t] = @ - 1]
  /\ worker' = [worker EXCEPT ![w] = IF job[t].state = "none" THEN Idle ELSE
       [phase |-> "delivered", task |-> t, retries |-> job[t].retries, fault |-> "none"]]
  /\ UNCHANGED <<rowVars, pubVars, job>>

\* Mutant: a running row is claimed by a second delivery.
ClaimableRunning(t) == Active(t) /\ t \in ready

Claimable(t) == row[t].status = "queued" /\ t \in ready

\* A replay of what is completed or cancelled returns at once; a row that cannot
\* be claimed raises, and RQ decides what becomes of the delivery.
Claim(w) ==
  LET t == worker[w].task IN
  /\ worker[w].phase = "delivered"
  /\ \/ /\ row[t].status \in {"completed", "cancelled"}
        /\ Goto(w, "succeeded")
        /\ UNCHANGED <<row, expired>>
     \/ /\ row[t].status \notin {"completed", "cancelled"} /\ ~Claimable(t)
        /\ Goto(w, "raised")
        /\ UNCHANGED <<row, expired>>
     \/ /\ row[t].status \notin {"completed", "cancelled"} /\ Claimable(t)
        /\ row[t].attempts < ClaimBound
        /\ row' = [row EXCEPT ![t].status = "running", ![t].lease = Execution,
                              ![t].attempts = @ + 1]
        /\ expired' = expired \ {t}
        /\ Goto(w, "scanning")
  /\ UNCHANGED <<ready, published, cancelReq, held, enabled, pubVars, jobVars>>

Raise(w, fault) ==
  /\ worker[w].phase = "scanning"
  /\ fault = "cancelled" => worker[w].task \in cancelReq
  /\ worker' = [worker EXCEPT ![w].phase = "failing", ![w].fault = fault]
  /\ UNCHANGED <<rowVars, pubVars, jobVars>>

\* The refresh, the check of the stop request and the commit follow the flush of
\* the schedule, that is its lock.
Complete(w) ==
  LET t == worker[w].task IN
  /\ worker[w].phase = "scanning" /\ t \notin cancelReq
  /\ Write(t, "completed", NoLease)
  /\ held' = held \ {t}
  /\ published' = published \ {t}
  /\ Goto(w, "succeeded")
  /\ UNCHANGED <<ready, expired, cancelReq, enabled, pubVars, jobVars>>

RecordCancelled(w, t) ==
  /\ worker[w].fault = "cancelled"
  /\ Write(t, "cancelled", NoLease)
  /\ held' = held \ {t}
  /\ enabled' = enabled \ {t}
  /\ Goto(w, "succeeded")
  /\ UNCHANGED <<ready, published, job>>

\* The RQ job is saved first; RQ's own count decides on the retry.
RecordRetry(w, t) ==
  /\ worker[w].fault = "transient" /\ worker[w].retries > 0
  /\ Write(t, "queued", NoLease)
  /\ ready' = ready \ {t}
  /\ published' = published \union {t}
  /\ job' = [job EXCEPT ![t] = [state |-> "live", retries |-> worker[w].retries]]
  /\ Goto(w, "raised")
  /\ UNCHANGED <<held, enabled>>

RecordFailed(w, t) ==
  /\ \/ worker[w].fault = "permanent"
     \/ worker[w].fault = "transient" /\ worker[w].retries = 0
  /\ Write(t, "failed", NoLease)
  /\ enabled' = enabled \ {t}
  /\ job' = [job EXCEPT ![t] = [state |-> "live", retries |-> 0]]
  /\ worker' = [worker EXCEPT ![w].phase = "raised", ![w].retries = 0]
  /\ UNCHANGED <<ready, published, held>>

FailWrite(w) ==
  LET t == worker[w].task IN
  /\ worker[w].phase = "failing"
  /\ RecordCancelled(w, t) \/ RecordRetry(w, t) \/ RecordFailed(w, t)
  /\ UNCHANGED <<expired, cancelReq, pubVars, deliveries>>

-----------------------------------------------------------------------------
(* RQ (external).                                                          *)

JobSucceeds(w) ==
  /\ worker[w].phase = "succeeded"
  /\ job' = [job EXCEPT ![worker[w].task].state = "finished"]
  /\ worker' = [worker EXCEPT ![w] = Idle]
  /\ UNCHANGED <<rowVars, pubVars, deliveries>>

\* A retry is a new delivery of the same job; without one left the job moves to
\* the failed-job registry.
RetryOrFail(t, retries) ==
  \/ /\ retries > 0
     /\ job' = [job EXCEPT ![t] = [state |-> "live", retries |-> retries - 1]]
     /\ deliveries' = [deliveries EXCEPT ![t] = @ + 1]
  \/ /\ retries = 0
     /\ job' = [job EXCEPT ![t] = [state |-> "failed", retries |-> 0]]
     /\ UNCHANGED deliveries

JobRaises(w) ==
  /\ worker[w].phase = "raised"
  /\ RetryOrFail(worker[w].task, worker[w].retries)
  /\ worker' = [worker EXCEPT ![w] = Idle]
  /\ UNCHANGED <<rowVars, pubVars>>

\* The worker dies and RQ cleans up the job it had started.
Crash(w) ==
  /\ Busy(w)
  /\ RetryOrFail(worker[w].task, job[worker[w].task].retries)
  /\ worker' = [worker EXCEPT ![w] = Idle]
  /\ UNCHANGED <<rowVars, pubVars>>

\* The record of a finished job has a time to live.
JobExpires(t) ==
  /\ job[t].state = "finished"
  /\ job' = [job EXCEPT ![t] = [state |-> "none", retries |-> 0]]
  /\ UNCHANGED <<rowVars, pubVars, deliveries, worker>>

-----------------------------------------------------------------------------

\* cancel_run, as one transaction.
Stop(t) ==
  /\ Active(t)
  /\ \/ /\ row[t].status = "queued"
        /\ Write(t, "cancelled", NoLease)
        /\ held' = held \ {t}
        /\ UNCHANGED cancelReq
     \/ /\ row[t].status = "running"
        /\ cancelReq' = cancelReq \union {t}
        /\ UNCHANGED <<row, held>>
  /\ enabled' = enabled \ {t}
  /\ UNCHANGED <<ready, expired, published, pubVars, jobVars, worker>>

PubStep(p) == PubFetch(p) \/ PubEnqueue(p) \/ PubMark(p)

WorkerStep(w) ==
  \/ Claim(w) \/ Complete(w) \/ FailWrite(w) \/ JobSucceeds(w) \/ JobRaises(w)
  \/ \E fault \in Faults \ {"none"} : Raise(w, fault)

Next ==
  \/ \E t \in TaskIds : \/ Reserve(t) \/ BackoffElapses(t) \/ LeaseExpires(t)
                        \/ JobExpires(t) \/ Stop(t)
  \/ \E p \in Publishers : \/ PubRead(p) \/ PubStep(p) \/ PubError(p) \/ PubCrash(p)
                           \/ \E t \in TaskIds : PubLease(p, t)
  \/ \E w \in Workers : \/ \E t \in TaskIds : Deliver(w, t)
                        \/ WorkerStep(w) \/ Crash(w)

Spec == Init /\ [][Next]_vars

-----------------------------------------------------------------------------
(* Properties.                                                             *)

\* However often RQ delivers a job, one worker at a time is inside its scan, and
\* the row it works on is running (the claim before the scan).
OneDeliveryScans ==
  \A w \in Workers : worker[w].phase \in {"scanning", "failing"} =>
    /\ row[worker[w].task].status = "running"
    /\ \A v \in Workers \ {w} : worker[v].phase \in {"scanning", "failing"} =>
         worker[v].task # worker[w].task

\* The RQ-backed row follows the same life cycle as the database-backed one, so
\* RQ's retries_left and the row's max_attempts agree although neither is read
\* where the other is written.  A publisher that outlives its lease can enqueue
\* the job anew and so reset retries_left.
Lifecycle == INSTANCE QueueTaskLifecycle WITH
  status <- [t \in TaskIds |-> row[t].status],
  attempts <- [t \in TaskIds |-> row[t].attempts]
ImplementsLifecycle == Lifecycle!Spec

\* The configured number of retries bounds the scans of an execution.
RetryBudgetKept == \A t \in TaskIds : row[t].attempts <= MaxAttempts

\* A row marked published was enqueued: until it ends, RQ has its job or a worker
\* is on it, so the mark never hides an execution that nobody will run.
PublishedHasJob ==
  \A t \in published : Active(t) => job[t].state # "none"

-----------------------------------------------------------------------------
(* Liveness.  Processes that publish recur, and not all of them die at the  *)
(* same point of the loop (hence SF); workers run and clocks advance.       *)

Fairness ==
  /\ \A t \in TaskIds : WF_vars(BackoffElapses(t)) /\ WF_vars(LeaseExpires(t))
  /\ \A p \in Publishers :
       /\ WF_vars(PubRead(p)) /\ WF_vars(\E t \in TaskIds : PubLease(p, t))
       /\ SF_vars(PubFetch(p)) /\ SF_vars(PubEnqueue(p)) /\ SF_vars(PubMark(p))
  /\ \A w \in Workers : WF_vars(WorkerStep(w)) /\ WF_vars(\E t \in TaskIds : Deliver(w, t))

FairSpec == Spec /\ Fairness

\* Wherever publishers crash or fail, a reserved execution ends, or RQ's failed-job
\* registry shows it, or a worker died inside it.
ExecutionsEnd ==
  \A t \in TaskIds :
    Active(t) ~> \/ row[t].status \in Outcomes
                 \/ job[t].state = "failed"
                 \/ row[t].status = "running" /\ ~Live(t)
=============================================================================
