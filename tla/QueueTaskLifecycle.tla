------------------------ MODULE QueueTaskLifecycle ------------------------
(***************************************************************************)
(* What the durable queue promises of one row of queue_tasks, whatever the *)
(* backend: an execution is reserved once, each attempt starts from        *)
(* "queued" and counts, a retry is only granted while attempts are left,   *)
(* and an outcome (completed, failed, cancelled) is never taken back.      *)
(***************************************************************************)
EXTENDS Naturals

CONSTANTS TaskIds,       \* identifiers of queue_tasks rows
          MaxAttempts    \* queue_tasks.max_attempts, that is retry_limit + 1

VARIABLES status,        \* [TaskIds -> Status], queue_tasks.status
          attempts       \* [TaskIds -> Nat], queue_tasks.attempt_count

vars == <<status, attempts>>

Outcomes == {"completed", "failed", "cancelled"}
Status == {"absent", "queued", "running"} \union Outcomes

Init ==
  /\ status = [t \in TaskIds |-> "absent"]
  /\ attempts = [t \in TaskIds |-> 0]

Reserve(t) ==
  /\ status[t] = "absent"
  /\ status' = [status EXCEPT ![t] = "queued"]
  /\ UNCHANGED attempts

Start(t) ==
  /\ status[t] = "queued"
  /\ attempts[t] < MaxAttempts
  /\ status' = [status EXCEPT ![t] = "running"]
  /\ attempts' = [attempts EXCEPT ![t] = @ + 1]

Requeue(t) ==
  /\ status[t] = "running"
  /\ attempts[t] < MaxAttempts
  /\ status' = [status EXCEPT ![t] = "queued"]
  /\ UNCHANGED attempts

Complete(t) ==
  /\ status[t] = "running"
  /\ status' = [status EXCEPT ![t] = "completed"]
  /\ UNCHANGED attempts

Cancel(t) ==
  /\ status[t] \in {"queued", "running"}
  /\ status' = [status EXCEPT ![t] = "cancelled"]
  /\ UNCHANGED attempts

\* One operator command may fail several interrupted executions together.
Fail(T) ==
  /\ \A t \in T : status[t] = "running"
  /\ status' = [t \in TaskIds |-> IF t \in T THEN "failed" ELSE status[t]]
  /\ UNCHANGED attempts

Next ==
  \/ \E t \in TaskIds : \/ Reserve(t) \/ Start(t) \/ Requeue(t)
                        \/ Complete(t) \/ Cancel(t)
  \/ \E T \in SUBSET TaskIds : Fail(T)

Spec == Init /\ [][Next]_vars
=============================================================================
