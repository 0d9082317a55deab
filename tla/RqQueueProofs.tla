--------------------------- MODULE RqQueueProofs ---------------------------
(***************************************************************************)
(* Proofs about the Redis/RQ backend of the scan queue.  RqInv holds       *)
(* however slow publishers are: scans exclude each other, a job's success  *)
(* ends its row, and a published row has its job.  BudgetInv, which needs  *)
(* publishers that keep within their lease, ties RQ's retries_left to the  *)
(* row's attempt_count; with it the outbox implements the abstract life    *)
(* cycle.  Each step is first reduced to what it does to rows, jobs,       *)
(* publishers and workers (the lemmas named ...Moves), and the invariants  *)
(* are carried through from there.                                         *)
(***************************************************************************)
EXTENDS RqQueue, TLAPS

\* An execution that has not ended yet.
Open(t) == row[t].status \notin Outcomes

\* Where publishers and workers are: at rows that were reserved.
Placed ==
  /\ \A p \in Publishers : pub[p] # Waiting => pub[p].task \in TaskIds /\ row[pub[p].task].status # "absent"
  /\ \A w \in Workers : Busy(w) => worker[w].task \in TaskIds
  /\ \A t \in published : row[t].status # "absent"

\* A job that succeeded, or is about to, ended its row.
SuccessEnds ==
  /\ \A w \in Workers : worker[w].phase = "succeeded" => ~Open(worker[w].task)
  /\ \A t \in TaskIds : job[t].state = "finished" => ~Open(t)

\* A publisher that found the job, or enqueued it, goes on while RQ has it.
SeenJobStays ==
  \A p \in Publishers : pub[p].phase = "enqueued" \/ (pub[p].phase = "fetched" /\ pub[p].found) =>
    (Open(pub[p].task) => job[pub[p].task].state # "none")

RqInv == TypeOK /\ OneDeliveryScans /\ Placed /\ SuccessEnds /\ SeenJobStays /\ PublishedHasJob

\* As long as the row of t is open there is at most one delivery of its job, in
\* RQ's queue or at a worker, and none before the job exists.
OneDelivery(t) ==
  Open(t) =>
    /\ deliveries[t] <= 1
    /\ \A w \in Workers : Busy(w) /\ worker[w].task = t =>
         /\ deliveries[t] = 0 /\ job[t].state # "none"
         /\ \A v \in Workers : Busy(v) /\ worker[v].task = t => v = w
    /\ job[t].state = "none" => deliveries[t] = 0 /\ row[t].attempts = 0

\* RQ's retries_left and the attempts of the row add up to the budget.
CountsAgree(t) ==
  Open(t) =>
    /\ row[t].attempts <= MaxAttempts
    /\ deliveries[t] > 0 => row[t].attempts + job[t].retries < MaxAttempts
    /\ \A w \in Workers : Busy(w) /\ worker[w].task = t =>
         /\ worker[w].retries = job[t].retries
         /\ row[t].attempts + worker[w].retries <= MaxAttempts
         /\ worker[w].phase = "delivered" => row[t].attempts + worker[w].retries < MaxAttempts

\* The publisher that will enqueue the job still holds the lease of its row.
LeaseLasts(p) ==
  pub[p].phase = "leased" \/ (pub[p].phase = "fetched" /\ ~pub[p].found) => ~Open(pub[p].task) \/
    /\ pub[p].phase = "fetched" => job[pub[p].task].state = "none"
    /\ job[pub[p].task].state = "none" => row[pub[p].task].lease = p /\ pub[p].task \notin expired

\* The inductive invariant when no publisher outlives its lease.
BudgetInv ==
  /\ RqInv
  /\ \A t \in TaskIds : OneDelivery(t) /\ CountsAgree(t)
  /\ \A p \in Publishers : LeaseLasts(p)
-----------------------------------------------------------------------------
(* Type correctness.                                                       *)

RowState ==
  [status : Status, attempts : Nat, lease : Publishers \union {NoLease, Execution}]
PubState ==
  [phase : {"idle", "leased", "fetched", "enqueued"}, task : TaskIds \union {NoTask}, found : BOOLEAN]
JobState == [state : {"none", "live", "finished", "failed"}, retries : 0..(MaxAttempts - 1)]
WorkerState ==
  [phase : {"idle", "delivered", "scanning", "failing", "succeeded", "raised"},
   task : TaskIds \union {NoTask}, retries : 0..(MaxAttempts - 1), fault : Faults]

RowsOK ==
  /\ row \in [TaskIds -> RowState]
  /\ \A t \in TaskIds :
       /\ row[t].lease = Execution <=> row[t].status = "running"
       /\ row[t].lease \in Publishers => row[t].status = "queued"

SetsOK ==
  /\ ready \subseteq TaskIds /\ expired \subseteq TaskIds /\ published \subseteq TaskIds
  /\ cancelReq \subseteq TaskIds /\ held \subseteq TaskIds /\ enabled \subseteq TaskIds

PubsOK == list \in [Publishers -> SUBSET TaskIds] /\ pub \in [Publishers -> PubState]
JobsOK == job \in [TaskIds -> JobState] /\ deliveries \in [TaskIds -> Nat]
WorkersOK == worker \in [Workers -> WorkerState]

\* The type invariant by the kinds of process that write.
LEMMA Typing == TypeOK <=> RowsOK /\ SetsOK /\ PubsOK /\ JobsOK /\ WorkersOK
BY DEF TypeOK, RowsOK, SetsOK, PubsOK, JobsOK, WorkersOK, RowState, PubState, JobState, WorkerState

\* The type invariant after a step, put together again.
LEMMA TypingNext == RowsOK' /\ SetsOK' /\ PubsOK' /\ JobsOK' /\ WorkersOK' => TypeOK'
BY DEF TypeOK, RowsOK, SetsOK, PubsOK, JobsOK, WorkersOK, RowState, PubState, JobState, WorkerState

\* Of the rows only that of t is written, and its attempts stay.
RowGoes(t, status, lease) ==
  /\ RowsOK'
  /\ row'[t].status = status /\ row'[t].lease = lease /\ row'[t].attempts = row[t].attempts
  /\ \A u \in TaskIds : u # t => row'[u] = row[u]

\* Writing a row's status and lease keeps the rows well formed when they fit.
LEMMA WriteFacts ==
  ASSUME RowsOK, NEW t \in TaskIds, NEW status \in Status,
         NEW lease \in Publishers \union {NoLease, Execution},
         lease = Execution <=> status = "running", lease \in Publishers => status = "queued",
         Write(t, status, lease)
  PROVE  RowGoes(t, status, lease)
<1>1. row \in [TaskIds -> RowState] /\ row[t] \in RowState
  BY DEF RowsOK
<1>. DEFINE r == [row[t] EXCEPT !.status = status, !.lease = lease]
<1>2. r \in RowState /\ r.status = status /\ r.lease = lease /\ r.attempts = row[t].attempts
  BY <1>1 DEF RowState
<1>3. row' = [row EXCEPT ![t] = r]
  BY <1>1 DEF Write
<1>. HIDE DEF r
<1>4. row' \in [TaskIds -> RowState] /\ row'[t] = r /\ \A u \in TaskIds : u # t => row'[u] = row[u]
  BY <1>1, <1>2, <1>3
<1>. QED
  BY <1>2, <1>4 DEF RowsOK, RowGoes

\* Giving a lease back changes nothing but the lease.
LEMMA DropFacts ==
  ASSUME RowsOK, NEW t \in TaskIds, row[t].status # "running", DropLease(t)
  PROVE  RowGoes(t, row[t].status, NoLease)
<1>1. row \in [TaskIds -> RowState] /\ row[t] \in RowState /\ row[t].status \in Status
  BY DEF RowsOK, RowState
<1>2. Write(t, row[t].status, NoLease)
  BY <1>1 DEF Write, DropLease, RowState
<1>. QED
  BY <1>1, <1>2, RqAssumption, WriteFacts

\* The claim of a row counts an attempt.
LEMMA ClaimFacts ==
  ASSUME RowsOK, NEW t \in TaskIds,
         row' = [row EXCEPT ![t].status = "running", ![t].lease = Execution, ![t].attempts = @ + 1]
  PROVE  /\ RowsOK' /\ row'[t].status = "running" /\ row'[t].lease = Execution
         /\ row'[t].attempts = row[t].attempts + 1
         /\ \A u \in TaskIds : u # t => row'[u] = row[u]
<1>1. row \in [TaskIds -> RowState] /\ row[t] \in RowState
  BY DEF RowsOK
<1>. DEFINE r == [row[t] EXCEPT !.status = "running", !.lease = Execution, !.attempts = @ + 1]
<1>2. /\ r \in RowState /\ r.status = "running" /\ r.lease = Execution
      /\ r.attempts = row[t].attempts + 1
  BY <1>1 DEF RowState, Status
<1>3. row' = [row EXCEPT ![t] = r]
  BY <1>1
<1>. HIDE DEF r
<1>4. row' \in [TaskIds -> RowState] /\ row'[t] = r /\ \A u \in TaskIds : u # t => row'[u] = row[u]
  BY <1>1, <1>2, <1>3
<1>. QED
  BY <1>2, <1>4, RqAssumption DEF RowsOK

\* Of the workers only w moves, at most to another phase or fault.
WorkerGoes(w, phase, task, retries) ==
  /\ WorkersOK'
  /\ worker'[w].phase = phase /\ worker'[w].task = task /\ worker'[w].retries = retries
  /\ \A v \in Workers : v # w => worker'[v] = worker[v]

\* A worker that goes to another phase keeps its job and its retries.
LEMMA GotoFacts ==
  ASSUME WorkersOK, NEW w \in Workers,
         NEW phase \in {"idle", "delivered", "scanning", "failing", "succeeded", "raised"},
         Goto(w, phase)
  PROVE  WorkerGoes(w, phase, worker[w].task, worker[w].retries) /\ worker'[w].fault = worker[w].fault
<1>1. worker \in [Workers -> WorkerState] /\ worker[w] \in WorkerState
  BY DEF WorkersOK
<1>. DEFINE r == [worker[w] EXCEPT !.phase = phase]
<1>2. /\ r \in WorkerState /\ r.phase = phase /\ r.task = worker[w].task
      /\ r.retries = worker[w].retries /\ r.fault = worker[w].fault
  BY <1>1 DEF WorkerState
<1>3. worker' = [worker EXCEPT ![w] = r]
  BY <1>1 DEF Goto
<1>. HIDE DEF r
<1>. QED
  BY <1>1, <1>2, <1>3 DEF WorkerGoes, WorkersOK

\* A worker that is done forgets its job.
LEMMA RestFacts ==
  ASSUME WorkersOK, NEW w \in Workers, worker' = [worker EXCEPT ![w] = Idle]
  PROVE  WorkerGoes(w, "idle", NoTask, 0)
<1>1. 0 \in 0..(MaxAttempts - 1)
  BY RqAssumption
<1>2. Idle \in WorkerState /\ Idle.phase = "idle" /\ Idle.task = NoTask /\ Idle.retries = 0
  BY <1>1 DEF Idle, WorkerState, Faults
<1>. QED
  BY <1>2 DEF WorkerGoes, WorkersOK

\* Of RQ's records only that of t is written.
JobGoes(t, state, retries) ==
  /\ job' \in [TaskIds -> JobState] /\ job'[t].state = state /\ job'[t].retries = retries
  /\ \A u \in TaskIds : u # t => job'[u] = job[u]

\* Saving a job replaces RQ's record of it and no other.
LEMMA JobFacts ==
  ASSUME JobsOK, NEW t \in TaskIds, NEW state \in {"none", "live", "finished", "failed"},
         NEW retries \in 0..(MaxAttempts - 1),
         job' = [job EXCEPT ![t] = [state |-> state, retries |-> retries]]
  PROVE  JobGoes(t, state, retries)
<1>. DEFINE r == [state |-> state, retries |-> retries]
<1>1. r \in JobState /\ r.state = state /\ r.retries = retries
  BY DEF JobState
<1>. HIDE DEF r
<1>2. job' = [job EXCEPT ![t] = r]
  BY DEF r
<1>. QED
  BY <1>1, <1>2 DEF JobGoes, JobsOK

\* Of the publishers only p moves.
PubGoes(p, phase, task, found) ==
  /\ pub' \in [Publishers -> PubState]
  /\ pub'[p].phase = phase /\ pub'[p].task = task /\ pub'[p].found = found
  /\ \A q \in Publishers : q # p => pub'[q] = pub[q]

\* A publisher that takes up a row or leaves it moves alone.
LEMMA PubFacts ==
  ASSUME PubsOK, NEW p \in Publishers, NEW phase \in {"idle", "leased", "fetched", "enqueued"},
         NEW t \in TaskIds \union {NoTask}, NEW found \in BOOLEAN,
         pub' = [pub EXCEPT ![p] = [phase |-> phase, task |-> t, found |-> found]]
  PROVE  PubGoes(p, phase, t, found)
<1>. DEFINE r == [phase |-> phase, task |-> t, found |-> found]
<1>1. r \in PubState /\ r.phase = phase /\ r.task = t /\ r.found = found
  BY DEF PubState
<1>. HIDE DEF r
<1>2. pub' = [pub EXCEPT ![p] = r]
  BY DEF r
<1>. QED
  BY <1>1, <1>2 DEF PubGoes, PubsOK

\* queue.fetch_job tells the publisher whether the job is there.
LEMMA FetchFacts ==
  ASSUME PubsOK, NEW p \in Publishers, NEW found \in BOOLEAN,
         pub' = [pub EXCEPT ![p].phase = "fetched", ![p].found = found]
  PROVE  PubGoes(p, "fetched", pub[p].task, found)
<1>1. pub \in [Publishers -> PubState] /\ pub[p] \in PubState
  BY DEF PubsOK
<1>. DEFINE r == [pub[p] EXCEPT !.phase = "fetched", !.found = found]
<1>2. r \in PubState /\ r.phase = "fetched" /\ r.task = pub[p].task /\ r.found = found
  BY <1>1 DEF PubState
<1>3. pub' = [pub EXCEPT ![p] = r]
  BY <1>1
<1>. HIDE DEF r
<1>. QED
  BY <1>1, <1>2, <1>3 DEF PubGoes

\* Enqueueing moves the publisher on with the row it has.
LEMMA EnqueueFacts ==
  ASSUME PubsOK, NEW p \in Publishers, pub' = [pub EXCEPT ![p].phase = "enqueued"]
  PROVE  PubGoes(p, "enqueued", pub[p].task, pub[p].found)
<1>1. pub \in [Publishers -> PubState] /\ pub[p] \in PubState
  BY DEF PubsOK
<1>. DEFINE r == [pub[p] EXCEPT !.phase = "enqueued"]
<1>2. r \in PubState /\ r.phase = "enqueued" /\ r.task = pub[p].task /\ r.found = pub[p].found
  BY <1>1 DEF PubState
<1>3. pub' = [pub EXCEPT ![p] = r]
  BY <1>1
<1>. HIDE DEF r
<1>. QED
  BY <1>1, <1>2, <1>3 DEF PubGoes

-----------------------------------------------------------------------------
(* What each step does to rows, jobs, publishers and workers.              *)

DeliveriesGo(t, n) ==
  /\ deliveries' \in [TaskIds -> Nat] /\ deliveries'[t] = n
  /\ \A u \in TaskIds : u # t => deliveries'[u] = deliveries[u]

\* The row of t is not written, or only to drop the lease of publisher p.
LeaseGoes(p, t) ==
  /\ \/ UNCHANGED <<row, expired>>
     \/ RowGoes(t, "queued", NoLease) /\ row[t].status = "queued" /\ row[t].lease = p
  /\ expired' \subseteq expired

\* Reservations and the clocks.
LEMMA ReserveMoves ==
  ASSUME TypeOK, NEW t \in TaskIds, Reserve(t)
  PROVE  /\ TypeOK' /\ row[t].status = "absent" /\ RowGoes(t, "queued", NoLease)
         /\ UNCHANGED <<expired, published, pub, job, deliveries, worker>>
<1>1. RowGoes(t, "queued", NoLease)
  BY Typing, WriteFacts, RqAssumption DEF Reserve, Status
<1>2. SetsOK' /\ PubsOK' /\ JobsOK' /\ WorkersOK'
  BY Typing DEF Reserve, SetsOK, PubsOK, JobsOK, WorkersOK, pubVars, jobVars
<1>3. TypeOK'
  BY <1>1, <1>2, TypingNext DEF RowGoes
<1>. QED
  BY <1>1, <1>3 DEF Reserve, pubVars, jobVars

\* A lease runs out, or a backoff; no row is written.
LEMMA ClockMoves ==
  ASSUME TypeOK, NEW t \in TaskIds, BackoffElapses(t) \/ LeaseExpires(t)
  PROVE  /\ TypeOK' /\ UNCHANGED <<row, published, pub, job, deliveries, worker>>
         /\ \/ expired' = expired
            \/ expired' = expired \union {t} /\ (PromptPublishers => \A p \in Publishers : pub[p].task # t)
<1>1. TypeOK'
  BY DEF BackoffElapses, LeaseExpires, TypeOK, pubVars, jobVars
<1>. QED
  BY <1>1 DEF BackoffElapses, LeaseExpires, pubVars, jobVars

\* RQ forgets a finished job.
LEMMA JobExpiresMoves ==
  ASSUME TypeOK, NEW t \in TaskIds, JobExpires(t)
  PROVE  /\ TypeOK' /\ job[t].state = "finished" /\ JobGoes(t, "none", 0)
         /\ UNCHANGED <<row, expired, published, pub, deliveries, worker>>
<1>1. 0 \in 0..(MaxAttempts - 1)
  BY RqAssumption
<1>2. JobGoes(t, "none", 0)
  BY <1>1, Typing, JobFacts DEF JobExpires
<1>3. RowsOK' /\ SetsOK' /\ PubsOK' /\ JobsOK' /\ WorkersOK'
  BY <1>2, Typing DEF JobExpires, RowsOK, SetsOK, PubsOK, JobsOK, WorkersOK, pubVars, rowVars, JobGoes
<1>. QED
  BY <1>2, <1>3, TypingNext DEF JobExpires, rowVars, pubVars

\* cancel_run ends a queued row and asks a running one to stop.
LEMMA StopMoves ==
  ASSUME TypeOK, NEW t \in TaskIds, Stop(t)
  PROVE  /\ TypeOK' /\ Active(t)
         /\ UNCHANGED row \/ (row[t].status = "queued" /\ RowGoes(t, "cancelled", NoLease))
         /\ UNCHANGED <<expired, published, pub, job, deliveries, worker>>
<1>1. UNCHANGED row \/ (row[t].status = "queued" /\ RowGoes(t, "cancelled", NoLease))
  BY Typing, WriteFacts, RqAssumption DEF Stop, Status, Outcomes
<1>2. RowsOK'
  BY <1>1, Typing DEF RowGoes, RowsOK
<1>3. SetsOK' /\ PubsOK' /\ JobsOK' /\ WorkersOK'
  BY Typing DEF Stop, SetsOK, PubsOK, JobsOK, WorkersOK, pubVars, jobVars
<1>. QED
  BY <1>1, <1>2, <1>3, TypingNext DEF Stop, pubVars, jobVars

\* Publishers.
LEMMA PubReadMoves ==
  ASSUME TypeOK, NEW p \in Publishers, PubRead(p)
  PROVE  TypeOK' /\ UNCHANGED <<row, expired, published, pub, job, deliveries, worker>>
<1>1. TypeOK'
  BY DEF PubRead, TypeOK, rowVars, jobVars
<1>. QED
  BY <1>1 DEF PubRead, rowVars, jobVars

\* The conditional UPDATE takes the lease of one row, or misses.
LEMMA PubLeaseMoves ==
  ASSUME TypeOK, NEW p \in Publishers, NEW t \in TaskIds, PubLease(p, t)
  PROVE  /\ TypeOK' /\ pub[p] = Waiting /\ expired' \subseteq expired
         /\ UNCHANGED <<published, job, deliveries, worker>>
         /\ \/ UNCHANGED <<row, expired, pub>>
            \/ /\ Leasable(t) /\ RowGoes(t, "queued", p) /\ t \notin expired'
               /\ PubGoes(p, "leased", t, FALSE)
<1>1. CASE Leasable(t) /\ Write(t, "queued", p) /\ expired' = expired \ {t}
           /\ pub' = [pub EXCEPT ![p] = [phase |-> "leased", task |-> t, found |-> FALSE]]
  <2>1. RowGoes(t, "queued", p)
    BY <1>1, Typing, WriteFacts, RqAssumption DEF Status
  <2>2. PubGoes(p, "leased", t, FALSE)
    BY <1>1, Typing, PubFacts
  <2>3. RowsOK' /\ SetsOK' /\ PubsOK' /\ JobsOK' /\ WorkersOK'
    BY <1>1, <2>1, <2>2, Typing
       DEF PubLease, SetsOK, PubsOK, JobsOK, WorkersOK, jobVars, RowGoes, PubGoes
  <2>. QED
    BY <1>1, <2>1, <2>2, <2>3, TypingNext DEF PubLease, jobVars
<1>2. CASE UNCHANGED <<row, expired, pub>>
  <2>1. TypeOK'
    BY <1>2 DEF PubLease, TypeOK, jobVars
  <2>. QED
    BY <1>2, <2>1 DEF PubLease, jobVars
<1>. QED
  BY <1>1, <1>2 DEF PubLease

\* A publisher asks RQ for the job.
LEMMA PubFetchMoves ==
  ASSUME TypeOK, Placed, NEW p \in Publishers, PubFetch(p)
  PROVE  /\ TypeOK' /\ pub[p].phase = "leased"
         /\ PubGoes(p, "fetched", pub[p].task, job[pub[p].task].state # "none")
         /\ UNCHANGED <<row, expired, published, job, deliveries, worker>>
<1>1. PubGoes(p, "fetched", pub[p].task, job[pub[p].task].state # "none")
  BY Typing, FetchFacts DEF PubFetch
<1>2. RowsOK' /\ SetsOK' /\ PubsOK' /\ JobsOK' /\ WorkersOK'
  BY <1>1, Typing
     DEF PubFetch, RowsOK, SetsOK, PubsOK, JobsOK, WorkersOK, rowVars, jobVars, PubGoes
<1>. QED
  BY <1>1, <1>2, TypingNext DEF PubFetch, rowVars, jobVars

\* A publisher enqueues a job it did not find.
LEMMA PubEnqueueMoves ==
  ASSUME TypeOK, Placed, NEW p \in Publishers, PubEnqueue(p)
  PROVE  /\ TypeOK' /\ pub[p].phase = "fetched"
         /\ PubGoes(p, "enqueued", pub[p].task, pub[p].found)
         /\ UNCHANGED <<row, expired, published, worker>>
         /\ \/ pub[p].found /\ UNCHANGED <<job, deliveries>>
            \/ /\ ~pub[p].found /\ JobGoes(pub[p].task, "live", MaxAttempts - 1)
               /\ DeliveriesGo(pub[p].task, deliveries[pub[p].task] + 1)
<1>. DEFINE t == pub[p].task
<1>1. /\ pub \in [Publishers -> PubState] /\ pub[p] \in PubState /\ pub[p].phase = "fetched"
      /\ t \in TaskIds /\ MaxAttempts - 1 \in 0..(MaxAttempts - 1)
  BY Typing, RqAssumption DEF PubsOK, Placed, PubEnqueue, Waiting
<1>3. PubGoes(p, "enqueued", t, pub[p].found)
  BY Typing, EnqueueFacts DEF PubEnqueue
<1>4. \/ pub[p].found /\ UNCHANGED <<job, deliveries>>
      \/ ~pub[p].found /\ JobGoes(t, "live", MaxAttempts - 1) /\ DeliveriesGo(t, deliveries[t] + 1)
  <2>1. CASE ~pub[p].found /\ job' = [job EXCEPT ![t] = [state |-> "live", retries |-> MaxAttempts - 1]]
             /\ deliveries' = [deliveries EXCEPT ![t] = @ + 1]
    <3>1. JobGoes(t, "live", MaxAttempts - 1)
      BY <1>1, <2>1, Typing, JobFacts
    <3>2. DeliveriesGo(t, deliveries[t] + 1)
      BY <1>1, <2>1, Typing DEF JobsOK, DeliveriesGo
    <3>. QED
      BY <2>1, <3>1, <3>2
  <2>2. CASE pub[p].found /\ UNCHANGED jobVars
    BY <2>2 DEF jobVars
  <2>. QED
    BY <2>1, <2>2 DEF PubEnqueue
<1>. HIDE DEF t
<1>5. RowsOK' /\ SetsOK' /\ PubsOK' /\ JobsOK' /\ WorkersOK'
  BY <1>3, <1>4, Typing
     DEF PubEnqueue, RowsOK, SetsOK, PubsOK, JobsOK, WorkersOK, rowVars, PubGoes, JobGoes, DeliveriesGo
<1>. USE DEF t
<1>. QED
  BY <1>1, <1>3, <1>4, <1>5, TypingNext DEF PubEnqueue, rowVars

\* A publisher is done with a row, fails, or dies.
LEMMA PubLeaves ==
  ASSUME TypeOK, Placed, NEW p \in Publishers, PubMark(p) \/ PubError(p) \/ PubCrash(p)
  PROVE  /\ TypeOK' /\ pub[p] # Waiting /\ PubGoes(p, "idle", NoTask, FALSE) /\ pub'[p] = Waiting
         /\ LeaseGoes(p, pub[p].task) /\ UNCHANGED <<job, deliveries, worker>>
         /\ \/ published' = published
            \/ /\ published' = published \union {pub[p].task} /\ pub[p].phase = "enqueued"
               /\ row[pub[p].task].status = "queued"
<1>. DEFINE t == pub[p].task
<1>0. pub[p] # Waiting
  BY DEF PubMark, PubError, PubCrash, Waiting
<1>1. pub[p] # Waiting /\ UNCHANGED <<job, deliveries, worker>> /\ t \in TaskIds
  BY <1>0 DEF PubMark, PubError, PubCrash, jobVars, Placed
<1>2. PubGoes(p, "idle", NoTask, FALSE)
  BY Typing, PubFacts DEF PubMark, PubError, PubCrash, Waiting
<1>3. RowsOK /\ (HoldsLease(p) /\ DropLease(t) => RowGoes(t, "queued", NoLease))
  BY <1>1, Typing, DropFacts DEF HoldsLease
<1>4. LeaseGoes(p, t)
  BY <1>3 DEF PubMark, PubError, PubCrash, rowVars, LeaseGoes, HoldsLease, DropLease
<1>5. \/ published' = published
      \/ published' = published \union {t} /\ pub[p].phase = "enqueued" /\ row[t].status = "queued"
  BY DEF PubMark, PubError, PubCrash, rowVars, HoldsLease
<1>6. RowsOK'
  BY <1>3, <1>4 DEF LeaseGoes, RowGoes, RowsOK
<1>7. list' \in [Publishers -> SUBSET TaskIds] /\ ready' = ready /\ held' = held /\ enabled' = enabled
      /\ cancelReq' \subseteq cancelReq
  BY Typing DEF PubMark, PubError, PubCrash, PubsOK, rowVars
<1>8. SetsOK' /\ PubsOK' /\ JobsOK' /\ WorkersOK'
  BY <1>1, <1>2, <1>4, <1>5, <1>7, Typing
     DEF SetsOK, PubsOK, JobsOK, WorkersOK, PubGoes, LeaseGoes
<1>9. pub'[p] = Waiting
  BY Typing DEF PubMark, PubError, PubCrash, PubsOK
<1>. QED
  BY <1>1, <1>2, <1>4, <1>5, <1>6, <1>8, <1>9, TypingNext

\* Workers.
LEMMA DeliverMoves ==
  ASSUME TypeOK, NEW w \in Workers, NEW t \in TaskIds, Deliver(w, t)
  PROVE  /\ TypeOK' /\ ~Busy(w) /\ deliveries[t] > 0 /\ DeliveriesGo(t, deliveries[t] - 1)
         /\ IF job[t].state = "none" THEN WorkerGoes(w, "idle", NoTask, 0)
            ELSE WorkerGoes(w, "delivered", t, job[t].retries)
         /\ UNCHANGED <<row, expired, published, pub, job>>
<1>1. DeliveriesGo(t, deliveries[t] - 1)
  BY Typing DEF Deliver, JobsOK, DeliveriesGo
<1>2. IF job[t].state = "none" THEN WorkerGoes(w, "idle", NoTask, 0)
      ELSE WorkerGoes(w, "delivered", t, job[t].retries)
  <2>1. CASE job[t].state = "none"
    BY <2>1, Typing, RestFacts DEF Deliver
  <2>2. CASE job[t].state # "none"
    <3>. DEFINE r == [phase |-> "delivered", task |-> t, retries |-> job[t].retries, fault |-> "none"]
    <3>1. r \in WorkerState
      BY Typing DEF WorkerState, JobsOK, JobState, Faults
    <3>2. worker' = [worker EXCEPT ![w] = r] /\ worker \in [Workers -> WorkerState]
      BY <2>2, Typing DEF Deliver, WorkersOK
    <3>. QED
      BY <2>2, <3>1, <3>2 DEF WorkerGoes, WorkersOK
  <2>. QED
    BY <2>1, <2>2
<1>3. WorkersOK'
  BY <1>2 DEF WorkerGoes
<1>4. RowsOK' /\ SetsOK' /\ PubsOK' /\ JobsOK'
  BY <1>1, Typing DEF Deliver, RowsOK, SetsOK, PubsOK, JobsOK, rowVars, pubVars, DeliveriesGo
<1>. QED
  BY <1>1, <1>2, <1>3, <1>4, TypingNext DEF Deliver, rowVars, pubVars

\* A claim ends in a replay, in an error or in a running row.
LEMMA ClaimMoves ==
  ASSUME TypeOK, Placed, NEW w \in Workers, Claim(w)
  PROVE  /\ TypeOK' /\ worker[w].phase = "delivered" /\ expired' \subseteq expired
         /\ UNCHANGED <<published, pub, job, deliveries>>
         /\ LET t == worker[w].task IN
            \/ /\ row[t].status \in {"completed", "cancelled"} /\ UNCHANGED <<row, expired>>
               /\ WorkerGoes(w, "succeeded", t, worker[w].retries)
            \/ UNCHANGED <<row, expired>> /\ WorkerGoes(w, "raised", t, worker[w].retries)
            \/ /\ row[t].status = "queued"
               /\ RowsOK' /\ row'[t].status = "running" /\ row'[t].lease = Execution
               /\ row'[t].attempts = row[t].attempts + 1
               /\ \A u \in TaskIds : u # t => row'[u] = row[u]
               /\ WorkerGoes(w, "scanning", t, worker[w].retries)
<1>. DEFINE t == worker[w].task
            Moved == \/ /\ row[t].status \in {"completed", "cancelled"} /\ UNCHANGED <<row, expired>>
                        /\ WorkerGoes(w, "succeeded", t, worker[w].retries)
                     \/ UNCHANGED <<row, expired>> /\ WorkerGoes(w, "raised", t, worker[w].retries)
                     \/ /\ row[t].status = "queued"
                        /\ RowsOK' /\ row'[t].status = "running" /\ row'[t].lease = Execution
                        /\ row'[t].attempts = row[t].attempts + 1
                        /\ \A u \in TaskIds : u # t => row'[u] = row[u]
                        /\ WorkerGoes(w, "scanning", t, worker[w].retries)
<1>1. t \in TaskIds /\ worker[w].phase = "delivered" /\ expired' \subseteq expired
  BY DEF Claim, Placed, Busy
<1>2. Moved
  <2>1. CASE row[t].status \in {"completed", "cancelled"}
    BY <2>1, Typing, GotoFacts DEF Claim
  <2>2. CASE row[t].status \notin {"completed", "cancelled"} /\ ~Claimable(t)
    BY <2>2, Typing, GotoFacts DEF Claim
  <2>3. CASE row[t].status \notin {"completed", "cancelled"} /\ Claimable(t)
    BY <1>1, <2>3, Typing, GotoFacts, ClaimFacts DEF Claim, Claimable
  <2>. QED
    BY <2>1, <2>2, <2>3
<1>3. WorkersOK' /\ RowsOK'
  BY <1>2, Typing DEF WorkerGoes, RowsOK
<1>4. SetsOK' /\ PubsOK' /\ JobsOK'
  BY <1>1, Typing DEF Claim, SetsOK, PubsOK, JobsOK, pubVars, jobVars
<1>. QED
  BY <1>1, <1>2, <1>3, <1>4, TypingNext DEF Claim, pubVars, jobVars

\* A scan that raises leaves rows and jobs alone.
LEMMA RaiseMoves ==
  ASSUME TypeOK, NEW w \in Workers, NEW fault \in Faults, Raise(w, fault)
  PROVE  /\ TypeOK' /\ worker[w].phase = "scanning"
         /\ WorkerGoes(w, "failing", worker[w].task, worker[w].retries)
         /\ UNCHANGED <<row, expired, published, pub, job, deliveries>>
<1>1. worker \in [Workers -> WorkerState] /\ worker[w] \in WorkerState
  BY Typing DEF WorkersOK
<1>. DEFINE r == [worker[w] EXCEPT !.phase = "failing", !.fault = fault]
<1>2. r \in WorkerState /\ r.phase = "failing" /\ r.task = worker[w].task /\ r.retries = worker[w].retries
  BY <1>1 DEF WorkerState
<1>3. worker' = [worker EXCEPT ![w] = r]
  BY <1>1 DEF Raise
<1>. HIDE DEF r
<1>4. WorkerGoes(w, "failing", worker[w].task, worker[w].retries)
  BY <1>1, <1>2, <1>3 DEF WorkerGoes, WorkersOK
<1>5. RowsOK' /\ SetsOK' /\ PubsOK' /\ JobsOK' /\ WorkersOK'
  BY <1>4, Typing DEF Raise, RowsOK, SetsOK, PubsOK, JobsOK, rowVars, pubVars, jobVars, WorkerGoes
<1>. QED
  BY <1>4, <1>5, TypingNext DEF Raise, rowVars, pubVars, jobVars

\* A scan that succeeds completes its row.
LEMMA CompleteMoves ==
  ASSUME TypeOK, Placed, NEW w \in Workers, Complete(w)
  PROVE  /\ TypeOK' /\ worker[w].phase = "scanning" /\ RowGoes(worker[w].task, "completed", NoLease)
         /\ WorkerGoes(w, "succeeded", worker[w].task, worker[w].retries)
         /\ published' \subseteq published /\ UNCHANGED <<expired, pub, job, deliveries>>
<1>1. worker[w].task \in TaskIds
  BY DEF Complete, Placed, Busy
<1>2. RowGoes(worker[w].task, "completed", NoLease)
  BY <1>1, Typing, WriteFacts, RqAssumption DEF Complete, Status, Outcomes
<1>3. WorkerGoes(w, "succeeded", worker[w].task, worker[w].retries)
  BY Typing, GotoFacts DEF Complete
<1>4. RowsOK' /\ SetsOK' /\ PubsOK' /\ JobsOK' /\ WorkersOK'
  BY <1>2, <1>3, Typing DEF Complete, SetsOK, PubsOK, JobsOK, pubVars, jobVars, RowGoes, WorkerGoes
<1>. QED
  BY <1>2, <1>3, <1>4, TypingNext DEF Complete, pubVars, jobVars

\* The error handler ends the row or queues it again with its job saved.
LEMMA FailWriteMoves ==
  ASSUME TypeOK, Placed, NEW w \in Workers, FailWrite(w)
  PROVE  /\ TypeOK' /\ worker[w].phase = "failing" /\ UNCHANGED <<expired, pub, deliveries>>
         /\ LET t == worker[w].task IN
            \/ /\ RowGoes(t, "cancelled", NoLease) /\ UNCHANGED <<published, job>>
               /\ WorkerGoes(w, "succeeded", t, worker[w].retries)
            \/ /\ worker[w].retries > 0 /\ RowGoes(t, "queued", NoLease)
               /\ published' = published \union {t} /\ JobGoes(t, "live", worker[w].retries)
               /\ WorkerGoes(w, "raised", t, worker[w].retries)
            \/ /\ RowGoes(t, "failed", NoLease) /\ UNCHANGED published
               /\ JobGoes(t, "live", 0) /\ WorkerGoes(w, "raised", t, 0)
<1>. DEFINE t == worker[w].task
<1>1. t \in TaskIds /\ worker \in [Workers -> WorkerState] /\ worker[w] \in WorkerState
      /\ worker[w].retries \in 0..(MaxAttempts - 1) /\ 0 \in 0..(MaxAttempts - 1)
  BY Typing, RqAssumption DEF FailWrite, Placed, Busy, WorkersOK, WorkerState
<1>2. ASSUME RecordCancelled(w, t)
      PROVE  /\ RowGoes(t, "cancelled", NoLease) /\ UNCHANGED <<published, job>>
             /\ WorkerGoes(w, "succeeded", t, worker[w].retries)
             /\ ready' = ready /\ held' \subseteq held /\ enabled' \subseteq enabled
  BY <1>1, <1>2, Typing, WriteFacts, GotoFacts, RqAssumption DEF RecordCancelled, Status, Outcomes
<1>3. ASSUME RecordRetry(w, t)
      PROVE  /\ worker[w].retries > 0 /\ RowGoes(t, "queued", NoLease)
             /\ published' = published \union {t} /\ JobGoes(t, "live", worker[w].retries)
             /\ WorkerGoes(w, "raised", t, worker[w].retries)
             /\ ready' \subseteq ready /\ held' \subseteq held /\ enabled' \subseteq enabled
  BY <1>1, <1>3, Typing, WriteFacts, JobFacts, GotoFacts, RqAssumption DEF RecordRetry, Status
<1>4. ASSUME RecordFailed(w, t)
      PROVE  /\ RowGoes(t, "failed", NoLease) /\ UNCHANGED published
             /\ JobGoes(t, "live", 0) /\ WorkerGoes(w, "raised", t, 0)
             /\ ready' \subseteq ready /\ held' \subseteq held /\ enabled' \subseteq enabled
  <2>. DEFINE r == [worker[w] EXCEPT !.phase = "raised", !.retries = 0]
  <2>1. r \in WorkerState /\ r.phase = "raised" /\ r.task = t /\ r.retries = 0
    BY <1>1 DEF WorkerState
  <2>2. worker' = [worker EXCEPT ![w] = r]
    BY <1>1, <1>4 DEF RecordFailed
  <2>. HIDE DEF r
  <2>3. WorkerGoes(w, "raised", t, 0)
    BY <1>1, <2>1, <2>2 DEF WorkerGoes, WorkersOK
  <2>. QED
    BY <1>1, <1>4, <2>3, Typing, WriteFacts, JobFacts, RqAssumption DEF RecordFailed, Status, Outcomes
<1>5. RecordCancelled(w, t) \/ RecordRetry(w, t) \/ RecordFailed(w, t)
  BY DEF FailWrite
<1>6. RowsOK' /\ WorkersOK' /\ job' \in [TaskIds -> JobState]
  BY <1>2, <1>3, <1>4, <1>5, Typing DEF RowGoes, WorkerGoes, JobGoes, JobsOK
<1>7. published' \subseteq TaskIds /\ ready' \subseteq TaskIds /\ held' \subseteq TaskIds /\ enabled' \subseteq TaskIds
  BY <1>1, <1>2, <1>3, <1>4, <1>5, Typing DEF SetsOK
<1>8. SetsOK' /\ PubsOK' /\ JobsOK'
  BY <1>6, <1>7, Typing DEF FailWrite, SetsOK, PubsOK, JobsOK, pubVars
<1>. QED
  BY <1>2, <1>3, <1>4, <1>5, <1>6, <1>8, TypingNext DEF FailWrite, pubVars

\* RQ records the success of a job.
LEMMA JobSucceedsMoves ==
  ASSUME TypeOK, Placed, NEW w \in Workers, JobSucceeds(w)
  PROVE  /\ TypeOK' /\ worker[w].phase = "succeeded" /\ WorkerGoes(w, "idle", NoTask, 0)
         /\ JobGoes(worker[w].task, "finished", job[worker[w].task].retries)
         /\ UNCHANGED <<row, expired, published, pub, deliveries>>
<1>. DEFINE t == worker[w].task
<1>1. t \in TaskIds /\ job \in [TaskIds -> JobState] /\ job[t] \in JobState
  BY Typing DEF JobSucceeds, Placed, Busy, JobsOK
<1>2. job' = [job EXCEPT ![t].state = "finished"]
  BY DEF JobSucceeds
<1>3. JobGoes(t, "finished", job[t].retries)
  <2>. DEFINE r == [job[t] EXCEPT !.state = "finished"]
  <2>1. r \in JobState /\ r.state = "finished" /\ r.retries = job[t].retries
    BY <1>1 DEF JobState
  <2>2. job' = [job EXCEPT ![t] = r]
    BY <1>1, <1>2
  <2>. HIDE DEF r
  <2>. QED
    BY <1>1, <2>1, <2>2 DEF JobGoes
<1>4. WorkerGoes(w, "idle", NoTask, 0)
  BY Typing, RestFacts DEF JobSucceeds
<1>. HIDE DEF t
<1>5. RowsOK' /\ SetsOK' /\ PubsOK' /\ JobsOK' /\ WorkersOK'
  BY <1>3, <1>4, Typing
     DEF JobSucceeds, RowsOK, SetsOK, PubsOK, JobsOK, rowVars, pubVars, JobGoes, WorkerGoes
<1>. USE DEF t
<1>. QED
  BY <1>3, <1>4, <1>5, TypingNext DEF JobSucceeds, rowVars, pubVars

\* RQ retries the job of a worker or gives it up.
LEMMA RetryMoves ==
  ASSUME TypeOK, Placed, NEW w \in Workers, JobRaises(w) \/ Crash(w)
  PROVE  /\ TypeOK' /\ Busy(w) /\ WorkerGoes(w, "idle", NoTask, 0)
         /\ UNCHANGED <<row, expired, published, pub>>
         /\ LET t == worker[w].task IN
            \E retries \in {worker[w].retries, job[t].retries} :
              \/ retries > 0 /\ JobGoes(t, "live", retries - 1) /\ DeliveriesGo(t, deliveries[t] + 1)
              \/ retries = 0 /\ JobGoes(t, "failed", 0) /\ UNCHANGED deliveries
<1>. DEFINE t == worker[w].task
<1>1. /\ t \in TaskIds /\ Busy(w) /\ worker[w].retries \in 0..(MaxAttempts - 1)
      /\ job[t].retries \in 0..(MaxAttempts - 1) /\ 0 \in 0..(MaxAttempts - 1)
  BY Typing, RqAssumption DEF JobRaises, Crash, Placed, Busy, JobsOK, WorkersOK, WorkerState, JobState
<1>2. ASSUME NEW retries \in 0..(MaxAttempts - 1), RetryOrFail(t, retries)
      PROVE  \/ retries > 0 /\ JobGoes(t, "live", retries - 1) /\ DeliveriesGo(t, deliveries[t] + 1)
             \/ retries = 0 /\ JobGoes(t, "failed", 0) /\ UNCHANGED deliveries
  <2>1. CASE retries > 0
    <3>1. retries - 1 \in 0..(MaxAttempts - 1)
      BY <2>1, RqAssumption
    <3>. QED
      BY <1>1, <1>2, <2>1, <3>1, Typing, JobFacts DEF RetryOrFail, JobsOK, DeliveriesGo
  <2>2. CASE retries = 0
    BY <1>1, <1>2, <2>2, Typing, JobFacts DEF RetryOrFail
  <2>. QED
    BY <2>1, <2>2
<1>3. PICK retries \in {worker[w].retries, job[t].retries} : RetryOrFail(t, retries)
  BY DEF JobRaises, Crash
<1>4. \/ retries > 0 /\ JobGoes(t, "live", retries - 1) /\ DeliveriesGo(t, deliveries[t] + 1)
      \/ retries = 0 /\ JobGoes(t, "failed", 0) /\ UNCHANGED deliveries
  BY <1>1, <1>2, <1>3
<1>5. WorkerGoes(w, "idle", NoTask, 0)
  BY Typing, RestFacts DEF JobRaises, Crash
<1>6. UNCHANGED <<row, expired, published, pub, list, ready, cancelReq, held, enabled>>
  BY DEF JobRaises, Crash, rowVars, pubVars
<1>. HIDE DEF t
<1>7. RowsOK' /\ SetsOK' /\ PubsOK' /\ JobsOK' /\ WorkersOK'
  BY <1>4, <1>5, <1>6, Typing
     DEF RowsOK, SetsOK, PubsOK, JobsOK, JobGoes, WorkerGoes, DeliveriesGo
<1>. USE DEF t
<1>. QED
  BY <1>1, <1>4, <1>5, <1>6, <1>7, TypingNext

-----------------------------------------------------------------------------
(* Frames.                                                                 *)

\* A reserved row stays reserved, and an outcome is never taken back.
RowsMoveOn ==
  \A u \in TaskIds : /\ row[u].status # "absent" => row'[u].status # "absent"
                     /\ ~Open(u) => row'[u].status \in Outcomes

\* Only the row of t may change, and does not go back.
LEMMA RowMovesOn ==
  ASSUME NEW t \in TaskIds, \A u \in TaskIds : u # t => row'[u] = row[u],
         row'[t].status # "absent", Open(t) \/ row'[t].status \in Outcomes
  PROVE  RowsMoveOn
BY DEF RowsMoveOn, Open

\* Publishers, workers and marks stay at rows that were reserved.
LEMMA PlacedStays ==
  ASSUME Placed, RowsMoveOn,
         \A p \in Publishers :
           \/ pub'[p] = pub[p] \/ pub'[p] = Waiting
           \/ pub'[p].task \in TaskIds /\ row'[pub'[p].task].status # "absent",
         \A w \in Workers :
           worker'[w] = worker[w] \/ worker'[w].phase = "idle" \/ worker'[w].task \in TaskIds,
         \A t \in published' : t \in published \/ row'[t].status # "absent", published \subseteq TaskIds
  PROVE  Placed'
BY DEF Placed, RowsMoveOn, Busy

\* A success stays the end of its row.
LEMMA SuccessStays ==
  ASSUME SuccessEnds, Placed, RowsMoveOn,
         \A w \in Workers :
           \/ worker'[w] = worker[w] \/ worker'[w].phase # "succeeded"
           \/ row'[worker'[w].task].status \in Outcomes,
         \A t \in TaskIds : \/ job'[t].state = "finished" => job[t].state = "finished"
                            \/ row'[t].status \in Outcomes
  PROVE  SuccessEnds'
BY DEF SuccessEnds, Placed, RowsMoveOn, Open, Busy

\* A publisher that has seen the job goes on having it.
LEMMA SeenStays ==
  ASSUME SeenJobStays, Placed, RowsMoveOn, SuccessEnds,
         \A p \in Publishers :
           \/ pub'[p] = pub[p] \/ pub'[p].phase \notin {"fetched", "enqueued"}
           \/ pub'[p].phase = "fetched" /\ ~pub'[p].found
           \/ pub'[p].task \in TaskIds /\ job'[pub'[p].task].state # "none"
           \/ row'[pub'[p].task].status \in Outcomes,
         \A t \in TaskIds :
           job'[t].state = "none" => job[t].state = "none" \/ job[t].state = "finished"
  PROVE  SeenJobStays'
<1>. SUFFICES ASSUME NEW p \in Publishers,
                     pub'[p].phase = "enqueued" \/ (pub'[p].phase = "fetched" /\ pub'[p].found),
                     row'[pub'[p].task].status \notin Outcomes, job'[pub'[p].task].state = "none"
              PROVE  FALSE
  BY DEF SeenJobStays, Open
<1>1. pub'[p] = pub[p]
  OBVIOUS
<1>2. pub[p].task \in TaskIds
  BY <1>1 DEF Placed, Waiting
<1>3. Open(pub[p].task)
  BY <1>1, <1>2 DEF RowsMoveOn
<1>4. job[pub[p].task].state = "none"
  BY <1>1, <1>2, <1>3 DEF SuccessEnds
<1>. QED
  BY <1>1, <1>3, <1>4 DEF SeenJobStays

\* A published row keeps its job.
LEMMA PublishedStays ==
  ASSUME TypeOK, PublishedHasJob, Placed, RowsMoveOn, SuccessEnds,
         \A t \in published' : t \in published \/ job'[t].state # "none",
         \A t \in TaskIds :
           job'[t].state = "none" => job[t].state = "none" \/ job[t].state = "finished"
  PROVE  PublishedHasJob'
<1>. SUFFICES ASSUME NEW t \in published', row'[t].status \in {"queued", "running"}, job'[t].state = "none"
              PROVE  FALSE
  BY DEF PublishedHasJob, Active
<1>1. t \in published /\ t \in TaskIds /\ row[t].status \in Status
  BY DEF TypeOK
<1>2. Open(t) /\ row[t].status # "absent"
  BY <1>1 DEF RowsMoveOn, Outcomes, Placed
<1>3. job[t].state = "none"
  BY <1>1, <1>2 DEF SuccessEnds
<1>. QED
  BY <1>1, <1>2, <1>3 DEF PublishedHasJob, Active, Open, Status

\* A worker that scans did so before, at a row that is still running.
LEMMA ScansStay ==
  ASSUME OneDeliveryScans,
         \A w \in Workers : worker'[w].phase \in {"scanning", "failing"} =>
           /\ worker[w].phase \in {"scanning", "failing"} /\ worker'[w].task = worker[w].task
           /\ row'[worker[w].task].status = "running"
  PROVE  OneDeliveryScans'
BY DEF OneDeliveryScans

\* What a step does to publishers, workers and jobs.
PubsMoveOn ==
  \A p \in Publishers :
    \/ pub'[p] = pub[p] \/ pub'[p] = Waiting
    \/ /\ pub'[p].task \in TaskIds /\ row'[pub'[p].task].status # "absent"
       /\ \/ pub'[p].phase = "leased" \/ (pub'[p].phase = "fetched" /\ ~pub'[p].found)
          \/ job'[pub'[p].task].state # "none" \/ row'[pub'[p].task].status \in Outcomes

WorkersMoveOn ==
  \A w \in Workers :
    \/ worker'[w] = worker[w] \/ worker'[w].phase = "idle"
    \/ /\ worker'[w].task \in TaskIds
       /\ worker'[w].phase = "succeeded" => row'[worker'[w].task].status \in Outcomes

JobsMoveOn ==
  \A t \in TaskIds :
    /\ job'[t].state = "none" => job[t].state = "none" \/ job[t].state = "finished"
    /\ job'[t].state = "finished" => job[t].state = "finished" \/ row'[t].status \in Outcomes

PublishedMovesOn ==
  \A t \in published' : t \in published \/ (row'[t].status # "absent" /\ job'[t].state # "none")

\* The frames together keep the invariant.
LEMMA RqStays ==
  ASSUME RqInv, TypeOK', OneDeliveryScans', RowsMoveOn, PubsMoveOn, WorkersMoveOn, JobsMoveOn,
         PublishedMovesOn
  PROVE  RqInv'
<1>1. /\ TypeOK /\ Placed /\ SuccessEnds /\ SeenJobStays /\ PublishedHasJob /\ published \subseteq TaskIds
  BY DEF RqInv, TypeOK
<1>2. Placed'
  BY <1>1, PlacedStays DEF PubsMoveOn, WorkersMoveOn, PublishedMovesOn
<1>3. SuccessEnds'
  BY <1>1, SuccessStays DEF WorkersMoveOn, JobsMoveOn
<1>4. SeenJobStays'
  <2>1. ASSUME NEW p \in Publishers
        PROVE  \/ pub'[p] = pub[p] \/ pub'[p].phase \notin {"fetched", "enqueued"}
               \/ pub'[p].phase = "fetched" /\ ~pub'[p].found
               \/ pub'[p].task \in TaskIds /\ job'[pub'[p].task].state # "none"
               \/ row'[pub'[p].task].status \in Outcomes
    BY DEF PubsMoveOn, Waiting
  <2>. QED
    BY <1>1, <2>1, SeenStays DEF JobsMoveOn
<1>5. PublishedHasJob'
  BY <1>1, PublishedStays DEF PublishedMovesOn, JobsMoveOn
<1>. QED
  BY <1>2, <1>3, <1>4, <1>5 DEF RqInv

-----------------------------------------------------------------------------
(* Every step preserves the invariant.                                     *)

\* Scanning workers are at rows that are running.
LEMMA ScanningRow ==
  ASSUME RqInv, NEW w \in Workers, worker[w].phase \in {"scanning", "failing"}
  PROVE  worker[w].task \in TaskIds /\ row[worker[w].task].status = "running"
BY DEF RqInv, OneDeliveryScans, Placed, Busy

\* A step that leaves running rows alone leaves the scans alone.
LEMMA ScansStayOn ==
  ASSUME RqInv,
         \A w \in Workers : worker'[w].phase \in {"scanning", "failing"} =>
           worker[w].phase \in {"scanning", "failing"} /\ worker'[w].task = worker[w].task,
         \A w \in Workers : \A t \in TaskIds :
           worker'[w].phase \in {"scanning", "failing"} /\ worker'[w].task = t /\ row[t].status = "running" =>
             row'[t].status = "running"
  PROVE  OneDeliveryScans'
<1>1. ASSUME NEW w \in Workers, worker'[w].phase \in {"scanning", "failing"}
      PROVE  /\ worker[w].phase \in {"scanning", "failing"} /\ worker'[w].task = worker[w].task
             /\ row'[worker[w].task].status = "running"
  BY <1>1, ScanningRow
<1>. QED
  BY <1>1, ScansStay DEF RqInv

\* A row is reserved, its clocks advance, RQ forgets a job, an operator stops a row.
LEMMA RowKeepsRq ==
  ASSUME RqInv, NEW t \in TaskIds,
         Reserve(t) \/ BackoffElapses(t) \/ LeaseExpires(t) \/ JobExpires(t) \/ Stop(t)
  PROVE  RqInv'
<1>. DEFINE Moved == \/ UNCHANGED row
                     \/ /\ row[t].status \in {"absent", "queued"}
                        /\ \A u \in TaskIds : u # t => row'[u] = row[u]
                        /\ \/ row[t].status = "absent" /\ row'[t].status = "queued"
                           \/ row'[t].status = "cancelled"
<1>1. TypeOK
  BY DEF RqInv
<1>2. /\ TypeOK' /\ UNCHANGED <<published, pub, worker>>
      /\ UNCHANGED job \/ (job[t].state = "finished" /\ JobGoes(t, "none", 0))
  BY <1>1, ReserveMoves, ClockMoves, JobExpiresMoves, StopMoves
<1>3. Moved
  BY <1>1, ReserveMoves, ClockMoves, JobExpiresMoves, StopMoves DEF RowGoes
<1>4. RowsMoveOn
  BY <1>3 DEF RowsMoveOn, Open, Outcomes
<1>5. JobsMoveOn
  BY <1>2 DEF JobsMoveOn, JobGoes
<1>6. PublishedMovesOn
  BY <1>2 DEF PublishedMovesOn
<1>7. PubsMoveOn /\ WorkersMoveOn
  BY <1>2 DEF PubsMoveOn, WorkersMoveOn
<1>8. OneDeliveryScans'
  <2>1. \A u \in TaskIds : row[u].status = "running" => row'[u].status = "running"
    BY <1>3
  <2>. QED
    BY <1>2, <2>1, ScansStayOn
<1>. QED
  BY <1>2, <1>4, <1>5, <1>6, <1>7, <1>8, RqStays

\* A publisher reads its list or takes a lease.
LEMMA PubLeaseKeepsRq ==
  ASSUME RqInv, NEW p \in Publishers, PubRead(p) \/ \E t \in TaskIds : PubLease(p, t)
  PROVE  RqInv'
<1>1. TypeOK
  BY DEF RqInv
<1>2. CASE UNCHANGED <<row, pub>>
  <2>1. TypeOK' /\ UNCHANGED <<row, published, pub, job, worker>>
    BY <1>1, <1>2, PubReadMoves, PubLeaseMoves
  <2>2. RowsMoveOn /\ PubsMoveOn /\ WorkersMoveOn /\ JobsMoveOn /\ PublishedMovesOn
    BY <2>1 DEF RowsMoveOn, Open, PubsMoveOn, WorkersMoveOn, JobsMoveOn, PublishedMovesOn
  <2>3. OneDeliveryScans'
    BY <2>1 DEF RqInv, OneDeliveryScans
  <2>. QED
    BY <2>1, <2>2, <2>3, RqStays
<1>3. ASSUME NEW t \in TaskIds, PubLease(p, t), ~UNCHANGED <<row, pub>>
      PROVE  RqInv'
  <2>1. /\ TypeOK' /\ UNCHANGED <<published, job, worker>>
        /\ row[t].status = "queued" /\ RowGoes(t, "queued", p) /\ PubGoes(p, "leased", t, FALSE)
    BY <1>1, <1>3, PubLeaseMoves DEF Leasable
  <2>2. RowsMoveOn
    BY <2>1, RowMovesOn DEF RowGoes, Open, Outcomes
  <2>3. PubsMoveOn
    BY <2>1 DEF PubsMoveOn, PubGoes, RowGoes
  <2>4. WorkersMoveOn /\ JobsMoveOn /\ PublishedMovesOn
    BY <2>1 DEF WorkersMoveOn, JobsMoveOn, PublishedMovesOn
  <2>5. \A u \in TaskIds : row[u].status = "running" => row'[u].status = "running"
    BY <2>1 DEF RowGoes
  <2>6. OneDeliveryScans'
    BY <2>1, <2>5, ScansStayOn
  <2>. QED
    BY <2>1, <2>2, <2>3, <2>4, <2>6, RqStays
<1>. QED
  BY <1>1, <1>2, <1>3, PubReadMoves

\* A publisher looks for the job of its row and enqueues it when there is none.
LEMMA PubEnqueueKeepsRq ==
  ASSUME RqInv, NEW p \in Publishers, PubFetch(p) \/ PubEnqueue(p)
  PROVE  RqInv'
<1>1. TypeOK /\ Placed /\ pub[p] # Waiting
  BY DEF RqInv, PubFetch, PubEnqueue, Waiting
<1>2. pub[p].task \in TaskIds /\ row[pub[p].task].status # "absent"
  BY <1>1 DEF Placed
<1>3. /\ TypeOK' /\ UNCHANGED <<row, published, worker>>
      /\ UNCHANGED job \/ JobGoes(pub[p].task, "live", MaxAttempts - 1)
  BY <1>1, PubFetchMoves, PubEnqueueMoves
<1>4. RowsMoveOn /\ WorkersMoveOn /\ PublishedMovesOn
  BY <1>3 DEF RowsMoveOn, Open, WorkersMoveOn, PublishedMovesOn
<1>5. JobsMoveOn
  BY <1>2, <1>3 DEF JobsMoveOn, JobGoes
<1>6. PubsMoveOn
  <2>1. /\ \A q \in Publishers : q # p => pub'[q] = pub[q]
        /\ pub'[p].task = pub[p].task
    BY <1>1, PubFetchMoves, PubEnqueueMoves DEF PubGoes
  <2>2. CASE PubFetch(p)
    <3>1. /\ pub'[p].phase = "fetched" /\ job' = job
          /\ pub'[p].found = (job[pub[p].task].state # "none")
      BY <1>1, <2>2, PubFetchMoves DEF PubGoes
    <3>2. pub'[p].found => job[pub[p].task].state # "none"
      BY <3>1, Zenon
    <3>. QED
      BY <1>2, <1>3, <2>1, <3>1, <3>2 DEF PubsMoveOn
  <2>3. CASE PubEnqueue(p)
    <3>1. /\ pub[p].phase = "fetched"
          /\ (pub[p].found /\ UNCHANGED job) \/ JobGoes(pub[p].task, "live", MaxAttempts - 1)
      BY <1>1, <2>3, PubEnqueueMoves
    <3>2. job'[pub[p].task].state # "none" \/ row[pub[p].task].status \in Outcomes
      BY <3>1 DEF RqInv, SeenJobStays, Open, JobGoes
    <3>. QED
      BY <1>2, <1>3, <2>1, <3>2 DEF PubsMoveOn
  <2>. QED
    BY <2>2, <2>3
<1>7. OneDeliveryScans'
  BY <1>3 DEF RqInv, OneDeliveryScans
<1>. QED
  BY <1>3, <1>4, <1>5, <1>6, <1>7, RqStays

\* A publisher marks its row, gives it up or dies.
LEMMA PubLeavesKeepsRq ==
  ASSUME RqInv, NEW p \in Publishers, PubMark(p) \/ PubError(p) \/ PubCrash(p)
  PROVE  RqInv'
<1>. DEFINE t == pub[p].task
<1>1. TypeOK /\ Placed
  BY DEF RqInv
<1>2. /\ TypeOK' /\ pub[p] # Waiting /\ PubGoes(p, "idle", NoTask, FALSE) /\ pub'[p] = Waiting
      /\ LeaseGoes(p, t) /\ UNCHANGED <<job, worker>>
      /\ \/ published' = published
         \/ /\ published' = published \union {t} /\ pub[p].phase = "enqueued"
            /\ row[t].status = "queued"
  BY <1>1, PubLeaves
<1>3. t \in TaskIds /\ row[t].status # "absent"
  BY <1>1, <1>2 DEF Placed
<1>4. pub[p].phase = "enqueued" /\ row[t].status = "queued" => job[t].state # "none"
  BY DEF RqInv, SeenJobStays, Open, Outcomes
<1>. HIDE DEF t
<1>5. UNCHANGED row \/ (RowGoes(t, "queued", NoLease) /\ row[t].status = "queued")
  BY <1>2 DEF LeaseGoes
<1>6. RowsMoveOn /\ \A u \in TaskIds : row[u].status = "running" => row'[u].status = "running"
  BY <1>3, <1>5 DEF RowGoes, RowsMoveOn, Open, Outcomes
<1>7. PublishedMovesOn
  BY <1>2, <1>3, <1>4, <1>6 DEF PublishedMovesOn, RowsMoveOn
<1>8. PubsMoveOn /\ WorkersMoveOn /\ JobsMoveOn
  BY <1>2 DEF PubsMoveOn, PubGoes, WorkersMoveOn, JobsMoveOn
<1>9. OneDeliveryScans'
  BY <1>2, <1>6, ScansStayOn
<1>. QED
  BY <1>2, <1>6, <1>7, <1>8, <1>9, RqStays

\* A worker gets a job.
LEMMA DeliverKeepsRq ==
  ASSUME RqInv, NEW w \in Workers, NEW t \in TaskIds, Deliver(w, t)
  PROVE  RqInv'
<1>1. TypeOK
  BY DEF RqInv
<1>2. /\ TypeOK' /\ UNCHANGED <<row, published, pub, job>>
      /\ WorkerGoes(w, "idle", NoTask, 0) \/ WorkerGoes(w, "delivered", t, job[t].retries)
  BY <1>1, DeliverMoves
<1>3. RowsMoveOn /\ PubsMoveOn /\ JobsMoveOn /\ PublishedMovesOn
  BY <1>2 DEF RowsMoveOn, Open, PubsMoveOn, JobsMoveOn, PublishedMovesOn
<1>4. WorkersMoveOn
  BY <1>2 DEF WorkersMoveOn, WorkerGoes
<1>5. \A v \in Workers : worker'[v].phase \in {"scanning", "failing"} => worker'[v] = worker[v]
  BY <1>2 DEF WorkerGoes
<1>6. OneDeliveryScans'
  BY <1>2, <1>5, ScansStayOn
<1>. QED
  BY <1>2, <1>3, <1>4, <1>6, RqStays

\* A worker claims its row, replays what ended or is turned away.
LEMMA ClaimKeepsRq ==
  ASSUME RqInv, NEW w \in Workers, Claim(w)
  PROVE  RqInv'
<1>. DEFINE t == worker[w].task
<1>1. TypeOK /\ Placed /\ worker[w].phase = "delivered" /\ t \in TaskIds
  BY DEF RqInv, Claim, Placed, Busy
<1>2. /\ TypeOK' /\ UNCHANGED <<published, pub, job>>
      /\ \/ /\ row[t].status \in {"completed", "cancelled"} /\ UNCHANGED row
            /\ WorkerGoes(w, "succeeded", t, worker[w].retries)
         \/ UNCHANGED row /\ WorkerGoes(w, "raised", t, worker[w].retries)
         \/ /\ row[t].status = "queued" /\ row'[t].status = "running"
            /\ \A u \in TaskIds : u # t => row'[u] = row[u]
            /\ WorkerGoes(w, "scanning", t, worker[w].retries)
  BY <1>1, ClaimMoves
<1>. HIDE DEF t
<1>3. RowsMoveOn
  BY <1>1, <1>2 DEF RowsMoveOn, Open, Outcomes
<1>4. PubsMoveOn
  BY <1>2 DEF PubsMoveOn
<1>5. WorkersMoveOn
  BY <1>1, <1>2 DEF WorkersMoveOn, WorkerGoes, Outcomes
<1>6. JobsMoveOn /\ PublishedMovesOn
  BY <1>2 DEF JobsMoveOn, PublishedMovesOn
<1>7. OneDeliveryScans'
  <2>1. CASE UNCHANGED row
    <3>1. \A v \in Workers : worker'[v].phase \in {"scanning", "failing"} => worker'[v] = worker[v]
      BY <1>1, <1>2, <2>1 DEF WorkerGoes
    <3>. QED
      BY <2>1, <3>1, ScansStayOn
  <2>2. CASE /\ row[t].status = "queued" /\ row'[t].status = "running"
             /\ \A u \in TaskIds : u # t => row'[u] = row[u]
             /\ WorkerGoes(w, "scanning", t, worker[w].retries)
    <3>1. worker'[w].task = t /\ \A v \in Workers : v # w => worker'[v] = worker[v]
      BY <2>2 DEF WorkerGoes
    <3>2. ASSUME NEW v \in Workers, v # w, worker[v].phase \in {"scanning", "failing"}
          PROVE  worker[v].task \in TaskIds /\ worker[v].task # t /\ row[worker[v].task].status = "running"
      BY <2>2, <3>2, ScanningRow
    <3>3. ASSUME NEW v \in Workers, NEW x \in Workers, v # w, x # w, v # x,
                 worker[v].phase \in {"scanning", "failing"}, worker[x].phase \in {"scanning", "failing"}
          PROVE  worker[v].task # worker[x].task
      BY <3>3 DEF RqInv, OneDeliveryScans
    <3>4. ASSUME NEW v \in Workers, worker'[v].phase \in {"scanning", "failing"}
          PROVE  row'[worker'[v].task].status = "running"
      BY <2>2, <3>1, <3>2, <3>4
    <3>5. ASSUME NEW v \in Workers, NEW x \in Workers \ {v},
                 worker'[v].phase \in {"scanning", "failing"}, worker'[x].phase \in {"scanning", "failing"}
          PROVE  worker'[x].task # worker'[v].task
      BY <3>1, <3>2, <3>3, <3>5
    <3>. QED
      BY <3>4, <3>5 DEF OneDeliveryScans
  <2>. QED
    BY <1>2, <2>1, <2>2
<1>. QED
  BY <1>2, <1>3, <1>4, <1>5, <1>6, <1>7, RqStays

\* A worker that scans fails, or records what came of the scan.
LEMMA ScanKeepsRq ==
  ASSUME RqInv, NEW w \in Workers,
         Complete(w) \/ FailWrite(w) \/ \E fault \in Faults \ {"none"} : Raise(w, fault)
  PROVE  RqInv'
<1>. DEFINE t == worker[w].task
<1>1. TypeOK /\ Placed /\ worker[w].phase \in {"scanning", "failing"}
  BY DEF RqInv, Complete, FailWrite, Raise
<1>2. t \in TaskIds /\ row[t].status = "running"
  BY <1>1, ScanningRow
<1>3. /\ TypeOK' /\ pub' = pub
      /\ \/ /\ UNCHANGED <<row, published, job>> /\ WorkerGoes(w, "failing", t, worker[w].retries)
         \/ /\ RowGoes(t, "completed", NoLease) /\ published' \subseteq published /\ job' = job
            /\ WorkerGoes(w, "succeeded", t, worker[w].retries)
         \/ /\ RowGoes(t, "cancelled", NoLease) /\ UNCHANGED <<published, job>>
            /\ WorkerGoes(w, "succeeded", t, worker[w].retries)
         \/ /\ RowGoes(t, "queued", NoLease)
            /\ published' = published \union {t} /\ JobGoes(t, "live", worker[w].retries)
            /\ WorkerGoes(w, "raised", t, worker[w].retries)
         \/ /\ RowGoes(t, "failed", NoLease) /\ UNCHANGED published
            /\ JobGoes(t, "live", 0) /\ WorkerGoes(w, "raised", t, 0)
  <2>1. CASE Complete(w)
    BY <1>1, <2>1, CompleteMoves
  <2>2. CASE FailWrite(w)
    BY <1>1, <2>2, FailWriteMoves
  <2>3. CASE \E fault \in Faults \ {"none"} : Raise(w, fault)
    BY <1>1, <2>3, RaiseMoves
  <2>. QED
    BY <2>1, <2>2, <2>3
<1>. HIDE DEF t
<1>4. /\ \A v \in Workers : v # w => worker'[v] = worker[v]
      /\ worker'[w].task = t /\ worker'[w].phase \in {"failing", "succeeded", "raised"}
      /\ worker'[w].phase = "succeeded" => row'[t].status \in Outcomes
      /\ worker'[w].phase = "failing" => row' = row
      /\ \A u \in TaskIds : u # t => row'[u] = row[u]
      /\ row'[t].status # "absent"
  BY <1>2, <1>3 DEF WorkerGoes, RowGoes, Outcomes
<1>5. RowsMoveOn
  BY <1>2, <1>4 DEF RowsMoveOn, Open, Outcomes
<1>6. JobsMoveOn
  BY <1>2, <1>3 DEF JobsMoveOn, JobGoes
<1>7. PublishedMovesOn
  BY <1>2, <1>3, <1>4 DEF PublishedMovesOn, JobGoes
<1>8. PubsMoveOn /\ WorkersMoveOn
  BY <1>2, <1>3, <1>4 DEF PubsMoveOn, WorkersMoveOn
<1>9. OneDeliveryScans'
  <2>1. ASSUME NEW v \in Workers, worker'[v].phase \in {"scanning", "failing"}
        PROVE  /\ worker[v].phase \in {"scanning", "failing"} /\ worker'[v].task = worker[v].task
               /\ row'[worker[v].task].status = "running"
    <3>1. CASE v = w
      BY <1>1, <1>2, <1>4, <2>1, <3>1 DEF t
    <3>2. CASE v # w
      <4>1. worker'[v] = worker[v]
        BY <1>4, <3>2
      <4>2. worker[v].task \in TaskIds /\ row[worker[v].task].status = "running"
        BY <2>1, <4>1, ScanningRow
      <4>3. worker[v].task # t
        BY <1>1, <2>1, <3>2, <4>1 DEF RqInv, OneDeliveryScans, t
      <4>. QED
        BY <1>4, <2>1, <4>1, <4>2, <4>3
    <3>. QED
      BY <3>1, <3>2
  <2>. QED
    BY <2>1, ScansStay DEF RqInv
<1>. QED
  BY <1>3, <1>5, <1>6, <1>7, <1>8, <1>9, RqStays

\* RQ ends a delivery: the job succeeded, is retried or given up.
LEMMA EndKeepsRq ==
  ASSUME RqInv, NEW w \in Workers, JobSucceeds(w) \/ JobRaises(w) \/ Crash(w)
  PROVE  RqInv'
<1>. DEFINE t == worker[w].task
<1>1. TypeOK /\ Placed /\ Busy(w)
  BY DEF RqInv, JobSucceeds, JobRaises, Crash, Busy
<1>2. t \in TaskIds
  BY <1>1 DEF Placed
<1>3. /\ TypeOK' /\ UNCHANGED <<row, published, pub>> /\ WorkerGoes(w, "idle", NoTask, 0)
      /\ \A u \in TaskIds : u # t => job'[u] = job[u]
      /\ job'[t].state # "none"
      /\ job'[t].state = "finished" => worker[w].phase = "succeeded"
  <2>1. CASE JobSucceeds(w)
    BY <1>1, <2>1, JobSucceedsMoves DEF JobGoes
  <2>2. CASE JobRaises(w) \/ Crash(w)
    BY <1>1, <2>2, RetryMoves DEF JobGoes
  <2>. QED
    BY <2>1, <2>2
<1>4. worker[w].phase = "succeeded" => row[t].status \in Outcomes
  BY DEF RqInv, SuccessEnds, Open
<1>. HIDE DEF t
<1>5. RowsMoveOn /\ PubsMoveOn /\ PublishedMovesOn
  BY <1>3 DEF RowsMoveOn, Open, PubsMoveOn, PublishedMovesOn
<1>6. JobsMoveOn
  BY <1>2, <1>3, <1>4 DEF JobsMoveOn
<1>7. WorkersMoveOn
  BY <1>3 DEF WorkersMoveOn, WorkerGoes
<1>8. \A v \in Workers : worker'[v].phase \in {"scanning", "failing"} => worker'[v] = worker[v]
  BY <1>3 DEF WorkerGoes
<1>9. OneDeliveryScans'
  BY <1>3, <1>8, ScansStayOn
<1>. QED
  BY <1>3, <1>5, <1>6, <1>7, <1>9, RqStays

\* Nothing is reserved, published or at work at the start.
LEMMA RqInitially == Init => RqInv
<1>. SUFFICES ASSUME Init PROVE RqInv
  OBVIOUS
<1>1. 0 \in 0..(MaxAttempts - 1)
  BY RqAssumption
<1>2. TypeOK
  BY <1>1, RqAssumption DEF Init, TypeOK, Waiting, Idle, Status, Faults
<1>. QED
  BY <1>2 DEF Init, RqInv, OneDeliveryScans, Placed, SuccessEnds, SeenJobStays, PublishedHasJob,
       Waiting, Idle, Busy

\* Every step of the outbox preserves the invariant.
LEMMA RqStep == RqInv /\ [Next]_vars => RqInv'
<1>1. ASSUME RqInv, UNCHANGED vars PROVE RqInv'
  BY <1>1 DEF RqInv, TypeOK, OneDeliveryScans, Placed, SuccessEnds, SeenJobStays, PublishedHasJob,
       Open, Active, Busy, vars, rowVars, pubVars, jobVars
<1>. QED
  BY <1>1, RowKeepsRq, PubLeaseKeepsRq, PubEnqueueKeepsRq, PubLeavesKeepsRq, DeliverKeepsRq,
     ClaimKeepsRq, ScanKeepsRq, EndKeepsRq DEF Next, PubStep, WorkerStep

\* The inductive invariant of the outbox holds in every reachable state, for any
\* number of rows, publishers and workers, slow publishers included.
THEOREM RqInvariance == Spec => []RqInv
BY RqInitially, RqStep, PTL DEF Spec

\* However often a job is delivered, one worker at a time is inside its scan, at
\* a row that is running (execute_scheduled_scan_job).
THEOREM OneScanPerExecution == Spec => []OneDeliveryScans
<1>1. RqInv => OneDeliveryScans
  BY DEF RqInv
<1>. QED
  BY <1>1, RqInvariance, PTL

\* The mark of a published row never hides an execution RQ has no job for.
THEOREM PublishedRowsHaveJobs == Spec => []PublishedHasJob
<1>1. RqInv => PublishedHasJob
  BY DEF RqInv
<1>. QED
  BY <1>1, RqInvariance, PTL

-----------------------------------------------------------------------------
(* The budget, when no publisher outlives its lease.                       *)

\* Either the row of t ends, or the step changes nothing its counts depend on.
CountsStay(t) ==
  \/ row'[t].status \in Outcomes
  \/ /\ Open(t) /\ row'[t].attempts = row[t].attempts /\ deliveries'[t] = deliveries[t]
     /\ job'[t].state = "none" <=> job[t].state = "none"
     /\ job'[t].retries = job[t].retries
     /\ \A w \in Workers : worker'[w].phase # "idle" /\ worker'[w].task = t =>
          /\ worker[w].phase # "idle" /\ worker[w].task = t
          /\ worker'[w].retries = worker[w].retries
          /\ worker'[w].phase = "delivered" => worker[w].phase = "delivered"

\* What leaves the counts of a row alone keeps them in agreement.
LEMMA CountsStayed ==
  ASSUME NEW t \in TaskIds, OneDelivery(t), CountsAgree(t), CountsStay(t)
  PROVE  OneDelivery(t)' /\ CountsAgree(t)'
<1>1. CASE row'[t].status \in Outcomes
  BY <1>1 DEF OneDelivery, CountsAgree, Open
<1>2. CASE row'[t].status \notin Outcomes
  <2>1. OneDelivery(t)'
    BY <1>2 DEF OneDelivery, Open, Busy, CountsStay
  <2>2. CountsAgree(t)'
    BY <1>2 DEF CountsAgree, Open, Busy, CountsStay
  <2>. QED
    BY <2>1, <2>2
<1>. QED
  BY <1>1, <1>2

\* The publisher stays where it is, and the lease it may need is not taken from it.
LeaseStays(p) ==
  /\ pub'[p] = pub[p]
  /\ \/ row'[pub[p].task].status \in Outcomes
     \/ /\ Open(pub[p].task)
        /\ job[pub[p].task].state = "none" <=> job'[pub[p].task].state = "none"
        /\ job[pub[p].task].state = "none" /\ row[pub[p].task].lease = p /\ pub[p].task \notin expired =>
             row'[pub[p].task].lease = p /\ pub[p].task \notin expired'

\* What leaves a publisher and its lease alone keeps it.
LEMMA LeaseStayed ==
  ASSUME NEW p \in Publishers, LeaseLasts(p),
         LeaseStays(p) \/ pub'[p].phase \notin {"leased", "fetched"}
  PROVE  LeaseLasts(p)'
<1>1. CASE LeaseStays(p)
  BY <1>1 DEF LeaseLasts, LeaseStays, Open
<1>2. CASE pub'[p].phase \notin {"leased", "fetched"}
  BY <1>2 DEF LeaseLasts
<1>. QED
  BY <1>1, <1>2

\* A publisher that waits for nothing else is at a row of its own.
LEMMA PlaceOfPublisher ==
  ASSUME RqInv, NEW p \in Publishers, pub[p].phase \in {"leased", "fetched"}
  PROVE  pub[p].task \in TaskIds /\ row[pub[p].task].status # "absent"
BY DEF RqInv, Placed, Waiting

\* A row is reserved, its clocks advance, RQ forgets a job, an operator stops a row.
LEMMA RowKeepsBudget ==
  ASSUME PromptPublishers, BudgetInv, NEW t \in TaskIds,
         Reserve(t) \/ BackoffElapses(t) \/ LeaseExpires(t) \/ JobExpires(t) \/ Stop(t)
  PROVE  BudgetInv'
<1>1. RqInv /\ TypeOK /\ RqInv'
  BY RowKeepsRq DEF BudgetInv, RqInv
<1>2. /\ UNCHANGED <<pub, worker, deliveries>>
      /\ UNCHANGED job \/ (job[t].state = "finished" /\ JobGoes(t, "none", 0) /\ UNCHANGED row)
      /\ \A u \in TaskIds : u # t => row'[u] = row[u]
      /\ \/ row'[t] = row[t] \/ row'[t].status = "cancelled"
         \/ /\ row[t].status = "absent" /\ row'[t].attempts = row[t].attempts
      /\ \/ expired' = expired
         \/ expired' = expired \union {t} /\ \A p \in Publishers : pub[p].task # t
  BY <1>1, ReserveMoves, ClockMoves, JobExpiresMoves, StopMoves DEF RowGoes
<1>3. job[t].state = "finished" => row[t].status \in Outcomes
  BY <1>1 DEF RqInv, SuccessEnds, Open
<1>4. ASSUME NEW u \in TaskIds PROVE OneDelivery(u)' /\ CountsAgree(u)'
  <2>1. Open(u) \/ row[u].status \in Outcomes
    BY DEF Open
  <2>2. CountsStay(u)
    BY <1>2, <1>3, <2>1 DEF CountsStay, Open, JobGoes, Outcomes
  <2>. QED
    BY <2>2, CountsStayed DEF BudgetInv
<1>5. ASSUME NEW p \in Publishers PROVE LeaseLasts(p)'
  <2>1. CASE pub[p].phase \in {"leased", "fetched"}
    <3>1. pub[p].task \in TaskIds /\ row[pub[p].task].status # "absent"
      BY <1>1, <2>1, PlaceOfPublisher
    <3>2. LeaseStays(p)
      BY <1>2, <1>3, <3>1 DEF LeaseStays, Open, JobGoes, Outcomes
    <3>. QED
      BY <3>2, LeaseStayed DEF BudgetInv
  <2>2. CASE pub[p].phase \notin {"leased", "fetched"}
    BY <1>2, <2>2, LeaseStayed DEF BudgetInv
  <2>. QED
    BY <2>1, <2>2
<1>. QED
  BY <1>1, <1>4, <1>5 DEF BudgetInv

\* A step of a publisher that leaves jobs alone leaves the counts alone.
LEMMA CountsStayAlone ==
  ASSUME BudgetInv, UNCHANGED <<job, deliveries, worker>>,
         \A u \in TaskIds : row'[u].attempts = row[u].attempts /\ (~Open(u) => row'[u].status \in Outcomes)
  PROVE  \A u \in TaskIds : OneDelivery(u)' /\ CountsAgree(u)'
<1>. SUFFICES ASSUME NEW u \in TaskIds PROVE OneDelivery(u)' /\ CountsAgree(u)'
  OBVIOUS
<1>1. CountsStay(u)
  BY DEF CountsStay
<1>. QED
  BY <1>1, CountsStayed DEF BudgetInv

\* A publisher reads its list or takes a lease.
LEMMA PubLeaseKeepsBudget ==
  ASSUME BudgetInv, NEW p \in Publishers, PubRead(p) \/ \E t \in TaskIds : PubLease(p, t)
  PROVE  BudgetInv'
<1>1. RqInv /\ TypeOK /\ RqInv'
  BY PubLeaseKeepsRq DEF BudgetInv, RqInv
<1>2. CASE PubRead(p) \/ UNCHANGED <<row, expired, pub>>
  <2>1. UNCHANGED <<row, expired, pub, job, deliveries, worker>>
    BY <1>1, <1>2, PubReadMoves, PubLeaseMoves
  <2>2. \A u \in TaskIds : OneDelivery(u)' /\ CountsAgree(u)'
    BY <2>1, CountsStayAlone DEF Open
  <2>3. \A q \in Publishers : LeaseLasts(q)'
    BY <2>1 DEF BudgetInv, LeaseLasts, Open
  <2>. QED
    BY <1>1, <2>2, <2>3 DEF BudgetInv
<1>3. ASSUME NEW t \in TaskIds, PubLease(p, t), ~UNCHANGED <<row, expired, pub>>
      PROVE  BudgetInv'
  <2>1. /\ UNCHANGED <<job, deliveries, worker>> /\ expired' \subseteq expired /\ pub[p] = Waiting
        /\ Leasable(t) /\ RowGoes(t, "queued", p) /\ t \notin expired' /\ PubGoes(p, "leased", t, FALSE)
    BY <1>1, <1>3, PubLeaseMoves
  <2>2. \A u \in TaskIds : row'[u].attempts = row[u].attempts /\ (~Open(u) => row'[u].status \in Outcomes)
    BY <2>1 DEF RowGoes, Open, Leasable, Outcomes
  <2>3. \A u \in TaskIds : OneDelivery(u)' /\ CountsAgree(u)'
    BY <2>1, <2>2, CountsStayAlone
  <2>4. LeaseLasts(p)'
    <3>1. pub'[p].phase = "leased" /\ pub'[p].task = t /\ row'[t].lease = p /\ t \notin expired'
      BY <2>1 DEF PubGoes, RowGoes
    <3>. QED
      BY <3>1 DEF LeaseLasts
  <2>5. ASSUME NEW q \in Publishers, q # p PROVE LeaseLasts(q)'
    <3>1. pub'[q] = pub[q]
      BY <2>1, <2>5 DEF PubGoes
    <3>2. CASE pub[q].phase \in {"leased", "fetched"}
      <4>1. pub[q].task \in TaskIds
        BY <1>1, <3>2, PlaceOfPublisher
      <4>2. pub[q].task = t => ~(row[t].lease = q /\ t \notin expired)
        BY <2>1, RqAssumption DEF Leasable
      <4>3. pub[q].task # t => row'[pub[q].task] = row[pub[q].task]
        BY <2>1, <4>1 DEF RowGoes
      <4>4. row[pub[q].task].status \in Outcomes => row'[pub[q].task].status \in Outcomes
        BY <2>2, <4>1 DEF Open
      <4>5. LeaseStays(q)
        BY <2>1, <3>1, <4>2, <4>3, <4>4 DEF LeaseStays, Open
      <4>. QED
        BY <4>5, LeaseStayed DEF BudgetInv
    <3>3. CASE pub[q].phase \notin {"leased", "fetched"}
      BY <3>1, <3>3, LeaseStayed DEF BudgetInv
    <3>. QED
      BY <3>2, <3>3
  <2>. QED
    BY <1>1, <2>3, <2>4, <2>5 DEF BudgetInv
<1>. QED
  BY <1>2, <1>3

\* A publisher looks for the job of its row.
LEMMA PubFetchKeepsBudget ==
  ASSUME BudgetInv, NEW p \in Publishers, PubFetch(p)
  PROVE  BudgetInv'
<1>1. RqInv /\ TypeOK /\ Placed /\ RqInv'
  BY PubEnqueueKeepsRq DEF BudgetInv, RqInv
<1>2. /\ UNCHANGED <<row, expired, job, deliveries, worker>> /\ pub[p].phase = "leased"
      /\ PubGoes(p, "fetched", pub[p].task, job[pub[p].task].state # "none")
  BY <1>1, PubFetchMoves
<1>3. \A u \in TaskIds : OneDelivery(u)' /\ CountsAgree(u)'
  BY <1>2, CountsStayAlone DEF Open
<1>4. LeaseLasts(p)'
  <2>1. pub'[p].task = pub[p].task /\ (pub'[p].found <=> job[pub[p].task].state # "none")
    <3>1. pub'[p].found = (job[pub[p].task].state # "none") /\ pub'[p].task = pub[p].task
      BY <1>2 DEF PubGoes
    <3>. QED
      BY <3>1, Zenon
  <2>2. \/ ~Open(pub[p].task)
        \/ job[pub[p].task].state = "none" => row[pub[p].task].lease = p /\ pub[p].task \notin expired
    BY <1>2 DEF BudgetInv, LeaseLasts
  <2>3. pub'[p].phase = "fetched"
    BY <1>2 DEF PubGoes
  <2>4. Open(pub[p].task) <=> row'[pub[p].task].status \notin Outcomes
    BY <1>2 DEF Open
  <2>. QED
    BY <1>2, <2>1, <2>2, <2>3, <2>4 DEF LeaseLasts, Open
<1>5. ASSUME NEW q \in Publishers, q # p PROVE LeaseLasts(q)'
  <2>1. pub'[q] = pub[q]
    BY <1>2, <1>5 DEF PubGoes
  <2>. QED
    BY <1>2, <2>1 DEF BudgetInv, LeaseLasts, Open
<1>. QED
  BY <1>1, <1>3, <1>4, <1>5 DEF BudgetInv

\* A publisher enqueues the job of its row unless there is one.
LEMMA PubEnqueueKeepsBudget ==
  ASSUME BudgetInv, NEW p \in Publishers, PubEnqueue(p)
  PROVE  BudgetInv'
<1>. DEFINE t == pub[p].task
<1>1. RqInv /\ TypeOK /\ Placed /\ RqInv' /\ pub[p].phase = "fetched"
  BY PubEnqueueKeepsRq DEF BudgetInv, RqInv, PubEnqueue
<1>2. /\ PubGoes(p, "enqueued", t, pub[p].found)
      /\ UNCHANGED <<row, expired, worker>>
      /\ \/ pub[p].found /\ UNCHANGED <<job, deliveries>>
         \/ ~pub[p].found /\ JobGoes(t, "live", MaxAttempts - 1) /\ DeliveriesGo(t, deliveries[t] + 1)
  BY <1>1, PubEnqueueMoves
<1>3. t \in TaskIds
  BY <1>1, PlaceOfPublisher
<1>4. ~pub[p].found /\ Open(t) => job[t].state = "none" /\ row[t].lease = p
  BY <1>1 DEF BudgetInv, LeaseLasts
<1>5. LeaseLasts(p)'
  BY <1>2, LeaseStayed DEF BudgetInv, PubGoes
<1>. HIDE DEF t
<1>6. ASSUME NEW q \in Publishers, q # p PROVE LeaseLasts(q)'
  <2>1. pub'[q] = pub[q]
    BY <1>2, <1>6 DEF PubGoes
  <2>2. CASE pub[q].phase = "leased" \/ (pub[q].phase = "fetched" /\ ~pub[q].found)
    <3>1. pub[q].task \in TaskIds
      BY <1>1, <2>2, PlaceOfPublisher
    <3>2. CASE pub[q].task # t \/ ~Open(t) \/ pub[p].found
      <4>1. LeaseStays(q)
        BY <1>2, <2>1, <3>1, <3>2 DEF LeaseStays, Open, JobGoes
      <4>. QED
        BY <4>1, LeaseStayed DEF BudgetInv
    <3>3. CASE pub[q].task = t /\ Open(t) /\ ~pub[p].found
      <4>1. job[t].state = "none" => row[t].lease = q
        BY <2>2, <3>3 DEF BudgetInv, LeaseLasts
      <4>. QED
        BY <1>4, <1>6, <3>3, <4>1
    <3>. QED
      BY <3>2, <3>3
  <2>3. CASE ~(pub[q].phase = "leased" \/ (pub[q].phase = "fetched" /\ ~pub[q].found))
    BY <2>1, <2>3 DEF LeaseLasts
  <2>. QED
    BY <2>2, <2>3
<1>7. ASSUME NEW u \in TaskIds PROVE OneDelivery(u)' /\ CountsAgree(u)'
  <2>1. CASE u # t \/ ~Open(t) \/ pub[p].found
    <3>1. CountsStay(u)
      BY <1>2, <2>1 DEF CountsStay, Open, JobGoes, DeliveriesGo
    <3>. QED
      BY <3>1, CountsStayed DEF BudgetInv
  <2>2. CASE u = t /\ Open(t) /\ ~pub[p].found
    <3>1. /\ deliveries[u] = 0 /\ row[u].attempts = 0
          /\ \A w \in Workers : ~(Busy(w) /\ worker[w].task = u)
      BY <1>3, <1>4, <2>2 DEF BudgetInv, OneDelivery
    <3>2. /\ deliveries'[u] = 1 /\ job'[u].state = "live" /\ job'[u].retries = MaxAttempts - 1
          /\ row'[u].attempts = 0
          /\ \A w \in Workers : ~(worker'[w].phase # "idle" /\ worker'[w].task = u)
      BY <1>2, <2>2, <3>1 DEF JobGoes, DeliveriesGo, Busy
    <3>3. MaxAttempts \in Nat \ {0}
      BY RqAssumption
    <3>4. OneDelivery(u)'
      BY <3>2 DEF OneDelivery, Busy
    <3>5. CountsAgree(u)'
      BY <3>2, <3>3 DEF CountsAgree, Busy
    <3>. QED
      BY <3>4, <3>5
  <2>. QED
    BY <2>1, <2>2
<1>. QED
  BY <1>1, <1>5, <1>6, <1>7 DEF BudgetInv

\* A publisher marks its row, gives it up or dies.
LEMMA PubLeavesKeepsBudget ==
  ASSUME BudgetInv, NEW p \in Publishers, PubMark(p) \/ PubError(p) \/ PubCrash(p)
  PROVE  BudgetInv'
<1>. DEFINE t == pub[p].task
<1>1. RqInv /\ TypeOK /\ Placed /\ RqInv'
  BY PubLeavesKeepsRq DEF BudgetInv, RqInv
<1>2. /\ pub[p] # Waiting /\ PubGoes(p, "idle", NoTask, FALSE)
      /\ LeaseGoes(p, t) /\ UNCHANGED <<job, deliveries, worker>>
  BY <1>1, PubLeaves
<1>3. t \in TaskIds
  BY <1>1, <1>2 DEF Placed
<1>. HIDE DEF t
<1>4. /\ \A u \in TaskIds : row'[u].attempts = row[u].attempts /\ row'[u].status = row[u].status
      /\ \A u \in TaskIds : row[u].lease # p => row'[u] = row[u]
      /\ expired' \subseteq expired
  BY <1>2, <1>3 DEF LeaseGoes, RowGoes
<1>5. \A u \in TaskIds : OneDelivery(u)' /\ CountsAgree(u)'
  BY <1>2, <1>4, CountsStayAlone DEF Open
<1>6. LeaseLasts(p)'
  BY <1>2, LeaseStayed DEF BudgetInv, PubGoes
<1>7. ASSUME NEW q \in Publishers, q # p PROVE LeaseLasts(q)'
  <2>1. pub'[q] = pub[q]
    BY <1>2, <1>7 DEF PubGoes
  <2>2. CASE pub[q].phase \in {"leased", "fetched"}
    <3>1. pub[q].task \in TaskIds
      BY <1>1, <2>2, PlaceOfPublisher
    <3>2. row[pub[q].task].lease = q => row'[pub[q].task] = row[pub[q].task]
      BY <1>4, <1>7, <3>1
    <3>3. LeaseStays(q)
      BY <1>2, <1>4, <2>1, <3>1, <3>2 DEF LeaseStays, Open
    <3>. QED
      BY <3>3, LeaseStayed DEF BudgetInv
  <2>3. CASE pub[q].phase \notin {"leased", "fetched"}
    BY <2>1, <2>3, LeaseStayed DEF BudgetInv
  <2>. QED
    BY <2>2, <2>3
<1>. QED
  BY <1>1, <1>5, <1>6, <1>7 DEF BudgetInv


\* What workers and RQ do never takes a lease that a publisher still needs.
LEMMA LeasesStay ==
  ASSUME BudgetInv, UNCHANGED pub, expired' \subseteq expired,
         \A u \in TaskIds :
           \/ row'[u].status \in Outcomes
           \/ /\ Open(u) /\ (job[u].state = "none" <=> job'[u].state = "none")
              /\ row'[u].lease = row[u].lease \/ job[u].state # "none"
  PROVE  \A p \in Publishers : LeaseLasts(p)'
<1>. SUFFICES ASSUME NEW p \in Publishers PROVE LeaseLasts(p)'
  OBVIOUS
<1>1. CASE pub[p].phase \in {"leased", "fetched"}
  <2>1. pub[p].task \in TaskIds
    BY <1>1, PlaceOfPublisher DEF BudgetInv
  <2>2. LeaseStays(p)
    BY <2>1 DEF LeaseStays
  <2>. QED
    BY <2>2, LeaseStayed DEF BudgetInv
<1>2. CASE pub[p].phase \notin {"leased", "fetched"}
  BY <1>2, LeaseStayed DEF BudgetInv
<1>. QED
  BY <1>1, <1>2

\* The counts of an open row at which a worker is busy.
LEMMA CountsOfBusy ==
  ASSUME BudgetInv, NEW w \in Workers, Busy(w), Open(worker[w].task)
  PROVE  LET t == worker[w].task IN
         /\ t \in TaskIds /\ deliveries[t] = 0 /\ job[t].state # "none"
         /\ \A v \in Workers : Busy(v) /\ worker[v].task = t => v = w
         /\ worker[w].retries = job[t].retries
         /\ row[t].attempts + worker[w].retries <= MaxAttempts
         /\ worker[w].phase = "delivered" => row[t].attempts + worker[w].retries < MaxAttempts
<1>1. worker[w].task \in TaskIds
  BY DEF BudgetInv, RqInv, Placed
<1>. QED
  BY <1>1 DEF BudgetInv, OneDelivery, CountsAgree

\* The numbers the counts are made of.
LEMMA Numbers ==
  ASSUME BudgetInv
  PROVE  /\ MaxAttempts \in Nat \ {0}
         /\ \A u \in TaskIds : row[u].attempts \in Nat /\ job[u].retries \in Nat /\ deliveries[u] \in Nat
         /\ \A w \in Workers : worker[w].retries \in Nat
BY RqAssumption DEF BudgetInv, RqInv, TypeOK

\* RQ hands a job to a worker.
LEMMA DeliverKeepsBudget ==
  ASSUME BudgetInv, NEW w \in Workers, NEW t \in TaskIds, Deliver(w, t)
  PROVE  BudgetInv'
<1>1. RqInv /\ TypeOK /\ RqInv'
  BY DeliverKeepsRq DEF BudgetInv, RqInv
<1>2. /\ ~Busy(w) /\ deliveries[t] > 0 /\ DeliveriesGo(t, deliveries[t] - 1)
      /\ IF job[t].state = "none" THEN WorkerGoes(w, "idle", NoTask, 0)
         ELSE WorkerGoes(w, "delivered", t, job[t].retries)
      /\ UNCHANGED <<row, expired, pub, job>>
  BY <1>1, DeliverMoves
<1>3. \A p \in Publishers : LeaseLasts(p)'
  BY <1>2, LeasesStay DEF Open
<1>4. ASSUME NEW u \in TaskIds PROVE OneDelivery(u)' /\ CountsAgree(u)'
  <2>1. CASE ~Open(u)
    <3>1. CountsStay(u)
      BY <1>2, <2>1 DEF CountsStay, Open
    <3>. QED
      BY <3>1, CountsStayed DEF BudgetInv
  <2>2. CASE Open(u) /\ u # t
    <3>1. CountsStay(u)
      BY <1>2, <2>2 DEF CountsStay, Open, DeliveriesGo, WorkerGoes
    <3>. QED
      BY <3>1, CountsStayed DEF BudgetInv
  <2>3. CASE Open(u) /\ u = t
    <3>1. /\ deliveries[u] = 1 /\ job[u].state # "none"
          /\ row[u].attempts + job[u].retries < MaxAttempts /\ row[u].attempts <= MaxAttempts
          /\ \A v \in Workers : ~(worker[v].phase # "idle" /\ worker[v].task = u)
      BY <1>2, <2>3, Numbers DEF BudgetInv, OneDelivery, CountsAgree, Busy
    <3>2. /\ deliveries'[u] = 0 /\ worker'[w].phase = "delivered" /\ worker'[w].retries = job[u].retries
          /\ \A v \in Workers : worker'[v].phase # "idle" /\ worker'[v].task = u => v = w
          /\ row' = row /\ job' = job
      BY <1>2, <2>3, <3>1 DEF DeliveriesGo, WorkerGoes
    <3>3. OneDelivery(u)'
      BY <3>1, <3>2 DEF OneDelivery, Busy
    <3>4. CountsAgree(u)'
      BY <3>1, <3>2, Numbers DEF CountsAgree, Busy
    <3>. QED
      BY <3>3, <3>4
  <2>. QED
    BY <2>1, <2>2, <2>3
<1>. QED
  BY <1>1, <1>3, <1>4 DEF BudgetInv

\* A worker claims its row, replays what ended or is turned away.
LEMMA ClaimKeepsBudget ==
  ASSUME BudgetInv, NEW w \in Workers, Claim(w)
  PROVE  BudgetInv'
<1>. DEFINE t == worker[w].task
<1>1. RqInv /\ TypeOK /\ Placed /\ RqInv'
  BY ClaimKeepsRq DEF BudgetInv, RqInv
<1>2. /\ worker[w].phase = "delivered" /\ expired' \subseteq expired
      /\ UNCHANGED <<pub, job, deliveries>>
      /\ \/ UNCHANGED <<row, expired>> /\ WorkerGoes(w, "succeeded", t, worker[w].retries)
         \/ UNCHANGED <<row, expired>> /\ WorkerGoes(w, "raised", t, worker[w].retries)
         \/ /\ row[t].status = "queued" /\ row'[t].attempts = row[t].attempts + 1
            /\ \A u \in TaskIds : u # t => row'[u] = row[u]
            /\ WorkerGoes(w, "scanning", t, worker[w].retries)
  BY <1>1, ClaimMoves
<1>3. t \in TaskIds
  BY <1>1, <1>2 DEF Placed, Busy
<1>4. CASE UNCHANGED <<row, expired>>
  <2>1. \A p \in Publishers : LeaseLasts(p)'
    BY <1>2, <1>4, LeasesStay DEF Open
  <2>2. ASSUME NEW u \in TaskIds PROVE CountsStay(u)
    <3>1. \A v \in Workers : /\ worker'[v].phase = "idle" <=> worker[v].phase = "idle"
                             /\ worker'[v].task = worker[v].task /\ worker'[v].retries = worker[v].retries
                             /\ worker'[v].phase = "delivered" => worker[v].phase = "delivered"
      <4>1. worker'[w].phase \in {"succeeded", "raised", "scanning"} /\ worker'[w].task = worker[w].task
            /\ worker'[w].retries = worker[w].retries /\ \A v \in Workers : v # w => worker'[v] = worker[v]
        BY <1>2 DEF WorkerGoes
      <4>. QED
        BY <1>2, <4>1
    <3>. QED
      BY <1>2, <1>4, <3>1 DEF CountsStay, Open
  <2>. QED
    BY <1>1, <2>1, <2>2, CountsStayed DEF BudgetInv
<1>5. CASE /\ row[t].status = "queued" /\ row'[t].attempts = row[t].attempts + 1
           /\ \A u \in TaskIds : u # t => row'[u] = row[u]
           /\ WorkerGoes(w, "scanning", t, worker[w].retries)
  <2>1. Open(t) /\ Busy(w)
    BY <1>2, <1>5 DEF Open, Busy, Outcomes
  <2>2. /\ deliveries[t] = 0 /\ job[t].state # "none" /\ worker[w].retries = job[t].retries
        /\ row[t].attempts + worker[w].retries < MaxAttempts
        /\ \A v \in Workers : Busy(v) /\ worker[v].task = t => v = w
    BY <1>2, <2>1, CountsOfBusy
  <2>. HIDE DEF t
  <2>3. \A p \in Publishers : LeaseLasts(p)'
    BY <1>2, <1>5, <2>1, <2>2, LeasesStay DEF Open
  <2>4. ASSUME NEW u \in TaskIds PROVE OneDelivery(u)' /\ CountsAgree(u)'
    <3>1. CASE u # t
      <4>1. CountsStay(u)
        BY <1>2, <1>5, <3>1 DEF CountsStay, Open, WorkerGoes
      <4>. QED
        BY <4>1, CountsStayed DEF BudgetInv
    <3>2. CASE u = t
      <4>1. /\ deliveries'[u] = 0 /\ job' = job /\ job[u].state # "none"
            /\ row'[u].attempts = row[u].attempts + 1
            /\ row[u].attempts + job[u].retries < MaxAttempts
            /\ worker'[w].phase = "scanning" /\ worker'[w].retries = job[u].retries
            /\ \A v \in Workers : worker'[v].phase # "idle" /\ worker'[v].task = u => v = w
        BY <1>2, <1>5, <2>2, <3>2 DEF WorkerGoes, Busy
      <4>2. OneDelivery(u)'
        BY <4>1 DEF OneDelivery, Busy
      <4>3. row[u].attempts \in Nat /\ job[u].retries \in Nat /\ MaxAttempts \in Nat
        BY Numbers
      <4>4. CountsAgree(u)'
        BY <4>1, <4>3 DEF CountsAgree, Busy
      <4>. QED
        BY <4>2, <4>4
    <3>. QED
      BY <3>1, <3>2
  <2>. QED
    BY <1>1, <2>3, <2>4 DEF BudgetInv
<1>. QED
  BY <1>2, <1>4, <1>5

\* A worker that scans fails, or records what came of the scan.
LEMMA ScanKeepsBudget ==
  ASSUME BudgetInv, NEW w \in Workers,
         Complete(w) \/ FailWrite(w) \/ \E fault \in Faults \ {"none"} : Raise(w, fault)
  PROVE  BudgetInv'
<1>. DEFINE t == worker[w].task
<1>1. RqInv /\ TypeOK /\ Placed /\ RqInv' /\ worker[w].phase \in {"scanning", "failing"}
  BY ScanKeepsRq DEF BudgetInv, RqInv, Complete, FailWrite, Raise
<1>2. t \in TaskIds /\ row[t].status = "running" /\ Open(t) /\ Busy(w)
  BY <1>1, ScanningRow DEF Open, Busy, Outcomes
<1>3. /\ UNCHANGED <<pub, expired, deliveries>>
      /\ \/ /\ UNCHANGED <<row, job>> /\ WorkerGoes(w, "failing", t, worker[w].retries)
         \/ /\ RowGoes(t, "completed", NoLease) /\ job' = job
            /\ WorkerGoes(w, "succeeded", t, worker[w].retries)
         \/ /\ RowGoes(t, "cancelled", NoLease) /\ job' = job
            /\ WorkerGoes(w, "succeeded", t, worker[w].retries)
         \/ /\ RowGoes(t, "queued", NoLease) /\ JobGoes(t, "live", worker[w].retries)
            /\ WorkerGoes(w, "raised", t, worker[w].retries)
         \/ /\ RowGoes(t, "failed", NoLease) /\ JobGoes(t, "live", 0) /\ WorkerGoes(w, "raised", t, 0)
  <2>1. CASE Complete(w)
    BY <1>1, <2>1, CompleteMoves
  <2>2. CASE FailWrite(w)
    BY <1>1, <2>2, FailWriteMoves
  <2>3. CASE \E fault \in Faults \ {"none"} : Raise(w, fault)
    BY <1>1, <2>3, RaiseMoves
  <2>. QED
    BY <2>1, <2>2, <2>3
<1>4. job[t].state # "none" /\ worker[w].retries = job[t].retries
  BY <1>2, CountsOfBusy
<1>. HIDE DEF t
<1>5. /\ \A u \in TaskIds : u # t => row'[u] = row[u] /\ job'[u] = job[u]
      /\ \/ row'[t].status \in Outcomes
         \/ row'[t].attempts = row[t].attempts /\ job'[t].retries = job[t].retries
      /\ job'[t].state # "none"
      /\ \A v \in Workers : v # w => worker'[v] = worker[v]
      /\ worker'[w].phase \in {"failing", "succeeded", "raised"} /\ worker'[w].task = t
      /\ row'[t].status \in Outcomes \/ worker'[w].retries = worker[w].retries
  BY <1>2, <1>3, <1>4 DEF RowGoes, JobGoes, WorkerGoes, Outcomes
<1>6. \A p \in Publishers : LeaseLasts(p)'
  BY <1>2, <1>3, <1>4, <1>5, LeasesStay DEF Open
<1>7. ASSUME NEW u \in TaskIds PROVE CountsStay(u)
  <2>1. CASE u # t
    BY <1>3, <1>5, <2>1 DEF CountsStay, Open
  <2>2. CASE u = t
    BY <1>2, <1>3, <1>4, <1>5, <2>2 DEF CountsStay, Busy, t
  <2>. QED
    BY <2>1, <2>2
<1>. QED
  BY <1>1, <1>6, <1>7, CountsStayed DEF BudgetInv

\* RQ ends a delivery: the job succeeded, is retried or given up.
LEMMA EndKeepsBudget ==
  ASSUME BudgetInv, NEW w \in Workers, JobSucceeds(w) \/ JobRaises(w) \/ Crash(w)
  PROVE  BudgetInv'
<1>. DEFINE t == worker[w].task
<1>1. RqInv /\ TypeOK /\ Placed /\ RqInv' /\ Busy(w)
  BY EndKeepsRq DEF BudgetInv, RqInv, JobSucceeds, JobRaises, Crash, Busy
<1>2. t \in TaskIds
  BY <1>1 DEF Placed
<1>3. /\ UNCHANGED <<row, expired, pub>> /\ WorkerGoes(w, "idle", NoTask, 0)
      /\ \/ worker[w].phase = "succeeded" /\ JobGoes(t, "finished", job[t].retries) /\ UNCHANGED deliveries
         \/ \E retries \in {worker[w].retries, job[t].retries} :
              \/ retries > 0 /\ JobGoes(t, "live", retries - 1) /\ DeliveriesGo(t, deliveries[t] + 1)
              \/ retries = 0 /\ JobGoes(t, "failed", 0) /\ UNCHANGED deliveries
  <2>1. CASE JobSucceeds(w)
    BY <1>1, <2>1, JobSucceedsMoves
  <2>2. CASE JobRaises(w) \/ Crash(w)
    BY <1>1, <2>2, RetryMoves
  <2>. QED
    BY <2>1, <2>2
<1>4. worker[w].phase = "succeeded" => ~Open(t)
  BY <1>1 DEF RqInv, SuccessEnds
<1>5. Open(t) => /\ deliveries[t] = 0 /\ job[t].state # "none" /\ worker[w].retries = job[t].retries
                 /\ row[t].attempts + job[t].retries <= MaxAttempts
                 /\ \A v \in Workers : Busy(v) /\ worker[v].task = t => v = w
  BY <1>1, CountsOfBusy
<1>. HIDE DEF t
<1>6. /\ \A u \in TaskIds : u # t => job'[u] = job[u] /\ deliveries'[u] = deliveries[u]
      /\ job'[t].state # "none"
      /\ worker'[w].phase = "idle" /\ \A v \in Workers : v # w => worker'[v] = worker[v]
  BY <1>3 DEF JobGoes, DeliveriesGo, WorkerGoes
<1>7. \A p \in Publishers : LeaseLasts(p)'
  BY <1>3, <1>5, <1>6, LeasesStay DEF Open
<1>8. ASSUME NEW u \in TaskIds PROVE OneDelivery(u)' /\ CountsAgree(u)'
  <2>1. CASE u # t \/ ~Open(u)
    <3>1. CountsStay(u)
      BY <1>3, <1>6, <2>1 DEF CountsStay, Open
    <3>. QED
      BY <3>1, CountsStayed DEF BudgetInv
  <2>2. CASE u = t /\ Open(u)
    <3>1. /\ row' = row /\ row[u].attempts \in Nat /\ job[u].retries \in Nat /\ MaxAttempts \in Nat
          /\ row[u].attempts + job[u].retries <= MaxAttempts
          /\ \A v \in Workers : ~(worker'[v].phase # "idle" /\ worker'[v].task = u)
      BY <1>3, <1>5, <1>6, <2>2, Numbers DEF Busy
    <3>2. \/ /\ job[u].retries > 0 /\ job'[u].retries = job[u].retries - 1 /\ deliveries'[u] = 1
          \/ deliveries'[u] = 0
      BY <1>3, <1>4, <1>5, <2>2 DEF JobGoes, DeliveriesGo
    <3>3. OneDelivery(u)'
      BY <1>6, <2>2, <3>1, <3>2 DEF OneDelivery, Busy
    <3>4. CountsAgree(u)'
      BY <3>1, <3>2 DEF CountsAgree, Busy
    <3>. QED
      BY <3>3, <3>4
  <2>. QED
    BY <2>1, <2>2
<1>. QED
  BY <1>1, <1>7, <1>8 DEF BudgetInv

\* No row has a delivery, an attempt or a lease at the start.
LEMMA BudgetInitially == Init => BudgetInv
<1>. SUFFICES ASSUME Init PROVE BudgetInv
  OBVIOUS
<1>1. RqInv
  BY RqInitially
<1>2. /\ \A w \in Workers : ~Busy(w)
      /\ \A u \in TaskIds : deliveries[u] = 0 /\ row[u].attempts = 0
      /\ \A p \in Publishers : pub[p].phase = "idle"
  BY DEF Init, Idle, Busy, Waiting
<1>3. ASSUME NEW u \in TaskIds PROVE OneDelivery(u) /\ CountsAgree(u)
  <2>1. OneDelivery(u)
    BY <1>2 DEF OneDelivery
  <2>2. 0 <= MaxAttempts
    BY RqAssumption
  <2>3. CountsAgree(u)
    BY <1>2, <2>2 DEF CountsAgree
  <2>. QED
    BY <2>1, <2>3
<1>4. \A p \in Publishers : LeaseLasts(p)
  BY <1>2 DEF LeaseLasts
<1>. QED
  BY <1>1, <1>3, <1>4 DEF BudgetInv

\* Every step preserves the invariant of the budget when publishers are prompt.
LEMMA BudgetStep == PromptPublishers /\ BudgetInv /\ [Next]_vars => BudgetInv'
<1>1. ASSUME BudgetInv, UNCHANGED vars PROVE BudgetInv'
  <2>1. RqInv'
    BY <1>1, RqStep DEF BudgetInv
  <2>2. UNCHANGED <<row, expired, pub, job, deliveries, worker>>
    BY <1>1 DEF vars, rowVars, pubVars, jobVars
  <2>3. \A u \in TaskIds : OneDelivery(u)' /\ CountsAgree(u)'
    BY <1>1, <2>2, CountsStayAlone DEF Open
  <2>4. \A p \in Publishers : LeaseLasts(p)'
    BY <1>1, <2>2, LeasesStay DEF Open
  <2>. QED
    BY <2>1, <2>3, <2>4 DEF BudgetInv
<1>. QED
  BY <1>1, RowKeepsBudget, PubLeaseKeepsBudget, PubFetchKeepsBudget, PubEnqueueKeepsBudget,
     PubLeavesKeepsBudget, DeliverKeepsBudget, ClaimKeepsBudget, ScanKeepsBudget, EndKeepsBudget
     DEF Next, PubStep, WorkerStep

\* With prompt publishers RQ's count of retries and the row's count of attempts
\* agree in every reachable state, and no two deliveries of an open row coexist.
THEOREM BudgetInvariance == PromptPublishers /\ Spec => []BudgetInv
<1>. SUFFICES ASSUME PromptPublishers PROVE Spec => []BudgetInv
  OBVIOUS
<1>1. BudgetInv /\ [Next]_vars => BudgetInv'
  BY BudgetStep
<1>. QED
  BY <1>1, BudgetInitially, PTL DEF Spec

-----------------------------------------------------------------------------
(* What a step does to the status and the attempts of the rows: nothing,   *)
(* or one step of the abstract life cycle.                                 *)

RowsStay ==
  \A u \in TaskIds : row'[u].status = row[u].status /\ row'[u].attempts = row[u].attempts

\* Row t goes from one of the given statuses to the status to, the others stay.
RowMoves(t, from, to) ==
  /\ row[t].status \in from /\ row'[t].status = to
  /\ \A u \in TaskIds : u # t => row'[u].status = row[u].status
  /\ \A u \in TaskIds : row'[u].attempts = row[u].attempts

RowStarts(t) ==
  /\ row[t].status = "queued" /\ row'[t].status = "running"
  /\ row[t].attempts < MaxAttempts /\ row'[t].attempts = row[t].attempts + 1
  /\ \A u \in TaskIds : u # t =>
       row'[u].status = row[u].status /\ row'[u].attempts = row[u].attempts

Moves ==
  \/ RowsStay
  \/ \E t \in TaskIds :
       \/ RowMoves(t, {"absent"}, "queued")
       \/ RowStarts(t)
       \/ RowMoves(t, {"running"}, "queued") /\ row[t].attempts < MaxAttempts
       \/ RowMoves(t, {"running"}, "completed")
       \/ RowMoves(t, {"queued", "running"}, "cancelled")
       \/ RowMoves(t, {"running"}, "failed")

\* Of the row of t at most the status changes.
LEMMA RowGoesMoves ==
  ASSUME NEW t \in TaskIds, NEW status, NEW lease, RowGoes(t, status, lease)
  PROVE  /\ \A from : row[t].status \in from => RowMoves(t, from, status)
         /\ row[t].status = status => RowsStay
BY DEF RowGoes, RowMoves, RowsStay

\* Reservations, clocks and the operator.
LEMMA RowStepKinds ==
  ASSUME BudgetInv, NEW t \in TaskIds,
         Reserve(t) \/ BackoffElapses(t) \/ LeaseExpires(t) \/ JobExpires(t) \/ Stop(t)
  PROVE  Moves
<1>1. TypeOK
  BY DEF BudgetInv, RqInv
<1>2. CASE UNCHANGED row
  BY <1>2 DEF Moves, RowsStay
<1>3. CASE row[t].status = "absent" /\ RowGoes(t, "queued", NoLease)
  BY <1>3, RowGoesMoves DEF Moves
<1>4. CASE row[t].status = "queued" /\ RowGoes(t, "cancelled", NoLease)
  BY <1>4, RowGoesMoves DEF Moves
<1>. QED
  BY <1>1, <1>2, <1>3, <1>4, ReserveMoves, ClockMoves, JobExpiresMoves, StopMoves

\* Publishers take and return leases only.
LEMMA PubStepKinds ==
  ASSUME BudgetInv, NEW p \in Publishers,
         \/ PubRead(p) \/ PubStep(p) \/ PubError(p) \/ PubCrash(p)
         \/ \E t \in TaskIds : PubLease(p, t)
  PROVE  Moves
<1>1. TypeOK /\ Placed
  BY DEF BudgetInv, RqInv
<1>2. CASE UNCHANGED row
  BY <1>2 DEF Moves, RowsStay
<1>3. CASE PubRead(p) \/ PubFetch(p) \/ PubEnqueue(p)
  BY <1>1, <1>2, <1>3, PubReadMoves, PubFetchMoves, PubEnqueueMoves
<1>4. ASSUME NEW t \in TaskIds, PubLease(p, t) PROVE Moves
  <2>1. UNCHANGED row \/ (row[t].status = "queued" /\ RowGoes(t, "queued", p))
    BY <1>1, <1>4, PubLeaseMoves DEF Leasable
  <2>2. row[t].status = "queued" /\ RowGoes(t, "queued", p) => RowsStay
    BY RowGoesMoves
  <2>. QED
    BY <1>2, <2>1, <2>2 DEF Moves
<1>5. CASE PubMark(p) \/ PubError(p) \/ PubCrash(p)
  <2>1. pub[p] # Waiting /\ LeaseGoes(p, pub[p].task)
    BY <1>1, <1>5, PubLeaves
  <2>2. pub[p].task \in TaskIds
    BY <1>1, <2>1 DEF Placed
  <2>3. UNCHANGED row \/ (row[pub[p].task].status = "queued" /\ RowGoes(pub[p].task, "queued", NoLease))
    BY <2>1 DEF LeaseGoes
  <2>4. UNCHANGED row \/ RowsStay
    BY <2>2, <2>3, RowGoesMoves
  <2>. QED
    BY <1>2, <2>4 DEF Moves
<1>. QED
  BY <1>3, <1>4, <1>5 DEF PubStep

\* A claim starts an attempt the budget has left; the end of a scan ends it.
LEMMA WorkerStepKinds ==
  ASSUME BudgetInv, NEW w \in Workers,
         (\E t \in TaskIds : Deliver(w, t)) \/ WorkerStep(w) \/ Crash(w)
  PROVE  Moves
<1>. DEFINE t == worker[w].task
<1>1. RqInv /\ TypeOK /\ Placed
  BY DEF BudgetInv, RqInv
<1>2. CASE UNCHANGED row
  BY <1>2 DEF Moves, RowsStay
<1>3. CASE (\E u \in TaskIds : Deliver(w, u)) \/ JobSucceeds(w) \/ JobRaises(w) \/ Crash(w)
           \/ \E fault \in Faults \ {"none"} : Raise(w, fault)
  BY <1>1, <1>2, <1>3, DeliverMoves, JobSucceedsMoves, RetryMoves, RaiseMoves
<1>4. CASE Claim(w)
  <2>1. UNCHANGED row \/ /\ worker[w].phase = "delivered" /\ row[t].status = "queued"
                         /\ row'[t].status = "running" /\ row'[t].attempts = row[t].attempts + 1
                         /\ \A u \in TaskIds : u # t => row'[u] = row[u]
    BY <1>1, <1>4, ClaimMoves
  <2>2. worker[w].phase = "delivered" /\ row[t].status = "queued" =>
          row[t].attempts < MaxAttempts /\ t \in TaskIds
    <3>1. SUFFICES ASSUME worker[w].phase = "delivered", row[t].status = "queued"
                   PROVE  row[t].attempts < MaxAttempts /\ t \in TaskIds
      OBVIOUS
    <3>2. t \in TaskIds /\ row[t].attempts + worker[w].retries < MaxAttempts
      BY <3>1, CountsOfBusy DEF Busy, Open, Outcomes
    <3>3. row[t].attempts \in Nat /\ worker[w].retries \in Nat /\ MaxAttempts \in Nat
      BY <3>2, Numbers
    <3>. QED
      BY <3>2, <3>3
  <2>. HIDE DEF t
  <2>3. UNCHANGED row \/ (t \in TaskIds /\ RowStarts(t))
    BY <2>1, <2>2 DEF RowStarts
  <2>. QED
    BY <1>2, <2>3 DEF Moves
<1>5. CASE Complete(w) \/ FailWrite(w)
  <2>1. worker[w].phase \in {"scanning", "failing"}
    BY <1>5 DEF Complete, FailWrite
  <2>2. t \in TaskIds /\ row[t].status = "running" /\ Open(t) /\ Busy(w)
    BY <1>1, <2>1, ScanningRow DEF Open, Busy, Outcomes
  <2>3. \/ RowGoes(t, "completed", NoLease) \/ RowGoes(t, "cancelled", NoLease)
        \/ RowGoes(t, "failed", NoLease) \/ (worker[w].retries > 0 /\ RowGoes(t, "queued", NoLease))
    BY <1>1, <1>5, CompleteMoves, FailWriteMoves
  <2>4. worker[w].retries > 0 => row[t].attempts < MaxAttempts
    <3>1. row[t].attempts + worker[w].retries <= MaxAttempts
      BY <2>2, CountsOfBusy
    <3>2. row[t].attempts \in Nat /\ worker[w].retries \in Nat /\ MaxAttempts \in Nat
      BY <2>2, Numbers
    <3>. QED
      BY <3>1, <3>2
  <2>. HIDE DEF t
  <2>. QED
    BY <2>2, <2>3, <2>4, RowGoesMoves DEF Moves
<1>. QED
  BY <1>3, <1>4, <1>5 DEF WorkerStep

\* Every step is one of the abstract life cycle, or leaves it alone.
LEMMA StepKinds == BudgetInv /\ [Next]_vars => Moves
<1>1. UNCHANGED vars => Moves
  BY DEF vars, rowVars, Moves, RowsStay
<1>. QED
  BY <1>1, RowStepKinds, PubStepKinds, WorkerStepKinds DEF Next

\* The RQ-backed queue implements the abstract life cycle of its rows, retry
\* budget included, provided no publisher outlives its lease.
THEOREM RqRefinement == PromptPublishers /\ Spec => ImplementsLifecycle
<1>. SUFFICES ASSUME PromptPublishers PROVE Spec => ImplementsLifecycle
  OBVIOUS
<1>1. Init => Lifecycle!Init
  BY DEF Init, Lifecycle!Init
<1>2. BudgetInv /\ [Next]_vars => [Lifecycle!Next]_(Lifecycle!vars)
  <2>. SUFFICES ASSUME Moves PROVE [Lifecycle!Next]_(Lifecycle!vars)
    BY StepKinds
  <2>1. CASE RowsStay
    BY <2>1 DEF RowsStay, Lifecycle!vars
  <2>2. ASSUME NEW t \in TaskIds, RowMoves(t, {"absent"}, "queued") PROVE Lifecycle!Reserve(t)
    BY <2>2 DEF RowMoves, Lifecycle!Reserve
  <2>3. ASSUME NEW t \in TaskIds, RowStarts(t) PROVE Lifecycle!Start(t)
    BY <2>3 DEF RowStarts, Lifecycle!Start
  <2>4. ASSUME NEW t \in TaskIds, RowMoves(t, {"running"}, "queued"), row[t].attempts < MaxAttempts
        PROVE  Lifecycle!Requeue(t)
    BY <2>4 DEF RowMoves, Lifecycle!Requeue
  <2>5. ASSUME NEW t \in TaskIds, RowMoves(t, {"running"}, "completed") PROVE Lifecycle!Complete(t)
    BY <2>5 DEF RowMoves, Lifecycle!Complete
  <2>6. ASSUME NEW t \in TaskIds, RowMoves(t, {"queued", "running"}, "cancelled")
        PROVE  Lifecycle!Cancel(t)
    BY <2>6 DEF RowMoves, Lifecycle!Cancel
  <2>7. ASSUME NEW t \in TaskIds, RowMoves(t, {"running"}, "failed") PROVE Lifecycle!Fail({t})
    BY <2>7 DEF RowMoves, Lifecycle!Fail
  <2>. QED
    BY <2>1, <2>2, <2>3, <2>4, <2>5, <2>6, <2>7 DEF Moves, Lifecycle!Next
<1>. QED
  BY <1>1, <1>2, BudgetInvariance, PTL DEF Spec, ImplementsLifecycle, Lifecycle!Spec

\* With prompt publishers no execution is scanned more often than configured.
THEOREM ScansWithinBudget == PromptPublishers /\ Spec => []RetryBudgetKept
<1>. SUFFICES ASSUME PromptPublishers PROVE Spec => []RetryBudgetKept
  OBVIOUS
<1>1. Init => RetryBudgetKept
  <2>. SUFFICES ASSUME Init PROVE RetryBudgetKept
    OBVIOUS
  <2>1. 0 <= MaxAttempts
    BY RqAssumption
  <2>2. \A t \in TaskIds : row[t].attempts = 0
    BY DEF Init
  <2>. QED
    BY <2>1, <2>2 DEF RetryBudgetKept
<1>2. BudgetInv /\ RetryBudgetKept /\ [Next]_vars => RetryBudgetKept'
  <2>. SUFFICES ASSUME BudgetInv, RetryBudgetKept, Moves PROVE RetryBudgetKept'
    BY StepKinds
  <2>1. MaxAttempts \in Nat /\ \A u \in TaskIds : row[u].attempts \in Nat
    BY Numbers
  <2>2. \A u \in TaskIds : row'[u].attempts = row[u].attempts
                           \/ (row[u].attempts < MaxAttempts /\ row'[u].attempts = row[u].attempts + 1)
    BY DEF Moves, RowsStay, RowMoves, RowStarts
  <2>. QED
    BY <2>1, <2>2 DEF RetryBudgetKept
<1>. QED
  BY <1>1, <1>2, BudgetInvariance, PTL DEF Spec

=============================================================================
