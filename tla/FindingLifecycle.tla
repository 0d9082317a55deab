-------------------------- MODULE FindingLifecycle --------------------------
(***************************************************************************)
(* One row of findings, its audit trail finding_history and its evidence,  *)
(* as the scanners' persistence and the analysts' decisions change them    *)
(* (repositories.py, lifecycle.py, services/finding_service.py).           *)
(*                                                                         *)
(* Every database session reads the row, decides on what it read and       *)
(* writes the columns it changed: nothing is locked and no version is      *)
(* compared between the read and the write, so that sessions of other      *)
(* requests and workers may commit in between.  An UPDATE takes the row's  *)
(* lock until the commit, hence the write and the commit are one step.     *)
(***************************************************************************)
EXTENDS Integers, Sequences, FiniteSets

CONSTANTS
  Sessions,    \* database sessions of requests and workers
  Jobs,        \* rows of scan_jobs
  Ingested,    \* the jobs that import a saved report
  Commits,     \* commits a history scanner may name
  CommitTime,  \* the timestamp each commit carries
  Requests,    \* the decisions analysts send
  Observations, \* what scanners report
  MaxClock,    \* bound: the clock stops there
  MaxEvents,   \* bound: no session starts once the history is that long
  None

LifecycleState == {"NEW", "REVIEWING", "CONFIRMED", "FALSE_POSITIVE", "ACCEPTED_RISK",
                   "SUPPRESSED", "REMEDIATED", "REGRESSED"}

LEGACY_STATUS ==
  [NEW |-> "open", REVIEWING |-> "triaged", CONFIRMED |-> "triaged",
   FALSE_POSITIVE |-> "suppressed", ACCEPTED_RISK |-> "accepted_risk",
   SUPPRESSED |-> "suppressed", REMEDIATED |-> "resolved", REGRESSED |-> "open"]

FindingStatus == {"open", "triaged", "suppressed", "accepted_risk", "resolved"}

\* The state a legacy status stands for on a finding that exists.
FromLegacy ==
  [open |-> "REVIEWING", triaged |-> "REVIEWING", resolved |-> "REMEDIATED",
   suppressed |-> "SUPPRESSED", accepted_risk |-> "ACCEPTED_RISK"]

\* Labels of triage_state.  Analysts may send any text; "note" stands for it.
TriageState == {"new", "reopened", "note"} \union FindingStatus

Nothing == "unchanged"

TriageRequests ==
  [lifecycle : LifecycleState \union {Nothing}, status : FindingStatus \union {Nothing},
   triage : TriageState \union {Nothing}]

\* What a scanner saw: no commit for the current tree, or a commit and
\* whether it added the match; and whether the history scanner reports it.
ScanMatch ==
  [commit : Commits \union {None}, added : BOOLEAN, history : BOOLEAN]

ASSUME FindingAssumption ==
  /\ None \notin Jobs \union Commits
  /\ Ingested \subseteq Jobs
  /\ CommitTime \in [Commits -> Nat]
  /\ Requests \subseteq TriageRequests
  /\ Observations \subseteq ScanMatch
  /\ MaxClock \in Nat \ {0} /\ MaxEvents \in Nat

\* The columns of the row the model keeps; the audited ones are those of
\* lifecycle.snapshot.
Audited == {"state", "status", "triage", "remediatedAt", "regressions"}
Columns == Audited \union {"job"}

Finding ==
  [state : LifecycleState \union {"ABSENT"}, status : FindingStatus,
   triage : TriageState, remediatedAt : Nat, regressions : Nat,
   job : Jobs \union {None}]

Absent ==
  [state |-> "ABSENT", status |-> "open", triage |-> "new", remediatedAt |-> 0,
   regressions |-> 0, job |-> None]

VARIABLES
  row,       \* the committed row, Absent before the first observation
  history,   \* committed rows of finding_history, oldest first
  evidenced, \* commits named by committed rows of evidence
  clock,
  started,   \* started_at of each job, 0 before it runs
  work,      \* what each session is doing: "idle", "triage" or "scan"
  jobOf,     \* the job a scan session persists for, None for none
  seen,      \* the row as the session read it
  known,     \* the evidence as the session read it
  raced      \* some session wrote over a row that changed since it read it

vars == <<row, history, evidenced, clock, started, work, jobOf, seen, known, raced>>
sessions == <<work, jobOf, seen, known>>

Exists(r) == r.state # "ABSENT"

snapshot(r) == [c \in Audited |-> r[c]]

Init ==
  /\ row = Absent /\ history = <<>> /\ evidenced = {}
  /\ clock = 1 /\ started = [j \in Jobs |-> 0]
  /\ work = [s \in Sessions |-> "idle"]
  /\ jobOf = [s \in Sessions |-> None]
  /\ seen = [s \in Sessions |-> Absent]
  /\ known = [s \in Sessions |-> {}]
  /\ raced = FALSE

-----------------------------------------------------------------------------
(* Time and the jobs. *)

Tick ==
  /\ clock < MaxClock
  /\ clock' = clock + 1
  /\ UNCHANGED <<row, history, evidenced, started, sessions, raced>>

\* mark_scan_job_running, committed before the scanner runs.
StartJob(j) ==
  /\ started[j] = 0
  /\ started' = [started EXCEPT ![j] = clock]
  /\ UNCHANGED <<row, history, evidenced, clock, sessions, raced>>

-----------------------------------------------------------------------------
(* A session: it reads, then writes what it changed or gives up. *)

Idle(s) ==
  /\ work' = [work EXCEPT ![s] = "idle"]
  /\ jobOf' = [jobOf EXCEPT ![s] = None]
  /\ seen' = [seen EXCEPT ![s] = Absent]
  /\ known' = [known EXCEPT ![s] = {}]

Read(s, kind, j) ==
  /\ work[s] = "idle" /\ Len(history) < MaxEvents
  /\ work' = [work EXCEPT ![s] = kind]
  /\ jobOf' = [jobOf EXCEPT ![s] = j]
  /\ seen' = [seen EXCEPT ![s] = row]
  /\ known' = [known EXCEPT ![s] = evidenced]
  /\ UNCHANGED <<row, history, evidenced, clock, started, raced>>

ReadForTriage(s) == Exists(row) /\ Read(s, "triage", None)

ReadForScan(s, j) == (j \in Jobs => started[j] > 0) /\ Read(s, "scan", j)

\* A flush writes the columns whose value differs from the one read.
MergeWhole(old, new, now) == new
Merge(old, new, now) ==
  [c \in Columns |-> IF new[c] # old[c] THEN new[c] ELSE now[c]]

\* The session's result and its events are committed together.
Write(s, new, events) ==
  /\ row' = IF Exists(seen[s]) THEN Merge(seen[s], new, row) ELSE new
  /\ history' = history \o events
  /\ raced' = (raced \/ row # seen[s] \/ evidenced # known[s])
  /\ Idle(s)

Event(before, after, j) ==
  [before |-> snapshot(before), after |-> snapshot(after), job |-> j]

-----------------------------------------------------------------------------
(* Transitions. *)

validate_transition(previous, target, automatic) ==
  \/ target = previous
  \/ /\ target # "NEW"
     /\ target = "REGRESSED" => automatic /\ previous = "REMEDIATED"

\* _transition, once the target is valid.
Transition(r, target) ==
  IF target = r.state THEN r
  ELSE [state |-> target, status |-> LEGACY_STATUS[target],
        triage |-> IF target = "REGRESSED" THEN "reopened" ELSE r.triage,
        remediatedAt |-> IF target = "REMEDIATED" THEN clock ELSE r.remediatedAt,
        regressions |-> IF target = "REGRESSED" THEN r.regressions + 1 ELSE r.regressions,
        job |-> r.job]

Given(value, default) == IF value = Nothing THEN default ELSE value

Target(r, q) ==
  IF q.lifecycle # Nothing THEN q.lifecycle
  ELSE IF q.status # Nothing THEN FromLegacy[q.status] ELSE r.state

Conflicting(q) ==
  /\ q.lifecycle # Nothing /\ q.status # Nothing
  /\ LEGACY_STATUS[q.lifecycle] # q.status

\* update_finding_triage on the row read: a status given overrides the one
\* the transition set.
Triaged(r, q) ==
  LET moved == Transition(r, Target(r, q))
  IN  [state |-> moved.state,
       status |-> Given(q.status, moved.status), triage |-> Given(q.triage, moved.triage),
       remediatedAt |-> moved.remediatedAt, regressions |-> moved.regressions,
       job |-> moved.job]

EventsOfTransitions(r, after) == IF after.state # r.state THEN <<Event(r, after, None)>> ELSE <<>>
EventsOf(r, after) == IF snapshot(after) # snapshot(r) THEN <<Event(r, after, None)>> ELSE <<>>

\* update_triage, apply_decision (status and label alike) and reopen.
Decide(s, q) ==
  LET after == Triaged(seen[s], q)
  IN  /\ work[s] = "triage"
      /\ ~Conflicting(q)
      /\ validate_transition(seen[s].state, Target(seen[s], q), FALSE)
      /\ Write(s, after, EventsOf(seen[s], after))
      /\ UNCHANGED <<evidenced, clock, started>>

-----------------------------------------------------------------------------
(* Observations. *)

\* _regression_evidence_is_new.
EvidenceIsNew(r, o, j, kn) ==
  /\ j \notin Ingested
  /\ IF o.commit = None THEN ~o.history
     ELSE /\ o.added
          /\ CommitTime[o.commit] > r.remediatedAt
          /\ o.commit \notin kn

RegressesUndated(r, o, j, kn) ==
  /\ r.state = "REMEDIATED" /\ j \in Jobs /\ EvidenceIsNew(r, o, j, kn) /\ j # r.job
Regresses(r, o, j, kn) ==
  /\ r.state = "REMEDIATED" /\ r.remediatedAt > 0
  /\ j \in Jobs /\ started[j] > r.remediatedAt
  /\ EvidenceIsNew(r, o, j, kn)
  /\ j # r.job

\* Mutant: a new observation opens the finding again.
ObservedAnew(r, o, j, kn) ==
  [r EXCEPT !.status = "open", !.job = j]

Observed(r, o, j, kn) ==
  LET moved == IF Regresses(r, o, j, kn) THEN Transition(r, "REGRESSED") ELSE r
  IN  [state |-> moved.state, status |-> moved.status, triage |-> moved.triage,
       remediatedAt |-> moved.remediatedAt, regressions |-> moved.regressions,
       job |-> j]

Created(o, j) ==
  [state |-> "NEW", status |-> "open", triage |-> "new", remediatedAt |-> 0,
   regressions |-> 0, job |-> j]

EvidenceWith(o) == evidenced \union ({o.commit} \ {None})

\* _persist_matches inserts the first observation.
Create(s, o) ==
  LET new == Created(o, jobOf[s])
  IN  /\ work[s] = "scan" /\ ~Exists(seen[s]) /\ ~Exists(row)
      /\ Write(s, new, <<Event(Absent, new, jobOf[s])>>)
      /\ evidenced' = EvidenceWith(o)
      /\ UNCHANGED <<clock, started>>

\* Mutant: a regression is counted without a row in the trail.
ObserveUnrecorded(s, o) ==
  /\ work[s] = "scan" /\ Exists(seen[s])
  /\ Write(s, Observed(seen[s], o, jobOf[s], known[s]), <<>>)
  /\ evidenced' = EvidenceWith(o)
  /\ UNCHANGED <<clock, started>>

\* _persist_matches updates a finding observed before.
Observe(s, o) ==
  LET new == Observed(seen[s], o, jobOf[s], known[s])
      moved == Regresses(seen[s], o, jobOf[s], known[s])
  IN  /\ work[s] = "scan" /\ Exists(seen[s])
      /\ Write(s, new, IF moved THEN <<Event(seen[s], new, jobOf[s])>> ELSE <<>>)
      /\ evidenced' = EvidenceWith(o)
      /\ UNCHANGED <<clock, started>>

\* A request is refused, or a scan's transaction rolls back: a scanner
\* failed, or its INSERT met the fingerprint another session inserted.
Abort(s) ==
  /\ work[s] # "idle"
  /\ Idle(s)
  /\ UNCHANGED <<row, history, evidenced, clock, started, raced>>

Session(s) ==
  \/ ReadForTriage(s)
  \/ \E j \in Jobs \union {None} : ReadForScan(s, j)
  \/ \E q \in Requests : Decide(s, q)
  \/ \E o \in Observations : Create(s, o) \/ Observe(s, o)
  \/ Abort(s)

Next == Tick \/ (\E j \in Jobs : StartJob(j)) \/ (\E s \in Sessions : Session(s))

Spec == Init /\ [][Next]_vars
-----------------------------------------------------------------------------
(* Properties. *)

\* Types: the row, the sessions' copies and the trail hold values of their
\* columns, and the row's clock readings lie in the past.
TypeOK ==
  /\ row \in Finding /\ row.remediatedAt <= clock
  /\ \A s \in Sessions : seen[s] \in Finding /\ seen[s].remediatedAt <= clock
  /\ evidenced \subseteq Commits /\ known \in [Sessions -> SUBSET Commits]
  /\ clock \in 1 .. MaxClock
  /\ started \in [Jobs -> 0 .. clock]
  /\ work \in [Sessions -> {"idle", "triage", "scan"}]
  /\ jobOf \in [Sessions -> Jobs \union {None}]
  /\ raced \in BOOLEAN
  /\ Exists(row) <=> history # <<>>

\* The events that moved the finding into a state.
Into(i, state) == history[i].after.state = state /\ history[i].before.state # state

\* A regression refutes a remediation: each recorded regression carries a
\* job, not an import, that started after a remediation recorded before it
\* (the chronology of _create_finding), whatever other sessions wrote
\* meanwhile.
RegressionRefutesRemediation ==
  \A i \in 1 .. Len(history) : Into(i, "REGRESSED") =>
    /\ history[i].job \in Jobs \ Ingested
    /\ \E k \in 1 .. i - 1 :
         /\ Into(k, "REMEDIATED")
         /\ started[history[i].job] > history[k].after.remediatedAt

\* The trail explains the row: as long as no session overwrote a row that
\* changed after it was read, each event starts from the values the one
\* before left and the last one left the values stored now
\* (_record_history beside every change of an audited column).
HistoryExplainsRow ==
  ~raced /\ history # <<>> =>
    /\ history[Len(history)].after = snapshot(row)
    /\ \A i \in 2 .. Len(history) : history[i].before = history[i - 1].after

\* No finding that left NEW returns to it, although sessions write rows
\* they read long ago: only changed columns are written and no decision
\* changes the state to NEW (validate_transition).
NeverBackToNew ==
  [][Exists(row) /\ row.state # "NEW" => row'.state # "NEW"]_vars

\* A scan keeps the analysts' decision: what a scan session commits leaves
\* state, status and triage label alone, also those decided after it read
\* the row, unless it read a remediated row and regresses it.
ScanKeepsDecision ==
  [][\A s \in Sessions : work[s] = "scan" /\ work'[s] = "idle" /\ Exists(row) =>
       \/ <<row'.state, row'.status, row'.triage>> = <<row.state, row.status, row.triage>>
       \/ seen[s].state = "REMEDIATED" /\ row'.state = "REGRESSED"]_vars

\* The regressions the trail records.
Recorded == Cardinality({i \in 1 .. Len(history) : Into(i, "REGRESSED")})

\* The counter of regressions never claims one the trail does not show, and
\* misses none as long as no session overwrote a row that changed after it
\* was read: two sessions that read the same remediation each record a
\* regression and write the same count (_transition, _record_history).
RegressionsCounted ==
  /\ row.regressions <= Recorded
  /\ ~raced => row.regressions = Recorded
=============================================================================
