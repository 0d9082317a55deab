---------------------- MODULE FindingLifecycleProofs ----------------------
(***************************************************************************)
(* Proofs about FindingLifecycle: the types, that a regression refutes a   *)
(* remediation recorded before it, that no finding returns to NEW, that    *)
(* scans keep the analysts' decision and that the row never counts a       *)
(* regression the trail does not record, whatever sessions interleave; and *)
(* what holds as long as no session overwrites a row it did not read: the  *)
(* trail explains the row, and the row counts every recorded regression.   *)
(*                                                                         *)
(* The inductive invariant adds to the types that every remediation time   *)
(* in the row, or in a copy a session still holds, was recorded in the     *)
(* trail by an event that moved the finding to REMEDIATED.                 *)
(***************************************************************************)
EXTENDS FindingLifecycle, FiniteSetTheorems, TLAPS

Snapshot ==
  [state : LifecycleState \union {"ABSENT"}, status : FindingStatus,
   triage : TriageState, remediatedAt : Nat, regressions : Nat]

Trail == [before : Snapshot, after : Snapshot, job : Jobs \union {None}]

\* The types, without the clock readings.
Types ==
  /\ row \in Finding
  /\ history \in Seq(Trail)
  /\ evidenced \subseteq Commits
  /\ clock \in 1 .. MaxClock
  /\ started \in [Jobs -> 0 .. clock]
  /\ work \in [Sessions -> {"idle", "triage", "scan"}]
  /\ jobOf \in [Sessions -> Jobs \union {None}]
  /\ seen \in [Sessions -> Finding]
  /\ known \in [Sessions -> SUBSET Commits]
  /\ raced \in BOOLEAN

\* Remediation times lie in the past.
Past ==
  /\ row.remediatedAt <= clock
  /\ \A s \in Sessions : seen[s].remediatedAt <= clock

\* The row exists once the trail does, and before any copy of it.
Presence ==
  /\ Exists(row) <=> history # <<>>
  /\ \A s \in Sessions : Exists(seen[s]) => Exists(row)
  /\ \A s \in Sessions : work[s] = "triage" => Exists(seen[s])

\* The trail, given explicitly, records a remediation at the time.
RecordedIn(trail, time) ==
  \E k \in 1 .. Len(trail) :
    /\ trail[k].before.state # "REMEDIATED" /\ trail[k].after.state = "REMEDIATED"
    /\ trail[k].after.remediatedAt = time

Remediations ==
  /\ row.remediatedAt # 0 => RecordedIn(history, row.remediatedAt)
  /\ \A s \in Sessions : seen[s].remediatedAt # 0 => RecordedIn(history, seen[s].remediatedAt)

IInv == Types /\ Past /\ Presence /\ Remediations /\ RegressionRefutesRemediation

-----------------------------------------------------------------------------
(* What the transitions build. *)

\* The snapshot of a row is what the trail stores.
LEMMA SnapshotType == ASSUME NEW r \in Finding PROVE snapshot(r) \in Snapshot
  BY DEF Finding, snapshot, Audited, Snapshot

\* A transition yields a row of its target; only a remediation sets its time.
LEMMA TransitionType ==
  ASSUME Types, NEW r \in Finding, NEW target \in LifecycleState \union {r.state}
  PROVE  /\ Transition(r, target) \in Finding
         /\ Transition(r, target).state = target
         /\ Transition(r, target).remediatedAt # r.remediatedAt =>
              /\ target = "REMEDIATED" /\ r.state # "REMEDIATED"
              /\ Transition(r, target).remediatedAt = clock
         /\ target = r.state => Transition(r, target) = r
  BY FindingAssumption DEF Transition, Types, Finding, LEGACY_STATUS, LifecycleState, FindingStatus, TriageState

\* What a request asks for is a state of the life cycle.
LEMMA TargetType ==
  ASSUME NEW r \in Finding, NEW q \in Requests
  PROVE  Target(r, q) \in LifecycleState \union {r.state}
  BY FindingAssumption
     DEF Target, TriageRequests, FromLegacy, FindingStatus, LifecycleState, Nothing

\* A decision yields a row, and only one that remediates sets the time.
LEMMA TriagedType ==
  ASSUME Types, NEW r \in Finding, NEW q \in Requests
  PROVE  /\ Triaged(r, q) \in Finding
         /\ Triaged(r, q).state = Target(r, q)
         /\ Triaged(r, q).remediatedAt # r.remediatedAt =>
              /\ Target(r, q) = "REMEDIATED" /\ r.state # "REMEDIATED"
              /\ Triaged(r, q).remediatedAt = clock
  <1> DEFINE moved == Transition(r, Target(r, q))
  <1>1. /\ moved \in Finding /\ moved.state = Target(r, q)
        /\ moved.remediatedAt # r.remediatedAt =>
             Target(r, q) = "REMEDIATED" /\ r.state # "REMEDIATED" /\ moved.remediatedAt = clock
    BY TargetType, TransitionType
  <1>2. /\ Given(q.status, moved.status) \in FindingStatus
        /\ Given(q.triage, moved.triage) \in TriageState
    BY <1>1, FindingAssumption DEF Given, TriageRequests, Finding
  <1> QED BY <1>1, <1>2 DEF Triaged, Finding

\* An observation yields a row whose decision stays unless it regresses.
LEMMA ObservedType ==
  ASSUME Types, NEW r \in Finding, NEW o \in Observations, NEW j \in Jobs \union {None}, NEW kn
  PROVE  /\ Observed(r, o, j, kn) \in Finding
         /\ Observed(r, o, j, kn).remediatedAt = r.remediatedAt
         /\ ~Regresses(r, o, j, kn) =>
              /\ Observed(r, o, j, kn).state = r.state
              /\ Observed(r, o, j, kn).status = r.status
              /\ Observed(r, o, j, kn).triage = r.triage
         /\ Regresses(r, o, j, kn) => Observed(r, o, j, kn).state = "REGRESSED"
  <1> DEFINE moved == IF Regresses(r, o, j, kn) THEN Transition(r, "REGRESSED") ELSE r
  <1>1. /\ moved \in Finding /\ moved.remediatedAt = r.remediatedAt
        /\ Regresses(r, o, j, kn) => moved.state = "REGRESSED"
    BY TransitionType, "REGRESSED" \in LifecycleState DEF LifecycleState
  <1> QED BY <1>1 DEF Observed, Finding

\* The first observation yields a new row, never remediated.
LEMMA CreatedType ==
  ASSUME NEW o \in Observations, NEW j \in Jobs \union {None}
  PROVE  /\ Created(o, j) \in Finding
         /\ Created(o, j).state = "NEW" /\ Created(o, j).remediatedAt = 0
  BY DEF Created, Finding, LifecycleState, FindingStatus, TriageState

\* The placeholder of a missing row is a row.
LEMMA AbsentType == Absent \in Finding
  BY DEF Absent, Finding, LifecycleState, FindingStatus, TriageState

\* An event stores the states and times of the rows it is made of.
LEMMA EventType ==
  ASSUME NEW a \in Finding, NEW b \in Finding, NEW j \in Jobs \union {None}
  PROVE  /\ Event(a, b, j) \in Trail /\ Event(a, b, j).job = j
         /\ Event(a, b, j).before.state = a.state
         /\ Event(a, b, j).after.state = b.state
         /\ Event(a, b, j).after.remediatedAt = b.remediatedAt
  <1>1. snapshot(a) \in Snapshot /\ snapshot(b) \in Snapshot
    BY SnapshotType
  <1>2. /\ snapshot(a).state = a.state /\ snapshot(b).state = b.state
        /\ snapshot(b).remediatedAt = b.remediatedAt
    BY DEF snapshot, Audited
  <1> QED BY <1>1, <1>2 DEF Event, Trail

\* A merged row takes each column from the session or from the committed row.
LEMMA MergeType ==
  ASSUME NEW old \in Finding, NEW new \in Finding, NEW now \in Finding
  PROVE  /\ Merge(old, new, now) \in Finding
         /\ Merge(old, new, now).state = IF new.state # old.state THEN new.state ELSE now.state
         /\ Merge(old, new, now).status = IF new.status # old.status THEN new.status ELSE now.status
         /\ Merge(old, new, now).triage = IF new.triage # old.triage THEN new.triage ELSE now.triage
         /\ Merge(old, new, now).remediatedAt =
              IF new.remediatedAt # old.remediatedAt THEN new.remediatedAt ELSE now.remediatedAt
  BY DEF Merge, Columns, Audited, Finding

-----------------------------------------------------------------------------
(* What a committed session leaves behind. *)

\* What a trail records it still records when it is longer.
LEMMA TrailGrows ==
  ASSUME NEW trail \in Seq(Trail), NEW more \in Seq(Trail), NEW time
  PROVE  RecordedIn(trail, time) => RecordedIn(trail \o more, time)
  <1> SUFFICES ASSUME RecordedIn(trail, time) PROVE RecordedIn(trail \o more, time)
    OBVIOUS
  <1>1. PICK k \in 1 .. Len(trail) :
          /\ trail[k].before.state # "REMEDIATED" /\ trail[k].after.state = "REMEDIATED"
          /\ trail[k].after.remediatedAt = time
    BY DEF RecordedIn
  <1>2. k \in 1 .. Len(trail \o more) /\ (trail \o more)[k] = trail[k]
    OBVIOUS
  <1> QED BY <1>1, <1>2 DEF RecordedIn

\* An event that remediates is recorded once it is appended.
LEMMA LastIsRecorded ==
  ASSUME NEW trail \in Seq(Trail), NEW e \in Trail,
         e.before.state # "REMEDIATED", e.after.state = "REMEDIATED"
  PROVE  RecordedIn(trail \o <<e>>, e.after.remediatedAt)
  <1>1. /\ Len(trail) + 1 \in 1 .. Len(trail \o <<e>>)
        /\ (trail \o <<e>>)[Len(trail) + 1] = e
    OBVIOUS
  <1> QED BY <1>1 DEF RecordedIn

\* One more event keeps the earlier ones; the regression it may record needs
\* a job that started after a remediation recorded already.
LEMMA OneMoreEvent ==
  ASSUME history \in Seq(Trail), NEW e \in Trail,
         RegressionRefutesRemediation, history' = history \o <<e>>, started' = started,
         e.after.state = "REGRESSED" /\ e.before.state # "REGRESSED" =>
           /\ e.job \in Jobs \ Ingested
           /\ \E time \in Nat : RecordedIn(history, time) /\ started[e.job] > time
  PROVE  RegressionRefutesRemediation'
  <1>1. Len(history') = Len(history) + 1 /\ history'[Len(history) + 1] = e
    OBVIOUS
  <1>2. \A k \in 1 .. Len(history) : history'[k] = history[k]
    OBVIOUS
  <1>3. SUFFICES ASSUME NEW i \in 1 .. Len(history) + 1,
                        history'[i].after.state = "REGRESSED", history'[i].before.state # "REGRESSED"
                 PROVE  /\ history'[i].job \in Jobs \ Ingested
                        /\ \E k \in 1 .. i - 1 :
                             /\ history'[k].after.state = "REMEDIATED"
                             /\ history'[k].before.state # "REMEDIATED"
                             /\ started[history'[i].job] > history'[k].after.remediatedAt
    BY <1>1 DEF RegressionRefutesRemediation, Into
  <1>4. CASE i = Len(history) + 1
    BY <1>1, <1>2, <1>3, <1>4 DEF RecordedIn
  <1>5. CASE i \in 1 .. Len(history)
    BY <1>2, <1>3, <1>5 DEF RegressionRefutesRemediation, Into
  <1> QED BY <1>4, <1>5

\* What the invariants need of a committed session: the row merges what the
\* session changed, and at most one event, of the row read, is appended.
LEMMA WriteKeeps ==
  ASSUME IInv, NEW s \in Sessions, NEW new \in Finding, NEW events \in Seq(Trail),
         Write(s, new, events), UNCHANGED <<clock, started>>, evidenced' \subseteq Commits,
         Exists(new), new.remediatedAt <= clock,
         ~Exists(seen[s]) => events # <<>> \/ Exists(row),
         new.remediatedAt # 0 => RecordedIn(history \o events, new.remediatedAt)
  PROVE  Types' /\ Past' /\ Presence' /\ Remediations'
  <1>1. row' \in Finding /\ Exists(row') /\ row'.remediatedAt \in {new.remediatedAt, row.remediatedAt}
    <2>1. CASE Exists(seen[s])
      BY <2>1, MergeType DEF IInv, Types, Presence, Exists, Write
    <2>2. CASE ~Exists(seen[s])
      BY <2>2 DEF Write
    <2> QED BY <2>1, <2>2
  <1>2. history' \in Seq(Trail) /\ history' # <<>>
    <2>1. history # <<>> \/ events # <<>>
      BY DEF IInv, Presence
    <2> QED BY <2>1 DEF IInv, Types, Write
  <1>3. /\ work' = [work EXCEPT ![s] = "idle"] /\ jobOf' = [jobOf EXCEPT ![s] = None]
        /\ seen' = [seen EXCEPT ![s] = Absent] /\ known' = [known EXCEPT ![s] = {}]
    BY DEF Write, Idle
  <1>4. Types'
    BY <1>1, <1>2, <1>3, AbsentType DEF IInv, Types, Write
  <1>5. Past'
    BY <1>1, <1>3, AbsentType DEF IInv, Types, Past, Absent
  <1>6. Presence'
    BY <1>1, <1>2, <1>3 DEF IInv, Types, Presence, Exists, Absent
  <1>7. Remediations'
    <2>1. \A time : RecordedIn(history, time) => RecordedIn(history', time)
      BY TrailGrows DEF IInv, Types, Write
    <2>2. row'.remediatedAt # 0 => RecordedIn(history', row'.remediatedAt)
      BY <1>1, <2>1 DEF IInv, Remediations, Write
    <2>3. ASSUME NEW t \in Sessions, seen'[t].remediatedAt # 0
          PROVE  RecordedIn(history', seen'[t].remediatedAt)
      BY <1>3, <2>1, <2>3 DEF IInv, Types, Remediations, Absent
    <2> QED BY <2>2, <2>3 DEF Remediations
  <1> QED BY <1>4, <1>5, <1>6, <1>7

\* A decision commits.
LEMMA DecideKeeps ==
  ASSUME IInv, NEW s \in Sessions, NEW q \in Requests, Decide(s, q)
  PROVE  IInv'
  <1> DEFINE old == seen[s]
             new == Triaged(old, q)
             e == Event(old, new, None)
  <1>1. /\ old \in Finding /\ Exists(old) /\ new \in Finding /\ new.state = Target(old, q)
        /\ new.remediatedAt # old.remediatedAt =>
             new.state = "REMEDIATED" /\ old.state # "REMEDIATED" /\ new.remediatedAt = clock
    BY TriagedType DEF IInv, Types, Presence, Decide
  <1>2. /\ new.state # "REGRESSED" \/ old.state = "REGRESSED"
        /\ Exists(new)
    BY <1>1, TargetType DEF Decide, validate_transition, Exists, LifecycleState
  <1>3. /\ e \in Trail /\ e.before.state = old.state /\ e.after.state = new.state
        /\ e.after.remediatedAt = new.remediatedAt
    BY <1>1, EventType
  <1>4. new.remediatedAt # 0 =>
          RecordedIn(history \o EventsOf(old, new), new.remediatedAt)
    <2>1. CASE new.remediatedAt = old.remediatedAt
      <3>1. EventsOf(old, new) \in Seq(Trail)
        BY <1>3 DEF EventsOf
      <3> QED BY <2>1, <3>1, TrailGrows DEF IInv, Types, Remediations
    <2>2. CASE new.remediatedAt # old.remediatedAt
      <3>1. EventsOf(old, new) = <<e>>
        BY <2>2 DEF EventsOf, snapshot, Audited
      <3> QED BY <1>1, <1>3, <2>2, <3>1, LastIsRecorded DEF IInv, Types
    <2> QED BY <2>1, <2>2
  <1>5. EventsOf(old, new) \in Seq(Trail)
    BY <1>3 DEF EventsOf
  <1>6. Types' /\ Past' /\ Presence' /\ Remediations'
    <2>1. new.remediatedAt <= clock
      BY <1>1 DEF IInv, Types, Past, Finding
    <2> QED BY <1>1, <1>2, <1>4, <1>5, <2>1, WriteKeeps DEF IInv, Types, Decide
  <1>7. RegressionRefutesRemediation'
    <2>1. CASE EventsOf(old, new) = <<e>>
      BY <1>2, <1>3, <2>1, OneMoreEvent DEF IInv, Types, Decide, Write
    <2>2. CASE EventsOf(old, new) = <<>>
      <3>1. history' = history /\ started' = started
        BY <2>2 DEF IInv, Types, Decide, Write
      <3> QED BY <3>1 DEF IInv, RegressionRefutesRemediation, Into
    <2> QED BY <2>1, <2>2 DEF EventsOf
  <1> QED BY <1>6, <1>7 DEF IInv

\* The first observation commits.
LEMMA CreateKeeps ==
  ASSUME IInv, NEW s \in Sessions, NEW o \in Observations, Create(s, o)
  PROVE  IInv'
  <1> DEFINE new == Created(o, jobOf[s])
             e == Event(Absent, new, jobOf[s])
  <1>1. new \in Finding /\ new.state = "NEW" /\ new.remediatedAt = 0
    BY CreatedType DEF IInv, Types
  <1>2. e \in Trail /\ e.after.state = "NEW"
    BY <1>1, EventType, AbsentType DEF IInv, Types
  <1>3. evidenced' \subseteq Commits
    BY FindingAssumption DEF IInv, Types, Create, EvidenceWith, ScanMatch
  <1>4. Types' /\ Past' /\ Presence' /\ Remediations'
    <2>1. <<e>> \in Seq(Trail) /\ <<e>> # <<>> /\ Write(s, new, <<e>>)
      BY <1>2 DEF Create
    <2>2. Exists(new) /\ new.remediatedAt <= clock
      BY <1>1 DEF IInv, Types, Exists
    <2> QED BY <1>1, <1>3, <2>1, <2>2, WriteKeeps DEF Create
  <1>5. RegressionRefutesRemediation'
    BY <1>2, OneMoreEvent DEF IInv, Types, Create, Write
  <1> QED BY <1>4, <1>5 DEF IInv

\* A later observation commits.
LEMMA ObserveKeeps ==
  ASSUME IInv, NEW s \in Sessions, NEW o \in Observations, Observe(s, o)
  PROVE  IInv'
  <1> DEFINE old == seen[s]
             new == Observed(old, o, jobOf[s], known[s])
             e == Event(old, new, jobOf[s])
             moved == Regresses(old, o, jobOf[s], known[s])
             events == IF moved THEN <<e>> ELSE <<>>
  <1>1. /\ old \in Finding /\ Exists(old) /\ new \in Finding
        /\ new.remediatedAt = old.remediatedAt /\ Exists(new)
    <2>1. old \in Finding /\ Exists(old) /\ jobOf[s] \in Jobs \union {None}
      BY DEF IInv, Types, Observe
    <2>2. new.state = old.state \/ new.state = "REGRESSED"
      BY <2>1, ObservedType DEF IInv
    <2> QED BY <2>1, <2>2, ObservedType DEF IInv, Exists
  <1>2. e \in Trail /\ e.job = jobOf[s]
    BY <1>1, EventType DEF IInv, Types
  <1>3. evidenced' \subseteq Commits
    BY FindingAssumption DEF IInv, Types, Observe, EvidenceWith, ScanMatch
  <1>4. events \in Seq(Trail)
    BY <1>2
  <1>5. new.remediatedAt # 0 => RecordedIn(history \o events, new.remediatedAt)
    BY <1>1, <1>4, TrailGrows DEF IInv, Types, Remediations
  <1>6. Types' /\ Past' /\ Presence' /\ Remediations'
    BY <1>1, <1>3, <1>4, <1>5, WriteKeeps DEF IInv, Past, Observe
  <1>7. RegressionRefutesRemediation'
    <2>1. CASE moved
      <3>1. /\ jobOf[s] \in Jobs \ Ingested /\ started[jobOf[s]] > old.remediatedAt
            /\ old.remediatedAt \in Nat /\ RecordedIn(history, old.remediatedAt)
        BY <1>1, <2>1 DEF IInv, Remediations, Regresses, EvidenceIsNew, Finding
      <3>2. history' = history \o <<e>> /\ started' = started
        BY <2>1 DEF Observe, Write
      <3> QED BY <1>2, <3>1, <3>2, OneMoreEvent DEF IInv, Types
    <2>2. CASE ~moved
      <3>1. history' = history /\ started' = started
        BY <2>2 DEF IInv, Types, Observe, Write
      <3> QED BY <3>1 DEF IInv, RegressionRefutesRemediation, Into
    <2> QED BY <2>1, <2>2
  <1> QED BY <1>6, <1>7 DEF IInv

-----------------------------------------------------------------------------
(* The invariant. *)

\* The invariant holds before anything is observed.
LEMMA Initially == Init => IInv
  <1> SUFFICES ASSUME Init PROVE IInv
    OBVIOUS
  <1>1. Types
    <2>1. clock \in 1 .. MaxClock /\ history \in Seq(Trail)
      BY FindingAssumption DEF Init
    <2>2. /\ row \in Finding /\ seen \in [Sessions -> Finding]
          /\ started \in [Jobs -> 0 .. clock]
          /\ work \in [Sessions -> {"idle", "triage", "scan"}]
          /\ jobOf \in [Sessions -> Jobs \union {None}]
          /\ known \in [Sessions -> SUBSET Commits]
      BY <2>1, AbsentType DEF Init
    <2> QED BY <2>1, <2>2 DEF Init, Types
  <1>2. Past /\ Presence /\ Remediations /\ RegressionRefutesRemediation
    BY DEF Init, Past, Presence, Remediations, RegressionRefutesRemediation, Absent, Exists
  <1> QED BY <1>1, <1>2 DEF IInv

\* The clock moves on.
LEMMA TickKeeps == IInv /\ Tick => IInv'
  <1> SUFFICES ASSUME IInv, Tick PROVE IInv'
    OBVIOUS
  <1>1. Types'
    BY FindingAssumption DEF IInv, Types, Tick, sessions
  <1>2. Past'
    BY DEF IInv, Types, Past, Tick, sessions, Finding
  <1>3. Presence' /\ Remediations' /\ RegressionRefutesRemediation'
    BY DEF IInv, Tick, sessions, Presence, Exists, Remediations, RecordedIn,
           RegressionRefutesRemediation, Into
  <1> QED BY <1>1, <1>2, <1>3 DEF IInv

\* A job starts: no recorded regression is its own, for that needs a start
\* after a remediation.
LEMMA StartJobKeeps == ASSUME IInv, NEW j \in Jobs, StartJob(j) PROVE IInv'
  <1>1. Types'
    BY DEF IInv, Types, StartJob, sessions
  <1>2. Past' /\ Presence' /\ Remediations'
    BY DEF IInv, StartJob, sessions, Past, Presence, Exists, Remediations, RecordedIn
  <1>3. RegressionRefutesRemediation'
    <2>1. ASSUME NEW i \in 1 .. Len(history), Into(i, "REGRESSED")
          PROVE  /\ history[i].job \in Jobs \ Ingested
                 /\ \E k \in 1 .. i - 1 :
                      /\ Into(k, "REMEDIATED")
                      /\ started'[history[i].job] > history[k].after.remediatedAt
      <3>1. history[i].job \in Jobs \ Ingested
        BY <2>1 DEF IInv, RegressionRefutesRemediation
      <3>2. PICK k \in 1 .. i - 1 :
              Into(k, "REMEDIATED") /\ started[history[i].job] > history[k].after.remediatedAt
        BY <2>1 DEF IInv, RegressionRefutesRemediation
      <3>3. history[k].after.remediatedAt \in Nat
        <4>1. Len(history) \in Nat /\ k \in 1 .. Len(history) /\ history \in Seq(Trail)
          BY DEF IInv, Types
        <4>2. history[k] \in Trail
          BY <4>1
        <4> QED BY <4>2 DEF Trail, Snapshot
      <3>4. history[i].job # j
        BY <3>2, <3>3 DEF StartJob
      <3> QED BY <3>1, <3>2, <3>4 DEF IInv, Types, StartJob
    <2> QED BY <2>1 DEF StartJob, RegressionRefutesRemediation, Into
  <1> QED BY <1>1, <1>2, <1>3 DEF IInv

\* A session reads the row.
LEMMA ReadKeeps ==
  ASSUME IInv, NEW s \in Sessions, NEW kind \in {"triage", "scan"}, NEW j \in Jobs \union {None},
         Read(s, kind, j), kind = "triage" => Exists(row)
  PROVE  IInv'
  <1>1. Types'
    BY DEF IInv, Types, Read
  <1>2. Past' /\ Presence'
    BY DEF IInv, Types, Read, Past, Presence, Exists
  <1>3. Remediations'
    BY DEF IInv, Types, Read, Remediations, RecordedIn
  <1>4. RegressionRefutesRemediation'
    BY DEF IInv, Read, RegressionRefutesRemediation, Into
  <1> QED BY <1>1, <1>2, <1>3, <1>4 DEF IInv

\* A session gives up.
LEMMA AbortKeeps == ASSUME IInv, NEW s \in Sessions, Abort(s) PROVE IInv'
  <1>1. Types'
    BY AbsentType DEF IInv, Types, Abort, Idle
  <1>2. Past' /\ Presence'
    BY DEF IInv, Types, Abort, Idle, Past, Presence, Exists, Absent
  <1>3. Remediations'
    BY DEF IInv, Types, Abort, Idle, Remediations, RecordedIn, Absent
  <1>4. RegressionRefutesRemediation'
    BY DEF IInv, Abort, RegressionRefutesRemediation, Into
  <1> QED BY <1>1, <1>2, <1>3, <1>4 DEF IInv

\* A step that changes nothing keeps the invariant.
LEMMA Stutters == IInv /\ UNCHANGED vars => IInv'
  BY DEF IInv, vars, Types, Past, Presence, Exists, Remediations, RecordedIn,
         RegressionRefutesRemediation, Into

\* Every step of a session, a job or the clock keeps the invariant.
LEMMA EveryStep == IInv /\ [Next]_vars => IInv'
  <1> SUFFICES ASSUME IInv, [Next]_vars PROVE IInv'
    OBVIOUS
  <1>1. CASE Tick
    BY <1>1, TickKeeps
  <1>2. ASSUME NEW j \in Jobs, StartJob(j) PROVE IInv'
    BY <1>2, StartJobKeeps
  <1>3. ASSUME NEW s \in Sessions, Session(s) PROVE IInv'
    <2>1. CASE ReadForTriage(s)
      BY <2>1, ReadKeeps DEF ReadForTriage
    <2>2. ASSUME NEW j \in Jobs \union {None}, ReadForScan(s, j) PROVE IInv'
      BY <2>2, ReadKeeps DEF ReadForScan
    <2>3. ASSUME NEW q \in Requests, Decide(s, q) PROVE IInv'
      BY <2>3, DecideKeeps
    <2>4. ASSUME NEW o \in Observations, Create(s, o) PROVE IInv'
      BY <2>4, CreateKeeps
    <2>5. ASSUME NEW o \in Observations, Observe(s, o) PROVE IInv'
      BY <2>5, ObserveKeeps
    <2>6. CASE Abort(s)
      BY <2>6, AbortKeeps
    <2> QED BY <1>3, <2>1, <2>2, <2>3, <2>4, <2>5, <2>6 DEF Session
  <1>4. CASE UNCHANGED vars
    BY <1>4, Stutters
  <1> QED BY <1>1, <1>2, <1>3, <1>4 DEF Next

\* The inductive invariant holds in every reachable state of every instance.
THEOREM Invariance == Spec => []IInv
  BY Initially, EveryStep, PTL DEF Spec

\* Type correctness, with the clock readings of every copy of the row in the
\* past (repositories.py, the columns of findings).
THEOREM TypeCorrectness == Spec => []TypeOK
  <1>1. IInv => TypeOK
    BY DEF IInv, Types, Past, Presence, TypeOK
  <1> QED BY Invariance, <1>1, PTL

\* Every regression in the trail refutes a remediation recorded before it,
\* by a job that started later and is no import (_create_finding), for any
\* number of sessions, jobs, decisions and observations.
THEOREM RegressionsAreEarned == Spec => []RegressionRefutesRemediation
  <1>1. IInv => RegressionRefutesRemediation
    BY DEF IInv
  <1> QED BY Invariance, <1>1, PTL

-----------------------------------------------------------------------------
(* What no step does. *)

\* No step takes a finding back to NEW (validate_transition and the merge of
\* changed columns).
THEOREM NewIsLeftForGood == Spec => NeverBackToNew
  <1> DEFINE Left == Exists(row) /\ row.state # "NEW" => row'.state # "NEW"
  <1>1. IInv /\ [Next]_vars => [Left]_vars
    <2> SUFFICES ASSUME IInv, Next, Exists(row), row.state # "NEW" PROVE row'.state # "NEW"
      OBVIOUS
    <2>1. CASE row' = row
      BY <2>1
    <2>2. ASSUME NEW s \in Sessions, NEW q \in Requests, Decide(s, q) PROVE row'.state # "NEW"
      <3> DEFINE old == seen[s]
                 new == Triaged(old, q)
      <3>1. old \in Finding /\ new \in Finding /\ new.state = Target(old, q) /\ Exists(old)
        BY <2>2, TriagedType DEF IInv, Types, Presence, Decide
      <3>2. new.state = old.state \/ new.state # "NEW"
        BY <2>2, <3>1 DEF Decide, validate_transition
      <3>3. row' = Merge(old, new, row) /\ row \in Finding
        BY <2>2, <3>1 DEF IInv, Types, Decide, Write
      <3> QED BY <3>1, <3>2, <3>3, MergeType
    <2>3. ASSUME NEW s \in Sessions, NEW o \in Observations, Observe(s, o)
          PROVE  row'.state # "NEW"
      <3> DEFINE old == seen[s]
                 new == Observed(old, o, jobOf[s], known[s])
      <3>1. old \in Finding /\ Exists(old) /\ jobOf[s] \in Jobs \union {None} /\ row \in Finding
        BY <2>3 DEF IInv, Types, Observe
      <3>2. new \in Finding /\ (new.state = old.state \/ new.state = "REGRESSED")
        BY <3>1, ObservedType DEF IInv
      <3>3. row' = Merge(old, new, row)
        BY <2>3 DEF Observe, Write
      <3> QED BY <3>1, <3>2, <3>3, MergeType
    <2>4. ASSUME NEW s \in Sessions, NEW o \in Observations PROVE ~Create(s, o)
      BY DEF Create
    <2>5. ASSUME NEW s \in Sessions, Session(s) PROVE row'.state # "NEW"
      <3>1. CASE ReadForTriage(s) \/ (\E j \in Jobs \union {None} : ReadForScan(s, j)) \/ Abort(s)
        BY <2>1, <3>1 DEF ReadForTriage, ReadForScan, Read, Abort
      <3> QED BY <2>2, <2>3, <2>4, <2>5, <3>1 DEF Session
    <2>6. CASE Tick \/ \E j \in Jobs : StartJob(j)
      BY <2>1, <2>6 DEF Tick, StartJob
    <2> QED BY <2>5, <2>6 DEF Next
  <1> QED BY <1>1, Invariance, PTL DEF Spec, NeverBackToNew

\* What a scan commits leaves the analysts' decision alone, or regresses a
\* remediated row (_create_finding).
THEOREM DecisionsSurviveScans == Spec => ScanKeepsDecision
  <1> DEFINE Kept(s) ==
               work[s] = "scan" /\ work'[s] = "idle" /\ Exists(row) =>
                 \/ <<row'.state, row'.status, row'.triage>> = <<row.state, row.status, row.triage>>
                 \/ seen[s].state = "REMEDIATED" /\ row'.state = "REGRESSED"
  <1>1. IInv /\ [Next]_vars => [\A s \in Sessions : Kept(s)]_vars
    <2> SUFFICES ASSUME IInv, Next, NEW s \in Sessions, work[s] = "scan", work'[s] = "idle", Exists(row)
                 PROVE  Kept(s)
      OBVIOUS
    <2>1. CASE row' = row
      BY <2>1
    <2>2. ASSUME NEW t \in Sessions, NEW o \in Observations, Observe(t, o) PROVE Kept(s)
      <3> DEFINE old == seen[s]
                 new == Observed(old, o, jobOf[s], known[s])
                 moved == Regresses(old, o, jobOf[s], known[s])
      <3>1. t = s
        BY <2>2 DEF IInv, Types, Observe, Write, Idle
      <3>2. old \in Finding /\ Exists(old) /\ jobOf[s] \in Jobs \union {None} /\ row \in Finding
        BY <2>2, <3>1 DEF IInv, Types, Observe
      <3>3. row' = Merge(old, new, row)
        BY <2>2, <3>1 DEF Observe, Write
      <3>4. CASE moved
        <4>1. old.state = "REMEDIATED" /\ new \in Finding /\ new.state = "REGRESSED"
          BY <3>2, <3>4, ObservedType DEF IInv, Regresses
        <4> QED BY <3>2, <3>3, <4>1, MergeType
      <3>5. CASE ~moved
        <4>1. /\ new \in Finding
              /\ new.state = old.state /\ new.status = old.status /\ new.triage = old.triage
          BY <3>2, <3>5, ObservedType DEF IInv
        <4> QED BY <3>2, <3>3, <4>1, MergeType
      <3> QED BY <3>4, <3>5
    <2>3. ASSUME NEW t \in Sessions, NEW q \in Requests PROVE ~Decide(t, q)
      BY DEF IInv, Types, Decide, Write, Idle
    <2>4. ASSUME NEW t \in Sessions, NEW o \in Observations PROVE ~Create(t, o)
      BY DEF Create
    <2>5. ASSUME NEW t \in Sessions, Session(t) PROVE Kept(s)
      <3>1. CASE ReadForTriage(t) \/ (\E j \in Jobs \union {None} : ReadForScan(t, j)) \/ Abort(t)
        BY <2>1, <3>1 DEF ReadForTriage, ReadForScan, Read, Abort
      <3> QED BY <2>2, <2>3, <2>4, <2>5, <3>1 DEF Session
    <2>6. CASE Tick \/ \E j \in Jobs : StartJob(j)
      BY <2>1, <2>6 DEF Tick, StartJob
    <2> QED BY <2>5, <2>6 DEF Next
  <1> QED BY <1>1, Invariance, PTL DEF Spec, ScanKeepsDecision

-----------------------------------------------------------------------------
(* Sessions that overwrite nothing.                                        *)

\* A session that meets the row as it read it leaves every column as it wants it.
LEMMA UnracedWrite ==
  ASSUME IInv, NEW s \in Sessions, NEW new \in Finding, NEW events, Write(s, new, events), ~raced'
  PROVE  /\ row = seen[s] /\ evidenced = known[s] /\ ~raced /\ history' = history \o events
         /\ row'.regressions = new.regressions
         /\ snapshot(row') = snapshot(new)
  <1>1. row = seen[s] /\ evidenced = known[s] /\ ~raced /\ history' = history \o events
    BY DEF Write
  <1>2. row' = IF Exists(row) THEN Merge(row, new, row) ELSE new
    BY <1>1 DEF Write
  <1>3. \A c \in Columns : row'[c] = new[c]
    BY <1>2 DEF Merge
  <1>4. snapshot(row') = snapshot(new)
    BY <1>3 DEF snapshot, Columns
  <1>5. row'.regressions = new.regressions
    BY <1>3 DEF Columns, Audited
  <1> QED BY <1>1, <1>4, <1>5

\* The events of the trail follow from each other and end at the row r.
Explains(trail, r) ==
  trail # <<>> =>
    /\ trail[Len(trail)].after = snapshot(r)
    /\ \A i \in 2 .. Len(trail) : trail[i].before = trail[i - 1].after

\* An event that starts at the row the trail ends at continues the trail.
LEMMA OneMoreExplains ==
  ASSUME NEW trail \in Seq(Trail), NEW e \in Trail, NEW old, NEW new,
         Explains(trail, old), trail # <<>> => e.before = snapshot(old), e.after = snapshot(new)
  PROVE  Explains(trail \o <<e>>, new)
  <1> DEFINE more == trail \o <<e>>
  <1>1. /\ Len(more) = Len(trail) + 1 /\ more[Len(trail) + 1] = e
        /\ \A k \in 1 .. Len(trail) : more[k] = trail[k]
    OBVIOUS
  <1> HIDE DEF more
  <1>2. ASSUME NEW i \in 2 .. Len(more) PROVE more[i].before = more[i - 1].after
    <2>1. CASE i = Len(trail) + 1
      <3>1. trail # <<>> /\ Len(trail) \in 1 .. Len(trail) /\ more[i - 1] = trail[Len(trail)]
        BY <1>1, <2>1
      <3> QED BY <1>1, <2>1, <3>1 DEF Explains
    <2>2. CASE i # Len(trail) + 1
      <3>1. i \in 2 .. Len(trail) /\ i \in 1 .. Len(trail) /\ i - 1 \in 1 .. Len(trail) /\ trail # <<>>
        BY <1>1, <2>2
      <3> QED BY <1>1, <3>1 DEF Explains
    <2> QED BY <2>1, <2>2
  <1>3. more[Len(more)].after = snapshot(new)
    BY <1>1
  <1> QED BY <1>2, <1>3 DEF Explains, more

\* The row before its first observation has the columns' defaults.
AbsentRow == ~Exists(row) => row = Absent

\* A session commits: either its events lead from the row it read to the row it
\* wants, or the audited columns stay.
LEMMA WriteExplains ==
  ASSUME IInv, HistoryExplainsRow, NEW s \in Sessions, NEW new \in Finding, NEW j \in Jobs \union {None},
         NEW old \in Finding, NEW events \in {<<>>, <<Event(old, new, j)>>}, Write(s, new, events),
         Exists(row) => old = seen[s], Exists(row) \/ events # <<>>,
         events = <<>> => snapshot(new) = snapshot(old)
  PROVE  HistoryExplainsRow'
  <1> SUFFICES ASSUME ~raced' PROVE Explains(history, row)'
    BY DEF HistoryExplainsRow, Explains
  <1>1. /\ row = seen[s] /\ ~raced /\ history' = history \o events
        /\ snapshot(row') = snapshot(new)
    BY UnracedWrite
  <1>2. Explains(history, row) /\ history \in Seq(Trail) /\ (history # <<>> => old = row)
    BY <1>1 DEF HistoryExplainsRow, Explains, IInv, Types, Presence
  <1>3. CASE events = <<>>
    <2>1. history' = history /\ snapshot(row') = snapshot(row)
      BY <1>1, <1>2, <1>3
    <2> QED BY <1>2, <2>1 DEF Explains
  <1>4. CASE events = <<Event(old, new, j)>>
    <2>1. /\ Event(old, new, j) \in Trail
          /\ Event(old, new, j).before = snapshot(old) /\ Event(old, new, j).after = snapshot(new)
      BY EventType DEF Event
    <2>2. Explains(history \o events, row')
      BY <1>1, <1>2, <1>4, <2>1, OneMoreExplains
    <2> QED BY <1>1, <2>2 DEF Explains
  <1> QED BY <1>3, <1>4

\* A commit makes the row exist.
LEMMA WriteMakesRow ==
  ASSUME IInv, NEW s \in Sessions, NEW new \in Finding, NEW events, Write(s, new, events), Exists(new)
  PROVE  Exists(row')
  <1>1. CASE Exists(seen[s])
    BY <1>1, MergeType DEF IInv, Types, Presence, Exists, Write
  <1>2. CASE ~Exists(seen[s])
    BY <1>2 DEF Write
  <1> QED BY <1>1, <1>2

\* What a scan does to a row: nothing to the audited columns unless it regresses.
LEMMA ObservedColumns ==
  ASSUME Types, NEW r \in Finding, NEW o \in Observations, NEW j \in Jobs \union {None}, NEW kn
  PROVE  /\ ~Regresses(r, o, j, kn) =>
              /\ snapshot(Observed(r, o, j, kn)) = snapshot(r)
              /\ Observed(r, o, j, kn).regressions = r.regressions
         /\ Regresses(r, o, j, kn) =>
              /\ r.state = "REMEDIATED" /\ Observed(r, o, j, kn).state = "REGRESSED"
              /\ Observed(r, o, j, kn).regressions = r.regressions + 1
  <1>1. ASSUME ~Regresses(r, o, j, kn)
        PROVE  \A c \in Audited : Observed(r, o, j, kn)[c] = r[c]
    BY <1>1 DEF Observed, Audited
  <1>2. ~Regresses(r, o, j, kn) => snapshot(Observed(r, o, j, kn)) = snapshot(r)
    BY <1>1 DEF snapshot
  <1>3. ~Regresses(r, o, j, kn) => Observed(r, o, j, kn).regressions = r.regressions
    BY <1>1 DEF Audited
  <1>4. ASSUME Regresses(r, o, j, kn)
        PROVE  /\ r.state = "REMEDIATED" /\ Observed(r, o, j, kn).state = "REGRESSED"
               /\ Observed(r, o, j, kn).regressions = r.regressions + 1
    BY <1>4 DEF Observed, Regresses, Transition
  <1> QED BY <1>2, <1>3, <1>4

\* Sessions that read or give up, time and jobs leave the row and the trail alone.
LEMMA OtherSteps ==
  ASSUME [Next]_vars
  PROVE  \/ UNCHANGED <<row, history, raced>>
         \/ \E s \in Sessions : \/ \E q \in Requests : Decide(s, q)
                                \/ \E o \in Observations : Create(s, o) \/ Observe(s, o)
  <1>1. CASE Tick \/ (\E j \in Jobs : StartJob(j)) \/ UNCHANGED vars
    BY <1>1 DEF Tick, StartJob, vars
  <1>2. ASSUME NEW s \in Sessions,
               ReadForTriage(s) \/ (\E j \in Jobs \union {None} : ReadForScan(s, j)) \/ Abort(s)
        PROVE  UNCHANGED <<row, history, raced>>
    BY <1>2 DEF ReadForTriage, ReadForScan, Read, Abort
  <1> QED BY <1>1, <1>2 DEF Next, Session

\* What the three kinds of commit write.
LEMMA DecideWrites ==
  ASSUME IInv, NEW s \in Sessions, NEW q \in Requests, Decide(s, q)
  PROVE  LET new == Triaged(seen[s], q)
         IN  /\ seen[s] \in Finding /\ Exists(seen[s]) /\ Exists(row) /\ new \in Finding /\ Exists(new)
             /\ Write(s, new, EventsOf(seen[s], new))
  <1> DEFINE new == Triaged(seen[s], q)
  <1>1. seen[s] \in Finding /\ Exists(seen[s]) /\ Exists(row)
    BY DEF IInv, Types, Presence, Decide
  <1>2. new \in Finding /\ new.state = Target(seen[s], q)
    BY <1>1, TriagedType DEF IInv
  <1>3. Exists(new)
    BY <1>1, <1>2, TargetType DEF Exists, LifecycleState
  <1>4. Write(s, new, EventsOf(seen[s], new))
    BY DEF Decide
  <1> QED BY <1>1, <1>2, <1>3, <1>4

\* What an observation of a known finding writes.
LEMMA ObserveWrites ==
  ASSUME IInv, NEW s \in Sessions, NEW o \in Observations, Observe(s, o)
  PROVE  LET new == Observed(seen[s], o, jobOf[s], known[s])
         IN  /\ seen[s] \in Finding /\ Exists(row) /\ new \in Finding /\ Exists(new)
             /\ jobOf[s] \in Jobs \union {None}
             /\ Write(s, new, IF Regresses(seen[s], o, jobOf[s], known[s])
                              THEN <<Event(seen[s], new, jobOf[s])>> ELSE <<>>)
  <1> DEFINE new == Observed(seen[s], o, jobOf[s], known[s])
  <1>1. seen[s] \in Finding /\ Exists(seen[s]) /\ Exists(row) /\ jobOf[s] \in Jobs \union {None}
    BY DEF IInv, Types, Presence, Observe
  <1>2. new \in Finding /\ (new.state = seen[s].state \/ new.state = "REGRESSED")
    BY <1>1, ObservedType DEF IInv
  <1>3. Exists(new)
    BY <1>1, <1>2 DEF Exists
  <1> QED BY <1>1, <1>2, <1>3 DEF Observe

\* The explanation survives every step.
LEMMA ExplanationStays ==
  IInv /\ HistoryExplainsRow /\ AbsentRow /\ [Next]_vars => HistoryExplainsRow' /\ AbsentRow'
  <1> SUFFICES ASSUME IInv, HistoryExplainsRow, AbsentRow, [Next]_vars
               PROVE  HistoryExplainsRow' /\ AbsentRow'
    OBVIOUS
  <1>1. CASE UNCHANGED <<row, history, raced>>
    BY <1>1 DEF HistoryExplainsRow, AbsentRow, Exists
  <1>2. ASSUME NEW s \in Sessions, NEW q \in Requests, Decide(s, q)
        PROVE  HistoryExplainsRow' /\ AbsentRow'
    <2> DEFINE new == Triaged(seen[s], q)
    <2>1. /\ seen[s] \in Finding /\ Exists(row) /\ new \in Finding /\ Exists(new)
          /\ Write(s, new, EventsOf(seen[s], new))
      BY <1>2, DecideWrites
    <2>2. /\ EventsOf(seen[s], new) \in {<<>>, <<Event(seen[s], new, None)>>}
          /\ EventsOf(seen[s], new) = <<>> => snapshot(new) = snapshot(seen[s])
      BY DEF EventsOf
    <2>3. HistoryExplainsRow'
      BY <2>1, <2>2, WriteExplains
    <2>4. AbsentRow'
      BY <2>1, WriteMakesRow DEF AbsentRow, Exists
    <2> QED BY <2>3, <2>4
  <1>3. ASSUME NEW s \in Sessions, NEW o \in Observations, Create(s, o)
        PROVE  HistoryExplainsRow' /\ AbsentRow'
    <2> DEFINE new == Created(o, jobOf[s])
    <2>1. /\ new \in Finding /\ Exists(new) /\ jobOf[s] \in Jobs \union {None} /\ ~Exists(row)
          /\ Write(s, new, <<Event(Absent, new, jobOf[s])>>)
      BY <1>3, CreatedType DEF IInv, Types, Create, Exists
    <2>2. HistoryExplainsRow'
      BY <2>1, AbsentType, WriteExplains
    <2>3. AbsentRow'
      BY <2>1, WriteMakesRow DEF AbsentRow, Exists
    <2> QED BY <2>2, <2>3
  <1>4. ASSUME NEW s \in Sessions, NEW o \in Observations, Observe(s, o)
        PROVE  HistoryExplainsRow' /\ AbsentRow'
    <2> DEFINE new == Observed(seen[s], o, jobOf[s], known[s])
               moved == Regresses(seen[s], o, jobOf[s], known[s])
               events == IF moved THEN <<Event(seen[s], new, jobOf[s])>> ELSE <<>>
    <2>1. /\ seen[s] \in Finding /\ Exists(row) /\ new \in Finding /\ Exists(new)
          /\ jobOf[s] \in Jobs \union {None} /\ Write(s, new, events)
      BY <1>4, ObserveWrites
    <2>2. ~moved => snapshot(new) = snapshot(seen[s])
      BY <2>1, ObservedColumns DEF IInv
    <2>3. events \in {<<>>, <<Event(seen[s], new, jobOf[s])>>} /\ (events = <<>> => ~moved)
      OBVIOUS
    <2> HIDE DEF events, moved, new
    <2>4. HistoryExplainsRow'
      BY <2>1, <2>2, <2>3, WriteExplains
    <2>5. AbsentRow'
      BY <2>1, WriteMakesRow DEF AbsentRow, Exists
    <2> QED BY <2>4, <2>5
  <1> QED BY <1>1, <1>2, <1>3, <1>4, OtherSteps

\* The trail explains the row as long as no session wrote over a row that had
\* changed since it was read (_record_history), in every instance.
LEMMA ExplanationHolds == Spec => [](HistoryExplainsRow /\ AbsentRow)
  <1>1. Init => HistoryExplainsRow /\ AbsentRow
    BY DEF Init, HistoryExplainsRow, AbsentRow
  <1> QED BY <1>1, ExplanationStays, Invariance, PTL DEF Spec

\* Without overwriting sessions every change of an audited column has its event
\* and the last event left what is stored (_record_history).
THEOREM TrailExplainsRow == Spec => []HistoryExplainsRow
  BY ExplanationHolds, PTL

-----------------------------------------------------------------------------
(* The count of regressions. *)

Regression(e) == e.after.state = "REGRESSED" /\ e.before.state # "REGRESSED"

\* The places of a trail that record a regression.
RegressionsOf(trail) == {i \in 1 .. Len(trail) : Regression(trail[i])}

\* Whatever wrote the row or is about to counts at most the recorded
\* regressions, and the row counts all of them unless sessions overwrote.
Counted ==
  /\ row.regressions <= Recorded
  /\ \A s \in Sessions : seen[s].regressions <= Recorded
  /\ ~raced => row.regressions = Recorded

\* A trail records a natural number of regressions.
LEMMA RegressionsAreFinite ==
  ASSUME NEW trail \in Seq(Trail)
  PROVE  IsFiniteSet(RegressionsOf(trail)) /\ Cardinality(RegressionsOf(trail)) \in Nat
  <1>1. IsFiniteSet(1 .. Len(trail))
    BY FS_Interval
  <1>2. RegressionsOf(trail) \in SUBSET (1 .. Len(trail))
    BY DEF RegressionsOf
  <1>3. IsFiniteSet(RegressionsOf(trail))
    BY <1>1, <1>2, FS_Subset
  <1> QED BY <1>3, FS_CardinalityType

\* One more event counts when it is a regression.
LEMMA OneMoreRegression ==
  ASSUME NEW trail \in Seq(Trail), NEW e \in Trail
  PROVE  Cardinality(RegressionsOf(trail \o <<e>>)) =
           Cardinality(RegressionsOf(trail)) + (IF Regression(e) THEN 1 ELSE 0)
  <1> DEFINE more == trail \o <<e>>
             last == Len(trail) + 1
  <1>1. /\ Len(more) = last /\ more[last] = e /\ Len(trail) \in Nat
        /\ \A k \in 1 .. Len(trail) : more[k] = trail[k]
    OBVIOUS
  <1> HIDE DEF more
  <1>2. last \notin RegressionsOf(trail)
    BY <1>1 DEF RegressionsOf
  <1>3. CASE Regression(e)
    <2>1. RegressionsOf(more) = RegressionsOf(trail) \union {last}
      BY <1>1, <1>3 DEF RegressionsOf
    <2> QED BY <1>2, <1>3, <2>1, RegressionsAreFinite, FS_AddElement DEF more
  <1>4. CASE ~Regression(e)
    <2>1. RegressionsOf(more) = RegressionsOf(trail)
      BY <1>1, <1>4 DEF RegressionsOf
    <2> QED BY <1>4, <2>1, RegressionsAreFinite DEF more
  <1> QED BY <1>3, <1>4

\* What the row counts is compared with the trail's regressions.
LEMMA RecordedRegressions ==
  Recorded = Cardinality(RegressionsOf(history)) /\ Recorded' = Cardinality(RegressionsOf(history'))
  BY DEF Recorded, RegressionsOf, Into, Regression

\* A session that counts no more than it leaves recorded keeps the count.
LEMMA WriteCounts ==
  ASSUME IInv, Counted, NEW s \in Sessions, NEW new \in Finding, NEW events, Write(s, new, events),
         Recorded \in Nat, Recorded' \in Nat, Recorded <= Recorded', new.regressions <= Recorded',
         ~raced /\ row = seen[s] => new.regressions = Recorded'
  PROVE  Counted'
  <1>1. row.regressions \in Nat /\ new.regressions \in Nat
    BY DEF IInv, Types, Finding
  <1>2. row'.regressions \in {new.regressions, row.regressions}
    <2>1. CASE Exists(seen[s])
      BY <2>1 DEF Write, Merge, Columns, Audited
    <2>2. CASE ~Exists(seen[s])
      BY <2>2 DEF Write
    <2> QED BY <2>1, <2>2
  <1>3. row'.regressions <= Recorded'
    BY <1>1, <1>2 DEF Counted
  <1>4. ASSUME NEW t \in Sessions PROVE seen'[t].regressions <= Recorded'
    <2>1. seen'[t] \in {seen[t], Absent} /\ seen[t].regressions \in Nat
      BY DEF Write, Idle, IInv, Types, Finding
    <2> QED BY <2>1 DEF Counted, Absent
  <1>5. ~raced' => row'.regressions = Recorded'
    BY UnracedWrite
  <1> QED BY <1>3, <1>4, <1>5 DEF Counted

\* The count survives every commit.
LEMMA CommitsCount ==
  ASSUME IInv, Counted, NEW s \in Sessions,
         \/ \E q \in Requests : Decide(s, q)
         \/ \E o \in Observations : Create(s, o) \/ Observe(s, o)
  PROVE  Counted'
  <1>1. history \in Seq(Trail) /\ Recorded \in Nat /\ seen[s].regressions <= Recorded
    BY RegressionsAreFinite, RecordedRegressions DEF IInv, Types, Counted
  <1>2. ASSUME NEW q \in Requests, Decide(s, q) PROVE Counted'
    <2> DEFINE new == Triaged(seen[s], q)
               e == Event(seen[s], new, None)
    <2>1. /\ seen[s] \in Finding /\ new \in Finding /\ Write(s, new, EventsOf(seen[s], new))
          /\ new.state = Target(seen[s], q)
      BY <1>2, DecideWrites, TriagedType DEF IInv
    <2>2. new.state # "REGRESSED" \/ seen[s].state = "REGRESSED"
      BY <1>2, <2>1 DEF Decide, validate_transition
    <2>3. new.regressions = seen[s].regressions
      BY <2>1, <2>2 DEF Triaged, Transition
    <2>4. e \in Trail /\ ~Regression(e)
      BY <2>1, <2>2, EventType DEF Regression
    <2>5. EventsOf(seen[s], new) \in {<<>>, <<e>>} /\ history' = history \o EventsOf(seen[s], new)
      BY <2>1 DEF EventsOf, Write
    <2>6. Recorded' = Recorded
      <3>1. CASE EventsOf(seen[s], new) = <<>>
        BY <1>1, <2>5, <3>1 DEF Recorded, Into
      <3>2. CASE EventsOf(seen[s], new) = <<e>>
        BY <1>1, <2>4, <2>5, <3>2, OneMoreRegression, RecordedRegressions
      <3> QED BY <2>5, <3>1, <3>2
    <2> HIDE DEF new, e
    <2>7. ~raced /\ row = seen[s] => new.regressions = Recorded'
      BY <2>3, <2>6 DEF Counted
    <2> QED BY <1>1, <2>1, <2>3, <2>6, <2>7, WriteCounts
  <1>3. ASSUME NEW o \in Observations, Create(s, o) PROVE Counted'
    <2> DEFINE new == Created(o, jobOf[s])
               e == Event(Absent, new, jobOf[s])
    <2>1. /\ new \in Finding /\ new.state = "NEW" /\ new.regressions = 0
          /\ history = <<>> /\ Write(s, new, <<e>>)
      BY <1>3, CreatedType DEF IInv, Types, Presence, Create, Created
    <2>2. e \in Trail /\ ~Regression(e)
      BY <2>1, EventType, AbsentType DEF Regression, IInv, Types
    <2>3. history' = history \o <<e>>
      BY <2>1 DEF Write
    <2>4. Recorded' = Recorded
      BY <1>1, <2>2, <2>3, OneMoreRegression, RecordedRegressions
    <2>5. Recorded = 0
      <3>1. RegressionsOf(history) = {}
        BY <2>1 DEF RegressionsOf
      <3> QED BY <3>1, RecordedRegressions, FS_EmptySet
    <2> HIDE DEF new, e
    <2> QED BY <1>1, <2>1, <2>4, <2>5, WriteCounts
  <1>4. ASSUME NEW o \in Observations, Observe(s, o) PROVE Counted'
    <2> DEFINE new == Observed(seen[s], o, jobOf[s], known[s])
               moved == Regresses(seen[s], o, jobOf[s], known[s])
               e == Event(seen[s], new, jobOf[s])
               events == IF moved THEN <<e>> ELSE <<>>
    <2>1. /\ seen[s] \in Finding /\ new \in Finding /\ jobOf[s] \in Jobs \union {None}
          /\ Write(s, new, events)
      BY <1>4, ObserveWrites
    <2>2. new.regressions = seen[s].regressions + (IF moved THEN 1 ELSE 0)
      <3>1. seen[s].regressions \in Nat
        BY <2>1 DEF Finding
      <3>2. /\ moved => new.regressions = seen[s].regressions + 1
            /\ ~moved => new.regressions = seen[s].regressions
        BY <2>1, ObservedColumns DEF IInv
      <3> HIDE DEF moved, new
      <3> QED BY <3>1, <3>2
    <2>3. e \in Trail /\ (moved => Regression(e))
      <3>1. moved => seen[s].state = "REMEDIATED" /\ new.state = "REGRESSED"
        BY <2>1, ObservedColumns DEF IInv
      <3> QED BY <2>1, <3>1, EventType DEF Regression
    <2>4. history' = history \o events
      BY <2>1 DEF Write
    <2>5. Recorded' = Recorded + (IF moved THEN 1 ELSE 0)
      <3>1. CASE moved
        BY <1>1, <2>3, <2>4, <3>1, OneMoreRegression, RecordedRegressions
      <3>2. CASE ~moved
        <4>1. history' = history
          BY <1>1, <2>4, <3>2
        <4>2. Recorded' = Recorded
          BY <4>1 DEF Recorded, Into
        <4> QED BY <1>1, <3>2, <4>2
      <3> QED BY <3>1, <3>2
    <2>6. seen[s].regressions \in Nat
      BY <2>1 DEF Finding
    <2> HIDE DEF new, moved, e, events
    <2>7. ~raced /\ row = seen[s] => new.regressions = Recorded'
      BY <2>2, <2>5 DEF Counted
    <2>8. Recorded <= Recorded' /\ Recorded' \in Nat /\ new.regressions <= Recorded'
      BY <1>1, <2>2, <2>5, <2>6
    <2> QED BY <1>1, <2>1, <2>7, <2>8, WriteCounts
  <1> QED BY <1>2, <1>3, <1>4

\* A session holds no copy but the one it read before, the row or none.
LEMMA OtherCopies ==
  ASSUME IInv, [Next]_vars, NEW t \in Sessions
  PROVE  seen'[t] \in {seen[t], row, Absent}
  <1>1. CASE Tick \/ (\E j \in Jobs : StartJob(j)) \/ UNCHANGED vars
    BY <1>1 DEF Tick, StartJob, sessions, vars
  <1>2. ASSUME NEW s \in Sessions, Session(s) PROVE seen'[t] \in {seen[t], row, Absent}
    <2>1. seen \in [Sessions -> Finding]
      BY DEF IInv, Types
    <2>2. CASE ReadForTriage(s) \/ (\E j \in Jobs \union {None} : ReadForScan(s, j))
      BY <2>1, <2>2 DEF ReadForTriage, ReadForScan, Read
    <2>3. CASE Abort(s)
      BY <2>1, <2>3 DEF Abort, Idle
    <2>4. CASE \/ \E q \in Requests : Decide(s, q)
               \/ \E o \in Observations : Create(s, o) \/ Observe(s, o)
      BY <2>1, <2>4 DEF Decide, Create, Observe, Write, Idle
    <2> QED BY <1>2, <2>2, <2>3, <2>4 DEF Session
  <1> QED BY <1>1, <1>2 DEF Next

\* The count survives every step.
LEMMA CountStays == IInv /\ Counted /\ [Next]_vars => Counted'
  <1> SUFFICES ASSUME IInv, Counted, [Next]_vars PROVE Counted'
    OBVIOUS
  <1>1. CASE UNCHANGED <<row, history, raced>>
    <2>1. Recorded' = Recorded
      BY <1>1 DEF Recorded, Into
    <2>2. ASSUME NEW t \in Sessions PROVE seen'[t].regressions <= Recorded
      <3>1. seen'[t] \in {seen[t], row, Absent}
        BY OtherCopies
      <3>2. Recorded \in Nat
        BY RegressionsAreFinite, RecordedRegressions DEF IInv, Types
      <3> QED BY <1>1, <3>1, <3>2 DEF Counted, Absent
    <2> QED BY <1>1, <2>1, <2>2 DEF Counted
  <1>2. ASSUME NEW s \in Sessions,
               \/ \E q \in Requests : Decide(s, q)
               \/ \E o \in Observations : Create(s, o) \/ Observe(s, o)
        PROVE  Counted'
    BY <1>2, CommitsCount
  <1> QED BY <1>1, <1>2, OtherSteps

\* The row never counts a regression the trail does not show, whatever sessions
\* overwrite, and counts all of them as long as none does (_transition,
\* _record_history), for any number of sessions, jobs and decisions.
THEOREM RegressionsAreCounted == Spec => []RegressionsCounted
  <1>1. Init => Counted
    <2> SUFFICES ASSUME Init PROVE Counted
      OBVIOUS
    <2>1. RegressionsOf(history) = {}
      BY DEF Init, RegressionsOf
    <2>2. Recorded = 0
      BY <2>1, RecordedRegressions, FS_EmptySet
    <2> QED BY <2>2 DEF Init, Counted, Absent
  <1>2. Counted => RegressionsCounted
    BY DEF Counted, RegressionsCounted
  <1> QED BY <1>1, <1>2, CountStays, Invariance, PTL DEF Spec
=============================================================================
