---------------------------- MODULE WorkerProofs ----------------------------
(***************************************************************************)
(* Safety of what the worker does for a task: the stages of a discovery run, *)
(* legacy discovery, and the scanners of a scan with their processes.      *)
(***************************************************************************)
EXTENDS Discovery, DomainDiscovery, ScannerRun, RateLimit, SequenceTheorems, TLAPS

-----------------------------------------------------------------------------
(* Discovery: the stages of one run after the other.                       *)

\* What a run gathered lies within a set of hosts.
Within(g, names) == g.domains \subseteq names /\ g.resolved \subseteq names /\ g.http \subseteq names

\* Type correctness of the rows and of the run in memory.
DiscoveryTypeOK ==
  /\ scanJob \in {"none", "running", "completed", "failed", "cancelled"}
  /\ recorded \in Recorded /\ known \subseteq Hosts /\ listed \subseteq Subdomains
  /\ run \in RunState /\ unwell \subseteq Stages

\* What a run holds in memory is stored, or is about to be stored by the
\* stage that found it; the target itself is stored before the first tool.
MemoryIsStored ==
  /\ Within(run.gathered, known \union run.pending)
  /\ run.at # "ingested" => run.pending = {}
  /\ run.at \in {"tool", "ingested"} => Within(run.before, known)
  /\ run.at = "started" => run.todo \subseteq run.selected
  /\ run.at \notin {"idle", "started"} =>
       RootDomain \in known \/ (run.todo = {} /\ run.at \notin {"tool", "ingested"})

\* The records of a stage that did not end well.
Bad == {"failed", "blocked", "limit_reached"}

\* The stage a run is in.
StageIsOpen ==
  /\ run.at # "idle" => scanJob = "running"
  /\ run.at \in {"tool", "ingested"} => run.stage \in Tools \ (unwell \union run.todo)
  /\ run.at \in {"items", "expanding"} => run.states["repositories"] = "running"
  /\ run.at = "items" => run.stage = "repositories"
  /\ run.at = "expanding" => run.stage = "expansion"
  /\ run.at = "searching" => run.stage = "search" /\ run.states["search"] = "running"
  /\ run.at = "correlating" => run.stage = "correlation"

\* A stage that failed is never opened again but for the contributors of the
\* next repository, which remembers it.
UnwellIsMarked ==
  /\ run.at = "started" => unwell = {}
  /\ run.at # "idle" => "correlation" \notin unwell /\ unwell \intersect run.todo = {}
  /\ run.at # "idle" => \A s \in unwell \ {"expansion"} : run.states[s] \in Bad
  /\ run.at # "idle" /\ "expansion" \in unwell =>
       IF run.at = "expanding" THEN run.previous = "failed" /\ run.states["expansion"] = "running"
       ELSE run.states["expansion"] = "failed"

\* The inductive invariant of discovery runs.
DiscoveryInv ==
  /\ DiscoveryTypeOK /\ MemoryIsStored /\ StageIsOpen /\ UnwellIsMarked
  /\ InputsAreStored /\ FailureIsRemembered

\* The web process starts with no run and no stored host but the owner's.
LEMMA DiscoveryInitially == DiscoveryInit => DiscoveryInv
BY DiscoveryAssumption
   DEF DiscoveryInit, DiscoveryInv, DiscoveryTypeOK, MemoryIsStored, StageIsOpen, UnwellIsMarked,
       InputsAreStored, FailureIsRemembered, Idling, RunState, Recorded, NotRecorded, StageState, Gathered,
       NothingGathered, Within, Hosts

\* The first tool that is left is one.
LEMMA NextToolIsLeft ==
  ASSUME run \in RunState, run.todo # {}
  PROVE  NextTool \in run.todo
<1>. DEFINE Least(i) == i \in DOMAIN ORDER /\ ORDER[i] \in run.todo /\ \A j \in 1..i - 1 : ORDER[j] \notin run.todo
<1>1. DOMAIN ORDER = 1..5 /\ ORDER[1] = "subfinder" /\ ORDER[2] = "crtsh" /\ ORDER[3] = "dnsx"
      /\ ORDER[4] = "httpx" /\ ORDER[5] = "katana"
  BY DEF ORDER
<1>2. run.todo \subseteq {ORDER[1], ORDER[2], ORDER[3], ORDER[4], ORDER[5]}
  BY <1>1 DEF RunState, Tools
<1>3. \E i \in DOMAIN ORDER : Least(i)
  <2>1. CASE ORDER[1] \in run.todo
    BY <1>1, <2>1
  <2>2. CASE ORDER[1] \notin run.todo /\ ORDER[2] \in run.todo
    BY <1>1, <2>2
  <2>3. CASE ORDER[1] \notin run.todo /\ ORDER[2] \notin run.todo /\ ORDER[3] \in run.todo
    <3>1. Least(3)
      BY <1>1, <2>3
    <3>. QED
      BY <1>1, <3>1
  <2>4. CASE ORDER[1] \notin run.todo /\ ORDER[2] \notin run.todo /\ ORDER[3] \notin run.todo
             /\ ORDER[4] \in run.todo
    <3>1. Least(4)
      BY <1>1, <2>4
    <3>. QED
      BY <1>1, <3>1
  <2>5. CASE ORDER[1] \notin run.todo /\ ORDER[2] \notin run.todo /\ ORDER[3] \notin run.todo
             /\ ORDER[4] \notin run.todo
    <3>1. Least(5)
      BY <1>1, <1>2, <2>5
    <3>. QED
      BY <1>1, <3>1
  <2>. QED
    BY <2>1, <2>2, <2>3, <2>4, <2>5
<1>. QED
  BY <1>3 DEF NextTool

\* What the constructors of a run leave.
LEMMA SaveFacts ==
  ASSUME DiscoveryTypeOK, NEW r \in RunState, Save(r)
  PROVE  /\ run' \in RunState /\ run'.pending = {} /\ known' = known \union r.pending
         /\ recorded' \in {recorded, r.states} /\ recorded' \in Recorded /\ known' \subseteq Hosts
         /\ ~r.shared => recorded' = r.states
         /\ run'.at = r.at /\ run'.selected = r.selected /\ run'.todo = r.todo /\ run'.stage = r.stage
         /\ run'.inputs = r.inputs /\ run'.states = r.states /\ run'.previous = r.previous
         /\ run'.gathered = r.gathered /\ run'.before = r.before
BY DEF DiscoveryTypeOK, Save, SavedStages, RunState

\* m is the run r with another record for one stage.
Differs(m, r, stage, state) ==
  /\ m \in RunState /\ m.states = [r.states EXCEPT ![stage] = state]
  /\ m.selected = r.selected /\ m.todo = r.todo /\ m.inputs = r.inputs
  /\ m.gathered = r.gathered /\ m.before = r.before /\ m.pending = r.pending

\* m is r with a record for one stage, r staying where it is.
Marks(m, r, stage, state) ==
  /\ Differs(m, r, stage, state) /\ m.shared = FALSE
  /\ m.at = r.at /\ m.stage = r.stage /\ m.previous = r.previous

\* m is r when it opens a stage and remembers its record before.
Opens(m, r, stage, at) ==
  /\ Differs(m, r, stage, "running")
  /\ m.at = at /\ m.stage = stage /\ m.previous = r.states[stage]

\* m is r when the stage it is in ends.
Closes(m, r, at) ==
  /\ Differs(m, r, r.stage, Ended(r.previous))
  /\ m.at = at /\ m.stage = r.stage /\ m.previous = r.previous

\* Writing the record of a stage changes nothing else of the run.
LEMMA MarkedFacts ==
  ASSUME NEW r \in RunState, NEW stage \in Stages, NEW state \in StageState
  PROVE  Marks(Marked(r, stage, state), r, stage, state)
BY DEF Marks, Differs, Marked, RunState, Recorded

\* Where a run is while a stage is open.
RunAt == {"tool", "items", "expanding", "searching", "correlating"}

\* Opening a stage marks it running and keeps what was gathered.
LEMMA OpenedFacts ==
  ASSUME NEW r \in RunState, NEW stage \in Stages, NEW at \in RunAt
  PROVE  Opens(Opened(r, stage, at), r, stage, at)
<1>. DEFINE k == Marked(r, stage, "running")
<1>1. "running" \in StageState /\ r.states[stage] \in StageState
  BY DEF StageState, RunState, Recorded
<1>2. Marks(k, r, stage, "running")
  BY <1>1, MarkedFacts
<1>3. Opened(r, stage, at) = [k EXCEPT !.at = at, !.stage = stage, !.previous = r.states[stage]]
  BY DEF Opened
<1>. HIDE DEF k
<1>. QED
  BY <1>1, <1>2, <1>3 DEF Opens, Marks, Differs, RunState, RunAt

\* Ending a stage records how it ended and keeps what was gathered.
LEMMA ClosedFacts ==
  ASSUME NEW r \in RunState, r.stage \in Stages, NEW at \in {"next", "items", "ended"}
  PROVE  Closes(ClosedStage(r, at), r, at)
<1>1. Ended(r.previous) \in StageState
  BY DEF StageState, Ended
<1>. QED
  BY <1>1 DEF Closes, Differs, ClosedStage, RunState, Recorded

\* A run that ended takes what it held in memory along.
LEMMA EndKeepsInv ==
  ASSUME DiscoveryInv, run' = Idling, known' = known, listed' = listed,
         scanJob' \in {"none", "running", "completed", "failed", "cancelled"},
         recorded' \in Recorded, unwell' \subseteq Stages,
         \A s \in unwell' : recorded'[s] # "completed",
         scanJob' = "completed" => unwell' = {}
  PROVE  DiscoveryInv'
BY DiscoveryAssumption
   DEF DiscoveryInv, DiscoveryTypeOK, MemoryIsStored, StageIsOpen, UnwellIsMarked,
       InputsAreStored, FailureIsRemembered, Idling, RunState, Recorded, NotRecorded, StageState, Gathered,
       NothingGathered, Within, Hosts

\* The record of a stage among the others.
LEMMA StateOfStage ==
  ASSUME NEW states \in Recorded, NEW stage \in Stages, NEW state
  PROVE  /\ [states EXCEPT ![stage] = state][stage] = state
         /\ \A s \in Stages \ {stage} : [states EXCEPT ![stage] = state][s] = states[s]
BY DEF Recorded

\* The stages of an owner are stages.
LEMMA Names == "repositories" \in Stages /\ "expansion" \in Stages /\ "search" \in Stages /\ "correlation" \in Stages
BY DEF Stages, OwnerStages

\* The tools are the five of the pipeline; none is a stage of an owner.
LEMMA ToolNames ==
  /\ Tools = {"subfinder", "crtsh", "dnsx", "httpx", "katana"}
  /\ Tools \intersect OwnerStages = {} /\ Tools \subseteq Stages
  /\ "expansion" \notin Tools /\ "correlation" \notin Tools
  /\ "expansion" \in OwnerStages /\ "correlation" \notin OwnerStages
<1>1. Tools = {"subfinder", "crtsh", "dnsx", "httpx", "katana"}
  BY DEF Tools, ORDER
<1>. QED
  BY <1>1 DEF OwnerStages, Stages

\* The start of a run.
LEMMA StartJobKeepsInv ==
  ASSUME DiscoveryInv, NEW selected \in Selections \union {{"repositories"}, OwnerStages}, StartJob(selected)
  PROVE  DiscoveryInv'
<1>1. selected \subseteq Stages
  BY DiscoveryAssumption DEF Stages, OwnerStages
<1>2. run' = [Idling EXCEPT !.at = "started", !.selected = selected, !.todo = selected \intersect Tools]
      /\ scanJob' = "running" /\ recorded' = NotRecorded /\ unwell' = {} /\ UNCHANGED <<known, listed>>
  BY DEF StartJob
<1>3. /\ run' \in RunState /\ run'.at = "started" /\ run'.pending = {} /\ run'.gathered = NothingGathered
      /\ run'.selected = selected /\ run'.todo = selected \intersect Tools
  <2>1. Idling \in RunState /\ Idling.pending = {} /\ Idling.gathered = NothingGathered
    BY DiscoveryAssumption
       DEF Idling, RunState, Recorded, NotRecorded, StageState, Gathered, NothingGathered
  <2>. QED
    BY <1>1, <1>2, <2>1 DEF RunState
<1>4. NotRecorded \in Recorded
  BY DEF NotRecorded, Recorded, StageState
<1>5. DiscoveryTypeOK'
  BY <1>2, <1>3, <1>4 DEF DiscoveryInv, DiscoveryTypeOK
<1>6. MemoryIsStored'
  BY <1>3 DEF MemoryIsStored, Within, NothingGathered
<1>. QED
  BY <1>2, <1>3, <1>5, <1>6 DEF DiscoveryInv, StageIsOpen, UnwellIsMarked, InputsAreStored, FailureIsRemembered

\* The stages of a run are queued, and what is linked to the assessment is
\* gathered for a domain.
LEMMA PlanKeepsInv ==
  ASSUME DiscoveryInv, Plan \/ QueueOwner
  PROVE  DiscoveryInv'
<1>1. /\ run.at = "started" /\ UNCHANGED <<scanJob, listed, unwell>> /\ unwell = {}
      /\ DiscoveryTypeOK /\ run.pending = {} /\ run.todo \subseteq run.selected
      /\ run.todo \subseteq Tools /\ Within(run.gathered, known) /\ run \in RunState
  BY DEF Plan, QueueOwner, DiscoveryInv, UnwellIsMarked, DiscoveryTypeOK, MemoryIsStored, RunState
<1>2. ASSUME NEW r \in RunState, Save(r), r.at = "next", r.todo = run.todo,
             Within(r.gathered, known \union r.pending),
             RootDomain \in known \union r.pending \/ r.todo = {}
      PROVE  DiscoveryInv'
  <2>1. DiscoveryTypeOK'
    BY <1>1, <1>2, SaveFacts DEF DiscoveryTypeOK
  <2>2. MemoryIsStored'
    BY <1>1, <1>2, SaveFacts DEF MemoryIsStored, Within
  <2>3. run'.at = "next"
    BY <1>1, <1>2, SaveFacts
  <2>. QED
    BY <1>1, <2>1, <2>2, <2>3
       DEF DiscoveryInv, StageIsOpen, UnwellIsMarked, InputsAreStored, FailureIsRemembered
<1>3. CASE Plan
  <2>1. PICK linked \in BOOLEAN :
          LET domains == IF linked THEN known \union {RootDomain} ELSE {RootDomain}
              queued == run.selected \union {"correlation"}
              states == [s \in Stages |-> IF s \in queued THEN "queued" ELSE "none"]
          IN  Save([run EXCEPT !.at = "next", !.states = states, !.pending = {RootDomain},
                               !.gathered.domains = domains, !.counted = domains])
    BY <1>3 DEF Plan
  <2>. DEFINE domains == IF linked THEN known \union {RootDomain} ELSE {RootDomain}
              states == [s \in Stages |-> IF s \in run.selected \union {"correlation"} THEN "queued" ELSE "none"]
              r == [run EXCEPT !.at = "next", !.states = states, !.pending = {RootDomain},
                               !.gathered.domains = domains, !.counted = domains]
  <2>2. states \in Recorded
    BY DEF Recorded, StageState
  <2>3. domains \subseteq Hosts /\ domains \subseteq known \union {RootDomain} /\ RootDomain \in Hosts
    BY <1>1 DEF DiscoveryTypeOK, Hosts
  <2>4. Save(r)
    BY <2>1
  <2>. HIDE DEF states, domains
  <2>5. /\ r \in RunState /\ r.at = "next" /\ r.todo = run.todo /\ r.pending = {RootDomain}
        /\ r.gathered = [run.gathered EXCEPT !.domains = domains]
    BY <1>1, <2>2, <2>3 DEF RunState, Gathered
  <2>6. Within(r.gathered, known \union r.pending)
    BY <1>1, <2>3, <2>5 DEF Within, RunState, Gathered
  <2>. QED
    BY <1>2, <2>4, <2>5, <2>6
<1>4. CASE QueueOwner
  <2>. DEFINE states == [s \in Stages |-> IF s \in run.selected \union {"correlation"} THEN "queued" ELSE "none"]
              r == [run EXCEPT !.at = "next", !.states = states]
  <2>1. Save(r) /\ run.selected \subseteq OwnerStages
    BY <1>4 DEF QueueOwner
  <2>2. states \in Recorded
    BY DEF Recorded, StageState
  <2>. HIDE DEF states
  <2>3. /\ r \in RunState /\ r.at = "next" /\ r.todo = run.todo /\ r.pending = {}
        /\ r.gathered = run.gathered
    BY <1>1, <2>2 DEF RunState
  <2>4. r.todo = {}
    BY <1>1, <2>1, <2>3, ToolNames
  <2>. QED
    BY <1>1, <1>2, <2>1, <2>3, <2>4
<1>. QED
  BY <1>3, <1>4

\* A step that gives one stage up and goes on with the run.
LEMMA FailKeepsInv ==
  ASSUME DiscoveryInv, run.at \notin {"idle", "started"}, UNCHANGED <<scanJob, known, listed>>,
         NEW stage \in Stages \ {"correlation"}, unwell' = unwell \union {stage},
         run' \in RunState, run'.pending = {}, Within(run'.gathered, known),
         run'.todo \subseteq run.todo, stage \notin run'.todo,
         run'.at \in {"next", "items"},
         run'.at = "items" => run'.stage = "repositories" /\ run'.states["repositories"] = "running",
         run.at = "expanding" => stage = "expansion",
         run'.states[stage] \in Bad, stage = "expansion" => run'.states[stage] = "failed",
         \A s \in Stages \ {stage} : run'.states[s] = run.states[s],
         recorded' \in Recorded, \A s \in unwell' : recorded'[s] # "completed"
  PROVE  DiscoveryInv'
<1>1. DiscoveryTypeOK /\ unwell \subseteq Stages
  BY DEF DiscoveryInv, DiscoveryTypeOK
<1>2. DiscoveryTypeOK'
  BY <1>1 DEF DiscoveryTypeOK
<1>3. MemoryIsStored' /\ InputsAreStored'
  BY DEF DiscoveryInv, MemoryIsStored, InputsAreStored, Within
<1>4. StageIsOpen'
  BY DEF DiscoveryInv, StageIsOpen
<1>5. UnwellIsMarked'
  <2>1. "correlation" \notin unwell' /\ unwell' \intersect run'.todo = {}
    BY DEF DiscoveryInv, UnwellIsMarked
  <2>2. \A s \in unwell' \ {"expansion"} : run'.states[s] \in Bad
    BY <1>1 DEF DiscoveryInv, UnwellIsMarked
  <2>3. "expansion" \in unwell' => run'.states["expansion"] = "failed"
    BY <1>1 DEF DiscoveryInv, UnwellIsMarked
  <2>. QED
    BY <2>1, <2>2, <2>3 DEF UnwellIsMarked
<1>6. FailureIsRemembered'
  BY DEF DiscoveryInv, StageIsOpen, FailureIsRemembered
<1>. QED
  BY <1>2, <1>3, <1>4, <1>5, <1>6 DEF DiscoveryInv

\* A step that saves the run as r and marks no stage as failed.
LEMMA SaveKeepsInv ==
  ASSUME DiscoveryInv, NEW r \in RunState, Save(r), UNCHANGED <<scanJob, unwell>>,
         listed' \subseteq Subdomains, run.at \notin {"idle", "started"},
         r.at \notin {"idle", "started", "ingested"}, r.todo \subseteq run.todo,
         Within(r.gathered, known \union r.pending),
         r.at = "tool" => /\ Within(r.before, known) /\ r.inputs \subseteq known /\ RootDomain \in known
                          /\ r.stage \in Tools \ (unwell \union r.todo),
         r.at \in {"items", "expanding"} => r.states["repositories"] = "running",
         r.at = "items" => r.stage = "repositories",
         r.at = "expanding" => r.stage = "expansion",
         r.at = "searching" => r.stage = "search" /\ r.states["search"] = "running",
         r.at = "correlating" => r.stage = "correlation",
         \A s \in unwell \ {"expansion"} : r.states[s] = run.states[s],
         "expansion" \in unwell =>
           IF r.at = "expanding" THEN r.previous = "failed" /\ r.states["expansion"] = "running"
           ELSE r.states["expansion"] = "failed"
  PROVE  DiscoveryInv'
<1>1. DiscoveryTypeOK
  BY DEF DiscoveryInv
<1>2. /\ run' \in RunState /\ run'.pending = {} /\ known' = known \union r.pending
      /\ recorded' \in {recorded, r.states} /\ recorded' \in Recorded /\ known' \subseteq Hosts
      /\ run'.at = r.at /\ run'.todo = r.todo /\ run'.stage = r.stage
      /\ run'.inputs = r.inputs /\ run'.states = r.states /\ run'.previous = r.previous
      /\ run'.gathered = r.gathered /\ run'.before = r.before
  BY <1>1, SaveFacts
<1>3. DiscoveryTypeOK'
  BY <1>1, <1>2 DEF DiscoveryTypeOK
<1>4. RootDomain \in known \/ (r.todo = {} /\ r.at # "tool")
  BY DEF DiscoveryInv, MemoryIsStored
<1>5. MemoryIsStored' /\ InputsAreStored'
  BY <1>2, <1>4 DEF MemoryIsStored, InputsAreStored, Within
<1>6. StageIsOpen'
  BY <1>2 DEF DiscoveryInv, StageIsOpen
<1>7. UnwellIsMarked'
  BY <1>2 DEF DiscoveryInv, UnwellIsMarked
<1>8. FailureIsRemembered'
  BY <1>2, <1>6, <1>7 DEF DiscoveryInv, UnwellIsMarked, StageIsOpen, FailureIsRemembered, Bad
<1>. QED
  BY <1>3, <1>5, <1>6, <1>7, <1>8 DEF DiscoveryInv

\* What the run is like while it is at work.
LEMMA AtWork ==
  ASSUME DiscoveryInv
  PROVE  /\ DiscoveryTypeOK /\ run \in RunState /\ run.states \in Recorded /\ unwell \subseteq Stages
         /\ known \subseteq Hosts /\ run.gathered \in Gathered /\ run.before \in Gathered
         /\ run.at # "ingested" => run.pending = {} /\ Within(run.gathered, known)
BY DEF DiscoveryInv, DiscoveryTypeOK, MemoryIsStored, RunState, Within

\* The inputs of a tool are among the hosts the run gathered.
LEMMA InputsAreGathered ==
  ASSUME DiscoveryInv, run.at = "next", run.todo # {}, NEW tool
  PROVE  InputsOf(tool) \subseteq known
<1>1. Within(run.gathered, known) /\ RootDomain \in known
  BY AtWork DEF DiscoveryInv, MemoryIsStored
<1>2. InputsOf(tool) \in {run.gathered.http, run.gathered.resolved, run.gathered.domains, {RootDomain}}
  BY DEF InputsOf
<1>. QED
  BY <1>1, <1>2 DEF Within

\* A tool starts on hosts that are stored.
LEMMA StartToolKeepsInv == DiscoveryInv /\ StartTool => DiscoveryInv'
<1>. SUFFICES ASSUME DiscoveryInv, StartTool PROVE DiscoveryInv'
  OBVIOUS
<1>. DEFINE first == NextTool
            m == Opened(run, first, "tool")
            r == [m EXCEPT !.inputs = InputsOf(first), !.before = run.gathered, !.todo = @ \ {first}]
<1>1. run.at = "next" /\ run.todo # {} /\ Save(r) /\ UNCHANGED <<scanJob, listed, unwell>>
  BY DEF StartTool
<1>2. InputsOf(first) \subseteq known
  BY <1>1, InputsAreGathered
<1>3. first \in run.todo /\ first \in Tools /\ first \in Stages
  BY <1>1, AtWork, NextToolIsLeft DEF RunState, Stages
<1>. HIDE DEF first
<1>0. run \in RunState /\ run.states \in Recorded /\ run.gathered \in Gathered /\ known \subseteq Hosts
      /\ run.pending = {} /\ Within(run.gathered, known) /\ unwell \subseteq Stages
  BY <1>1, AtWork
<1>4. Opens(m, run, first, "tool")
  BY <1>0, <1>3, OpenedFacts DEF RunAt
<1>. HIDE DEF m
<1>5. /\ r \in RunState /\ r.states = [run.states EXCEPT ![first] = "running"]
      /\ r.at = "tool" /\ r.todo = run.todo \ {first} /\ r.stage = first /\ r.gathered = run.gathered
      /\ r.before = run.gathered /\ r.inputs = InputsOf(first) /\ r.pending = run.pending
  BY <1>0, <1>2, <1>4 DEF Opens, Differs, RunState
<1>. HIDE DEF r
<1>6. first \notin unwell /\ first # "expansion" /\ RootDomain \in known
  BY <1>1, <1>3, ToolNames DEF DiscoveryInv, UnwellIsMarked, MemoryIsStored
<1>7. \A s \in Stages \ {first} : r.states[s] = run.states[s]
  BY <1>0, <1>3, <1>5, StateOfStage
<1>8. listed' \subseteq Subdomains
  BY <1>1, AtWork DEF DiscoveryTypeOK
<1>9. "expansion" \in unwell => r.states["expansion"] = "failed"
  BY <1>0, <1>1, <1>6, <1>7 DEF DiscoveryInv, UnwellIsMarked
<1>10. Within(r.gathered, known \union r.pending) /\ Within(r.before, known)
  BY <1>0, <1>5 DEF Within
<1>11. \A s \in unwell \ {"expansion"} : r.states[s] = run.states[s]
  BY <1>0, <1>6, <1>7
<1>12. r.todo \subseteq run.todo /\ r.stage \in Tools \ (unwell \union r.todo) /\ r.inputs \subseteq known
  BY <1>2, <1>3, <1>5, <1>6
<1>. QED
  BY <1>1, <1>5, <1>6, <1>8, <1>9, <1>10, <1>11, <1>12, SaveKeepsInv

\* A tool that ran: what it found is in the session.
LEMMA ToolRanKeepsInv == DiscoveryInv /\ (AskProvider \/ RunTool) => DiscoveryInv'
<1>. SUFFICES ASSUME DiscoveryInv, AskProvider \/ RunTool PROVE DiscoveryInv'
  OBVIOUS
<1>1. run.at = "tool" /\ UNCHANGED <<scanJob, recorded, known, unwell>>
  BY DEF AskProvider, RunTool
<1>2. ASSUME /\ run' \in RunState /\ run'.at = "ingested" /\ run'.todo = run.todo /\ run'.stage = run.stage
             /\ run'.states = run.states /\ run'.before = run.before,
             Within(run'.gathered, known \union run'.pending), listed' \subseteq Subdomains
      PROVE  DiscoveryInv'
  <2>1. DiscoveryTypeOK'
    BY <1>1, <1>2 DEF DiscoveryInv, DiscoveryTypeOK
  <2>2. MemoryIsStored' /\ InputsAreStored'
    BY <1>1, <1>2 DEF DiscoveryInv, MemoryIsStored, InputsAreStored
  <2>3. StageIsOpen' /\ UnwellIsMarked' /\ FailureIsRemembered'
    BY <1>1, <1>2 DEF DiscoveryInv, StageIsOpen, UnwellIsMarked, FailureIsRemembered
  <2>. QED
    BY <2>1, <2>2, <2>3 DEF DiscoveryInv
<1>3. Within(run.gathered, known) /\ run \in RunState /\ run.gathered \in Gathered
  BY <1>1, AtWork
<1>4. CASE AskProvider
  <2>1. PICK found \in SUBSET Subdomains :
          /\ listed' = listed \union found
          /\ run' = [run EXCEPT !.at = "ingested", !.pending = {RootDomain} \union listed',
                                !.gathered.domains = @ \union {RootDomain} \union listed',
                                !.counted = @ \union {RootDomain} \union listed']
    BY <1>4 DEF AskProvider
  <2>2. listed' \subseteq Subdomains
    BY <2>1, AtWork DEF DiscoveryTypeOK
  <2>. DEFINE more == {RootDomain} \union listed'
  <2>3. more \subseteq Hosts
    BY <2>2 DEF Hosts
  <2>4. run' = [run EXCEPT !.at = "ingested", !.pending = more, !.gathered.domains = @ \union {RootDomain} \union listed',
                           !.counted = @ \union {RootDomain} \union listed']
    BY <2>1
  <2>5. /\ run' \in RunState /\ run'.at = "ingested" /\ run'.todo = run.todo /\ run'.stage = run.stage
        /\ run'.states = run.states /\ run'.before = run.before /\ run'.pending = more
        /\ run'.gathered.domains = run.gathered.domains \union more
        /\ run'.gathered.resolved = run.gathered.resolved /\ run'.gathered.http = run.gathered.http
    BY <1>3, <2>3, <2>4 DEF RunState, Gathered
  <2>6. Within(run'.gathered, known \union run'.pending)
    BY <1>3, <2>5 DEF Within
  <2>. QED
    BY <1>2, <2>2, <2>5, <2>6
<1>5. CASE RunTool
  <2>1. PICK found \in SUBSET Hosts : \E answered \in SUBSET found :
          LET r == [run EXCEPT !.at = "ingested", !.pending = found] IN
          run' = CASE run.stage = "subfinder" ->
                        [r EXCEPT !.gathered.domains = @ \union found, !.counted = @ \union found]
                   [] run.stage = "dnsx" ->
                        [r EXCEPT !.gathered.domains = @ \union found,
                                  !.gathered.resolved = @ \union answered, !.counted = @ \union found]
                   [] run.stage = "httpx" -> [r EXCEPT !.gathered.http = @ \union found]
                   [] OTHER -> [r EXCEPT !.pending = {}]
    BY <1>5 DEF RunTool
  <2>2. PICK answered \in SUBSET found :
          LET r == [run EXCEPT !.at = "ingested", !.pending = found] IN
          run' = CASE run.stage = "subfinder" ->
                        [r EXCEPT !.gathered.domains = @ \union found, !.counted = @ \union found]
                   [] run.stage = "dnsx" ->
                        [r EXCEPT !.gathered.domains = @ \union found,
                                  !.gathered.resolved = @ \union answered, !.counted = @ \union found]
                   [] run.stage = "httpx" -> [r EXCEPT !.gathered.http = @ \union found]
                   [] OTHER -> [r EXCEPT !.pending = {}]
    BY <2>1
  <2>. DEFINE r == [run EXCEPT !.at = "ingested", !.pending = found]
  <2>3. /\ r \in RunState /\ r.at = "ingested" /\ r.todo = run.todo /\ r.stage = run.stage
        /\ r.states = run.states /\ r.before = run.before /\ r.pending = found
        /\ r.gathered = run.gathered
    BY <1>3 DEF RunState
  <2>4. \/ run' = [r EXCEPT !.gathered.domains = @ \union found, !.counted = @ \union found]
        \/ run' = [r EXCEPT !.gathered.domains = @ \union found,
                            !.gathered.resolved = @ \union answered, !.counted = @ \union found]
        \/ run' = [r EXCEPT !.gathered.http = @ \union found]
        \/ run' = [r EXCEPT !.pending = {}]
    BY <2>2, Zenon
  <2>. HIDE DEF r
  <2>. DEFINE Fine == /\ run' \in RunState /\ run'.at = "ingested" /\ run'.todo = run.todo /\ run'.stage = run.stage
                      /\ run'.states = run.states /\ run'.before = run.before
              Held == Within(run'.gathered, known \union run'.pending)
  <2>5. Fine /\ Held
    <3>1. CASE run' = [r EXCEPT !.gathered.domains = @ \union found, !.counted = @ \union found]
      <4>1. Fine /\ run'.pending = found /\ run'.gathered = [run.gathered EXCEPT !.domains = @ \union found]
        BY <2>3, <3>1 DEF RunState, Gathered
      <4>. QED
        BY <1>3, <4>1 DEF Within, Gathered
    <3>2. CASE run' = [r EXCEPT !.gathered.domains = @ \union found,
                                !.gathered.resolved = @ \union answered, !.counted = @ \union found]
      <4>1. Fine /\ run'.pending = found /\ run'.gathered =
              [run.gathered EXCEPT !.domains = @ \union found, !.resolved = @ \union answered]
        BY <2>3, <3>2 DEF RunState, Gathered
      <4>. QED
        BY <1>3, <4>1 DEF Within, Gathered
    <3>3. CASE run' = [r EXCEPT !.gathered.http = @ \union found]
      <4>1. Fine /\ run'.pending = found /\ run'.gathered = [run.gathered EXCEPT !.http = @ \union found]
        BY <2>3, <3>3 DEF RunState, Gathered
      <4>. QED
        BY <1>3, <4>1 DEF Within, Gathered
    <3>4. CASE run' = [r EXCEPT !.pending = {}]
      <4>1. Fine /\ run'.pending = {} /\ run'.gathered = run.gathered
        BY <2>3, <3>4 DEF RunState
      <4>. QED
        BY <1>3, <4>1 DEF Within
    <3>. QED
      BY <2>4, <3>1, <3>2, <3>3, <3>4
  <2>7. listed' \subseteq Subdomains
    BY <1>5, AtWork DEF RunTool, DiscoveryTypeOK
  <2>. QED
    BY <1>2, <2>5, <2>7
<1>. QED
  BY <1>4, <1>5

\* The first tool that is left has nothing to run on.
LEMMA BlockKeepsInv == DiscoveryInv /\ Block => DiscoveryInv'
<1>. SUFFICES ASSUME DiscoveryInv, Block PROVE DiscoveryInv'
  OBVIOUS
<1>. DEFINE first == NextTool
            m == Marked(run, first, "blocked")
            r == [m EXCEPT !.todo = @ \ {first}]
<1>1. run.at = "next" /\ run.todo # {} /\ Save(r) /\ unwell' = unwell \union {first}
      /\ UNCHANGED <<scanJob, listed>>
  BY DEF Block
<1>2. /\ DiscoveryTypeOK /\ run \in RunState /\ run.states \in Recorded /\ run.pending = {}
      /\ Within(run.gathered, known) /\ unwell \subseteq Stages
  BY <1>1, AtWork
<1>3. first \in run.todo /\ first \in Stages /\ first # "correlation" /\ first # "expansion"
  BY <1>1, <1>2, NextToolIsLeft, ToolNames DEF RunState
<1>. HIDE DEF first
<1>4. "blocked" \in StageState /\ "blocked" \in Bad
  BY DEF StageState, Bad
<1>5. Marks(m, run, first, "blocked")
  BY <1>2, <1>3, <1>4, MarkedFacts
<1>. HIDE DEF m
<1>6. /\ r \in RunState /\ r.states = [run.states EXCEPT ![first] = "blocked"] /\ r.shared = FALSE
      /\ r.at = "next" /\ r.todo = run.todo \ {first} /\ r.gathered = run.gathered /\ r.pending = {}
  BY <1>1, <1>2, <1>5 DEF Marks, Differs, RunState
<1>. HIDE DEF r
<1>7. /\ run' \in RunState /\ run'.states = r.states /\ recorded' = r.states /\ recorded' \in Recorded
      /\ run'.at = "next" /\ run'.todo = r.todo
      /\ run'.gathered = r.gathered /\ run'.pending = {} /\ known' = known
  BY <1>1, <1>2, <1>6, SaveFacts
<1>8. run'.states[first] = "blocked" /\ \A s \in Stages \ {first} : run'.states[s] = run.states[s]
  BY <1>2, <1>3, <1>6, <1>7, StateOfStage
<1>9. \A s \in unwell' : recorded'[s] # "completed"
  BY <1>1, <1>2, <1>3, <1>6, <1>7, <1>8 DEF DiscoveryInv, UnwellIsMarked, Bad
<1>. QED
  BY <1>1, <1>2, <1>3, <1>4, <1>6, <1>7, <1>8, <1>9, FailKeepsInv

\* A tool that failed, or what it found could not be stored.
LEMMA FailToolKeepsInv == DiscoveryInv /\ FailTool => DiscoveryInv'
<1>. SUFFICES ASSUME DiscoveryInv, FailTool PROVE DiscoveryInv'
  OBVIOUS
<1>. DEFINE tool == run.stage
            m == Marked(run, tool, "failed")
            r == [m EXCEPT !.pending = {}]
<1>1. run.at \in {"tool", "ingested"} /\ unwell' = unwell \union {tool} /\ UNCHANGED <<scanJob, known, listed>>
      /\ recorded' = SavedStages(r)
  BY DEF FailTool, RolledBack
<1>2. PICK reason \in {"failed", "limit_reached"} :
        run' = [Forgotten(r) EXCEPT !.states[tool] = reason, !.shared = TRUE, !.at = "next"]
  BY DEF FailTool, RolledBack
<1>3. /\ DiscoveryTypeOK /\ run \in RunState /\ run.states \in Recorded /\ run.before \in Gathered
      /\ Within(run.before, known) /\ unwell \subseteq Stages
  BY <1>1, AtWork DEF DiscoveryInv, MemoryIsStored
<1>4. tool \in Stages /\ tool \notin run.todo /\ tool # "correlation" /\ tool # "expansion" /\ tool \notin unwell
  BY <1>1, ToolNames DEF DiscoveryInv, StageIsOpen
<1>. HIDE DEF tool
<1>5. "failed" \in StageState /\ reason \in StageState /\ reason \in Bad
  BY DEF StageState, Bad
<1>6. Marks(m, run, tool, "failed")
  BY <1>3, <1>4, <1>5, MarkedFacts
<1>. HIDE DEF m
<1>7. /\ r \in RunState /\ r.states = [run.states EXCEPT ![tool] = "failed"] /\ r.shared = FALSE
      /\ r.todo = run.todo /\ r.before = run.before /\ r.pending = {} /\ r.states \in Recorded
  BY <1>3, <1>6 DEF Marks, Differs, RunState
<1>. HIDE DEF r
<1>8. /\ run' \in RunState /\ run'.states = [r.states EXCEPT ![tool] = reason] /\ run'.pending = {}
      /\ run'.todo = run.todo /\ run'.gathered = run.before /\ run'.at = "next"
  BY <1>2, <1>3, <1>5, <1>7 DEF RunState, Recorded, Forgotten
<1>9. recorded' = r.states
  BY <1>1, <1>7 DEF SavedStages
<1>10. r.states[tool] = "failed" /\ \A s \in Stages \ {tool} : r.states[s] = run.states[s]
  BY <1>3, <1>4, <1>7, StateOfStage
<1>11. run'.states[tool] = reason /\ \A s \in Stages \ {tool} : run'.states[s] = r.states[s]
  BY <1>4, <1>7, <1>8, StateOfStage
<1>12. \A s \in unwell' : recorded'[s] # "completed"
  BY <1>1, <1>3, <1>4, <1>9, <1>10 DEF DiscoveryInv, UnwellIsMarked, Bad
<1>. QED
  BY <1>1, <1>3, <1>4, <1>5, <1>7, <1>8, <1>9, <1>10, <1>11, <1>12, FailKeepsInv

\* The contributors of a repository cannot be looked at.
LEMMA FailExpansionKeepsInv == DiscoveryInv /\ FailExpansion => DiscoveryInv'
<1>. SUFFICES ASSUME DiscoveryInv, FailExpansion PROVE DiscoveryInv'
  OBVIOUS
<1>. DEFINE m == Marked(run, "expansion", "failed")
            r == [m EXCEPT !.pending = {}, !.at = "items", !.stage = "repositories", !.previous = "queued"]
<1>1. run.at = "expanding" /\ run.stage = "expansion" /\ run.states["repositories"] = "running"
  BY DEF FailExpansion, DiscoveryInv, StageIsOpen
<1>2. Save(r) /\ unwell' = unwell \union {"expansion"} /\ UNCHANGED <<scanJob, listed>>
  <2>1. RolledBack(run, "failed") = [m EXCEPT !.pending = {}]
    BY <1>1 DEF RolledBack
  <2>2. r = [[m EXCEPT !.pending = {}] EXCEPT !.at = "items", !.stage = "repositories", !.previous = "queued"]
    OBVIOUS
  <2>. HIDE DEF m, r
  <2>. QED
    BY <2>1, <2>2 DEF FailExpansion
<1>3. /\ DiscoveryTypeOK /\ run \in RunState /\ run.states \in Recorded
      /\ Within(run.gathered, known) /\ unwell \subseteq Stages
  BY <1>1, AtWork
<1>4. "failed" \in StageState /\ "failed" \in Bad /\ "queued" \in StageState
  BY DEF StageState, Bad
<1>5. Marks(m, run, "expansion", "failed")
  BY <1>3, <1>4, Names, MarkedFacts
<1>. HIDE DEF m
<1>6. /\ r \in RunState /\ r.states = [run.states EXCEPT !["expansion"] = "failed"] /\ r.shared = FALSE
      /\ r.at = "items" /\ r.stage = "repositories" /\ r.todo = run.todo
      /\ r.gathered = run.gathered /\ r.pending = {}
  BY <1>3, <1>4, <1>5, Names DEF Marks, Differs, RunState
<1>. HIDE DEF r
<1>7. /\ run' \in RunState /\ run'.states = r.states /\ recorded' = r.states /\ recorded' \in Recorded
      /\ run'.at = "items" /\ run'.stage = "repositories" /\ run'.todo = run.todo
      /\ run'.gathered = run.gathered /\ run'.pending = {} /\ known' = known
  BY <1>2, <1>3, <1>6, SaveFacts
<1>8. run'.states["expansion"] = "failed" /\ \A s \in Stages \ {"expansion"} : run'.states[s] = run.states[s]
  BY <1>3, <1>6, <1>7, Names, StateOfStage
<1>9. \A s \in unwell' : recorded'[s] # "completed"
  BY <1>1, <1>2, <1>3, <1>7, <1>8 DEF DiscoveryInv, UnwellIsMarked, Bad
<1>10. "expansion" \notin run'.todo /\ "expansion" \in Stages \ {"correlation"}
  BY <1>3, <1>7, Names, ToolNames DEF RunState
<1>11. run'.states["repositories"] = "running"
  BY <1>1, <1>8, Names
<1>. QED
  BY <1>1, <1>2, <1>3, <1>4, <1>7, <1>8, <1>9, <1>10, <1>11, FailKeepsInv

\* A step that saves the run with one record replaced, of a stage that did
\* not fail.
LEMMA StageKeepsInv ==
  ASSUME DiscoveryInv, NEW r \in RunState, Save(r), UNCHANGED <<scanJob, unwell>>,
         listed' \subseteq Subdomains, run.at \notin {"idle", "started", "expanding"},
         NEW stage \in Stages \ (unwell \union {"expansion"}), NEW state \in StageState,
         r.states = [run.states EXCEPT ![stage] = state],
         r.todo = run.todo, r.gathered = run.gathered, run.pending \subseteq r.pending,
         \/ r.at \in {"next", "ended"}
         \/ /\ r.stage = stage /\ state = "running"
            /\ <<r.at, stage>> \in {<<"items", "repositories">>, <<"searching", "search">>,
                                    <<"correlating", "correlation">>}
  PROVE  DiscoveryInv'
<1>1. /\ run.states \in Recorded /\ unwell \subseteq Stages
      /\ Within(run.gathered, known \union run.pending)
  BY AtWork DEF DiscoveryInv, MemoryIsStored
<1>2. r.states[stage] = state /\ \A s \in Stages \ {stage} : r.states[s] = run.states[s]
  BY <1>1, StateOfStage
<1>3. Within(r.gathered, known \union r.pending)
  BY <1>1 DEF Within
<1>4. \A s \in unwell \ {"expansion"} : r.states[s] = run.states[s]
  BY <1>1, <1>2
<1>5. "expansion" \in unwell => r.states["expansion"] = "failed"
  BY <1>1, <1>2 DEF DiscoveryInv, UnwellIsMarked
<1>6. /\ r.at \notin {"idle", "started", "ingested", "tool", "expanding"}
      /\ r.at = "items" => r.stage = "repositories" /\ r.states["repositories"] = "running"
      /\ r.at = "searching" => r.stage = "search" /\ r.states["search"] = "running"
      /\ r.at = "correlating" => r.stage = "correlation"
  BY <1>2
<1>. QED
  BY <1>3, <1>4, <1>5, <1>6, SaveKeepsInv

\* How a stage ends is one of the records of a stage.
LEMMA EndedIsState == \A previous : Ended(previous) \in StageState
BY DEF Ended, StageState

\* A tool that ended well: what it found is stored with the end.
LEMMA CompleteToolKeepsInv == DiscoveryInv /\ CompleteTool => DiscoveryInv'
<1>. SUFFICES ASSUME DiscoveryInv, CompleteTool PROVE DiscoveryInv'
  OBVIOUS
<1>. DEFINE r == ClosedStage(run, "next")
<1>1. run.at = "ingested" /\ Save(r) /\ UNCHANGED <<scanJob, unwell>>
      /\ listed' = run.gathered.domains \ {RootDomain}
  BY DEF CompleteTool
<1>2. run \in RunState /\ run.gathered \in Gathered
  BY AtWork
<1>3. run.stage \in Stages \ (unwell \union {"expansion"})
  BY <1>1, ToolNames DEF DiscoveryInv, StageIsOpen
<1>4. Closes(r, run, "next")
  BY <1>2, <1>3, ClosedFacts
<1>. HIDE DEF r
<1>5. listed' \subseteq Subdomains
  BY <1>1, <1>2 DEF Gathered, Hosts
<1>6. /\ r \in RunState /\ r.states = [run.states EXCEPT ![run.stage] = Ended(run.previous)]
      /\ r.todo = run.todo /\ r.gathered = run.gathered /\ r.pending = run.pending /\ r.at = "next"
  BY <1>4 DEF Closes, Differs
<1>. QED
  BY <1>1, <1>3, <1>5, <1>6, EndedIsState, StageKeepsInv

\* The repositories, the search and the correlation: each is opened and
\* ends as one record of the run.
LEMMA OpenStageKeepsInv == DiscoveryInv /\ (StartOwner \/ Search \/ Correlate) => DiscoveryInv'
<1>. SUFFICES ASSUME DiscoveryInv, StartOwner \/ Search \/ Correlate PROVE DiscoveryInv'
  OBVIOUS
<1>1. run.at = "next" /\ UNCHANGED <<scanJob, listed, unwell>>
  BY DEF StartOwner, Search, Correlate
<1>2. DiscoveryTypeOK /\ run \in RunState
  BY AtWork
<1>3. ASSUME NEW stage \in Stages \ (unwell \union {"expansion"}), NEW at \in RunAt,
             <<at, stage>> \in {<<"items", "repositories">>, <<"searching", "search">>,
                                <<"correlating", "correlation">>},
             Save(Opened(run, stage, at))
      PROVE  DiscoveryInv'
  <2>. DEFINE r == Opened(run, stage, at)
  <2>1. Opens(r, run, stage, at) /\ Save(r)
    BY <1>2, <1>3, OpenedFacts
  <2>. HIDE DEF r
  <2>2. /\ r \in RunState /\ r.states = [run.states EXCEPT ![stage] = "running"] /\ r.stage = stage
        /\ r.todo = run.todo /\ r.gathered = run.gathered /\ r.pending = run.pending /\ r.at = at
    BY <2>1 DEF Opens, Differs
  <2>3. listed' \subseteq Subdomains /\ "running" \in StageState
    BY <1>1, <1>2 DEF DiscoveryTypeOK, StageState
  <2>. QED
    BY <1>1, <1>3, <2>1, <2>2, <2>3, StageKeepsInv
<1>4. \A s \in Stages : run.states[s] = "queued" => s \notin unwell \/ s = "expansion"
  BY <1>1 DEF DiscoveryInv, UnwellIsMarked, Bad
<1>5. "correlation" \notin unwell
  BY <1>1 DEF DiscoveryInv, UnwellIsMarked
<1>6. CASE StartOwner
  <2>1. "repositories" \in Stages \ (unwell \union {"expansion"}) /\ "items" \in RunAt
    BY <1>4, <1>6, Names DEF StartOwner, RunAt
  <2>2. Save(Opened(run, "repositories", "items"))
    BY <1>6 DEF StartOwner
  <2>. QED
    BY <1>3, <2>1, <2>2
<1>7. CASE Search
  <2>1. "search" \in Stages \ (unwell \union {"expansion"}) /\ "searching" \in RunAt
    BY <1>4, <1>7, Names DEF Search, RunAt
  <2>2. Save(Opened(run, "search", "searching"))
    BY <1>7 DEF Search
  <2>. QED
    BY <1>3, <2>1, <2>2
<1>8. CASE Correlate
  <2>1. "correlation" \in Stages \ (unwell \union {"expansion"}) /\ "correlating" \in RunAt
    BY <1>5, Names DEF RunAt
  <2>2. Save(Opened(run, "correlation", "correlating"))
    BY <1>8 DEF Correlate
  <2>. QED
    BY <1>3, <2>1, <2>2
<1>. QED
  BY <1>6, <1>7, <1>8

\* The repositories, the search and the correlation end.
LEMMA CloseStageKeepsInv ==
  DiscoveryInv /\ (CompleteOwner \/ CompleteSearch \/ CompleteCorrelation) => DiscoveryInv'
<1>. SUFFICES ASSUME DiscoveryInv, CompleteOwner \/ CompleteSearch \/ CompleteCorrelation
              PROVE  DiscoveryInv'
  OBVIOUS
<1>1. run.at \in {"items", "searching", "correlating"} /\ UNCHANGED <<scanJob, listed, unwell>>
  BY DEF CompleteOwner, CompleteSearch, CompleteCorrelation
<1>2. DiscoveryTypeOK /\ run \in RunState /\ listed \subseteq Subdomains /\ run.pending = {}
  BY <1>1, AtWork DEF DiscoveryTypeOK
<1>3. run.stage \in Stages \ (unwell \union {"expansion"})
  BY <1>1, Names DEF DiscoveryInv, StageIsOpen, UnwellIsMarked, Bad
<1>4. ASSUME NEW at \in {"next", "ended"}, NEW pending \in SUBSET Hosts,
             Save([ClosedStage(run, at) EXCEPT !.pending = pending])
      PROVE  DiscoveryInv'
  <2>. DEFINE m == ClosedStage(run, at)
              r == [m EXCEPT !.pending = pending]
  <2>1. Closes(m, run, at) /\ Save(r)
    BY <1>2, <1>3, <1>4, ClosedFacts
  <2>. HIDE DEF m
  <2>2. /\ r \in RunState /\ r.states = [run.states EXCEPT ![run.stage] = Ended(run.previous)]
        /\ r.todo = run.todo /\ r.gathered = run.gathered /\ r.at = at
    BY <2>1 DEF Closes, Differs, RunState
  <2>. HIDE DEF r
  <2>. QED
    BY <1>1, <1>2, <1>3, <1>4, <2>1, <2>2, EndedIsState, StageKeepsInv
<1>5. CASE CompleteOwner \/ CompleteSearch
  <2>. DEFINE m == ClosedStage(run, "next")
  <2>1. Save(m)
    BY <1>5 DEF CompleteOwner, CompleteSearch
  <2>2. Closes(m, run, "next")
    BY <1>2, <1>3, ClosedFacts
  <2>. HIDE DEF m
  <2>3. [m EXCEPT !.pending = {}] = m
    BY <1>2, <2>2 DEF Closes, Differs, RunState
  <2>. USE DEF m
  <2>4. Save([ClosedStage(run, "next") EXCEPT !.pending = {}])
    BY <2>1, <2>3
  <2>. QED
    BY <1>4, <2>4
<1>6. CASE CompleteCorrelation
  <2>. DEFINE pending == IF run.selected \subseteq Tools THEN {RootDomain} \union listed ELSE {}
  <2>1. Save([ClosedStage(run, "ended") EXCEPT !.pending = pending])
    BY <1>6 DEF CompleteCorrelation
  <2>2. pending \in SUBSET Hosts
    BY <1>2 DEF Hosts
  <2>. HIDE DEF pending
  <2>. QED
    BY <1>4, <2>1, <2>2
<1>. QED
  BY <1>5, <1>6

\* A repository of the owner is stored; its contributors may follow.
LEMMA NextItemKeepsInv == DiscoveryInv /\ NextItem => DiscoveryInv'
<1>. SUFFICES ASSUME DiscoveryInv, NextItem PROVE DiscoveryInv'
  OBVIOUS
<1>. DEFINE k == [run EXCEPT !.items = @ + 1]
<1>1. run.at = "items" /\ run.items < MaxItems /\ UNCHANGED <<scanJob, listed, unwell>>
      /\ run.stage = "repositories" /\ run.states["repositories"] = "running"
      /\ (Save(Opened(k, "expansion", "expanding")) \/ Save(k))
  BY DEF NextItem, DiscoveryInv, StageIsOpen
<1>2. /\ DiscoveryTypeOK /\ run \in RunState /\ run.states \in Recorded /\ run.pending = {}
      /\ Within(run.gathered, known) /\ unwell \subseteq Stages /\ listed' \subseteq Subdomains
  BY <1>1, AtWork DEF DiscoveryTypeOK
<1>3. /\ k \in RunState /\ k.states = run.states /\ k.at = "items" /\ k.stage = "repositories"
      /\ k.todo = run.todo /\ k.gathered = run.gathered /\ k.pending = {}
  <2>1. run.items \in 0..MaxItems /\ MaxItems \in Nat
    BY <1>2, DiscoveryAssumption DEF RunState
  <2>2. run.items + 1 \in 0..MaxItems
    BY <1>1, <2>1
  <2>. QED
    BY <1>1, <1>2, <2>2 DEF RunState
<1>. HIDE DEF k
<1>4. Within(k.gathered, known \union {})
  BY <1>2, <1>3
<1>5. "expansion" \in unwell => run.states["expansion"] = "failed"
  BY <1>1 DEF DiscoveryInv, UnwellIsMarked
<1>6. CASE Save(k)
  BY <1>1, <1>2, <1>3, <1>4, <1>5, <1>6, SaveKeepsInv
<1>7. CASE Save(Opened(k, "expansion", "expanding"))
  <2>. DEFINE r == Opened(k, "expansion", "expanding")
  <2>1. Opens(r, k, "expansion", "expanding") /\ Save(r)
    BY <1>3, <1>7, Names, OpenedFacts DEF RunAt
  <2>. HIDE DEF r
  <2>2. /\ r \in RunState /\ r.states = [run.states EXCEPT !["expansion"] = "running"]
        /\ r.stage = "expansion" /\ r.at = "expanding" /\ r.previous = run.states["expansion"]
        /\ r.todo = run.todo /\ r.gathered = run.gathered /\ r.pending = {}
    BY <1>3, <2>1 DEF Opens, Differs
  <2>3. r.states["expansion"] = "running" /\ \A s \in Stages \ {"expansion"} : r.states[s] = run.states[s]
    BY <1>2, <2>2, Names, StateOfStage
  <2>4. r.states["repositories"] = "running" /\ \A s \in unwell \ {"expansion"} : r.states[s] = run.states[s]
    BY <1>1, <1>2, <2>3, Names
  <2>5. Within(r.gathered, known \union r.pending)
    BY <1>3, <1>4, <2>2
  <2>. QED
    BY <1>1, <1>2, <1>5, <2>1, <2>2, <2>3, <2>4, <2>5, SaveKeepsInv
<1>. QED
  BY <1>1, <1>6, <1>7

\* The contributors of a repository are stored.
LEMMA CompleteExpansionKeepsInv == DiscoveryInv /\ CompleteExpansion => DiscoveryInv'
<1>. SUFFICES ASSUME DiscoveryInv, CompleteExpansion PROVE DiscoveryInv'
  OBVIOUS
<1>1. run.at = "expanding" /\ UNCHANGED <<scanJob, listed, unwell>>
      /\ run.stage = "expansion" /\ run.states["repositories"] = "running"
  BY DEF CompleteExpansion, DiscoveryInv, StageIsOpen
<1>2. /\ DiscoveryTypeOK /\ run \in RunState /\ run.states \in Recorded
      /\ Within(run.gathered, known) /\ unwell \subseteq Stages /\ listed' \subseteq Subdomains
  BY <1>1, AtWork DEF DiscoveryTypeOK
<1>. DEFINE m == ClosedStage(run, "items")
<1>3. PICK found \in SUBSET Subdomains :
        Save([m EXCEPT !.stage = "repositories", !.previous = "queued", !.pending = found])
  BY DEF CompleteExpansion
<1>. DEFINE r == [m EXCEPT !.stage = "repositories", !.previous = "queued", !.pending = found]
<1>4. Closes(m, run, "items")
  BY <1>1, <1>2, Names, ClosedFacts
<1>. HIDE DEF m
<1>5. /\ r \in RunState /\ r.states = [run.states EXCEPT !["expansion"] = Ended(run.previous)]
      /\ r.stage = "repositories" /\ r.at = "items"
      /\ r.todo = run.todo /\ r.gathered = run.gathered
  BY <1>1, <1>4, Names DEF Closes, Differs, RunState, StageState, Hosts
<1>6. Save(r)
  BY <1>3
<1>. HIDE DEF r
<1>7. r.states["expansion"] = Ended(run.previous) /\ \A s \in Stages \ {"expansion"} : r.states[s] = run.states[s]
  BY <1>2, <1>5, Names, StateOfStage
<1>8. r.states["repositories"] = "running" /\ \A s \in unwell \ {"expansion"} : r.states[s] = run.states[s]
  BY <1>1, <1>2, <1>7, Names
<1>9. "expansion" \in unwell => r.states["expansion"] = "failed"
  BY <1>1, <1>7 DEF DiscoveryInv, UnwellIsMarked, Ended
<1>10. Within(r.gathered, known \union r.pending)
  BY <1>2, <1>5 DEF Within
<1>. QED
  BY <1>1, <1>2, <1>5, <1>6, <1>8, <1>9, <1>10, SaveKeepsInv

\* The ways a run ends.
LEMMA EndStepKeepsInv ==
  DiscoveryInv /\ (EndRun \/ FailRun \/ CancelDiscovery \/ AbortRun \/ Die) => DiscoveryInv'
<1>. SUFFICES ASSUME DiscoveryInv, EndRun \/ FailRun \/ CancelDiscovery \/ AbortRun \/ Die
              PROVE  DiscoveryInv'
  OBVIOUS
<1>1. /\ DiscoveryTypeOK /\ run.states \in Recorded /\ recorded \in Recorded /\ unwell \subseteq Stages
      /\ \A s \in unwell : recorded[s] # "completed"
  BY AtWork DEF DiscoveryInv, DiscoveryTypeOK, FailureIsRemembered
<1>2. run.at # "idle" /\ run' = Idling /\ UNCHANGED <<known, listed>>
  BY DEF EndRun, FailRun, CancelDiscovery, AbortRun, Die, EndJob
<1>3. run.at \notin {"idle", "started", "next", "ended"} => run.stage \in Stages
  BY AtWork, Names, ToolNames DEF DiscoveryInv, StageIsOpen, RunState
<1>4. \A s \in unwell : (run.at = "expanding" /\ s = "expansion") \/ run.states[s] # "completed"
  BY <1>2 DEF DiscoveryInv, UnwellIsMarked, Bad
<1>5. ASSUME NEW state \in {"failed", "cancelled"}, recorded' = [run.states EXCEPT ![run.stage] = state],
             run.at \notin {"started", "next", "ended"}, unwell' \subseteq unwell \union {run.stage}
      PROVE  recorded' \in Recorded /\ \A s \in unwell' : recorded'[s] # "completed"
  <2>1. recorded' \in Recorded
    BY <1>1, <1>2, <1>3, <1>5 DEF Recorded, StageState
  <2>2. recorded'[run.stage] = state /\ \A s \in Stages \ {run.stage} : recorded'[s] = run.states[s]
    BY <1>1, <1>2, <1>3, <1>5, StateOfStage
  <2>3. run.at = "expanding" => run.stage = "expansion"
    BY DEF DiscoveryInv, StageIsOpen
  <2>. QED
    BY <1>1, <1>4, <1>5, <2>1, <2>2, <2>3
<1>6. CASE EndRun
  BY <1>1, <1>2, <1>6, EndKeepsInv DEF EndRun, EndJob
<1>7. CASE FailRun
  <2>1. unwell' = unwell \union {run.stage} /\ scanJob' = "failed" /\ run.stage \in Stages
        /\ recorded' = [run.states EXCEPT ![run.stage] = "failed"]
        /\ run.at \notin {"started", "next", "ended"}
    BY <1>3, <1>7 DEF FailRun, EndJob
  <2>2. recorded' \in Recorded /\ \A s \in unwell' : recorded'[s] # "completed"
    BY <1>5, <2>1
  <2>. QED
    BY <1>1, <1>2, <2>1, <2>2, EndKeepsInv
<1>8. CASE CancelDiscovery
  <2>1. unwell' = unwell /\ scanJob' = "cancelled"
    BY <1>8 DEF CancelDiscovery, EndJob
  <2>2. recorded' \in Recorded /\ \A s \in unwell' : recorded'[s] # "completed"
    BY <1>1, <1>5, <1>8, <2>1 DEF CancelDiscovery
  <2>. QED
    BY <1>1, <1>2, <2>1, <2>2, EndKeepsInv
<1>9. CASE AbortRun
  BY <1>1, <1>2, <1>9, EndKeepsInv DEF AbortRun, EndJob
<1>10. CASE Die
  <2>1. scanJob' = scanJob /\ unwell' = unwell /\ recorded' = recorded
    BY <1>10 DEF Die
  <2>2. scanJob' = "completed" => unwell' = {}
    BY <2>1 DEF DiscoveryInv, FailureIsRemembered
  <2>. QED
    BY <1>1, <1>2, <2>1, <2>2, EndKeepsInv DEF DiscoveryTypeOK
<1>. QED
  BY <1>6, <1>7, <1>8, <1>9, <1>10

\* Every step of discovery preserves the invariant.
LEMMA DiscoveryStep == DiscoveryInv /\ [DiscoveryNext]_discoveryVars => DiscoveryInv'
<1>1. ASSUME DiscoveryInv, UNCHANGED discoveryVars PROVE DiscoveryInv'
  BY <1>1 DEF DiscoveryInv, DiscoveryTypeOK, MemoryIsStored, StageIsOpen, UnwellIsMarked,
       InputsAreStored, FailureIsRemembered, discoveryVars
<1>2. ASSUME DiscoveryInv, NEW s \in Selections \union {{"repositories"}, OwnerStages}, StartJob(s)
      PROVE  DiscoveryInv'
  BY <1>2, StartJobKeepsInv
<1>. QED
  BY <1>1, <1>2, PlanKeepsInv, BlockKeepsInv, StartToolKeepsInv, ToolRanKeepsInv, CompleteToolKeepsInv,
     FailToolKeepsInv, OpenStageKeepsInv, NextItemKeepsInv, CompleteExpansionKeepsInv,
     FailExpansionKeepsInv, CloseStageKeepsInv, EndStepKeepsInv DEF DiscoveryNext

\* The inductive invariant of discovery runs holds in every reachable state,
\* for any domain, any subdomains and any number of items of an owner.
THEOREM DiscoveryInvariance == DiscoverySpec => []DiscoveryInv
BY DiscoveryInitially, DiscoveryStep, PTL DEF DiscoverySpec

\* A tool of the pipeline (pipeline._run) only ever runs on names the database
\* holds: names a failed or rolled back stage brought up are not probed.
THEOREM InputsAreAlwaysStored == DiscoverySpec => []InputsAreStored
<1>1. DiscoveryInv => InputsAreStored
  BY DEF DiscoveryInv
<1>. QED
  BY <1>1, DiscoveryInvariance, PTL

\* A stage that failed once in a run (DiscoveryProgress.stage) is never recorded
\* as completed later, and the job of such a run never completes.
THEOREM FailuresAreRemembered == DiscoverySpec => []FailureIsRemembered
<1>1. DiscoveryInv => FailureIsRemembered
  BY DEF DiscoveryInv
<1>. QED
  BY <1>1, DiscoveryInvariance, PTL

-----------------------------------------------------------------------------
(* DomainDiscovery: sessions that ask providers, search and expand.        *)

\* The fields of a session and of its search.
SessionFields(s) ==
  /\ DOMAIN s = {"at", "plan", "todo", "read", "own", "files", "relates", "refers", "search", "deferred"}
  /\ DOMAIN s.search = {"status", "query", "page", "verified", "answered"}

\* How a search stands.
SearchStatus == {"none", "running", "completed", "failed"}

\* What a session references was public; hosts are hosts of the domain.
SessionTypeOK(s) ==
  /\ SessionFields(s)
  /\ s.at \in {"idle", "next", "asked", "searching", "expanding", "failing"}
  /\ \A f \in s.refers : f.public
  /\ s.read \subseteq HostNames /\ (s.own # Unwritten => s.own \subseteq HostNames)
  /\ s.search.status \in SearchStatus

\* A search answered the queries before the one it is at; one that ended
\* well answered them all, and a deferred failure is that of a search asked
\* for by itself.
SearchOK(s) ==
  /\ s.search.status = "running" <=> s.at = "searching"
  /\ s.at = "searching" =>
       /\ s.search.query \in 1..Len(SearchQueries) + 1
       /\ s.search.answered = 1..s.search.query - 1
  /\ s.search.status = "completed" => s.search.answered = DOMAIN SearchQueries
  /\ s.deferred => s.search.status = "failed" /\ s.todo = <<>>

\* What is left of the agenda of a plan for one provider.
AgendaOK(s) ==
  /\ s.at \in {"next", "asked", "searching"} /\ s.plan \notin Aggregates => s.todo \in {<<>>, <<s.plan>>}
  /\ s.at = "asked" => s.todo # <<>> /\ Head(s.todo) # "github-search"
  /\ s.at = "searching" => s.todo # <<>> 
  /\ s.at = "next" /\ s.plan = "github-search" =>
       s.todo = <<s.plan>> \/ s.search.status = "completed" \/ s.deferred

\* What holds of every session, alone or not.
SessionOK(s) == SessionTypeOK(s) /\ SearchOK(s) /\ AgendaOK(s)

\* The fields of what an ended session leaves.
VerdictFields(v) == DOMAIN v = {"plan", "job", "search", "answered", "kept"}

\* The hosts a session sees as present, when the committed ones are these.
View(s, present) == IF s.own = Unwritten THEN present ELSE s.own

\* A session alone at work sees what is stored, and stores what adds up.
SessionAddsUp(s, present, related) ==
  /\ present \subseteq View(s, present)
  /\ s.files \subseteq View(s, present)
  /\ s.at = "asked" => s.read = View(s, present)
  /\ \A p \in s.relates \intersect Correlators : related[p] = 0

\* As long as no two sessions overlapped, one works at a time and adds up.
OneAtATime ==
  /\ \A v, w \in Investigators : Inquiring(v) /\ Inquiring(w) => v = w
  /\ \A w \in Investigators : Inquiring(w) => SessionAddsUp(inquiry[w], subdomains, correlated)

\* Type correctness of the sessions and of the stored rows.
LegacyTypeOK ==
  /\ DOMAIN inquiry = Investigators /\ DOMAIN verdict = Investigators
  /\ subdomains \subseteq HostNames
  /\ correlated \in [Correlators -> Nat]
  /\ \A w \in Investigators : SessionOK(inquiry[w]) /\ VerdictFields(verdict[w])

\* The inductive invariant of legacy discovery.
LegacyInv ==
  /\ LegacyTypeOK /\ OnlyPublicIsStored /\ CutSearchIsFailed /\ InquiriesAddUp
  /\ ~overlapped => OneAtATime

\* Three values make a sequence.
LEMMA ThreeInARow == ASSUME NEW S, NEW a \in S, NEW b \in S, NEW c \in S PROVE <<a, b, c>> \in Seq(S)
OBVIOUS

\* The queries of a search are a sequence.
LEMMA QueriesType ==
  /\ Len(SearchQueries) \in Nat
  /\ DOMAIN SearchQueries = 1..Len(SearchQueries)
<1>. DEFINE Kind == {"repositories", "code", "issues"}
             first == <<"repositories", "code", "issues">>
             more == [i \in 1..SensitiveNames |-> "code"]
<1>1. SensitiveNames \in Nat
  BY DomainDiscoveryAssumption
<1>2. more \in Seq(Kind)
  BY <1>1, SeqDef
<1>3. first \in Seq(Kind)
  <2>1. "repositories" \in Kind /\ "code" \in Kind /\ "issues" \in Kind
    OBVIOUS
  <2>. HIDE DEF Kind
  <2>. QED
    BY <2>1, ThreeInARow
<1>4. first \o more \in Seq(Kind)
  BY <1>2, <1>3
<1>5. SearchQueries \in Seq(Kind)
  BY <1>4 DEF SearchQueries
<1>. HIDE DEF Kind
<1>. QED
  BY <1>5, LenProperties

\* A session at rest.
LEMMA RestIsOK ==
  /\ SessionOK(AtRest)
  /\ \A p : SessionOK([AtRest EXCEPT !.at = "failing", !.plan = p])
  /\ AtRest.at = "idle"
BY DEF SessionOK, SessionTypeOK, SessionFields, SearchOK, AgendaOK, AtRest, NoSearch, SearchStatus, Unwritten

\* No session is at work and nothing is stored at the start.
LEMMA LegacyInitially == LegacyInit => LegacyInv
<1>. SUFFICES ASSUME LegacyInit PROVE LegacyInv
  OBVIOUS
<1>1. LegacyTypeOK
  <2>1. VerdictFields(NoRows)
    BY DEF VerdictFields, NoRows
  <2>2. correlated \in [Correlators -> Nat]
    BY DEF LegacyInit
  <2>. QED
    BY <2>1, <2>2, RestIsOK DEF LegacyInit, LegacyTypeOK
<1>2. OnlyPublicIsStored /\ InquiriesAddUp
  BY DEF LegacyInit, OnlyPublicIsStored, InquiriesAddUp
<1>4. \A w \in Investigators : ~Inquiring(w)
  BY RestIsOK DEF LegacyInit, Inquiring
<1>3. CutSearchIsFailed
  BY DEF LegacyInit, CutSearchIsFailed, NoRows
<1>. QED
  BY <1>1, <1>2, <1>3, <1>4 DEF LegacyInv, OneAtATime

\* A step of a session that stores nothing: it needs the new session only.
LEMMA SessionStep ==
  ASSUME LegacyInv, NEW w \in Investigators, Inquiring(w), NEW s,
         SessionOK(s), Goes(w, s), UNCHANGED <<tables, verdict, overlapped>>,
         s.at = "idle" \/ (SessionAddsUp(inquiry[w], subdomains, correlated)
                             => SessionAddsUp(s, subdomains, correlated))
  PROVE  LegacyInv'
<1>1. /\ DOMAIN inquiry' = Investigators /\ inquiry'[w] = s
      /\ \A v \in Investigators : v # w => inquiry'[v] = inquiry[v]
  BY DEF Goes, LegacyInv, LegacyTypeOK
<1>2. LegacyTypeOK'
  BY <1>1 DEF LegacyInv, LegacyTypeOK, tables
<1>3. ~overlapped => OneAtATime'
  BY <1>1 DEF LegacyInv, OneAtATime, Inquiring, tables
<1>. QED
  BY <1>2, <1>3 DEF LegacyInv, OnlyPublicIsStored, CutSearchIsFailed, InquiriesAddUp, tables

\* What the providers answer: hosts of the domain, and exposures of hosts
\* that are present or will be.
LEMMA AnswersAreListed ==
  ASSUME NEW p, NEW present, NEW a \in AnswersOf(p, present)
  PROVE  a.lists \subseteq HostNames /\ a.files \subseteq present \union a.lists
<1>. USE DEF Answer
<1>1. CASE p = "local-metadata"
  <2>1. a \in LocalMetadata
    BY <1>1, Zenon DEF AnswersOf
  <2>. QED
    BY <2>1 DEF LocalMetadata
<1>2. CASE p = "crtsh"
  <2>1. a \in CrtSh
    BY <1>2, Zenon DEF AnswersOf
  <2>. QED
    BY <2>1 DEF CrtSh, Raised
<1>3. CASE p = "projectdiscovery"
  <2>1. a \in ProjectDiscovery
    BY <1>3, Zenon DEF AnswersOf
  <2>. QED
    BY <2>1 DEF ProjectDiscovery, Raised, Nothing
<1>4. CASE p = "dns"
  <2>1. a \in Dns(present)
    BY <1>4, Zenon DEF AnswersOf
  <2>. QED
    BY <2>1 DEF Dns
<1>5. CASE p \notin {"local-metadata", "crtsh", "projectdiscovery", "dns"}
  <2>1. a \in Whois \union SecurityTxt \union Hibp \union DeHashed \union IntelligenceX
    BY <1>5, Zenon DEF AnswersOf
  <2>. QED
    BY <2>1 DEF Whois, SecurityTxt, Hibp, DeHashed, IntelligenceX, Raised, Nothing
<1>. QED
  BY <1>1, <1>2, <1>3, <1>4, <1>5

\* The status of a job that is rolled back.
LEMMA RollBackKeepsInv ==
  ASSUME LegacyInv, NEW w \in Investigators, NEW status \in {"failed", "cancelled"}, RollBack(w, status)
  PROVE  LegacyInv'
<1>1. /\ DOMAIN inquiry' = Investigators /\ inquiry'[w] = AtRest
      /\ \A v \in Investigators : v # w => inquiry'[v] = inquiry[v]
  BY DEF RollBack, Goes, LegacyInv, LegacyTypeOK
<1>2. /\ DOMAIN verdict' = Investigators
      /\ \A v \in Investigators :
           /\ VerdictFields(verdict'[v]) /\ verdict'[v].search = verdict[v].search
           /\ verdict'[v].answered = verdict[v].answered /\ verdict'[v].plan = verdict[v].plan
           /\ verdict'[v].kept = verdict[v].kept
           /\ verdict'[v].job = verdict[v].job \/ (verdict[v].job = "running" /\ verdict'[v].job = status)
  BY DEF RollBack, LegacyInv, LegacyTypeOK, VerdictFields
<1>3. LegacyTypeOK'
  BY <1>1, <1>2, RestIsOK DEF RollBack, LegacyInv, LegacyTypeOK, tables
<1>4. ~overlapped' => OneAtATime'
  BY <1>1, RestIsOK DEF RollBack, LegacyInv, OneAtATime, Inquiring, tables
<1>5. CutSearchIsFailed'
  BY <1>2 DEF LegacyInv, CutSearchIsFailed
<1>. QED
  BY <1>3, <1>4, <1>5 DEF RollBack, LegacyInv, OnlyPublicIsStored, InquiriesAddUp, tables

\* A search that ends, well or not.
LEMMA EndedSearchIsOK ==
  ASSUME NEW s, SessionOK(s), s.at = "searching", NEW status \in {"completed", "failed"},
         status = "completed" => s.search.query \notin DOMAIN SearchQueries
  PROVE  SessionOK(SearchEnded(s, status))
<1>. DEFINE t == SearchEnded(s, status)
<1>1. /\ SessionFields(t) /\ t.at = "next" /\ t.plan = s.plan /\ t.todo = Tail(s.todo)
      /\ t.read = s.read /\ t.own = s.own /\ t.refers = s.refers
      /\ t.search.status = status /\ t.search.answered = s.search.answered
      /\ t.deferred = (status = "failed" /\ s.plan \notin Aggregates)
  BY DEF SearchEnded, SessionOK, SessionTypeOK, SessionFields, Aggregated
<1>. HIDE DEF t
<1>2. s.plan \notin Aggregates => t.todo = <<>>
  <2>. SUFFICES ASSUME s.plan \notin Aggregates PROVE t.todo = <<>>
    OBVIOUS
  <2>1. s.todo = <<s.plan>>
    BY DEF SessionOK, AgendaOK
  <2>. QED
    BY <1>1, <2>1
<1>3. status = "completed" => s.search.answered = DOMAIN SearchQueries
  <2>. SUFFICES ASSUME status = "completed" PROVE s.search.answered = DOMAIN SearchQueries
    OBVIOUS
  <2>1. s.search.query = Len(SearchQueries) + 1
    BY QueriesType DEF SessionOK, SearchOK
  <2>. QED
    BY <2>1, QueriesType DEF SessionOK, SearchOK
<1>4. SessionTypeOK(t)
  BY <1>1 DEF SessionOK, SessionTypeOK, SearchStatus
<1>5. SearchOK(t)
  BY <1>1, <1>2, <1>3 DEF SearchOK
<1>6. "github-search" \notin Aggregates
  BY DEF Aggregates
<1>7. AgendaOK(t)
  BY <1>1, <1>2, <1>6 DEF AgendaOK
<1>. QED
  BY <1>4, <1>5, <1>7 DEF SessionOK, t

\* The next query.
LEMMA NextQueryIsOK ==
  ASSUME NEW s, SessionOK(s), s.at = "searching", s.search.query \in DOMAIN SearchQueries
  PROVE  SessionOK(NextQuery(s))
<1>. DEFINE t == NextQuery(s)
<1>1. /\ SessionFields(t) /\ t.at = "searching" /\ t.plan = s.plan /\ t.todo = s.todo
      /\ t.read = s.read /\ t.own = s.own /\ t.refers = s.refers
      /\ t.search.status = s.search.status /\ t.search.answered = s.search.answered \union {s.search.query}
      /\ t.search.query = s.search.query + 1
      /\ t.deferred = s.deferred
  BY DEF NextQuery, SessionOK, SessionTypeOK, SessionFields
<1>. HIDE DEF t
<1>2. s.search.query \in 1..Len(SearchQueries) /\ s.search.answered = 1..s.search.query - 1
      /\ s.search.status = "running"
  BY QueriesType DEF SessionOK, SearchOK
<1>3. t.search.answered = 1..t.search.query - 1 /\ t.search.query \in 1..Len(SearchQueries) + 1
  BY <1>1, <1>2, QueriesType
<1>4. SessionTypeOK(t)
  BY <1>1 DEF SessionOK, SessionTypeOK
<1>5. SearchOK(t)
  BY <1>1, <1>2, <1>3 DEF SessionOK, SearchOK
<1>6. AgendaOK(t)
  BY <1>1 DEF SessionOK, AgendaOK
<1>. QED
  BY <1>4, <1>5, <1>6 DEF SessionOK, t

\* What a page adds to a session.
LEMMA PageIsOK ==
  ASSUME NEW s, SessionOK(s), s.at = "searching", NEW found, NEW verified, NEW relates,
         \A f \in found : f.public
  PROVE  LET next == [s EXCEPT !.refers = @ \union found, !.search.verified = verified,
                               !.relates = relates]
         IN  /\ SessionOK(next) /\ next.at = "searching" /\ next.search.query = s.search.query
             /\ SessionOK([next EXCEPT !.search.page = @ + 1])
<1>. DEFINE next == [s EXCEPT !.refers = @ \union found, !.search.verified = verified, !.relates = relates]
            page == [next EXCEPT !.search.page = @ + 1]
<1>1. /\ SessionFields(next) /\ next.at = s.at /\ next.plan = s.plan /\ next.todo = s.todo
      /\ next.read = s.read /\ next.own = s.own /\ next.refers = s.refers \union found
      /\ next.search.status = s.search.status /\ next.search.answered = s.search.answered
      /\ next.search.query = s.search.query /\ next.deferred = s.deferred
  BY DEF SessionOK, SessionTypeOK, SessionFields
<1>. HIDE DEF next
<1>2. /\ SessionFields(page) /\ page.at = s.at /\ page.plan = s.plan /\ page.todo = s.todo
      /\ page.read = s.read /\ page.own = s.own /\ page.refers = s.refers \union found
      /\ page.search.status = s.search.status /\ page.search.answered = s.search.answered
      /\ page.search.query = s.search.query /\ page.deferred = s.deferred
  BY <1>1 DEF SessionFields
<1>. HIDE DEF page
<1>3. SessionOK(next)
  BY <1>1 DEF SessionOK, SessionTypeOK, SearchOK, AgendaOK
<1>4. SessionOK(page)
  BY <1>2 DEF SessionOK, SessionTypeOK, SearchOK, AgendaOK
<1>. QED
  BY <1>1, <1>3, <1>4 DEF next, page

\* A session that wrote nothing adds up.
LEMMA RestAddsUp ==
  ASSUME NEW present, NEW related, NEW p
  PROVE  SessionAddsUp([AtRest EXCEPT !.at = "failing", !.plan = p], present, related)
BY DEF SessionAddsUp, AtRest, View

\* What a session commits adds up, and is well typed.
LEMMA CommitsAddUp ==
  ASSUME LegacyInv, NEW w \in Investigators, Inquiring(w), Commits(inquiry[w])
  PROVE  /\ OnlyPublicIsStored'
         /\ subdomains' \subseteq HostNames /\ correlated' \in [Correlators -> Nat]
         /\ ~overlapped => filed' \subseteq subdomains' /\ \A p \in Correlators : correlated'[p] <= 1
<1>. DEFINE s == inquiry[w]
<1>1. SessionTypeOK(s) /\ subdomains \subseteq HostNames /\ correlated \in [Correlators -> Nat]
  BY DEF LegacyInv, LegacyTypeOK, SessionOK
<1>2. subdomains' = View(s, subdomains) /\ filed' = filed \union s.files /\ references' = references \union s.refers
  BY DEF Commits, View
<1>3. correlated' = [p \in Correlators |-> IF p \in s.relates THEN correlated[p] + 1 ELSE correlated[p]]
  BY DEF Commits
<1>. HIDE DEF s
<1>4. OnlyPublicIsStored'
  BY <1>1, <1>2 DEF LegacyInv, OnlyPublicIsStored, SessionTypeOK
<1>5. subdomains' \subseteq HostNames
  BY <1>1, <1>2 DEF SessionTypeOK, View
<1>6. correlated' \in [Correlators -> Nat]
  BY <1>1, <1>3
<1>7. ASSUME ~overlapped PROVE filed' \subseteq subdomains' /\ \A p \in Correlators : correlated'[p] <= 1
  <2>1. SessionAddsUp(s, subdomains, correlated)
    BY <1>7 DEF LegacyInv, OneAtATime, s
  <2>2. filed \subseteq subdomains /\ \A p \in Correlators : correlated[p] <= 1
    BY <1>7 DEF LegacyInv, InquiriesAddUp
  <2>3. filed' \subseteq subdomains'
    BY <1>2, <2>1, <2>2 DEF SessionAddsUp
  <2>4. ASSUME NEW p \in Correlators PROVE correlated'[p] <= 1
    <3>1. correlated[p] \in Nat /\ correlated[p] <= 1
      BY <1>1, <2>2
    <3>2. p \in s.relates => correlated[p] = 0
      BY <2>1 DEF SessionAddsUp
    <3>. QED
      BY <1>3, <3>1, <3>2
  <2>. QED
    BY <2>3, <2>4
<1>. QED
  BY <1>4, <1>5, <1>6, <1>7

\* A commit after which the session is at rest, or about to fail.
LEMMA CommitStep ==
  ASSUME LegacyInv, NEW w \in Investigators, Inquiring(w), Commits(inquiry[w]), NEW s,
         s = AtRest \/ \E p : s = [AtRest EXCEPT !.at = "failing", !.plan = p],
         Goes(w, s), overlapped' = overlapped,
         DOMAIN verdict' = Investigators, \A v \in Investigators : VerdictFields(verdict'[v]),
         CutSearchIsFailed'
  PROVE  LegacyInv'
<1>1. /\ DOMAIN inquiry' = Investigators /\ inquiry'[w] = s
      /\ \A v \in Investigators : v # w => inquiry'[v] = inquiry[v]
  BY DEF Goes, LegacyInv, LegacyTypeOK
<1>2. SessionOK(s) /\ (s.at = "idle" \/ SessionAddsUp(s, subdomains', correlated'))
  <2>1. CASE s = AtRest
    BY <2>1, RestIsOK
  <2>2. ASSUME NEW p, s = [AtRest EXCEPT !.at = "failing", !.plan = p]
        PROVE  SessionOK(s) /\ SessionAddsUp(s, subdomains', correlated')
    <3>1. SessionOK(s)
      BY <2>2, RestIsOK
    <3>2. \A present, related : SessionAddsUp([AtRest EXCEPT !.at = "failing", !.plan = p], present, related)
      BY RestAddsUp
    <3>. QED
      BY <2>2, <3>1, <3>2
  <2>. QED
    BY <2>1, <2>2
<1>3. LegacyTypeOK'
  BY <1>1, <1>2, CommitsAddUp DEF LegacyInv, LegacyTypeOK
<1>4. ~overlapped => OneAtATime'
  BY <1>1, <1>2 DEF LegacyInv, OneAtATime, Inquiring
<1>. QED
  BY <1>3, <1>4, CommitsAddUp DEF LegacyInv, InquiriesAddUp

\* What a session leaves on record when it ends.
LEMMA SettledVerdict ==
  ASSUME LegacyInv, NEW w \in Investigators, NEW job,
         verdict' = [verdict EXCEPT ![w] = Settled(inquiry[w], job)],
         inquiry[w].at = "next", inquiry[w].todo = <<>>,
         \/ job = "completed" /\ ~inquiry[w].deferred
         \/ job = "running" /\ inquiry[w].deferred
  PROVE  /\ DOMAIN verdict' = Investigators
         /\ \A v \in Investigators : VerdictFields(verdict'[v])
         /\ CutSearchIsFailed'
<1>. DEFINE s == inquiry[w]
<1>1. SessionOK(s) /\ DOMAIN verdict = Investigators /\ CutSearchIsFailed
      /\ \A v \in Investigators : VerdictFields(verdict[v])
  BY DEF LegacyInv, LegacyTypeOK
<1>2. /\ verdict'[w].search = s.search.status /\ verdict'[w].answered = s.search.answered
      /\ verdict'[w].job = job /\ verdict'[w].plan = s.plan /\ VerdictFields(verdict'[w])
      /\ DOMAIN verdict' = Investigators
      /\ \A v \in Investigators : v # w => verdict'[v] = verdict[v]
  BY <1>1 DEF Settled, VerdictFields
<1>3. s.search.status \in {"none", "completed", "failed"}
  BY <1>1 DEF SessionOK, SessionTypeOK, SearchOK, SearchStatus
<1>4. s.search.status = "completed" => s.search.answered = DOMAIN SearchQueries
  BY <1>1 DEF SessionOK, SearchOK
<1>5. job = "completed" /\ s.plan = "github-search" => s.search.status = "completed"
  BY <1>1 DEF SessionOK, AgendaOK
<1>6. job = "running" => s.search.status = "failed"
  BY <1>1 DEF SessionOK, SearchOK
<1>7. job \notin {"failed", "cancelled"}
  OBVIOUS
<1>. HIDE DEF s
<1>8. CutSearchIsFailed'
  BY <1>1, <1>2, <1>3, <1>4, <1>5, <1>6, <1>7 DEF CutSearchIsFailed
<1>. QED
  BY <1>1, <1>2, <1>8

\* An answer that is stored adds up.
LEMMA StoreAddsUp ==
  ASSUME LegacyInv, NEW w \in Investigators, inquiry[w].at = "asked",
         NEW a \in AnswersOf(Head(inquiry[w].todo), inquiry[w].read), Store(w, a)
  PROVE  LegacyInv'
<1>. DEFINE s == inquiry[w]
            listing == Listing(s.read, a.lists)
            writes == a.lists # {} /\ listing # s.read
            t == [s EXCEPT !.at = "next", !.todo = Tail(@), !.read = {},
                           !.own = IF writes THEN listing ELSE @,
                           !.files = @ \union a.files,
                           !.relates = IF a.relates THEN Relates(Head(s.todo), s) ELSE @]
<1>1. SessionOK(s) /\ correlated \in [Correlators -> Nat]
  BY DEF LegacyInv, LegacyTypeOK
<1>2. Goes(w, t) /\ UNCHANGED <<tables, verdict, overlapped>>
  BY DEF Store
<1>3. /\ SessionFields(t) /\ t.at = "next" /\ t.plan = s.plan /\ t.todo = Tail(s.todo) /\ t.read = {}
      /\ t.own = (IF writes THEN listing ELSE s.own) /\ t.files = s.files \union a.files
      /\ t.relates = (IF a.relates THEN Relates(Head(s.todo), s) ELSE s.relates)
      /\ t.refers = s.refers /\ t.search = s.search /\ t.deferred = s.deferred
  BY <1>1 DEF SessionOK, SessionTypeOK, SessionFields
<1>4. a.lists \subseteq HostNames /\ a.files \subseteq s.read \union a.lists
  BY AnswersAreListed
<1>5. listing = s.read \union a.lists /\ listing \subseteq HostNames
  BY <1>1, <1>4 DEF Listing, SessionOK, SessionTypeOK
<1>6. listing # Unwritten
  BY <1>5, DomainDiscoveryAssumption DEF Unwritten
<1>. HIDE DEF t, listing
<1>7. SessionTypeOK(t)
  BY <1>1, <1>3, <1>5 DEF SessionOK, SessionTypeOK
<1>8. ~s.deferred /\ s.search.status # "running"
  BY <1>1 DEF SessionOK, SearchOK, AgendaOK
<1>9. SearchOK(t)
  BY <1>1, <1>3, <1>8 DEF SessionOK, SearchOK
<1>10. s.plan \notin Aggregates => s.todo = <<s.plan>> /\ s.plan # "github-search" /\ t.todo = <<>>
  <2>. SUFFICES ASSUME s.plan \notin Aggregates
                PROVE  s.todo = <<s.plan>> /\ s.plan # "github-search" /\ t.todo = <<>>
    OBVIOUS
  <2>1. s.todo = <<s.plan>> /\ Head(s.todo) # "github-search"
    BY <1>1 DEF SessionOK, AgendaOK
  <2>. QED
    BY <1>3, <2>1
<1>11. "github-search" \notin Aggregates
  BY DEF Aggregates
<1>12. AgendaOK(t)
  BY <1>3, <1>10, <1>11 DEF AgendaOK
<1>13. ASSUME SessionAddsUp(s, subdomains, correlated) PROVE SessionAddsUp(t, subdomains, correlated)
  <2>1. s.read = View(s, subdomains) /\ subdomains \subseteq s.read /\ s.files \subseteq s.read
    BY <1>13 DEF SessionAddsUp
  <2>2. View(t, subdomains) = IF writes THEN listing ELSE s.read
    BY <1>3, <1>6, <2>1 DEF View
  <2>3. View(t, subdomains) = s.read \union a.lists
    BY <1>5, <2>2
  <2>4. \A p \in t.relates \intersect Correlators : correlated[p] = 0
    BY <1>1, <1>3, <1>13 DEF SessionAddsUp, Relates
  <2>. QED
    BY <1>3, <1>4, <2>1, <2>3, <2>4 DEF SessionAddsUp
<1>14. SessionOK(t)
  BY <1>7, <1>9, <1>12 DEF SessionOK
<1>. QED
  BY <1>2, <1>13, <1>14, SessionStep DEF Inquiring

\* A plan that starts.
LEMMA StartKeepsInv ==
  ASSUME LegacyInv, NEW w \in Investigators, StartInquiry(w)
  PROVE  LegacyInv'
<1>. PICK p \in LegacyPlans[w] :
       /\ Goes(w, [AtRest EXCEPT !.at = IF p \in Expansions THEN "expanding" ELSE "next",
                                 !.plan = p, !.todo = Agenda(p)])
       /\ verdict' = [verdict EXCEPT ![w] =
            [NoRows EXCEPT !.plan = p, !.job = IF p \in Expansions THEN "none" ELSE "running"]]
  BY DEF StartInquiry
<1>. DEFINE s == [AtRest EXCEPT !.at = IF p \in Expansions THEN "expanding" ELSE "next",
                                !.plan = p, !.todo = Agenda(p)]
<1>1. ~Inquiring(w) /\ UNCHANGED <<openness, tables>>
      /\ overlapped' = (overlapped \/ \E v \in Investigators : Inquiring(v))
  BY DEF StartInquiry
<1>2. p \notin Aggregates \union Expansions => Agenda(p) = <<p>>
  BY Zenon DEF Agenda, Aggregates, Expansions
<1>3. /\ SessionFields(s) /\ s.at = (IF p \in Expansions THEN "expanding" ELSE "next") /\ s.plan = p
      /\ s.todo = Agenda(p) /\ s.read = {} /\ s.own = Unwritten /\ s.files = {} /\ s.relates = {}
      /\ s.refers = {} /\ s.search = NoSearch /\ s.deferred = FALSE
  BY DEF AtRest, SessionFields, NoSearch
<1>. HIDE DEF s
<1>4. SessionTypeOK(s) /\ SearchOK(s)
  BY <1>3 DEF SessionTypeOK, SearchOK, SearchStatus, NoSearch
<1>5. "github-search" \notin Aggregates \union Expansions
  BY DEF Aggregates, Expansions
<1>6. AgendaOK(s)
  BY <1>2, <1>3, <1>5 DEF AgendaOK
<1>7. SessionAddsUp(s, subdomains, correlated)
  BY <1>3 DEF SessionAddsUp, View
<1>8. /\ DOMAIN inquiry' = Investigators /\ inquiry'[w] = s
      /\ \A v \in Investigators : v # w => inquiry'[v] = inquiry[v]
  BY DEF Goes, LegacyInv, LegacyTypeOK, s
<1>9. /\ DOMAIN verdict' = Investigators
      /\ \A v \in Investigators : v # w => verdict'[v] = verdict[v]
      /\ VerdictFields(verdict'[w]) /\ verdict'[w].search = "none" /\ verdict'[w].kept = FALSE
      /\ verdict'[w].job # "completed"
  BY DEF LegacyInv, LegacyTypeOK, NoRows, VerdictFields
<1>10. LegacyTypeOK'
  BY <1>1, <1>4, <1>6, <1>8, <1>9 DEF LegacyInv, LegacyTypeOK, SessionOK, tables
<1>11. CutSearchIsFailed'
  BY <1>9 DEF LegacyInv, CutSearchIsFailed
<1>12. ~overlapped' => OneAtATime'
  BY <1>1, <1>7, <1>8 DEF LegacyInv, OneAtATime, Inquiring, tables
<1>. QED
  BY <1>1, <1>10, <1>11, <1>12 DEF LegacyInv, OnlyPublicIsStored, InquiriesAddUp, tables

\* A reference to what the host shows as public is public.
LEMMA ShownIsPublic ==
  ASSUME NEW kind, NEW repo, openness[repo] = "public"
  PROVE  Reference(kind, repo).public
<1>1. (openness[repo] = "public") = TRUE
  OBVIOUS
<1>2. Reference(kind, repo) = [kind |-> kind, repo |-> repo, public |-> TRUE]
  BY <1>1, Zenon DEF Reference
<1>. QED
  BY <1>2

\* What a page stores references to was public, whatever its flags say.
LEMMA PersistedIsPublic ==
  ASSUME NEW w, NEW items \in SUBSET Items
  PROVE  \A f \in Persisted(w, items) : f.public
<1>. SUFFICES ASSUME NEW f \in Persisted(w, items) PROVE f.public
  OBVIOUS
<1>1. PICK item \in items : PublicVisibility(item) /\ f = Reference(Query(w), item.repo)
  BY DEF Persisted
<1>2. openness[item.repo] = "public"
  BY <1>1 DEF Items, PublicVisibility
<1>. QED
  BY <1>1, <1>2, ShownIsPublic

\* Every step of a search keeps the invariant.
LEMMA SearchKeepsInv ==
  ASSUME LegacyInv, NEW w \in Investigators,
         \/ BeginSearch(w) \/ SkipQuery(w) \/ SearchFails(w) \/ SearchPage(w) \/ CompleteSearchJob(w)
  PROVE  LegacyInv'
<1>. DEFINE s == inquiry[w]
<1>1. SessionOK(s) /\ correlated \in [Correlators -> Nat]
  BY DEF LegacyInv, LegacyTypeOK
<1>2. UNCHANGED <<tables, verdict, overlapped>>
  BY DEF BeginSearch, SkipQuery, SearchFails, SearchPage, CompleteSearchJob
<1>3. ASSUME NEW t, SessionOK(t), t.at # "asked", t.own = s.own, t.files = s.files,
             \A p \in (t.relates \ s.relates) \intersect Correlators : correlated[p] = 0,
             Inquiring(w), Goes(w, t)
      PROVE  LegacyInv'
  <2>1. SessionAddsUp(s, subdomains, correlated) => SessionAddsUp(t, subdomains, correlated)
    BY <1>3 DEF SessionAddsUp, View
  <2>. QED
    BY <1>2, <1>3, <2>1, SessionStep
<1>4. ASSUME NEW t, SessionOK(t), t.at = "searching", NEW status
      PROVE  /\ SearchEnded(t, status).at # "asked" /\ SearchEnded(t, status).own = t.own
             /\ SearchEnded(t, status).files = t.files /\ SearchEnded(t, status).relates = t.relates
             /\ NextQuery(t).at # "asked" /\ NextQuery(t).own = t.own
             /\ NextQuery(t).files = t.files /\ NextQuery(t).relates = t.relates
  BY <1>4 DEF SearchEnded, NextQuery, SessionOK, SessionTypeOK, SessionFields
<1>5. CASE BeginSearch(w)
  <2>. DEFINE t == [s EXCEPT !.at = "searching", !.search = [NoSearch EXCEPT !.status = "running"]]
  <2>1. s.at = "next" /\ s.todo # <<>> /\ Goes(w, t)
    BY <1>5 DEF BeginSearch
  <2>2. /\ SessionFields(t) /\ t.at = "searching" /\ t.plan = s.plan /\ t.todo = s.todo
        /\ t.read = s.read /\ t.own = s.own /\ t.refers = s.refers /\ t.files = s.files
        /\ t.relates = s.relates /\ t.deferred = s.deferred
        /\ t.search.status = "running" /\ t.search.query = 1 /\ t.search.answered = {}
    BY <1>1 DEF SessionOK, SessionTypeOK, SessionFields, NoSearch
  <2>. HIDE DEF t
  <2>3. SessionTypeOK(t)
    BY <1>1, <2>2 DEF SessionOK, SessionTypeOK, SearchStatus
  <2>4. ~s.deferred
    BY <1>1, <2>1 DEF SessionOK, SearchOK
  <2>5. 1 \in 1..Len(SearchQueries) + 1 /\ 1..1 - 1 = {}
    BY QueriesType
  <2>6. SearchOK(t)
    BY <2>2, <2>4, <2>5 DEF SearchOK
  <2>7. AgendaOK(t)
    BY <1>1, <2>1, <2>2 DEF SessionOK, AgendaOK
  <2>. QED
    BY <1>3, <2>1, <2>2, <2>3, <2>6, <2>7 DEF SessionOK, Inquiring
<1>6. CASE SkipQuery(w)
  <2>1. s.at = "searching" /\ s.search.query \in DOMAIN SearchQueries /\ Goes(w, NextQuery(s))
    BY <1>6 DEF SkipQuery, InSearch, SearchOf
  <2>2. SessionOK(NextQuery(s))
    BY <1>1, <2>1, NextQueryIsOK
  <2>. QED
    BY <1>1, <1>3, <1>4, <2>1, <2>2 DEF Inquiring
<1>7. CASE SearchFails(w)
  <2>1. s.at = "searching" /\ Goes(w, SearchEnded(s, "failed"))
    BY <1>7 DEF SearchFails, InSearch
  <2>2. SessionOK(SearchEnded(s, "failed"))
    BY <1>1, <2>1, EndedSearchIsOK
  <2>. QED
    BY <1>1, <1>3, <1>4, <2>1, <2>2 DEF Inquiring
<1>8. CASE CompleteSearchJob(w)
  <2>1. s.at = "searching" /\ s.search.query \notin DOMAIN SearchQueries
        /\ Goes(w, SearchEnded(s, "completed"))
    BY <1>8 DEF CompleteSearchJob, InSearch, SearchOf
  <2>2. SessionOK(SearchEnded(s, "completed"))
    BY <1>1, <2>1, EndedSearchIsOK
  <2>. QED
    BY <1>1, <1>3, <1>4, <2>1, <2>2 DEF Inquiring
<1>9. CASE SearchPage(w)
  <2>1. s.at = "searching" /\ s.search.query \in DOMAIN SearchQueries
    BY <1>9 DEF SearchPage, InSearch, SearchOf
  <2>2. PICK items \in SUBSET Items :
         LET found == Persisted(w, items)
             next == [s EXCEPT !.refers = @ \union found, !.search.verified = Verified(w, items),
                               !.relates = IF found = {} THEN @ ELSE Relates("github-search", s)]
         IN \/ Goes(w, Exhausted(next))
            \/ Goes(w, NextQuery(next))
            \/ s.search.page < MaxPages /\ Goes(w, [next EXCEPT !.search.page = @ + 1])
    BY <1>9 DEF SearchPage
  <2>. DEFINE found == Persisted(w, items)
              related == IF found = {} THEN s.relates ELSE Relates("github-search", s)
              next == [s EXCEPT !.refers = @ \union found, !.search.verified = Verified(w, items),
                                !.relates = related]
              page == [next EXCEPT !.search.page = @ + 1]
  <2>3. Goes(w, Exhausted(next)) \/ Goes(w, NextQuery(next)) \/ Goes(w, page)
    BY <2>2
  <2>4. \A f \in found : f.public
    BY PersistedIsPublic
  <2>5. /\ next.own = s.own /\ next.files = s.files /\ next.relates = related
        /\ page.own = s.own /\ page.files = s.files /\ page.relates = related /\ page.at = s.at
    BY <1>1 DEF SessionOK, SessionTypeOK, SessionFields
  <2>6. \A p \in (related \ s.relates) \intersect Correlators : correlated[p] = 0
    BY <1>1 DEF Relates
  <2>. HIDE DEF found, related
  <2>7. SessionOK(next) /\ next.at = "searching" /\ next.search.query = s.search.query /\ SessionOK(page)
    BY <1>1, <2>1, <2>4, PageIsOK
  <2>. HIDE DEF next, page
  <2>8. SessionOK(NextQuery(next)) /\ SessionOK(SearchEnded(next, "failed"))
    BY <2>1, <2>7, NextQueryIsOK, EndedSearchIsOK
  <2>9. Inquiring(w)
    BY <2>1 DEF Inquiring
  <2>10. CASE Goes(w, Exhausted(next))
    BY <1>3, <1>4, <2>5, <2>6, <2>7, <2>8, <2>9, <2>10 DEF Exhausted
  <2>11. CASE Goes(w, NextQuery(next))
    BY <1>3, <1>4, <2>5, <2>6, <2>7, <2>8, <2>9, <2>11
  <2>12. CASE Goes(w, page)
    BY <1>3, <2>1, <2>5, <2>6, <2>7, <2>9, <2>12
  <2>. QED
    BY <2>3, <2>10, <2>11, <2>12
<1>. QED
  BY <1>5, <1>6, <1>7, <1>8, <1>9

\* Every step of the sessions, and every change of visibility, keeps the
\* invariant.
LEMMA LegacyStep == LegacyInv /\ [LegacyNext]_legacyVars => LegacyInv'
<1>. SUFFICES ASSUME LegacyInv, [LegacyNext]_legacyVars PROVE LegacyInv'
  OBVIOUS
<1>1. ASSUME NEW w \in Investigators, CompleteInquiry(w) PROVE LegacyInv'
  <2>1. /\ Inquiring(w) /\ Commits(inquiry[w]) /\ Goes(w, AtRest) /\ overlapped' = overlapped
        /\ verdict' = [verdict EXCEPT ![w] = Settled(inquiry[w], "completed")]
        /\ inquiry[w].at = "next" /\ inquiry[w].todo = <<>> /\ ~inquiry[w].deferred
    BY <1>1 DEF CompleteInquiry, Inquiring
  <2>2. /\ DOMAIN verdict' = Investigators /\ \A v \in Investigators : VerdictFields(verdict'[v])
        /\ CutSearchIsFailed'
    BY <2>1, SettledVerdict
  <2>. QED
    BY <2>1, <2>2, CommitStep
<1>2. ASSUME NEW w \in Investigators, KeepPartial(w) PROVE LegacyInv'
  <2>1. /\ Inquiring(w) /\ Commits(inquiry[w]) /\ overlapped' = overlapped
        /\ Goes(w, [AtRest EXCEPT !.at = "failing", !.plan = inquiry[w].plan])
        /\ verdict' = [verdict EXCEPT ![w] = Settled(inquiry[w], "running")]
        /\ inquiry[w].at = "next" /\ inquiry[w].todo = <<>> /\ inquiry[w].deferred
    BY <1>2 DEF KeepPartial, Inquiring
  <2>2. /\ DOMAIN verdict' = Investigators /\ \A v \in Investigators : VerdictFields(verdict'[v])
        /\ CutSearchIsFailed'
    BY <2>1, SettledVerdict
  <2>. QED
    BY <2>1, <2>2, CommitStep
<1>3. ASSUME NEW w \in Investigators, FailInquiry(w) \/ Interrupt(w) PROVE LegacyInv'
  <2>1. \E status \in {"failed", "cancelled"} : RollBack(w, status)
    BY <1>3 DEF FailInquiry, Interrupt
  <2>. QED
    BY <2>1, RollBackKeepsInv
<1>4. ASSUME NEW w \in Investigators, InvestigatorDies(w) PROVE LegacyInv'
  BY <1>4, SessionStep, RestIsOK DEF InvestigatorDies
<1>5. ASSUME NEW w \in Investigators, AskDomain(w) PROVE LegacyInv'
  <2>. DEFINE s == inquiry[w]
              t == [s EXCEPT !.at = "asked", !.read = IF s.own = Unwritten THEN subdomains ELSE s.own]
  <2>1. /\ s.at = "next" /\ s.todo # <<>> /\ Head(s.todo) # "github-search" /\ Goes(w, t)
        /\ UNCHANGED <<tables, verdict, overlapped>>
    BY <1>5 DEF AskDomain
  <2>2. SessionOK(s) /\ subdomains \subseteq HostNames
    BY DEF LegacyInv, LegacyTypeOK
  <2>3. /\ SessionFields(t) /\ t.at = "asked" /\ t.plan = s.plan /\ t.todo = s.todo
        /\ t.read = View(s, subdomains) /\ t.own = s.own /\ t.files = s.files /\ t.relates = s.relates
        /\ t.refers = s.refers /\ t.search = s.search /\ t.deferred = s.deferred
    BY <2>2 DEF SessionOK, SessionTypeOK, SessionFields, View
  <2>. HIDE DEF t
  <2>4. SessionTypeOK(t)
    BY <2>2, <2>3 DEF SessionOK, SessionTypeOK, View
  <2>5. SearchOK(t)
    BY <2>1, <2>2, <2>3 DEF SessionOK, SearchOK
  <2>6. AgendaOK(t)
    BY <2>1, <2>2, <2>3 DEF SessionOK, AgendaOK
  <2>7. SessionAddsUp(s, subdomains, correlated) => SessionAddsUp(t, subdomains, correlated)
    BY <2>3 DEF SessionAddsUp, View
  <2>. QED
    BY <2>1, <2>4, <2>5, <2>6, <2>7, SessionStep DEF SessionOK, Inquiring
<1>6. ASSUME NEW w \in Investigators, StoreAnswer(w) PROVE LegacyInv'
  BY <1>6, StoreAddsUp, RollBackKeepsInv DEF StoreAnswer
<1>7. ASSUME NEW w \in Investigators, FetchRecords(w) PROVE LegacyInv'
  <2>. DEFINE s == inquiry[w]
  <2>1. PICK repos \in SUBSET Shown :
          Goes(w, [s EXCEPT !.todo = Tail(@),
                            !.refers = @ \union {Reference("record", r) : r \in repos}])
    BY <1>7 DEF FetchRecords
  <2>. DEFINE more == {Reference("record", r) : r \in repos}
              t == [s EXCEPT !.todo = Tail(@), !.refers = @ \union more]
  <2>2. s.at = "expanding" /\ s.todo # <<>> /\ UNCHANGED <<tables, verdict, overlapped>> /\ SessionOK(s)
    BY <1>7 DEF FetchRecords, LegacyInv, LegacyTypeOK
  <2>3. \A f \in more : f.public
    <3>. SUFFICES ASSUME NEW r \in repos PROVE Reference("record", r).public
      OBVIOUS
    <3>. QED
      BY ShownIsPublic DEF Shown
  <2>4. /\ SessionFields(t) /\ t.at = s.at /\ t.read = s.read /\ t.own = s.own /\ t.files = s.files
        /\ t.relates = s.relates /\ t.refers = s.refers \union more /\ t.search = s.search
        /\ t.deferred = s.deferred
    BY <2>2 DEF SessionOK, SessionTypeOK, SessionFields
  <2>. HIDE DEF t, more
  <2>5. SessionTypeOK(t)
    BY <2>2, <2>3, <2>4 DEF SessionOK, SessionTypeOK
  <2>6. SearchOK(t) /\ AgendaOK(t)
    BY <2>2, <2>4 DEF SessionOK, SearchOK, AgendaOK
  <2>7. SessionAddsUp(s, subdomains, correlated) => SessionAddsUp(t, subdomains, correlated)
    BY <2>2, <2>4 DEF SessionAddsUp, View
  <2>8. Goes(w, t)
    BY <2>1 DEF t, more
  <2>. QED
    BY <2>2, <2>5, <2>6, <2>7, <2>8, SessionStep DEF SessionOK, Inquiring
<1>8. ASSUME NEW w \in Investigators, CommitRecords(w) PROVE LegacyInv'
  <2>1. /\ Inquiring(w) /\ Commits(inquiry[w]) /\ Goes(w, AtRest) /\ overlapped' = overlapped
        /\ verdict' = verdict
    BY <1>8 DEF CommitRecords, Inquiring
  <2>2. /\ DOMAIN verdict' = Investigators /\ \A v \in Investigators : VerdictFields(verdict'[v])
        /\ CutSearchIsFailed'
    BY <2>1 DEF LegacyInv, LegacyTypeOK, CutSearchIsFailed
  <2>. QED
    BY <2>1, <2>2, CommitStep
<1>9. ASSUME UNCHANGED <<tables, inquiry, verdict, overlapped>> PROVE LegacyInv'
  BY <1>9 DEF LegacyInv, LegacyTypeOK, OnlyPublicIsStored, CutSearchIsFailed, InquiriesAddUp,
              OneAtATime, Inquiring, tables
<1>10. CASE ChangeVisibility
  BY <1>9, <1>10 DEF ChangeVisibility
<1>11. CASE UNCHANGED legacyVars
  BY <1>9, <1>11 DEF legacyVars
<1>. QED
  BY <1>1, <1>2, <1>3, <1>4, <1>5, <1>6, <1>7, <1>8, <1>10, <1>11, StartKeepsInv, SearchKeepsInv
     DEF LegacyNext

\* The inductive invariant of legacy discovery holds in every reachable state,
\* for any number of sessions, any hosts and any answers of the providers.
THEOREM LegacyInvariance == LegacySpec => []LegacyInv
<1>. QED
  BY LegacyInitially, LegacyStep, PTL DEF LegacySpec

\* What a search stores as a reference was public when GitHub answered,
\* whatever the flags of a result and whenever an owner changes a visibility.
THEOREM OnlyThePublicIsStored == LegacySpec => []OnlyPublicIsStored
<1>1. LegacyInv => OnlyPublicIsStored
  BY DEF LegacyInv
<1>. QED
  BY <1>1, LegacyInvariance, PTL

\* A search that was cut short is on record as failed, its job never as
\* completed, and what a job without a good end left comes from such a search.
THEOREM CutSearchesFail == LegacySpec => []CutSearchIsFailed
<1>1. LegacyInv => CutSearchIsFailed
  BY DEF LegacyInv
<1>. QED
  BY <1>1, LegacyInvariance, PTL

\* Plans that did not overlap add up, however often they are repeated or fail:
\* a host with an exposure is listed, and an identity is related once.
THEOREM InquiriesAddUpAlways == LegacySpec => []InquiriesAddUp
<1>1. LegacyInv => InquiriesAddUp
  BY DEF LegacyInv
<1>. QED
  BY <1>1, LegacyInvariance, PTL

-----------------------------------------------------------------------------
(* ScannerRun: one scanner after the other.                                *)

\* The states of a scan job and of a tool execution.
RowState == {"running", "completed", "failed", "cancelled"}

\* The rows a scanner writes: its job, its execution, what is stored and told.
ScanRow == [job : RowState, tool : RowState, stored : SUBSET Hits, told : SUBSET Hits]

\* The process group of a scanner.
ScanGroup ==
  [leader : {"none", "alive", "dead"}, helpers : SUBSET {"holding", "quiet"}, output : Nat,
   late : BOOLEAN, cut : BOOLEAN]

\* Where the loop over the scanners is.
Place == {"between", "ready", "process", "persisting", "dead"}

\* What is left to run is not typed: no property depends on it.
ScanFields == DOMAIN scanning = {"at", "scanner", "todo", "matches", "told"}

\* Type correctness of the loop, the group and the rows.
ScannerTypeOK ==
  /\ ScanFields
  /\ scanning.at \in Place /\ scanning.matches \subseteq Hits
  /\ target \subseteq Places
  /\ group \in ScanGroup
  /\ rows \in [DOMAIN rows -> ScanRow]
  /\ result \in {"none", "results", "failed", "cancelled"}

\* A scanner at work has an open row, and what its programs told so far is
\* among its matches.
OpenRowAtWork ==
  scanning.at \in {"ready", "process", "persisting"} =>
    /\ result = "none"
    /\ Current \in DOMAIN rows /\ rows[Current] = Started
    /\ scanning.told \subseteq scanning.matches
    /\ Current \in Builtins => scanning.at # "process" /\ scanning.told = {}

\* Whatever went wrong ended the plan.
AmissEndsThePlan == amiss # {} => result = "failed"

\* A group that is waited for has not been cut off.
WaitedIsWhole == scanning.at = "process" => ~group.cut

\* The inductive invariant of a scan.
ScannerInv ==
  /\ ScannerTypeOK /\ OpenRowAtWork /\ AmissEndsThePlan /\ WaitedIsWhole
  /\ ScansAreWhole /\ NoProcessLeft

\* What a report can name, by its form and its tool.
Shaped(s, places, r) ==
  /\ r.matches \subseteq places \union {"nowhere"}
  /\ r.form \notin {"list", "results"} => r.matches = {}
  /\ s \in {"gitleaks", "trufflehog", "ripgrep-heuristics"} /\ r.form = "results" => r.matches = {}
  /\ s \in ReportTools => r.matches \subseteq places

\* A report with entries names places that hold a secret.
LEMMA EntryShape ==
  ASSUME NEW form, NEW places, NEW r \in Entries(form, places)
  PROVE  r.form = form /\ r.matches \subseteq places
BY DEF Entries, Report

\* A report without entries names none.
LEMMA PlainShape ==
  ASSUME NEW forms, NEW r \in {Report(form, {}, FALSE) : form \in forms}
  PROVE  r.form \in forms /\ r.matches = {}
BY DEF Report

\* The reports of the tools, as the model enumerates them: with matches in
\* the tool's own form only.
LEMMA ReportShape ==
  ASSUME NEW s, NEW places, NEW r \in ReportsOf(s, places)
  PROVE  Shaped(s, places, r) /\ (s \notin ReportTools \union {"yara", "ripgrep-heuristics"} => r.form # "garbled")
<1>1. CASE s \in {"detect-secrets", "semgrep"}
  <2>1. ReportsOf(s, places) =
          {Report(form, {}, FALSE) : form \in {"empty", "garbled", "object", "list"}}
          \union Entries("results", places)
    BY <1>1, Zenon DEF ReportsOf
  <2>. QED
    BY <1>1, <2>1, EntryShape, PlainShape DEF Shaped, ReportTools
<1>2. CASE s \in {"gitleaks", "trufflehog", "ripgrep-heuristics"}
  <2>1. ReportsOf(s, places) =
          {Report(form, {}, FALSE) : form \in {"empty", "garbled", "object", "results"}}
          \union Entries("list", places)
    BY <1>2, Zenon DEF ReportsOf
  <2>2. CASE r \in {Report(form, {}, FALSE) : form \in {"empty", "garbled", "object", "results"}}
    BY <1>2, <2>2, PlainShape DEF Shaped, ReportTools
  <2>3. CASE r \in Entries("list", places)
    BY <1>2, <2>3, EntryShape DEF Shaped, ReportTools
  <2>. QED
    BY <2>1, <2>2, <2>3
<1>3. CASE s = "yara"
  <2>1. ReportsOf(s, places) = {Report("empty", {}, FALSE), Report("garbled", {}, FALSE)}
                               \union Entries("list", places \union {"nowhere"})
    BY <1>3, Zenon DEF ReportsOf
  <2>2. CASE r \in Entries("list", places \union {"nowhere"})
    BY <1>3, <2>2, EntryShape DEF Shaped, ReportTools
  <2>. QED
    BY <1>3, <2>1, <2>2 DEF Shaped, Report, ReportTools
<1>4. CASE s \notin ReportTools \union {"yara", "ripgrep-heuristics"}
  <2>1. ReportsOf(s, places) =
          {Report("empty", {}, FALSE)} \union Entries("list", places \union {"nowhere"})
    BY <1>4, Zenon DEF ReportsOf, ReportTools
  <2>2. CASE r \in Entries("list", places \union {"nowhere"})
    BY <1>4, <2>2, EntryShape DEF Shaped, ReportTools
  <2>. QED
    BY <1>4, <2>1, <2>2 DEF Shaped, Report, ReportTools
<1>. QED
  BY <1>1, <1>2, <1>3, <1>4 DEF ReportTools

\* A reading that succeeds holds every match of the report, and a garbled
\* report is never read.
Whole(places, r, reading) ==
  reading.ok =>
    /\ reading.found \subseteq places \union {"root", "nowhere"}
    /\ r.matches \ {"nowhere"} \subseteq reading.found
    /\ r.form # "garbled"

\* Reading a report never passes a broken one for a whole one.
LEMMA ReadingIsWhole ==
  ASSUME NEW s, NEW places, NEW r \in ReportsOf(s, places)
  PROVE  Whole(places, r, ReadReport(s, r))
<1>. USE ReportShape DEF Shaped
<1>1. CASE s = "gitleaks"
  <2>1. ReadReport(s, r) = ReadGitleaks(r)
    BY <1>1, Zenon DEF ReadReport
  <2>. QED
    BY <1>1, <2>1 DEF Whole, ReadGitleaks, Found, Failure
<1>2. CASE s = "detect-secrets"
  <2>1. ReadReport(s, r) = ReadDetectSecrets(r)
    BY <1>2, Zenon DEF ReadReport
  <2>. QED
    BY <1>2, <2>1 DEF Whole, ReadDetectSecrets, Found, Failure
<1>3. CASE s = "semgrep"
  <2>1. ReadReport(s, r) = ReadSemgrep(r)
    BY <1>3, Zenon DEF ReadReport
  <2>. QED
    BY <1>3, <2>1 DEF Whole, ReadSemgrep, Found, Failure
<1>4. CASE s = "trufflehog"
  <2>1. ReadReport(s, r) = ReadTruffleHog(r)
    BY <1>4, Zenon DEF ReadReport
  <2>. QED
    BY <1>4, <2>1 DEF Whole, ReadTruffleHog, Found, Failure
<1>5. CASE s = "ripgrep-heuristics"
  <2>1. ReadReport(s, r) = ReadRipgrep(r)
    BY <1>5, Zenon DEF ReadReport
  <2>. QED
    BY <1>5, <2>1 DEF Whole, ReadRipgrep, Found, Failure
<1>6. CASE s = "yara"
  <2>1. ReadReport(s, r) = ReadYara(r)
    BY <1>6, Zenon DEF ReadReport
  <2>. QED
    BY <1>6, <2>1 DEF Whole, ReadYara, Found, Failure
<1>7. CASE s \notin ReportTools \union {"yara", "ripgrep-heuristics"}
  <2>1. ReadReport(s, r) = ReadGitHistory(r)
    BY <1>7, Zenon DEF ReadReport, ReportTools
  <2>. QED
    BY <1>7, <2>1 DEF Whole, ReadGitHistory, Found, Failure
<1>. QED
  BY <1>1, <1>2, <1>3, <1>4, <1>5, <1>6, <1>7 DEF ReportTools

\* Loading a saved report never passes a broken one for a whole one.
LEMMA SavedReportIsWhole ==
  ASSUME NEW s \in ReportTools, NEW places, NEW r \in ReportsOf(s, places)
  PROVE  Whole(places, r, LoadReport(s, r)) /\ r.matches \subseteq places
<1>. SUFFICES Whole(places, r, LoadReport(s, r))
  BY ReportShape DEF Shaped
<1>1. CASE s = "trufflehog" /\ r.form = "list"
  BY <1>1, ReportShape DEF LoadReport, Whole, Shaped, Found
<1>2. CASE ~(s = "trufflehog" /\ r.form = "list")
  BY <1>2, ReadingIsWhole DEF LoadReport
<1>. QED
  BY <1>1, <1>2

-----------------------------------------------------------------------------

\* A scan starts with no row and no process.
LEMMA ScannerInitially == ScannerInit => ScannerInv
BY ScannerRunAssumption
   DEF ScannerInit, ScannerInv, ScannerTypeOK, ScanFields, OpenRowAtWork, AmissEndsThePlan, WaitedIsWhole,
       ScansAreWhole, NoProcessLeft, Resting, NoGroup, ScanGroup, Place, Running

\* What RecordError leaves: a closed row of the scanner, and no plan.
LEMMA ErrorKeepsRows ==
  ASSUME ScannerInv, scanning.at \in {"ready", "process", "persisting"}, NEW kind \in {"failed", "cancelled"},
         RecordError(kind)
  PROVE  /\ ScanFields' /\ scanning'.at = "between" /\ scanning'.matches = {} /\ result' = kind
         /\ rows' \in [DOMAIN rows' -> ScanRow]
         /\ DOMAIN rows' = DOMAIN rows
         /\ \A s \in DOMAIN rows \ {Current} : rows'[s] = rows[s]
         /\ rows'[Current] = [job |-> kind, tool |-> "failed", stored |-> {}, told |-> {}]
BY DEF ScannerInv, ScannerTypeOK, OpenRowAtWork, RecordError, Resting, ScanFields, ScanRow, RowState, Started, Current

\* Recording an error ends the scanner's rows and the scan's plan.
LEMMA ErrorKeepsInv ==
  ASSUME ScannerInv, scanning.at \in {"ready", "process", "persisting"}, NEW kind \in {"failed", "cancelled"},
         RecordError(kind), UNCHANGED <<target>>, group' \in ScanGroup,
         (group'.cut => group'.helpers = {}) /\ ~Running',
         amiss' = amiss \/ (kind = "failed" /\ amiss' = amiss \union {Current})
  PROVE  ScannerInv'
<1>1. scanning'.at = "between" /\ result' = kind /\ ScanFields' /\ scanning'.matches = {}
  BY ErrorKeepsRows
<1>2. amiss = {}
  BY DEF ScannerInv, AmissEndsThePlan, OpenRowAtWork
<1>3. ScansAreWhole'
  BY <1>2, ErrorKeepsRows DEF ScannerInv, ScansAreWhole
<1>4. ScannerTypeOK'
  BY <1>1, ErrorKeepsRows DEF ScannerTypeOK, ScannerInv, Place
<1>. QED
  BY <1>1, <1>2, <1>3, <1>4 DEF ScannerInv, OpenRowAtWork, AmissEndsThePlan, WaitedIsWhole, NoProcessLeft

\* RaiseError records a failure.
LEMMA RaiseKeepsInv ==
  ASSUME ScannerInv, scanning.at \in {"ready", "process", "persisting"}, NEW kind,
         RaiseError(kind), UNCHANGED <<target>>, group' \in ScanGroup,
         (group'.cut => group'.helpers = {}) /\ ~Running',
         amiss' \in {amiss, amiss \union {Current}}
  PROVE  ScannerInv'
<1>1. RecordError("failed")
  BY DEF RaiseError, Escaped
<1>. QED
  BY <1>1, ErrorKeepsInv

\* A scanner goes on with its next program, or to the storing of its matches.
LEMMA NextKeepsInv ==
  ASSUME ScannerInv, scanning.at \in {"ready", "process"}, NEW matches, NEW told,
         matches \subseteq Hits, told \subseteq matches,
         Current \notin Builtins, NextCommand(matches, told), UNCHANGED <<target, amiss>>, group' \in ScanGroup,
         (group'.cut => group'.helpers = {}) /\ ~Running'
  PROVE  ScannerInv'
<1>1. /\ ScanFields' /\ scanning'.at \in {"ready", "persisting"}
      /\ scanning'.scanner = scanning.scanner
      /\ scanning'.matches = scanning.matches \union matches
      /\ scanning'.told = scanning.told \union told
  BY DEF NextCommand, ScannerInv, ScannerTypeOK, ScanFields
<1>2. UNCHANGED <<plan, rows, result>>
  BY DEF NextCommand
<1>3. ScansAreWhole'
  BY <1>2 DEF ScannerInv, ScansAreWhole
<1>4. ScannerTypeOK'
  BY <1>1, <1>2 DEF ScannerTypeOK, ScannerInv, Place
<1>5. OpenRowAtWork'
  BY <1>1, <1>2 DEF ScannerInv, OpenRowAtWork, Current
<1>. QED
  BY <1>1, <1>2, <1>3, <1>4, <1>5 DEF ScannerInv, AmissEndsThePlan, WaitedIsWhole, NoProcessLeft

\* The group goes on by itself only while the worker waits for it, except
\* that helpers which hold nothing end.
LEMMA GroupKeepsInv ==
  ASSUME ScannerInv, UNCHANGED <<target, plan, scanning, rows, stopAsked, stopSeen, result, amiss>>,
         group' \in ScanGroup, group'.cut = group.cut,
         scanning.at \in {"process", "dead"} \/ (~Running' /\ group'.helpers \subseteq group.helpers)
  PROVE  ScannerInv'
BY DEF ScannerInv, ScannerTypeOK, ScanFields, OpenRowAtWork, AmissEndsThePlan, WaitedIsWhole,
       ScansAreWhole, NoProcessLeft, Current

\* A killed process group has no process left.
LEMMA KilledGroup ==
  ASSUME group \in ScanGroup, group' = Killed(group)
  PROVE  group' \in ScanGroup /\ group'.helpers = {} /\ ~Running'
BY DEF ScanGroup, Killed, Running

\* Every step of the worker and of its processes keeps the invariant.
LEMMA ScannerStep == ScannerInv /\ [ScannerNext]_scannerVars => ScannerInv'
<1>. SUFFICES ASSUME ScannerInv, [ScannerNext]_scannerVars PROVE ScannerInv'
  OBVIOUS
<1>0. /\ group \in ScanGroup
      /\ scanning.at \notin {"process", "dead"} => ~Running /\ (group.cut => group.helpers = {})
      /\ scanning.at = "process" => ~group.cut
  BY DEF ScannerInv, ScannerTypeOK, NoProcessLeft, WaitedIsWhole
<1>1. CASE BeginScan
  <2>1. scanning'.at = "ready" /\ ScanFields' /\ scanning'.matches = {} /\ scanning'.told = {}
        /\ Current' = Head(plan) /\ result' = "none" /\ target' = target /\ amiss' = amiss
        /\ group' = NoGroup
    BY <1>1 DEF BeginScan, ScanFields, Current
  <2>2. amiss = {}
    BY <1>1 DEF BeginScan, ScannerInv, AmissEndsThePlan
  <2>3. rows' = [x \in DOMAIN rows \union {Head(plan)} |-> IF x = Head(plan) THEN Started ELSE rows[x]]
    BY <1>1 DEF BeginScan, OpenRows
  <2>4. Started \in ScanRow
    BY DEF Started, ScanRow, RowState
  <2>5. rows \in [DOMAIN rows -> ScanRow]
    BY DEF ScannerInv, ScannerTypeOK
  <2>6. rows' \in [DOMAIN rows' -> ScanRow]
    BY <2>3, <2>4, <2>5
  <2>7. ScannerTypeOK'
    BY <2>1, <2>6 DEF ScannerInv, ScannerTypeOK, Place, NoGroup, ScanGroup
  <2>8. ScansAreWhole'
    BY <2>1, <2>2, <2>3 DEF ScannerInv, ScansAreWhole, Started
  <2>9. OpenRowAtWork'
    BY <2>1, <2>3 DEF OpenRowAtWork
  <2>. QED
    BY <2>1, <2>2, <2>7, <2>8, <2>9
       DEF ScannerInv, AmissEndsThePlan, WaitedIsWhole, NoProcessLeft, NoGroup, Running
<1>2. CASE RefuseTarget
  BY <1>2 DEF RefuseTarget, ScannerInv, ScannerTypeOK, ScanFields, OpenRowAtWork, AmissEndsThePlan,
              WaitedIsWhole, ScansAreWhole, NoProcessLeft, Running
<1>3. CASE NotReady
  BY <1>0, <1>3, RaiseKeepsInv DEF NotReady, Running
<1>4. CASE ScanFiles
  <2>. PICK outcome \in BuiltinResults(Current) :
         IF outcome.ok
         THEN /\ scanning' = [scanning EXCEPT !.at = "persisting", !.matches = outcome.found]
              /\ UNCHANGED <<plan, rows, result>>
         ELSE RaiseError("failed")
    BY <1>4 DEF ScanFiles
  <2>1. scanning.at = "ready" /\ UNCHANGED <<target, group, amiss>>
    BY <1>4 DEF ScanFiles
  <2>2. CASE ~outcome.ok
    BY <1>0, <2>1, <2>2, RaiseKeepsInv DEF Running
  <2>3. CASE outcome.ok
    <3>1. outcome.found \subseteq Hits
      BY <2>3 DEF BuiltinResults, CustomPatterns, HeuristicRules, Governance, Found, Failure,
                  MissingPolicies, RiskyWorkflows, Readable, Hits, Files, Listed
    <3>2. /\ scanning'.at = "persisting" /\ ScanFields' /\ scanning'.matches = outcome.found
          /\ Current' = Current /\ scanning'.told = scanning.told
          /\ UNCHANGED <<rows, result>>
      BY <2>3 DEF ScannerInv, ScannerTypeOK, ScanFields, Current
    <3>3. Current \in Builtins
      BY <1>4 DEF ScanFiles
    <3>4. ScannerTypeOK'
      BY <2>1, <3>1, <3>2 DEF ScannerInv, ScannerTypeOK, Place
    <3>5. OpenRowAtWork'
      BY <2>1, <3>2, <3>3 DEF ScannerInv, OpenRowAtWork
    <3>6. AmissEndsThePlan' /\ WaitedIsWhole' /\ ScansAreWhole'
      BY <2>1, <3>2 DEF ScannerInv, AmissEndsThePlan, WaitedIsWhole, ScansAreWhole
    <3>7. NoProcessLeft'
      BY <1>0, <2>1, <3>2 DEF NoProcessLeft, Running
    <3>. QED
      BY <3>4, <3>5, <3>6, <3>7 DEF ScannerInv
  <2>. QED
    BY <2>2, <2>3
<1>5. CASE RefuseFiles
  BY <1>0, <1>5, RaiseKeepsInv DEF RefuseFiles, Running
<1>6. CASE Spawn
  <2>1. /\ scanning.at = "ready" /\ scanning'.at = "process" /\ ScanFields'
        /\ scanning'.matches = scanning.matches /\ scanning'.told = scanning.told
        /\ Current' = Current /\ Current \notin Builtins /\ UNCHANGED <<target, rows, result, amiss>>
    BY <1>6 DEF Spawn, ScannerInv, ScannerTypeOK, ScanFields, Current, Builtins, Programs, ReportTools
  <2>2. group' \in ScanGroup /\ ~group'.cut
    BY <1>6 DEF Spawn, NoGroup, ScanGroup
  <2>3. ScannerTypeOK'
    BY <2>1, <2>2 DEF ScannerInv, ScannerTypeOK, Place
  <2>4. OpenRowAtWork'
    BY <2>1 DEF ScannerInv, OpenRowAtWork
  <2>5. AmissEndsThePlan' /\ WaitedIsWhole' /\ ScansAreWhole' /\ NoProcessLeft'
    BY <2>1, <2>2 DEF ScannerInv, AmissEndsThePlan, WaitedIsWhole, ScansAreWhole, NoProcessLeft
  <2>. QED
    BY <2>3, <2>4, <2>5 DEF ScannerInv
<1>7. CASE CannotSpawn
  <2>1. scanning.at = "ready" /\ UNCHANGED <<target, group>> /\ Current \notin Builtins
    BY <1>7 DEF CannotSpawn, Builtins, Programs, ReportTools
  <2>2. CASE Optional
    BY <1>0, <1>7, <2>1, <2>2, NextKeepsInv DEF CannotSpawn, Running
  <2>3. CASE ~Optional
    BY <1>0, <1>7, <2>1, <2>3, RaiseKeepsInv DEF CannotSpawn, Running
  <2>. QED
    BY <2>2, <2>3
<1>8. CASE Fork
  <2>1. group' \in ScanGroup /\ group'.cut = group.cut
    BY <1>0, <1>8 DEF Fork, ScanGroup
  <2>2. scanning.at \in {"process", "dead"}
    BY <1>0, <1>8 DEF Fork, Running
  <2>. QED
    BY <1>8, <2>1, <2>2, GroupKeepsInv DEF Fork
<1>9. CASE HelperEnds
  <2>1. group' \in ScanGroup /\ group'.cut = group.cut /\ group'.helpers \subseteq group.helpers
        /\ group'.leader = group.leader
    BY <1>0, <1>9 DEF HelperEnds, ScanGroup
  <2>. QED
    BY <1>0, <1>9, <2>1, GroupKeepsInv DEF HelperEnds, Running
<1>10. CASE WriteBlock
  BY <1>0, <1>10, GroupKeepsInv DEF WriteBlock, ScanGroup
<1>11. CASE LeaderEnds
  BY <1>0, <1>11, GroupKeepsInv DEF LeaderEnds, ScanGroup, Running
<1>12. CASE TimeRunsOut
  BY <1>0, <1>12, GroupKeepsInv DEF TimeRunsOut, ScanGroup
<1>13. CASE AskStop
  BY <1>13 DEF AskStop, ScannerInv, ScannerTypeOK, ScanFields, OpenRowAtWork, AmissEndsThePlan,
               WaitedIsWhole, ScansAreWhole, NoProcessLeft, Running, Current
<1>14. CASE SeeStop
  <2>1. scanning.at \in {"ready", "process"} /\ UNCHANGED target /\ RaiseError("cancelled")
        /\ amiss' = amiss \union {Current}
    BY <1>14 DEF SeeStop
  <2>2. group' \in ScanGroup /\ (group'.cut => group'.helpers = {}) /\ ~Running'
    BY <1>0, <1>14, KilledGroup DEF SeeStop, Running
  <2>. QED
    BY <2>1, <2>2, RaiseKeepsInv
<1>15. CASE CutOff
  <2>1. scanning.at = "process" /\ UNCHANGED target /\ Current \notin Builtins
    BY <1>15 DEF CutOff, ScannerInv, OpenRowAtWork
  <2>2. group' \in ScanGroup /\ (group'.cut => group'.helpers = {}) /\ ~Running'
    BY <1>0, <1>15, KilledGroup DEF CutOff
  <2>3. CASE Optional
    BY <1>15, <2>1, <2>2, <2>3, NextKeepsInv DEF CutOff
  <2>4. CASE ~Optional
    BY <1>15, <2>1, <2>2, <2>4, RaiseKeepsInv DEF CutOff
  <2>. QED
    BY <2>3, <2>4
<1>16. ASSUME GroupEnded, group' = group
       PROVE  /\ scanning.at = "process" /\ Current \notin Builtins
              /\ group' \in ScanGroup /\ (group'.cut => group'.helpers = {}) /\ ~Running'
  BY <1>0, <1>16 DEF GroupEnded, Running, ScannerInv, OpenRowAtWork
<1>17. CASE EndProbe
  <2>1. GroupEnded /\ UNCHANGED <<target, group, amiss>>
    BY <1>17 DEF EndProbe
  <2>2. NextCommand({}, {}) \/ RaiseError("failed")
    BY <1>17 DEF EndProbe
  <2>. QED
    BY <1>16, <2>1, <2>2, NextKeepsInv, RaiseKeepsInv
<1>18. CASE EndScan
  <2>. PICK code \in 0..2, report \in ReportsOf(Current, target \intersect Files) :
         LET reading == ReadReport(Current, report) IN
         /\ amiss' = IF code = 2 \/ report.form = "garbled" THEN amiss \union {Current} ELSE amiss
         /\ IF code \in Accepted(Current, "scan") /\ reading.ok
            THEN NextCommand(reading.found, report.matches \ {"nowhere"}) ELSE RaiseError("failed")
    BY <1>18 DEF EndScan
  <2>1. GroupEnded /\ UNCHANGED <<target, group>>
    BY <1>18 DEF EndScan
  <2>2. CASE code \in Accepted(Current, "scan") /\ ReadReport(Current, report).ok
    <3>1. code # 2
      BY <2>2 DEF Accepted
    <3>2. Whole(target \intersect Files, report, ReadReport(Current, report))
      BY ReadingIsWhole
    <3>3. amiss' = amiss
      BY <2>2, <3>1, <3>2 DEF Whole
    <3>4. ReadReport(Current, report).found \subseteq Hits
      BY <2>2, <3>2 DEF Whole, Hits
    <3>. QED
      BY <1>16, <2>1, <2>2, <3>2, <3>3, <3>4, NextKeepsInv DEF Whole
  <2>3. CASE ~(code \in Accepted(Current, "scan") /\ ReadReport(Current, report).ok)
    BY <1>16, <2>1, <2>3, RaiseKeepsInv
  <2>. QED
    BY <2>2, <2>3
<1>19. CASE CompleteScan
  <2>1. /\ scanning.at = "persisting" /\ scanning' = Resting /\ UNCHANGED <<target, group, amiss>>
        /\ rows' = [rows EXCEPT ![Current] = CompletedRows] /\ result' \in {"none", "results"}
    BY <1>19 DEF CompleteScan
  <2>2. amiss = {} /\ Current \in DOMAIN rows
    BY <2>1 DEF ScannerInv, OpenRowAtWork, AmissEndsThePlan
  <2>3. CompletedRows \in ScanRow /\ CompletedRows.told \subseteq CompletedRows.stored
        /\ CompletedRows.job = "completed" /\ CompletedRows.tool = "completed"
    BY <2>1 DEF CompletedRows, ScanRow, RowState, ScannerInv, ScannerTypeOK, OpenRowAtWork
  <2>4. rows \in [DOMAIN rows -> ScanRow]
    BY DEF ScannerInv, ScannerTypeOK
  <2>5. DOMAIN rows' = DOMAIN rows /\ rows'[Current] = CompletedRows
        /\ \A s \in DOMAIN rows \ {Current} : rows'[s] = rows[s]
    BY <2>1, <2>2, <2>4
  <2>6. rows' \in [DOMAIN rows' -> ScanRow]
    BY <2>1, <2>3, <2>4, <2>5
  <2>7. ScannerTypeOK'
    BY <2>1, <2>6 DEF ScannerInv, ScannerTypeOK, ScanFields, Resting, Place
  <2>8. ScansAreWhole'
    BY <2>1, <2>2, <2>3, <2>5 DEF ScannerInv, ScansAreWhole
  <2>. QED
    BY <1>0, <2>1, <2>2, <2>7, <2>8
       DEF ScannerInv, OpenRowAtWork, AmissEndsThePlan, WaitedIsWhole, NoProcessLeft, Resting, Running
<1>20. CASE FailToStore
  BY <1>0, <1>20, ErrorKeepsInv DEF FailToStore, Running
<1>21. CASE Ingest
  <2>. DEFINE Imported(s, report) ==
         LET reading == LoadReport(s, report) IN
         IF reading.ok
         THEN /\ scanning' = [at |-> "persisting", scanner |-> s, todo |-> <<>>,
                              matches |-> reading.found, told |-> report.matches]
              /\ OpenRows(s) /\ UNCHANGED result
         ELSE result' = "failed" /\ UNCHANGED <<scanning, rows>>
  <2>0. PICK s \in ReportTools : \E report \in ReportsOf(s, Files) : Imported(s, report)
    BY <1>21 DEF Ingest
  <2>. PICK report \in ReportsOf(s, Files) : Imported(s, report)
    BY <2>0
  <2>1. scanning.at = "between" /\ result = "none" /\ UNCHANGED <<target, group, amiss>>
    BY <1>21 DEF Ingest
  <2>2. CASE ~LoadReport(s, report).ok
    BY <2>1, <2>2 DEF ScannerInv, ScannerTypeOK, ScanFields, OpenRowAtWork, AmissEndsThePlan,
               WaitedIsWhole, ScansAreWhole, NoProcessLeft, Running, Current
  <2>3. CASE LoadReport(s, report).ok
    <3>1. LoadReport(s, report).found \subseteq Hits
          /\ report.matches \subseteq LoadReport(s, report).found
      BY <2>3, SavedReportIsWhole DEF Whole, Hits, Files
    <3>2. rows' = [x \in DOMAIN rows \union {s} |-> IF x = s THEN Started ELSE rows[x]]
          /\ result' = "none"
      BY <2>1, <2>3 DEF OpenRows
    <3>3. Started \in ScanRow /\ rows \in [DOMAIN rows -> ScanRow]
      BY DEF Started, ScanRow, RowState, ScannerInv, ScannerTypeOK
    <3>4. rows' \in [DOMAIN rows' -> ScanRow]
      BY <3>2, <3>3
    <3>5. scanning'.at = "persisting" /\ ScanFields' /\ Current' = s
          /\ scanning'.matches = LoadReport(s, report).found /\ scanning'.told = report.matches
      BY <2>3 DEF ScanFields, Current
    <3>6. ScannerTypeOK'
      BY <2>1, <3>1, <3>2, <3>4, <3>5 DEF ScannerInv, ScannerTypeOK, Place
    <3>7. amiss = {}
      BY <2>1 DEF ScannerInv, AmissEndsThePlan
    <3>8. ScansAreWhole'
      BY <2>1, <3>2, <3>7 DEF ScannerInv, ScansAreWhole, Started
    <3>9. s \notin Builtins
      BY DEF ReportTools, Builtins
    <3>10. OpenRowAtWork'
      BY <3>1, <3>2, <3>5, <3>9 DEF OpenRowAtWork
    <3>. QED
      BY <1>0, <2>1, <3>2, <3>5, <3>6, <3>7, <3>8, <3>10
         DEF ScannerInv, AmissEndsThePlan, WaitedIsWhole, NoProcessLeft, Running
  <2>. QED
    BY <2>2, <2>3
<1>22. CASE WorkerDies
  <2>1. scanning'.at = "dead" /\ ScanFields' /\ scanning'.matches = scanning.matches
        /\ UNCHANGED <<target, group, rows, result, amiss>>
    BY <1>22 DEF WorkerDies, ScannerInv, ScannerTypeOK, ScanFields
  <2>. QED
    BY <2>1 DEF ScannerInv, ScannerTypeOK, OpenRowAtWork, AmissEndsThePlan, WaitedIsWhole,
                ScansAreWhole, NoProcessLeft, Place
<1>23. CASE UNCHANGED scannerVars
  BY <1>23 DEF scannerVars, ScannerInv, ScannerTypeOK, ScanFields, OpenRowAtWork, AmissEndsThePlan,
               WaitedIsWhole, ScansAreWhole, NoProcessLeft, Running, Current
<1>. QED
  BY <1>1, <1>2, <1>3, <1>4, <1>5, <1>6, <1>7, <1>8, <1>9, <1>10, <1>11, <1>12, <1>13, <1>14,
     <1>15, <1>17, <1>18, <1>19, <1>20, <1>21, <1>22, <1>23 DEF ScannerNext

\* The inductive invariant of a scan holds in every reachable state, for any
\* places that hold secrets and any order of the scanners.
THEOREM ScannerInvariance == ScannerSpec => []ScannerInv
<1>. QED
  BY ScannerInitially, ScannerStep, PTL DEF ScannerSpec

\* A scanner recorded as completed (execute_scan) ran its programs to a proper
\* end and stored all they told, nothing is stored of another one, and job and
\* tool run agree, also when the worker died.
THEOREM CompleteScansAreWhole == ScannerSpec => []ScansAreWhole
<1>1. ScannerInv => ScansAreWhole
  BY DEF ScannerInv
<1>. QED
  BY <1>1, ScannerInvariance, PTL

\* When the worker goes on after a program (processes.run) nothing of it is
\* running, and of a group that was cut off no descendant either.
THEOREM NoProcessStays == ScannerSpec => []NoProcessLeft
<1>1. ScannerInv => NoProcessLeft
  BY DEF ScannerInv
<1>. QED
  BY <1>1, ScannerInvariance, PTL

-----------------------------------------------------------------------------
(* Rate limiting: the requests of one scope, for both backends.            *)

\* Type correctness of the row and of the callers.
RateTypeOK ==
  /\ backend \in Backend
  /\ now \in Nat
  /\ slot \in SlotRow
  /\ caller \in [Callers -> CallerState]
  /\ holder \in Callers \union {NoCaller}

\* A granted request is the last write of the row, and the next one is a
\* window later.
SlotIsLastGrant ==
  backend = "db" /\ slot.last > 0 =>
    slot.exists /\ slot.version = slot.last /\ slot.next = slot.last + slot.window

\* What a caller has read is either still there or older than the row.
ReadIsOlder ==
  \A c \in Callers : caller[c].at \in {"stamp", "claim", "wait"} =>
    /\ caller[c].version <= slot.version
    /\ caller[c].version = slot.version => caller[c].next = slot.next

\* A caller that tries to claim found its time to be right, and later than
\* the row it read.
ClaimIsDue ==
  \A c \in Callers : caller[c].at = "claim" =>
    caller[c].next <= caller[c].stamp /\ caller[c].stamp > caller[c].version

\* Only with a row do callers read and claim, only without one do they take
\* the lock.
PhasesOfBackend ==
  \A c \in Callers :
    caller[c].at \in IF backend = "db" THEN {"idle", "ensure", "read", "stamp", "claim", "wait"}
                     ELSE {"idle", "lock", "sleep"}

\* A row is read, and claimed, only once it is there.
ReadersHaveRow ==
  \A c \in Callers : caller[c].at \in {"read", "stamp", "claim", "wait"} => slot.exists

\* A thread that sleeps holds the lock and wakes a window after the last
\* request.
SleeperHoldsLock ==
  \A c \in Callers : caller[c].at = "sleep" =>
    /\ holder = c
    /\ slot.last > 0 => caller[c].next = slot.last + Window[c]

\* The inductive invariant of a scope's requests.
RateInv ==
  /\ RateTypeOK /\ SlotIsLastGrant /\ ReadIsOlder /\ ClaimIsDue
  /\ PhasesOfBackend /\ ReadersHaveRow /\ SleeperHoldsLock

\* The initial states have the invariant.
LEMMA RateInitially == RateInit => RateInv
BY RateAssumption
   DEF RateInit, RateInv, RateTypeOK, SlotIsLastGrant, ReadIsOlder, ClaimIsDue, PhasesOfBackend,
       ReadersHaveRow, SleeperHoldsLock, Backend, SlotRow, CallerState, IdleCaller, Phase

\* A caller that goes to sleep until a time is still a caller.
LEMMA SleeperType ==
  ASSUME NEW f \in [Callers -> CallerState], NEW c \in Callers, NEW n \in Nat
  PROVE  [f EXCEPT ![c].at = "sleep", ![c].next = n] \in [Callers -> CallerState]
BY DEF CallerState, Phase

\* The row of a granted request is a row.
LEMMA GrantedRowType ==
  ASSUME NEW t \in Nat, NEW w \in Nat, NEW k \in Nat
  PROVE  [exists |-> TRUE, version |-> t, next |-> t + w, last |-> t, window |-> w,
          count |-> k + 1] \in SlotRow
<1>1. t + w \in Nat /\ k + 1 \in Nat
  OBVIOUS
<1>. QED
  BY <1>1 DEF SlotRow

\* Every step keeps it.
LEMMA RateStep == RateInv /\ [RateNext]_rateVars => RateInv'
<1>. SUFFICES ASSUME RateInv, [RateNext]_rateVars PROVE RateInv'
  OBVIOUS
<1>. USE RateAssumption DEF RateInv, RateTypeOK, Backend, SlotRow, CallerState, Phase
<1>. USE DEF SlotIsLastGrant, ReadIsOlder, ClaimIsDue, PhasesOfBackend, ReadersHaveRow,
         SleeperHoldsLock
<1>1. ASSUME NEW c \in Callers, Ask(c) PROVE RateInv'
  BY <1>1 DEF Ask, Step
<1>2. ASSUME NEW c \in Callers, Ensure(c) PROVE RateInv'
  <2>1. RateTypeOK'
    BY <1>2 DEF Ensure, Step
  <2>2. SlotIsLastGrant'
    BY <1>2 DEF Ensure, Step
  <2>3. ReadIsOlder'
    BY <1>2 DEF Ensure, Step
  <2>4. ClaimIsDue'
    BY <1>2 DEF Ensure, Step
  <2>5. PhasesOfBackend'
    BY <1>2 DEF Ensure, Step
  <2>6. ReadersHaveRow'
    BY <1>2 DEF Ensure, Step
  <2>7. SleeperHoldsLock'
    BY <1>2 DEF Ensure, Step
  <2>. QED
    BY <2>1, <2>2, <2>3, <2>4, <2>5, <2>6, <2>7
<1>3. ASSUME NEW c \in Callers, ReadState(c) PROVE RateInv'
  BY <1>3 DEF ReadState
<1>4. ASSUME NEW c \in Callers, Stamp(c) PROVE RateInv'
  BY <1>4 DEF Stamp
<1>5. ASSUME NEW c \in Callers, ClaimSlot(c) PROVE RateInv'
  <2>1. RateTypeOK'
    <3>1. slot' \in SlotRow
      <4>1. caller[c].stamp \in Nat /\ Window[c] \in Nat /\ slot.count \in Nat
        OBVIOUS
      <4>2. slot \in SlotRow
        OBVIOUS
      <4>. HIDE DEF SlotRow
      <4>3. [exists |-> TRUE, version |-> caller[c].stamp, next |-> caller[c].stamp + Window[c],
             last |-> caller[c].stamp, window |-> Window[c], count |-> slot.count + 1] \in SlotRow
        BY <4>1, GrantedRowType
      <4>. QED
        BY <1>5, <4>2, <4>3 DEF ClaimSlot
    <3>2. caller' \in [Callers -> CallerState]
      BY <1>5 DEF ClaimSlot, ToIdle, IdleCaller, Step
    <3>. QED
      BY <1>5, <3>1, <3>2 DEF ClaimSlot
  <2>2. SlotIsLastGrant'
    BY <1>5 DEF ClaimSlot, Unchanged, ToIdle, IdleCaller, Step
  <2>3. ReadIsOlder'
    BY <1>5 DEF ClaimSlot, Unchanged, ToIdle, IdleCaller, Step
  <2>4. ClaimIsDue'
    BY <1>5 DEF ClaimSlot, Unchanged, ToIdle, IdleCaller, Step
  <2>5. PhasesOfBackend'
    BY <1>5 DEF ClaimSlot, Unchanged, ToIdle, IdleCaller, Step
  <2>6. ReadersHaveRow'
    BY <1>5 DEF ClaimSlot, Unchanged, ToIdle, IdleCaller, Step
  <2>7. SleeperHoldsLock'
    <3>1. backend = "db"
      BY <1>5 DEF ClaimSlot
    <3>. QED
      BY <2>5, <3>1, <1>5 DEF ClaimSlot
  <2>. QED
    BY <2>1, <2>2, <2>3, <2>4, <2>5, <2>6, <2>7
<1>6. ASSUME NEW c \in Callers, Retry(c) PROVE RateInv'
  BY <1>6 DEF Retry, Step
<1>7. ASSUME NEW c \in Callers, Acquire(c) PROVE RateInv'
  <2>1. RateTypeOK'
    <3>1. slot.last \in Nat /\ Window[c] \in Nat
      OBVIOUS
    <3>2. (IF slot.last = 0 THEN now ELSE slot.last + Window[c]) \in Nat
      BY <3>1
    <3>3. caller' \in [Callers -> CallerState]
      <4>1. PICK n \in Nat : caller' = [caller EXCEPT ![c].at = "sleep", ![c].next = n]
        BY <1>7, <3>2 DEF Acquire
      <4>. QED
        BY <4>1, SleeperType
    <3>. QED
      BY <1>7, <3>3 DEF Acquire
  <2>2. SlotIsLastGrant'
    BY <1>7 DEF Acquire
  <2>3. ReadIsOlder'
    BY <1>7 DEF Acquire
  <2>4. ClaimIsDue'
    BY <1>7 DEF Acquire
  <2>5. PhasesOfBackend'
    BY <1>7 DEF Acquire
  <2>6. ReadersHaveRow'
    BY <1>7 DEF Acquire
  <2>7. SleeperHoldsLock'
    BY <1>7 DEF Acquire
  <2>. QED
    BY <2>1, <2>2, <2>3, <2>4, <2>5, <2>6, <2>7
<1>8. ASSUME NEW c \in Callers, Wake(c) PROVE RateInv'
  <2>1. RateTypeOK'
    <3>1. slot' \in SlotRow
      <4>1. slot.count + 1 \in Nat /\ Window[c] \in Nat
        OBVIOUS
      <4>. QED
        BY <1>8, <4>1 DEF Wake
    <3>. QED
      BY <1>8, <3>1 DEF Wake, ToIdle, IdleCaller, Leave
  <2>2. SlotIsLastGrant'
    BY <1>8 DEF Wake, ToIdle, IdleCaller, Leave
  <2>3. ReadIsOlder'
    BY <1>8 DEF Wake, ToIdle, IdleCaller, Leave
  <2>4. ClaimIsDue'
    BY <1>8 DEF Wake, ToIdle, IdleCaller, Leave
  <2>5. PhasesOfBackend'
    BY <1>8 DEF Wake, ToIdle, IdleCaller, Leave
  <2>6. ReadersHaveRow'
    BY <1>8 DEF Wake, ToIdle, IdleCaller, Leave
  <2>7. SleeperHoldsLock'
    BY <1>8 DEF Wake, ToIdle, IdleCaller, Leave
  <2>. QED
    BY <2>1, <2>2, <2>3, <2>4, <2>5, <2>6, <2>7
<1>9. ASSUME NEW c \in Callers, Abandon(c) PROVE RateInv'
  BY <1>9 DEF Abandon, ToIdle, IdleCaller, Leave
<1>10. CASE Tick
  BY <1>10 DEF Tick
<1>11. CASE UNCHANGED rateVars
  BY <1>11 DEF rateVars
<1>. QED
  BY <1>1, <1>2, <1>3, <1>4, <1>5, <1>6, <1>7, <1>8, <1>9, <1>10, <1>11 DEF RateNext

\* In every state of the specification the invariant holds.
THEOREM RateInvariance == RateSpec => []RateInv
BY RateInitially, RateStep, PTL DEF RateSpec

\* wait_for_rate_limit: the values of the row and of the callers stay what
\* they are meant to be.
THEOREM RateTypesCorrect == RateSpec => []RateTypeOK
<1>1. RateInv => RateTypeOK
  BY DEF RateInv
<1>. QED
  BY <1>1, RateInvariance, PTL

\* Between two granted requests lies a window: a caller's claim succeeds
\* only on the row it has read, whose next slot had come; a thread wakes
\* only a window after the last request, which nobody else can move while
\* it holds the lock.
LEMMA GrantIsSpaced ==
  ASSUME RateInv, RateNext, slot'.count # slot.count, slot.last > 0
  PROVE  slot'.last >= slot.last + IF backend = "db" THEN slot.window ELSE slot'.window
<1>. USE RateAssumption DEF RateInv, RateTypeOK, Backend, SlotRow, CallerState, Phase
<1>1. ASSUME NEW c \in Callers, ClaimSlot(c)
      PROVE  slot'.last >= slot.last + IF backend = "db" THEN slot.window ELSE slot'.window
  <2>1. backend = "db" /\ Unchanged(c)
    BY <1>1 DEF ClaimSlot, PhasesOfBackend
  <2>2. caller[c].next = slot.next /\ slot.next = slot.last + slot.window
    BY <1>1, <2>1 DEF ClaimSlot, Unchanged, ReadIsOlder, SlotIsLastGrant
  <2>. QED
    BY <1>1, <2>1, <2>2 DEF ClaimSlot, ClaimIsDue
<1>2. ASSUME NEW c \in Callers, Wake(c)
      PROVE  slot'.last >= slot.last + IF backend = "db" THEN slot.window ELSE slot'.window
  <2>1. backend # "db" /\ caller[c].next = slot.last + Window[c]
    BY <1>2 DEF Wake, PhasesOfBackend, SleeperHoldsLock
  <2>. QED
    BY <1>2, <2>1 DEF Wake
<1>3. ASSUME NEW c \in Callers, Ensure(c) PROVE FALSE
  BY <1>3 DEF Ensure
<1>. QED
  BY <1>1, <1>2, <1>3
     DEF RateNext, Ask, ReadState, Stamp, Retry, Acquire, Abandon, Tick

\* wait_for_rate_limit: requests of one scope are a window apart, however
\* many callers there are, whatever their windows and however slow each is.
THEOREM RequestsAreSpaced == RateSpec => RequestsSpaced
<1>1. RateInv /\ [RateNext]_rateVars =>
        [slot'.count # slot.count /\ slot.last > 0 =>
           slot'.last >= slot.last + IF backend = "db" THEN slot.window ELSE slot'.window]_rateVars
  BY GrantIsSpaced
<1>. QED
  BY <1>1, RateInvariance, PTL DEF RateSpec, RequestsSpaced
=============================================================================
