----------------------------- MODULE Discovery -----------------------------
(***************************************************************************)
(* Discovery of one assessment target by a worker: the stages of           *)
(* recon/pipeline.py for a domain, those of discover_target for a GitHub   *)
(* owner (services/assessments/recon.py), and the progress they record     *)
(* (services/assessments/discovery_progress.py).                           *)
(*                                                                         *)
(* A run works in memory and in one database session.  A commit writes     *)
(* what the session holds, but the recorded stages only if the job's       *)
(* column changed: after a save the column shares its stage records with   *)
(* the run, which changes them in place, and the session compares the      *)
(* column with itself; only a new record, or the column read again after a *)
(* rollback, makes it differ.                                              *)
(***************************************************************************)
EXTENDS Integers, FiniteSets, Sequences

CONSTANTS
  RootDomain,        \* the target domain
  Subdomains,  \* its names that tools may find
  Selections,  \* sets of tools analysts select, with what each depends on
  MaxDomains,  \* setting recon_max_domains
  MaxItems,    \* bound: repositories of the owner
  MaxRuns,     \* bound: jobs started for the target
  NoTool

Hosts == Subdomains \union {RootDomain}

\* registry.DEFINITIONS by stage order.  crtsh is a provider that stores
\* what it finds itself; the other ones are programs.
ORDER == <<"subfinder", "crtsh", "dnsx", "httpx", "katana">>
Tools == {ORDER[i] : i \in DOMAIN ORDER}

\* The stages without a tool.
OwnerStages == {"repositories", "expansion", "search"}
Stages == Tools \union OwnerStages \union {"correlation"}

ASSUME DiscoveryAssumption ==
  /\ RootDomain \notin Subdomains /\ NoTool \notin Stages
  /\ \A s \in Selections : s \subseteq Tools /\ ("katana" \in s => "httpx" \in s)
  /\ MaxDomains \in Nat \ {0} /\ MaxItems \in Nat /\ MaxRuns \in Nat

StageState ==
  {"none", "queued", "running", "completed", "failed", "blocked", "limit_reached", "cancelled"}
Recorded == [Stages -> StageState]
NotRecorded == [s \in Stages |-> "none"]

Gathered == [domains : SUBSET Hosts, resolved : SUBSET Hosts, http : SUBSET Hosts]
NothingGathered == [domains |-> {}, resolved |-> {}, http |-> {}]

RunState ==
  [at : {"idle", "started", "next", "tool", "ingested", "items", "expanding", "searching",
         "correlating", "ended"},
   selected : SUBSET Stages, todo : SUBSET Tools, stage : Stages \union {NoTool},
   inputs : SUBSET Hosts, states : Recorded, previous : StageState, shared : BOOLEAN,
   gathered : Gathered, before : Gathered, counted : SUBSET Hosts, pending : SUBSET Hosts,
   items : 0..MaxItems]

Idling ==
  [at |-> "idle", selected |-> {}, todo |-> {}, stage |-> NoTool, inputs |-> {},
   states |-> NotRecorded, previous |-> "none", shared |-> FALSE,
   gathered |-> NothingGathered, before |-> NothingGathered, counted |-> {}, pending |-> {},
   items |-> 0]

VARIABLES
  scanJob,      \* scan_jobs.status of the latest run
  recorded, \* the stages in its scope_json
  known,    \* names linked to the assessment
  listed,   \* domains.discovered_subdomains of the target
  run,      \* the run in the worker's memory, with what its session holds
  runs,     \* how many jobs were started, for the bound
  unwell    \* stages of this run that failed or were blocked

discoveryVars == <<scanJob, recorded, known, listed, run, runs, unwell>>

DiscoveryInit ==
  /\ scanJob = "none" /\ recorded = NotRecorded
  /\ known = {} /\ listed = {}
  /\ run = Idling /\ runs = 0 /\ unwell = {}

-----------------------------------------------------------------------------
(* Saving the progress. *)

\* The column as DiscoveryProgress.save leaves it.
SavedStages(r) == IF r.shared THEN recorded ELSE r.states

\* Commits what the session holds, the stages included, and goes on as r.
Save(r) ==
  /\ recorded' = SavedStages(r)
  /\ known' = known \union r.pending
  /\ run' = [r EXCEPT !.shared = TRUE, !.pending = {}]

\* A new record for a stage.
Marked(r, stage, state) == [r EXCEPT !.states[stage] = state, !.shared = FALSE]

Opened(r, stage, at) ==
  [Marked(r, stage, "running") EXCEPT !.at = at, !.stage = stage, !.previous = r.states[stage]]

EndedAnew(previous) == "completed"

\* A stage that was entered again and failed before stays failed.
Ended(previous) == IF previous = "failed" THEN "failed" ELSE "completed"

\* The record of a stage that ends well is changed in place.
ClosedStage(r, at) == [r EXCEPT !.states[r.stage] = Ended(r.previous), !.at = at]

\* A rollback, and the failure recorded in a column that is read again.
RolledBack(r, state) == [Marked(r, r.stage, state) EXCEPT !.pending = {}]

\* execute_assessment_task records how the job ended; the session's changes
\* are undone unless it completed.
EndJob(status) == scanJob' = status /\ run' = Idling

-----------------------------------------------------------------------------
(* The run of a domain. *)

StartJob(selected) ==
  /\ run.at = "idle" /\ runs < MaxRuns
  /\ runs' = runs + 1 /\ scanJob' = "running"
  /\ recorded' = NotRecorded /\ unwell' = {}
  /\ run' = [Idling EXCEPT !.at = "started", !.selected = selected, !.todo = selected \intersect Tools]
  /\ UNCHANGED <<known, listed>>

\* pipeline_slot, the queued stages and the names linked earlier.  A probe
\* looks at its own name only.
Plan ==
  /\ run.at = "started" /\ run.selected \subseteq Tools
  /\ \E linked \in BOOLEAN :
       LET domains == IF linked THEN known \union {RootDomain} ELSE {RootDomain}
           queued == run.selected \union {"correlation"}
           states == [s \in Stages |-> IF s \in queued THEN "queued" ELSE "none"]
       IN /\ Cardinality(domains) <= MaxDomains
          /\ Save([run EXCEPT !.at = "next", !.states = states, !.pending = {RootDomain},
                              !.gathered.domains = domains, !.counted = domains])
  /\ UNCHANGED <<scanJob, listed, runs, unwell>>

InputsOf(tool) ==
  CASE tool = "katana" -> run.gathered.http
    [] tool = "httpx" /\ "dnsx" \in run.selected -> run.gathered.resolved
    [] tool \in {"dnsx", "httpx"} -> run.gathered.domains
    [] OTHER -> {RootDomain}

\* The first of the tools that are left, in the order of their stages.
NextTool ==
  ORDER[CHOOSE i \in DOMAIN ORDER :
    ORDER[i] \in run.todo /\ \A j \in 1..i - 1 : ORDER[j] \notin run.todo]

Block ==
  /\ run.at = "next" /\ run.todo # {} /\ InputsOf(NextTool) = {}
  /\ Save([Marked(run, NextTool, "blocked") EXCEPT !.todo = @ \ {NextTool}])
  /\ unwell' = unwell \union {NextTool}
  /\ UNCHANGED <<scanJob, listed, runs>>

StartTool ==
  /\ run.at = "next" /\ run.todo # {} /\ InputsOf(NextTool) # {}
  /\ Save([Opened(run, NextTool, "tool") EXCEPT
             !.inputs = InputsOf(NextTool), !.before = run.gathered, !.todo = @ \ {NextTool}])
  /\ UNCHANGED <<scanJob, listed, runs, unwell>>

\* execute_domain_plan commits what the provider lists.
AskProvider ==
  /\ run.at = "tool" /\ run.stage = "crtsh"
  /\ \E found \in SUBSET Subdomains :
       /\ listed' = listed \union found
       /\ run' = [run EXCEPT !.at = "ingested", !.pending = {RootDomain} \union listed',
                             !.gathered.domains = @ \union {RootDomain} \union listed',
                             !.counted = @ \union {RootDomain} \union listed']
  /\ UNCHANGED <<scanJob, recorded, known, runs, unwell>>

\* Adapter.run and the ingestion of what it parsed inside the scope, the
\* names with an address among it; a failing stage may have ingested a part
\* only.
RunTool ==
  /\ run.at = "tool" /\ run.stage # "crtsh"
  /\ \E found \in SUBSET Hosts : \E answered \in SUBSET found :
       LET r == [run EXCEPT !.at = "ingested", !.pending = found] IN
       run' = CASE run.stage = "subfinder" ->
                     [r EXCEPT !.gathered.domains = @ \union found, !.counted = @ \union found]
                [] run.stage = "dnsx" ->
                     [r EXCEPT !.gathered.domains = @ \union found,
                               !.gathered.resolved = @ \union answered, !.counted = @ \union found]
                [] run.stage = "httpx" -> [r EXCEPT !.gathered.http = @ \union found]
                [] OTHER -> [r EXCEPT !.pending = {}]
  /\ UNCHANGED <<scanJob, recorded, known, listed, runs, unwell>>

CompleteTool ==
  /\ run.at = "ingested" /\ Cardinality(run.counted) <= MaxDomains
  /\ Save(ClosedStage(run, "next"))
  /\ listed' = run.gathered.domains \ {RootDomain}
  /\ UNCHANGED <<scanJob, runs, unwell>>

ForgottenNothing(r) == r

\* What a failed stage gathered is dropped, though not from the count.
Forgotten(r) == [r EXCEPT !.gathered = r.before]

\* The reason for the failure is put into a record that is shared by then.
FailTool ==
  /\ run.at \in {"tool", "ingested"}
  /\ \E reason \in {"failed", "limit_reached"} :
       LET r == RolledBack(run, "failed") IN
       /\ recorded' = SavedStages(r)
       /\ run' = [Forgotten(r) EXCEPT !.states[run.stage] = reason, !.shared = TRUE,
                                      !.at = "next"]
  /\ unwell' = unwell \union {run.stage}
  /\ UNCHANGED <<scanJob, known, listed, runs>>

-----------------------------------------------------------------------------
(* The run of a GitHub owner. *)

QueueOwner ==
  /\ run.at = "started" /\ run.selected \subseteq OwnerStages
  /\ Save([run EXCEPT !.at = "next", !.states =
             [s \in Stages |-> IF s \in run.selected \union {"correlation"} THEN "queued"
                               ELSE "none"]])
  /\ UNCHANGED <<scanJob, listed, runs, unwell>>

StartOwner ==
  /\ run.at = "next" /\ "repositories" \in run.selected
  /\ run.states["repositories"] = "queued"
  /\ Save(Opened(run, "repositories", "items"))
  /\ UNCHANGED <<scanJob, listed, runs, unwell>>

\* A repository is stored and committed, then its contributors are looked at.
NextItem ==
  /\ run.at = "items" /\ run.items < MaxItems
  /\ LET r == [run EXCEPT !.items = @ + 1] IN
     IF "expansion" \in run.selected THEN Save(Opened(r, "expansion", "expanding")) ELSE Save(r)
  /\ UNCHANGED <<scanJob, listed, runs, unwell>>

CompleteExpansion ==
  /\ run.at = "expanding"
  /\ \E found \in SUBSET Subdomains :
       Save([ClosedStage(run, "items") EXCEPT !.stage = "repositories", !.previous = "queued",
                                         !.pending = found])
  /\ UNCHANGED <<scanJob, listed, runs, unwell>>

FailExpansion ==
  /\ run.at = "expanding"
  /\ Save([RolledBack(run, "failed") EXCEPT !.at = "items", !.stage = "repositories",
                                            !.previous = "queued"])
  /\ unwell' = unwell \union {"expansion"}
  /\ UNCHANGED <<scanJob, listed, runs>>

CompleteOwner ==
  /\ run.at = "items"
  /\ Save(ClosedStage(run, "next"))
  /\ UNCHANGED <<scanJob, listed, runs, unwell>>

Search ==
  /\ run.at = "next" /\ run.states["repositories"] = "completed"
  /\ run.states["search"] = "queued"
  /\ Save(Opened(run, "search", "searching"))
  /\ UNCHANGED <<scanJob, listed, runs, unwell>>

CompleteSearch ==
  /\ run.at = "searching"
  /\ Save(ClosedStage(run, "next"))
  /\ UNCHANGED <<scanJob, listed, runs, unwell>>

-----------------------------------------------------------------------------
(* The end of a run. *)

Correlate ==
  /\ run.at = "next" /\ run.todo = {}
  /\ \A s \in run.selected : run.states[s] # "queued"
  /\ Save(Opened(run, "correlation", "correlating"))
  /\ UNCHANGED <<scanJob, listed, runs, unwell>>

CompleteCorrelation ==
  /\ run.at = "correlating"
  /\ Save([ClosedStage(run, "ended") EXCEPT
             !.pending = IF run.selected \subseteq Tools THEN {RootDomain} \union listed ELSE {}])
  /\ UNCHANGED <<scanJob, listed, runs, unwell>>

\* A job whose stages did not all succeed fails.
EndRun ==
  /\ run.at = "ended"
  /\ EndJob(IF unwell = {} THEN "completed" ELSE "failed")
  /\ UNCHANGED <<recorded, known, listed, runs, unwell>>

\* The other stages give up with the job: an error, or a cancellation.
FailRun ==
  /\ run.at \in {"items", "searching", "correlating"}
  /\ recorded' = [run.states EXCEPT ![run.stage] = "failed"]
  /\ unwell' = unwell \union {run.stage}
  /\ EndJob("failed")
  /\ UNCHANGED <<known, listed, runs>>

\* An operator's request is seen inside a stage or between two.
CancelDiscovery ==
  /\ run.at # "idle"
  /\ recorded' = IF run.at \in {"started", "next", "ended"} THEN recorded
                 ELSE [run.states EXCEPT ![run.stage] = "cancelled"]
  /\ EndJob("cancelled")
  /\ UNCHANGED <<known, listed, runs, unwell>>

\* No slot, too many names, or a commit that fails.
AbortRun ==
  /\ run.at # "idle"
  /\ EndJob("failed")
  /\ UNCHANGED <<recorded, known, listed, runs, unwell>>

\* The process dies; the job stays as it is.
Die ==
  /\ run.at # "idle"
  /\ run' = Idling
  /\ UNCHANGED <<scanJob, recorded, known, listed, runs, unwell>>

DiscoveryNext ==
  \/ \E s \in Selections \union {{"repositories"}, OwnerStages} : StartJob(s)
  \/ Plan \/ Block \/ StartTool \/ AskProvider \/ RunTool \/ CompleteTool \/ FailTool
  \/ QueueOwner \/ StartOwner \/ NextItem \/ CompleteExpansion \/ FailExpansion
  \/ CompleteOwner \/ Search \/ CompleteSearch
  \/ Correlate \/ CompleteCorrelation \/ EndRun \/ FailRun \/ CancelDiscovery \/ AbortRun \/ Die

DiscoverySpec == DiscoveryInit /\ [][DiscoveryNext]_discoveryVars

-----------------------------------------------------------------------------
(* Properties. *)

\* pipeline._run: a tool is only ever run on names the assessment holds in
\* the database, whichever earlier stages failed, were rolled back or left
\* work behind in another run; the names a failed stage brought up in memory
\* are not probed.
InputsAreStored == run.at = "tool" => run.inputs \subseteq known

\* DiscoveryProgress.stage: a stage that failed once in a run is never
\* recorded as completed, though the contributors of the next repository
\* are expanded well, and a run with such a stage never completes.
FailureIsRemembered ==
  /\ \A s \in unwell : recorded[s] # "completed"
  /\ scanJob = "completed" => unwell = {}

\* discovery_progress.py:1 calls the stages durable: once the job has
\* completed, none of its stages is recorded as queued or running.
CompletedJobRecordsItsStages ==
  scanJob = "completed" => \A s \in Stages : recorded[s] \notin {"queued", "running"}
=============================================================================
