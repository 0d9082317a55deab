----------------------------- MODULE ScannerRun -----------------------------
(***************************************************************************)
(* Execution of a plan for files (services/scan_service.execute_plan): one *)
(* scanner after the other, each with a scan job and a tool run of its own *)
(* (runner.execute_scan), behind the adapter that turns what a scanner     *)
(* does into a result or an error (scanners/registry.py).  A program runs  *)
(* as a group of processes under limits of time and output, and under the  *)
(* operator's stop (processes.run); its report is read by the scanner that *)
(* ran it (scanners/).  A saved report goes the same way without a run     *)
(* (runner.record_scan_results).                                           *)
(***************************************************************************)
EXTENDS Integers, FiniteSets, Sequences

CONSTANTS
  ScanPlans,   \* the sequences of scanners that are asked for
  ScanTargets, \* what the files of a target may be
  MaxOutput,   \* bound: blocks of output before processes.OUTPUT_LIMIT
  NoScanner

Builtins == {"custom-patterns", "heuristic-rules", "repo-governance"}
ReportTools == {"gitleaks", "detect-secrets", "semgrep", "trufflehog"}
Programs == ReportTools \union {"yara", "ripgrep-heuristics", "git-history-patterns"}
ScannerNames == Builtins \union Programs

\* What a target holds: files that can be read, with something to report in
\* them; governance files; entries of other kinds; more entries than
\* MAX_ENTRIES; or its own path is a link.
Files == {"text", "oversized", "binary"}
Places == Files \union {"policy", "link", "special", "crowded", "alias"}

\* Where a match can be: in a file, at the repository's root, or nowhere.
Hits == Files \union {"root", "nowhere"}

ASSUME ScannerRunAssumption ==
  /\ \A plan \in ScanPlans : plan \in Seq(ScannerNames)
  /\ \A target \in ScanTargets : target \subseteq Places
  /\ MaxOutput \in Nat /\ NoScanner \notin ScannerNames

\* The rows of a scan that was started, with what its programs reported.
Started == [job |-> "running", tool |-> "running", stored |-> {}, told |-> {}]
NoGroup == [leader |-> "none", helpers |-> {}, output |-> 0, late |-> FALSE, cut |-> FALSE]

VARIABLES
  target,     \* what the target holds
  plan,       \* scanners that are still to run
  scanning,   \* where the worker is, and the matches so far
  group,      \* the process group: its leader, and helpers that hold a pipe or none
  rows,       \* by scanner: its scan job, its tool run, the findings stored
  stopAsked,  \* the operator requested a stop
  stopSeen,   \* check_cancelled raised
  result,     \* what execute_plan answered
  amiss       \* scanners with a process that did not come to a proper end

scannerVars == <<target, plan, scanning, group, rows, stopAsked, stopSeen, result, amiss>>

Resting == [at |-> "between", scanner |-> NoScanner, todo |-> <<>>, matches |-> {}, told |-> {}]

ScannerInit ==
  /\ target \in ScanTargets /\ plan \in ScanPlans
  /\ scanning = Resting /\ group = NoGroup
  /\ rows = [s \in {} |-> Started]
  /\ stopAsked = FALSE /\ stopSeen = FALSE /\ result = "none" /\ amiss = {}

-----------------------------------------------------------------------------
(* What the scanners make of files and of reports. *)

Failure == [ok |-> FALSE, found |-> {}]
Found(matches) == [ok |-> TRUE, found |-> matches]

\* files.iter_files: links and special files are passed over.
Listed == target \ {"link", "special"}

\* files.read_text: a file that is too large reads as empty, one that is
\* not text is skipped.
Readable == Listed \intersect {"text"}

CustomPatterns == Found(Readable)

\* One rule may take too long on one line.
HeuristicRules == {Found(Readable), Failure}

\* Files a repository should have, and does not.
MissingPolicies == IF "policy" \in target THEN {} ELSE {"root"}

\* Workflows that grant too much; a workflow that is too large reads as one
\* that declares no permissions.
RiskyWorkflows == Listed \intersect {"text", "oversized"}

Governance == Found(MissingPolicies \union RiskyWorkflows)

BuiltinResults(s) ==
  IF "crowded" \in target THEN {Failure}
  ELSE CASE s = "custom-patterns" -> {CustomPatterns}
         [] s = "heuristic-rules" -> HeuristicRules
         [] OTHER -> {Governance}

\* Reports, by the form of their content: nothing at all, something that
\* cannot be parsed, a list (or lines) of entries, an object with results,
\* and any other object.  An odd one has an entry of another type.
Report(form, matches, odd) == [form |-> form, matches |-> matches, odd |-> odd]

Entries(form, places) == {Report(form, m, odd) : m \in SUBSET places, odd \in BOOLEAN}

\* What the programs may print, the tools' own form with matches.
ReportsOf(s, places) ==
  CASE s \in {"detect-secrets", "semgrep"} ->
         {Report(form, {}, FALSE) : form \in {"empty", "garbled", "object", "list"}}
         \union Entries("results", places)
    [] s \in {"gitleaks", "trufflehog", "ripgrep-heuristics"} ->
         {Report(form, {}, FALSE) : form \in {"empty", "garbled", "object", "results"}}
         \union Entries("list", places)
    [] s = "yara" ->
         {Report("empty", {}, FALSE), Report("garbled", {}, FALSE)}
         \union Entries("list", places \union {"nowhere"})
    [] OTHER -> {Report("empty", {}, FALSE)} \union Entries("list", places \union {"nowhere"})

ReadGitleaks(r) ==
  CASE r.form = "empty" -> Found({})
    [] r.form = "list" /\ ~r.odd -> Found(r.matches)
    [] OTHER -> Failure

\* Without results of the expected shape there is nothing to report.
ReadDetectSecrets(r) ==
  CASE r.form \in {"empty", "object"} -> Found({})
    [] r.form = "results" -> Found(r.matches)
    [] OTHER -> Failure

ReadSemgrep(r) ==
  CASE r.form \in {"empty", "object"} -> Found({})
    [] r.form = "results" -> Found(r.matches)
    [] OTHER -> Failure

\* A line with any other object becomes a match without a file.
ReadTruffleHog(r) ==
  CASE r.form = "empty" -> Found({})
    [] r.form \in {"object", "results"} -> Found({"nowhere"})
    [] r.form = "list" /\ ~r.odd -> Found(r.matches)
    [] OTHER -> Failure

\* Lines that are no match are events of other types.
ReadRipgrep(r) ==
  CASE r.form \in {"empty", "object", "results"} -> Found({})
    [] r.form = "list" /\ ~r.odd -> Found(r.matches)
    [] OTHER -> Failure

\* A match outside the target is refused; a line that is none is skipped.
ReadYara(r) ==
  CASE r.form = "empty" -> Found({})
    [] r.form = "list" /\ "nowhere" \notin r.matches -> Found(r.matches)
    [] OTHER -> Failure

\* Only what looks like a commit, a hunk or a changed line is looked at; a
\* line of no known file belongs to the repository's root.
ReadGitHistory(r) ==
  Found({IF m = "nowhere" THEN "root" ELSE m : m \in r.matches})

ReadReport(s, r) ==
  CASE s = "gitleaks" -> ReadGitleaks(r)
    [] s = "detect-secrets" -> ReadDetectSecrets(r)
    [] s = "semgrep" -> ReadSemgrep(r)
    [] s = "trufflehog" -> ReadTruffleHog(r)
    [] s = "ripgrep-heuristics" -> ReadRipgrep(r)
    [] s = "yara" -> ReadYara(r)
    [] OTHER -> ReadGitHistory(r)

\* load_report: a saved report is checked for its type first, and the odd
\* lines of one are skipped.
LoadReport(s, r) ==
  IF s = "trufflehog" /\ r.form = "list" THEN Found(r.matches) ELSE ReadReport(s, r)

\* The programs a scanner runs, in order.
Commands(s) ==
  CASE s \in Builtins -> <<>>
    [] s = "detect-secrets" -> <<"probe", "probe", "scan">>
    [] s = "yara" -> <<"probe", "scan">>
    [] s = "ripgrep-heuristics" -> <<"scan", "scan">>
    [] s = "git-history-patterns" -> <<"locate", "scan">>
    [] OTHER -> <<"scan">>

\* Exit codes that are not taken for a failure.
AcceptedAny(s, command) == 0..2

Accepted(s, command) ==
  IF command = "scan" /\ s \in {"gitleaks", "semgrep", "trufflehog", "ripgrep-heuristics"}
  THEN {0, 1} ELSE {0}

-----------------------------------------------------------------------------
(* Jobs. *)

Current == scanning.scanner

OpenRows(s) == rows' = [x \in DOMAIN rows \union {s} |-> IF x = s THEN Started ELSE rows[x]]

\* runner.execute_scan: a cancellation that gets here has a status of its own.
RecordError(kind) ==
  /\ rows' = [rows EXCEPT ![Current].job = kind, ![Current].tool = "failed"]
  /\ scanning' = Resting /\ result' = kind /\ plan' = <<>>

\* ScannerAdapter.scan and readiness: any exception of a scanner becomes a
\* ScannerExecutionError.
Escaped(kind) == "failed"

RaiseError(kind) == RecordError(Escaped(kind))

\* execute_scan creates and commits the two rows.
BeginScan ==
  /\ scanning.at = "between" /\ plan # <<>> /\ result = "none" /\ "alias" \notin target
  /\ scanning' = [at |-> "ready", scanner |-> Head(plan), todo |-> Commands(Head(plan)),
                  matches |-> {}, told |-> {}]
  /\ plan' = Tail(plan) /\ group' = NoGroup
  /\ OpenRows(Head(plan))
  /\ UNCHANGED <<target, stopAsked, stopSeen, result, amiss>>

\* validate_scan_target, before anything is recorded.
RefuseTarget ==
  /\ scanning.at = "between" /\ plan # <<>> /\ result = "none" /\ "alias" \in target
  /\ result' = "failed" /\ plan' = <<>>
  /\ UNCHANGED <<target, scanning, group, rows, stopAsked, stopSeen, amiss>>

\* readiness: no binary, no rules or a file of settings that cannot be read.
NotReady ==
  /\ scanning.at = "ready" /\ scanning.todo = Commands(Current)
  /\ Current \notin {"custom-patterns", "repo-governance"}
  /\ RaiseError("failed")
  /\ UNCHANGED <<target, group, stopAsked, stopSeen, amiss>>

ScanFiles ==
  /\ scanning.at = "ready" /\ Current \in Builtins
  /\ \E outcome \in BuiltinResults(Current) :
       IF outcome.ok
       THEN /\ scanning' = [scanning EXCEPT !.at = "persisting", !.matches = outcome.found]
            /\ UNCHANGED <<plan, rows, result>>
       ELSE RaiseError("failed")
  /\ UNCHANGED <<target, group, stopAsked, stopSeen, amiss>>

\* validate_scan_target for programs that do not run over links themselves.
Runnable(command) ==
  command = "probe" \/ Current = "git-history-patterns"
    \/ target \intersect {"link", "special", "crowded"} = {}

RefuseFiles ==
  /\ scanning.at = "ready" /\ Current \in Programs /\ ~Runnable(Head(scanning.todo))
  /\ RaiseError("failed")
  /\ UNCHANGED <<target, group, stopAsked, stopSeen, amiss>>

-----------------------------------------------------------------------------
(* processes.run. *)

Running == group.leader = "alive" \/ "holding" \in group.helpers

KilledLeader(g) == [g EXCEPT !.leader = "dead", !.cut = TRUE]

\* killpg: the descendants too.
Killed(g) == [g EXCEPT !.leader = "dead", !.helpers = {}, !.cut = TRUE]

\* The probe of YARA is for its version only.
Optional == Current = "yara" /\ Head(scanning.todo) = "probe"

NextCommand(matches, told) ==
  /\ scanning' = [scanning EXCEPT !.at = IF Len(scanning.todo) = 1 THEN "persisting" ELSE "ready",
                                  !.todo = Tail(@), !.matches = @ \union matches,
                                  !.told = @ \union told]
  /\ UNCHANGED <<plan, rows, result>>

\* The program is started as the leader of its own session.
Spawn ==
  /\ scanning.at = "ready" /\ Current \in Programs /\ Runnable(Head(scanning.todo))
  /\ group' = [NoGroup EXCEPT !.leader = "alive"]
  /\ scanning' = [scanning EXCEPT !.at = "process"]
  /\ UNCHANGED <<target, plan, rows, stopAsked, stopSeen, result, amiss>>

CannotSpawn ==
  /\ scanning.at = "ready" /\ Current \in Programs /\ Runnable(Head(scanning.todo))
  /\ IF Optional THEN NextCommand({}, {}) /\ amiss' = amiss
     ELSE RaiseError("failed") /\ amiss' = amiss \union {Current}
  /\ UNCHANGED <<target, group, stopAsked, stopSeen>>

\* The group goes on by itself: helpers that keep the pipes open or not are
\* started and end, something is written, the leader ends, time runs out.
Fork ==
  /\ group.leader = "alive"
  /\ \E kind \in {"holding", "quiet"} : group' = [group EXCEPT !.helpers = @ \union {kind}]
  /\ UNCHANGED <<target, plan, scanning, rows, stopAsked, stopSeen, result, amiss>>

HelperEnds ==
  /\ \E kind \in group.helpers : group' = [group EXCEPT !.helpers = @ \ {kind}]
  /\ UNCHANGED <<target, plan, scanning, rows, stopAsked, stopSeen, result, amiss>>

WriteBlock ==
  /\ Running /\ group.output <= MaxOutput
  /\ group' = [group EXCEPT !.output = @ + 1]
  /\ UNCHANGED <<target, plan, scanning, rows, stopAsked, stopSeen, result, amiss>>

LeaderEnds ==
  /\ group.leader = "alive"
  /\ group' = [group EXCEPT !.leader = "dead"]
  /\ UNCHANGED <<target, plan, scanning, rows, stopAsked, stopSeen, result, amiss>>

TimeRunsOut ==
  /\ Running /\ ~group.late
  /\ group' = [group EXCEPT !.late = TRUE]
  /\ UNCHANGED <<target, plan, scanning, rows, stopAsked, stopSeen, result, amiss>>

AskStop ==
  /\ ~stopAsked /\ result = "none" /\ scanning.at # "dead"
  /\ stopAsked' = TRUE
  /\ UNCHANGED <<target, plan, scanning, group, rows, stopSeen, result, amiss>>

\* Before a program is started, and again in every turn of the loop.
SeeStop ==
  /\ stopAsked /\ Current \in Programs
  /\ \/ scanning.at = "ready" /\ Runnable(Head(scanning.todo)) /\ group' = group
     \/ scanning.at = "process" /\ Running /\ group' = Killed(group)
  /\ stopSeen' = TRUE /\ amiss' = amiss \union {Current}
  /\ RaiseError("cancelled")
  /\ UNCHANGED <<target, stopAsked>>

\* Too much time or output.
CutOff ==
  /\ scanning.at = "process"
  /\ \/ Running /\ group.late
     \/ group.output > MaxOutput
  /\ group' = Killed(group)
  /\ IF Optional THEN NextCommand({}, {}) /\ amiss' = amiss
     ELSE RaiseError("failed") /\ amiss' = amiss \union {Current}
  /\ UNCHANGED <<target, stopAsked, stopSeen>>

\* The pipes are closed and the leader is gone.
GroupEnded == scanning.at = "process" /\ ~Running /\ group.output <= MaxOutput

\* A probe, or the question where the repository is.
EndProbe ==
  /\ GroupEnded /\ Head(scanning.todo) # "scan"
  /\ \E code \in 0..2 : \E understood \in BOOLEAN :
       IF Optional \/ (understood /\ code \in Accepted(Current, Head(scanning.todo)))
       THEN NextCommand({}, {}) ELSE RaiseError("failed")
  /\ UNCHANGED <<target, group, stopAsked, stopSeen, amiss>>

\* The exit code and the report decide.
EndScan ==
  /\ GroupEnded /\ Head(scanning.todo) = "scan"
  /\ \E code \in 0..2 : \E report \in ReportsOf(Current, target \intersect Files) :
       LET reading == ReadReport(Current, report) IN
       /\ amiss' = IF code = 2 \/ report.form = "garbled" THEN amiss \union {Current} ELSE amiss
       /\ IF code \in Accepted(Current, "scan") /\ reading.ok
          THEN NextCommand(reading.found, report.matches \ {"nowhere"}) ELSE RaiseError("failed")
  /\ UNCHANGED <<target, group, stopAsked, stopSeen>>

-----------------------------------------------------------------------------
(* Storing the matches. *)

CompletedRows ==
  [job |-> "completed", tool |-> "completed", stored |-> scanning.matches, told |-> scanning.told]

\* _persist_matches and the status of both rows are one commit.
CompleteScan ==
  /\ scanning.at = "persisting"
  /\ rows' = [rows EXCEPT ![Current] = CompletedRows]
  /\ scanning' = Resting
  /\ result' = IF plan = <<>> THEN "results" ELSE "none"
  /\ UNCHANGED <<target, plan, group, stopAsked, stopSeen, amiss>>

\* A match that cannot be stored, or a commit that fails.
FailToStore ==
  /\ scanning.at = "persisting"
  /\ RecordError("failed")
  /\ UNCHANGED <<target, group, stopAsked, stopSeen, amiss>>

\* record_scan_results of a saved report; one that cannot be read has no job.
Ingest ==
  /\ scanning.at = "between" /\ plan = <<>> /\ result = "none"
  /\ \E s \in ReportTools : \E report \in ReportsOf(s, Files) :
       LET reading == LoadReport(s, report) IN
       IF reading.ok
       THEN /\ scanning' = [at |-> "persisting", scanner |-> s, todo |-> <<>>,
                            matches |-> reading.found, told |-> report.matches]
            /\ OpenRows(s) /\ UNCHANGED result
       ELSE result' = "failed" /\ UNCHANGED <<scanning, rows>>
  /\ UNCHANGED <<target, plan, group, stopAsked, stopSeen, amiss>>

\* The worker dies; its processes do not.
WorkerDies ==
  /\ scanning.at \notin {"between", "dead"}
  /\ scanning' = [scanning EXCEPT !.at = "dead"]
  /\ UNCHANGED <<target, plan, group, rows, stopAsked, stopSeen, result, amiss>>

ScannerNext ==
  \/ BeginScan \/ RefuseTarget \/ NotReady \/ ScanFiles \/ RefuseFiles
  \/ Spawn \/ CannotSpawn \/ Fork \/ HelperEnds \/ WriteBlock \/ LeaderEnds \/ TimeRunsOut
  \/ AskStop \/ SeeStop \/ CutOff \/ EndProbe \/ EndScan
  \/ CompleteScan \/ FailToStore \/ Ingest \/ WorkerDies

ScannerSpec == ScannerInit /\ [][ScannerNext]_scannerVars

-----------------------------------------------------------------------------
(* Properties. *)

\* execute_scan and the adapters: a scan that is recorded as completed ran
\* all its programs to a proper end and stored every match they reported;
\* of any other scan nothing is stored; and job and tool run agree, also
\* when the worker died.
ScansAreWhole ==
  \A s \in DOMAIN rows :
    /\ rows[s].job = "completed" <=> rows[s].tool = "completed"
    /\ rows[s].job = "completed" => s \notin amiss /\ rows[s].told \subseteq rows[s].stored
    /\ rows[s].job # "completed" => rows[s].stored = {}

\* processes.run: when the worker goes on, no process is left that could
\* write into its pipes, and of a group that was cut off none at all, the
\* descendants of the program included.
NoProcessLeft ==
  scanning.at \notin {"process", "dead"} =>
    ~Running /\ (group.cut => group.helpers = {})

\* docs/job-reliability.md:28: a stop that is seen while a program runs is
\* a cancellation, not a failure.
StopIsCancellation == stopSeen => result = "cancelled"
=============================================================================
