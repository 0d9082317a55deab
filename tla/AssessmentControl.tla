------------------------- MODULE AssessmentControl -------------------------
(***************************************************************************)
(* One assessment: its status, one uploaded artifact, the HTTP probes of   *)
(* its domains, and the jobs analysts launch, retry and stop               *)
(* (services/assessments/jobs.py, service.py, artifacts.py, workbench.py). *)
(*                                                                         *)
(* Every call reads in a database session, decides on what it read and     *)
(* commits later; nothing is locked in between, and a commit writes only   *)
(* the columns that differ from what was read.  The queue is reduced to    *)
(* what it promises here: a pending job starts at some time and ends.      *)
(***************************************************************************)
EXTENDS Integers, FiniteSets

CONSTANTS
  Domains,  \* linked domains inside the scope of a valid target
  Analysts, \* concurrent calls
  MaxJobs,  \* bound: rows of assessment_runs
  MaxCalls, \* bound: calls started
  Upload    \* the artifact a scan is of

ASSUME AssessmentAssumption ==
  /\ MaxJobs \in Nat /\ MaxCalls \in Nat
  /\ Upload \notin Domains

AssessmentStatus == {"draft", "ready", "active", "paused", "completed", "archived"}
Closed == {"archived", "completed"}
Editable == {"draft", "ready", "paused"}

Jobs == 1..MaxJobs
JobState == {"none", "pending", "checking", "working", "completed", "failed", "cancelled"}

\* A run with its schedule and execution.  of: the upload or the domain;
\* retry: created by retry; barred: started after the upload was withdrawn.
Job ==
  [state : JobState, of : Domains \union {Upload}, retry : BOOLEAN, barred : BOOLEAN]

NoJob == [state |-> "none", of |-> Upload, retry |-> FALSE, barred |-> FALSE]

\* The upload's target row, the selection of its repository and the
\* encrypted file.
UploadState ==
  [target : {"none", "valid", "purged"}, link : {"none", "included", "excluded"},
   file : BOOLEAN]

Call ==
  [op : {"idle", "update", "launch", "retry", "upload", "store", "remove", "unlink"},
   status : AssessmentStatus, wanted : AssessmentStatus, upload : UploadState,
   jobs : SUBSET (Domains \union {Upload})]

NoUpload == [target |-> "none", link |-> "none", file |-> FALSE]

IdleCall ==
  [op |-> "idle", status |-> "draft", wanted |-> "draft", upload |-> NoUpload, jobs |-> {}]

VARIABLES
  status,    \* assessments.status
  upload,    \* the artifact's rows and file
  jobs,      \* assessment_runs, oldest first
  probed,    \* domains whose link holds an observation of httpx
  calls,     \* what each call read and wants to write
  started,   \* how many calls were started, for the bound
  withdrawn, \* the upload was purged and not selected or uploaded again
  crossed,   \* an upload and a removal were in progress at the same time
  raced      \* two launches of probes were in progress at the same time

assessmentVars ==
  <<status, upload, jobs, probed, calls, started, withdrawn, crossed, raced>>

AssessmentInit ==
  /\ status = "draft" /\ upload = NoUpload
  /\ jobs = [j \in Jobs |-> NoJob]
  /\ probed = {}
  /\ calls = [c \in Analysts |-> IdleCall]
  /\ started = 0
  /\ withdrawn = FALSE /\ crossed = FALSE /\ raced = FALSE

-----------------------------------------------------------------------------
(* A call: it reads, then commits, or is lost with its process. *)

InProgress(ops) == \E c \in Analysts : calls[c].op \in ops
Uploading == {"upload", "store"}
Removing == {"remove", "unlink"}

Read(c, op, wanted, of) ==
  /\ calls[c].op = "idle" /\ started < MaxCalls
  /\ started' = started + 1
  /\ calls' = [calls EXCEPT ![c] =
       [op |-> op, status |-> status, wanted |-> wanted, upload |-> upload, jobs |-> of]]
  /\ UNCHANGED <<status, upload, jobs, probed, withdrawn>>

Return(c) == calls' = [calls EXCEPT ![c] = IdleCall]

\* An UPDATE of the column, if its value differs from the one read.
Column(seen, wanted, stored) == IF wanted = seen THEN stored ELSE wanted

Lost(c) ==
  /\ calls[c].op # "idle"
  /\ Return(c)
  /\ UNCHANGED <<status, upload, jobs, probed, started, withdrawn, crossed, raced>>

-----------------------------------------------------------------------------
(* AssessmentService.update, also as pause and resume. *)

UpdateRead(c) ==
  /\ \E wanted \in AssessmentStatus \ {"active"} : Read(c, "update", wanted, {})
  /\ UNCHANGED <<crossed, raced>>

UpdateWrite(c) ==
  /\ calls[c].op = "update"
  /\ status' = Column(calls[c].status, calls[c].wanted, status)
  /\ Return(c)
  /\ UNCHANGED <<upload, jobs, probed, started, withdrawn, crossed, raced>>

-----------------------------------------------------------------------------
(* Launches and retries. *)

LiveJob == {"pending", "checking", "working"}

\* Jobs that did not end yet, only.
AttemptedLive == {jobs[j].of : j \in {i \in Jobs : jobs[i].state \in LiveJob}}

\* Domains with a probe job that was not cancelled.
Attempted == {jobs[j].of : j \in {i \in Jobs : jobs[i].state \notin {"none", "cancelled"}}}

Eligible(kind) ==
  IF kind = "http_probe" THEN Domains \ (Attempted \union probed)
  ELSE IF upload.link = "included" THEN {Upload} ELSE {}

LaunchRead(c) ==
  \E kind \in {"scan", "http_probe"} :
    /\ status \notin Closed
    /\ Eligible(kind) # {}
    /\ Read(c, "launch", "active", Eligible(kind))
    /\ raced' = (raced \/ /\ kind = "http_probe"
                          /\ \E other \in Analysts : /\ calls[other].op = "launch"
                                                     /\ calls[other].jobs # {Upload})
    /\ UNCHANGED crossed

Failed(of) == \E j \in Jobs : jobs[j].state = "failed" /\ jobs[j].of = of

RetryRead(c) ==
  /\ \E of \in Domains \union {Upload} : Failed(of) /\ Read(c, "retry", "active", {of})
  /\ UNCHANGED <<crossed, raced>>

Free == {j \in Jobs : jobs[j].state = "none"}

\* The jobs of a call take the next rows, one each.
LaunchWrite(c) ==
  LET call == calls[c] IN
  /\ call.op \in {"launch", "retry"}
  /\ \E rows \in SUBSET Free :
       /\ Cardinality(rows) = Cardinality(call.jobs)
       /\ \A j \in Free \ rows, r \in rows : r < j
       /\ \E of \in [rows -> call.jobs] :
            /\ \A x \in call.jobs : \E r \in rows : of[r] = x
            /\ jobs' = [j \in Jobs |->
                 IF j \in rows
                 THEN [state |-> "pending", of |-> of[j], retry |-> call.op = "retry",
                       barred |-> FALSE]
                 ELSE jobs[j]]
  /\ status' = Column(call.status, "active", status)
  /\ Return(c)
  /\ UNCHANGED <<upload, probed, started, withdrawn, crossed, raced>>

\* cancel_run of a job that no worker has; the queue stops the other ones.
CancelRun(j) ==
  /\ jobs[j].state = "pending"
  /\ jobs' = [jobs EXCEPT ![j].state = "cancelled"]
  /\ UNCHANGED <<status, upload, probed, calls, started, withdrawn, crossed, raced>>

-----------------------------------------------------------------------------
(* execute_assessment_task, in a worker. *)

Rest == <<status, upload, calls, started, withdrawn, crossed, raced>>

Start(j) ==
  /\ jobs[j].state = "pending"
  /\ jobs' = [jobs EXCEPT ![j].state = "checking",
                          ![j].barred = withdrawn /\ jobs[j].of = Upload]
  /\ UNCHANGED <<probed, Rest>>

PermittedOpen(of) == status \notin Closed \union {"paused"}

Permitted(of) ==
  /\ status \notin Closed \union {"paused"}
  /\ of = Upload => upload.link = "included"

Check(j) ==
  /\ jobs[j].state = "checking" /\ ~Permitted(jobs[j].of)
  /\ jobs' = [jobs EXCEPT ![j].state = "failed"]
  /\ UNCHANGED <<probed, Rest>>

\* A scan reads the encrypted file after the checks, and fails without it.
Work(j) ==
  /\ jobs[j].state = "checking" /\ Permitted(jobs[j].of)
  /\ jobs' = [jobs EXCEPT ![j].state =
       IF jobs[j].of = Upload /\ ~upload.file THEN "failed" ELSE "working"]
  /\ UNCHANGED <<probed, Rest>>

\* It ends, or is queued again after a transient failure.
End(j) ==
  /\ jobs[j].state = "working"
  /\ \E state \in {"completed", "failed", "cancelled", "pending"} :
       /\ jobs' = [jobs EXCEPT ![j].state = state]
       /\ probed' = IF state = "completed" THEN probed \union ({jobs[j].of} \ {Upload})
                    ELSE probed
  /\ UNCHANGED Rest

-----------------------------------------------------------------------------
(* AssessmentArtifacts.upload, remove_target and select_repositories. *)

UploadRead(c) ==
  /\ status \in Editable /\ upload.target # "valid"
  /\ Read(c, "upload", status, {})
  /\ crossed' = (crossed \/ InProgress(Removing))
  /\ UNCHANGED raced

\* os.replace of the encrypted file; only then the link is read
UploadStore(c) ==
  /\ calls[c].op = "upload"
  /\ upload' = [upload EXCEPT !.file = TRUE]
  /\ calls' = [calls EXCEPT ![c].op = "store", ![c].upload.link = upload.link]
  /\ UNCHANGED <<status, jobs, probed, started, withdrawn, crossed, raced>>

Unbar == [j \in Jobs |-> [jobs[j] EXCEPT !.barred = FALSE]]

\* A row that another upload inserted since makes the commit fail.
UploadCommit(c) ==
  /\ calls[c].op = "store"
  /\ \A row \in {"target", "link"} : calls[c].upload[row] = "none" => upload[row] = "none"
  /\ upload' = [upload EXCEPT
       !.target = Column(calls[c].upload.target, "valid", @),
       !.link = Column(calls[c].upload.link, "included", @)]
  /\ withdrawn' = FALSE /\ jobs' = Unbar
  /\ Return(c)
  /\ UNCHANGED <<status, probed, started, crossed, raced>>

RemoveRead(c) ==
  /\ status \in Editable /\ upload.target # "none"
  /\ Read(c, "remove", status, {})
  /\ crossed' = (crossed \/ InProgress(Uploading))
  /\ UNCHANGED raced

RemoveCommit(c) ==
  LET link == Column(calls[c].upload.link, "excluded", upload.link) IN
  /\ calls[c].op = "remove"
  /\ upload' = [upload EXCEPT !.target = Column(calls[c].upload.target, "purged", @),
                              !.link = link]
  /\ withdrawn' = (link = "excluded")
  /\ calls' = [calls EXCEPT ![c].op = "unlink"]
  /\ UNCHANGED <<status, jobs, probed, started, crossed, raced>>

RemoveUnlink(c) ==
  /\ calls[c].op = "unlink"
  /\ upload' = [upload EXCEPT !.file = FALSE]
  /\ Return(c)
  /\ UNCHANGED <<status, jobs, probed, started, withdrawn, crossed, raced>>

\* select_repositories never looks at the status or at the target.
Select(included) ==
  /\ upload.link = IF included THEN "excluded" ELSE "included"
  /\ upload' = [upload EXCEPT !.link = IF included THEN "included" ELSE "excluded"]
  /\ withdrawn' = (withdrawn /\ ~included)
  /\ jobs' = IF included THEN Unbar ELSE jobs
  /\ UNCHANGED <<status, probed, calls, started, crossed, raced>>

AssessmentNext ==
  \/ \E c \in Analysts :
       \/ UpdateRead(c) \/ UpdateWrite(c) \/ LaunchRead(c) \/ RetryRead(c) \/ LaunchWrite(c)
       \/ UploadRead(c) \/ UploadStore(c) \/ UploadCommit(c)
       \/ RemoveRead(c) \/ RemoveCommit(c) \/ RemoveUnlink(c) \/ Lost(c)
  \/ \E j \in Jobs : CancelRun(j) \/ Start(j) \/ Check(j) \/ Work(j) \/ End(j)
  \/ \E included \in BOOLEAN : Select(included)

AssessmentSpec == AssessmentInit /\ [][AssessmentNext]_assessmentVars

-----------------------------------------------------------------------------
(* Properties. *)

\* artifacts.upload and remove_target: whatever call or process dies between
\* the file and the rows, a target that is valid, and so turns a further
\* upload of the same content away as a duplicate, has its encrypted source,
\* unless an upload and a removal of it were in progress together; and a
\* scan that starts after the purge was committed never reads the source,
\* also when it was launched before or the file was never unlinked, unless
\* an analyst selects or uploads the artifact again.
UploadMatchesSource ==
  /\ upload.target = "valid" /\ ~crossed => upload.file
  /\ \A j \in Jobs : jobs[j].of = Upload /\ jobs[j].state = "working" => ~jobs[j].barred

\* jobs.launch_http_probe: launches one after the other never probe a domain
\* twice, whatever ended, failed or was stopped in between; only a stopped
\* job is launched anew, and a failed one needs a retry.
ProbedOnce ==
  raced \/ \A d \in Domains :
    Cardinality({j \in Jobs : /\ jobs[j].of = d /\ ~jobs[j].retry
                              /\ jobs[j].state \notin {"none", "cancelled"}}) <= 1
=============================================================================
