# Verification of orgscan

TLA+ models of orgscan (`src/orgscan`), the TLC configurations that check them on
small instances, and proofs, checked by TLAPS, that their main properties hold for
any number of processes, rows, commits and sessions. Paths below are relative to
`src/src/orgscan` unless they say otherwise.

Contents: 1 the system · 2 modules and runs at a glance · 3 the modules in detail ·
4 bounds, fairness, deadlock · 5 where the code and its documents disagree ·
6 what is proved · 7 what is only model-checked, and what is not modelled · 8 plan ·
9 running the checks

## 1. The system

orgscan inventories an organization's public footprint, mirrors its repositories,
runs secret and configuration scanners over them and keeps the findings until
somebody decides about them. It is a Python program over one relational database
(SQLite or PostgreSQL, through SQLAlchemy) and a data directory. Several processes
share both: the HTTP API, command-line commands, a scheduler loop, and queue workers.
None of them talk to each other; all coordination is a database row, a file lock, or,
with the optional RQ backend, a Redis queue.

| component | state it keeps | operations | talks to |
|---|---|---|---|
| **Database scan queue** `queueing.py`, `repositories.py`, `cancellation.py` | `scheduled_scans` (enabled, next run, execution key), `queue_tasks` (status, attempts, lease, metadata) | reserve what is due, claim, scan, complete / retry / fail / cancel | scheduler, workers, analysts |
| **Lease recovery** `services/job_recovery.py` | the same rows | quarantine executions whose lease ran out | an operator |
| **Retry policy** `services/job_policy.py` | none | classify a failure, choose a delay | queue |
| **RQ backend** `queueing.py` | `queue_tasks` as an outbox, RQ's job records | publish under a lease, deliver, claim, retry | Redis, workers |
| **Repository cache** `mirroring.py`, `repository_state.py`, `services/incremental.py`, `scanners/git_history.py` | a bare clone, a file lock, checkpoints in `repositories.metadata_json` | lock, fetch, choose refs, skip or scan a range, record a checkpoint | git, scanners |
| **Scan execution** `runner.py`, `services/scan_service.py` | `scan_jobs`, `tool_runs` | run scanners, persist findings, close the job | cache, findings |
| **Finding lifecycle** `lifecycle.py`, `services/finding_service.py`, `repositories.py` | `findings`, `finding_history`, `evidence` | observe again, detect a regression, triage | scans, analysts |
| **Assessment control** `services/assessments/*` | `assessments`, targets, runs, staged uploads | launch, probe, retry, pause, cancel, add and remove targets | queue, cache, files |
| **Inline scheduler** `scheduler.py` | schedules, scheduled reports | execute what is due in-process, write reports | scan execution |
| **Access control** `auth.py`, `services/auth_service.py`, `api/authentication.py` | users, memberships, token and browser sessions | resolve, login, logout, revoke, authorise | every request |
| **Tenant ownership** `repositories.py`, `storage/domain_identity.py`, `security_context.py` | the owner of each organization, repository and domain; a context per request | claim an asset, allow or refuse a tenant | every query |
| **Secret evidence** `services/secret_evidence.py` | sealed values, reveal audit | seal, reveal after audit | findings, access control |
| **Rate limiter** `rate_limit.py` | `rate_limit_states`, or the time of a process's last request | take the next slot of a scope | every network client |
| **Assessment discovery** `recon/*`, `services/assessments/recon.py`, `discovery_progress.py` | assets, linked domains, recorded stages | run tools in order, ingest, record progress | rate limiter, subprocesses |
| **Legacy discovery** `providers.py`, `services/github_search.py`, `discovery_service.py`, `relationship_service.py` | exposures, correlations, references to repositories | ask providers, search, expand | rate limiter, network |
| **Scanners** `scanners/*`, `processes.py`, `services/scan_service.py` | `scan_jobs`, `tool_runs`, process groups | run tools under limits, read their reports | scan execution |
| **Schema** `db.py`, `migrations/*`, `models.py` | the revision and the tables | upgrade, check before a service starts | every process |
| **Reports, redaction, correlation, AI, UI, CLI** | none of their own | project, render, rewrite | everything, mostly read-only |

Behaviours that are hard to get right here, and hard to test:

- **Interleavings through the database.** A handler reads rows, decides, and writes
  in a later transaction. Only conditional `UPDATE`s, unique constraints and a final
  refresh stand between it and the others.
- **Leases without heartbeats.** A worker's lease is granted once; it may expire under
  a live worker, or a worker may die under a live lease.
- **At-least-once delivery.** An RQ job may be published twice, delivered twice, or
  delivered before the publisher has noted that it exists.
- **Partial failure.** A scan commits findings, then a checkpoint, then its outcome;
  it can stop after any of them.
- **Whole-column writes.** `metadata_json` is read, changed in Python and written
  back, so two writers of different keys still overwrite each other.
- **Decide now, act later.** Login, a reveal, a launch, a discovery and a rate-limited
  request all read in one database session and act in another, or after a network call.
- **Errors that are passed on.** A failure crosses adapters, providers and progress
  records; each of them may turn it into another one, or into success.
- **Decisions and scans of one finding.** An analyst's session and a scanner's session
  hold copies of a row and write back what they changed.

What makes each component correct (the properties in **bold** are checked here):

- *Queue*: an occurrence runs at most once (**OneExecutionPerOccurrence**), scans of a
  schedule never overlap (**NoConcurrentExecution**), the key names the one active
  execution (**ActiveHoldsKey**), failures stop a schedule until somebody looks
  (**FailureParksSchedule**), the retry budget holds (**AttemptsBounded**), nothing runs
  early (**ReservedWhenDue**), and work neither gets stuck (**ExecutionsEnd**) nor is
  forgotten (**DueIsReserved**).
- *RQ backend*: the same life cycle (**ImplementsLifecycle**), one delivery scans
  (**OneDeliveryScans**), a row marked published has a job (**PublishedHasJob**).
- *Cache*: a checkpoint is never ahead of committed findings (**CheckpointCovers**),
  the cache does not move under a session (**CacheHoldsStill**), a skip leaves nothing
  unscanned (**SkipMissesNothing**).
- *Findings*: a regression refutes a remediation (**RegressionRefutesRemediation**),
  a scan never undoes a decision (**ScanKeepsDecision**), nothing becomes new again
  (**NeverBackToNew**), the history explains the row (**HistoryExplainsRow**), and the row
  counts the regressions the history records (**RegressionsCounted**).
- *Assessment control*: a valid upload has its encrypted source and a withdrawn one is
  not read again (**UploadMatchesSource**), a domain is probed once (**ProbedOnce**).
- *Access control*: authority never exceeds what current memberships and the token
  grant (**AuthorityWithinGrants**), and revocation is final (**RevokedStaysOut**).
- *Ownership and vault*: an owner never changes (**OwnershipNeverMoves**), secrets stay
  with their tenant (**SecretsStayWithTenant**), every released plaintext is audited
  first (**RevealIsAudited**).
- *Rate limiter*: requests of one scope are a window apart (**RequestsSpaced**).
- *Assessment discovery*: tools run on stored names only (**InputsAreStored**), a failed
  stage is never recorded as a success (**FailureIsRemembered**).
- *Legacy discovery*: only public repositories are stored (**OnlyPublicIsStored**), a
  search that was cut short is a failure (**CutSearchIsFailed**), repeated plans add up
  (**InquiriesAddUp**).
- *Scanners*: a completed scan is a whole one (**ScansAreWhole**), and no process
  outlives its run (**NoProcessLeft**).
- *Schema*: a service that runs has the whole schema (**ServedSchemaIsWhole**).

`PROJECT.json` lists the hazards line by line, with the properties that watch each one.

## 2. Modules and runs at a glance

| module | role |
|---|---|
| `QueueTaskLifecycle` | abstract specification: what the durable queue promises of one `queue_tasks` row |
| `JobQueue` | the database queue in detail; implements `QueueTaskLifecycle` |
| `RqQueue` | the RQ backend in detail; implements `QueueTaskLifecycle` too |
| `RepositoryScan` | scans of one repository's cache, checkpoints, crashes |
| `FindingLifecycle` | one finding under concurrent scans, imports and decisions |
| `SecurityContext` | the authorization context and the order of roles, used by the next two |
| `AccessControl` | users, memberships, sessions, requests, login, restarts |
| `TenantOwnership` | claims of organizations, repositories and domains; sealed secrets and their release |
| `RateLimit` | both backends of the rate limiter |
| `AssessmentControl` | one assessment's status, upload, probes and jobs |
| `Discovery` | the stages of one assessment target and their recorded progress |
| `DomainDiscovery` | domain providers, the bounded search and repository expansion |
| `ScannerRun` | a plan for files: adapters, process groups, reports, rows |
| `SchemaMigration` | the sixteen revisions and who applies them |
| `JobQueueProofs`, `RqQueueProofs`, `RepositoryScanProofs`, `FindingLifecycleProofs`, `TenantOwnershipProofs`, `SchemaMigrationProofs` | the proofs of the module each is named after |
| `ControlPlaneProofs` | the proofs of `AccessControl` and `AssessmentControl` |
| `WorkerProofs` | the proofs of `Discovery`, `DomainDiscovery`, `ScannerRun` and `RateLimit` |
| `MC…` | the model values, symmetry and small operators TLC needs |

`JobQueue` and `RqQueue` are joined by the abstract life cycle rather than by a
composition: a deployment runs one backend. `RepositoryScan`, `ScannerRun`, `Discovery`
and `DomainDiscovery` are what happens inside one execution of the queue ("scanning" in
`JobQueue`): a job that returns, raises, is cancelled or dies. `FindingLifecycle` opens
up the transaction in which a scan commits its findings, for one row. `AccessControl`
yields the contexts that the vault of `TenantOwnership` checks.

`MCServices` puts nine specifications side by side, `RqQueue` with slow publishers among
them: a variable `component`, chosen at the start, says which of them runs. They share
no variable, so every property of one of them holds in the composite exactly if it holds
alone; those that do not run start in one fixed initial state. It is one run because it
is one question: do the remaining services keep their promises.

Database transactions are the unit of atomicity throughout. One action is one
transaction, or one read whose result a later transaction uses. Several statements of a
transaction are one action only if the first of them takes a lock that covers the rest
(an `UPDATE` on the row), and the definition's comment says so.

| run | cfg | question | answer |
|---|---|---|---|
| `queue_recurring` | `JobQueueRecurring` | can stale due lists, dying workers, expired leases and a careless operator make an occurrence run twice, or two scans of a schedule overlap? | no (14k states) |
| `queue_progress` | `JobQueueProgress` | does every row follow the life cycle while runs are stopped and leases recovered, does every execution end and every due schedule get reserved? | yes, if the operator checks that workers stopped; an execution whose worker died does not end, and enough of them starve the schedules behind (202k) |
| `queue_stop_lost` | `JobQueueStopLost` | does a run that was answered "cancelling" never complete? | no, see 5.3 |
| `queue_saved_result` | `JobQueueSavedResult` | do completed executions keep their result? | no, see 5.1 |
| `queue_stop_pending` | `JobQueueStopPending` | is a pending run that was answered "cancelled" never started? | no, see 5.2 |
| `rq_lifecycle` | `RqQueueLifecycle` | with prompt publishers, same life cycle as the database queue, and does every execution end? | yes (12k) |
| `rq_retry_budget` | `RqQueueBudget` | does the retry budget hold with slow publishers? | no, see 5.4 |
| `repository_scan` | `RepositoryScan` | can a crash, a forced push, a capped history or a concurrent metadata discovery make a scan miss a commit? | no (2.7M) |
| `finding_lifecycle` | `FindingLifecycle` | are regressions earned, decisions kept, and the trail complete? | yes, two of them as far as no session overwrites a row that changed under it (0.9M) |
| `services` | `Services` | do access control, ownership and vault, rate limiter, assessment control, migrations, both discoveries, scanners, and the RQ outbox with slow publishers and double deliveries keep their promises? | yes, within the limits each property states (1.9M) |
| `discovery_stages` | `DiscoveryStages` | does a completed discovery record how its stages ended? | no, see 5.5 |
| `scanner_stop` | `ScannerStop` | is a run whose program was stopped recorded as cancelled? | no, see 5.6 |

Every property of a passing run has a mutant: a definition next to the one it mutates
(named for its defect, or marked "Mutant:") that stands for a plausible bug of that
code, and under which TLC finds the property violated. The mutants are not part of the
model.

## 3. The modules in detail

### 3.1 `QueueTaskLifecycle`

Two variables per execution, `status` and `attempts`. Reserved once; an attempt starts
only from "queued" while attempts are left, and counts; a retry is granted only while
attempts are left; an outcome is never taken back. Both backends claim this, by the
refinement mapping `status <- task[t].status`, `attempts <- task[t].attempts`.

### 3.2 `JobQueue`

State: the columns of `scheduled_scans` and `queue_tasks` that decide anything, and the
local state of each process between two transactions.

| variable | code |
|---|---|
| `enabled`, `due`, `nextRun`, `execKey` | `scheduled_scans.enabled`; `next_run_at <= now`; `next_run_at` as an occurrence number; `queue_execution_key` |
| `ahead` | of each due schedule, those the due list names before it (`order_by(next_run_at, id)`) |
| `task` | status, schedule, occurrence (part of the idempotency key), attempt count and `lease_owner` of each row |
| `ready`, `expired` | `available_at <= now`; `lease_expires_at <= now` |
| `cancelReq`, `saved` | `metadata_json.cancel_requested_at`; `metadata_json.result` |
| `seen` | each enqueuer's due list, as read |
| `worker`, `sawStop` | where each worker is in `_execute_db_queue_task`, with what its last refresh showed |
| `stop`, `quarantine`, `quarantineStop` | what `cancel_run` and `recover_stale_tasks` read before they write |
| `answered` | what the analyst was told |

Clocks appear only as the comparisons the code makes with them: `BecomeDue`,
`BackoffElapses` and `LeaseExpires` may happen at any time. That admits every rate of
every clock, at the price of not relating two durations.

Actions: `ReadDue`/`Reserve` (`_reserve_due`, the compare-and-set and the insert of
`reserve_queue_execution`), of which `Poll` is the pass of the scheduler loop over
`due[:limit]` (`Front`, of `Limit` schedules), `Claim` (`claim_queue_task`), `Begin`, `Raise`, `Return`,
`Finish` (the success path: `mark_scheduled_scan_run` is flushed first and takes the row
lock, so refresh, ownership, stop check and commit are one step), `FailRead` and
`FailWrite` (the exception handler, which reads and later writes without a condition:
two steps), `Crash`, `StopRead`/`StopWrite` (`cancel_run`), and
`RecoverRead`/`RecoverApply` (`recover_stale_tasks`).

Three details worth knowing. The due list has no filter on the execution key, so a
schedule that is queued, running, backing off or abandoned stays where it is, and hides
the ones more than `Limit` places behind it from the loop until it moves on or is
disabled. A JSON column that is assigned an equal value is not
rewritten by SQLAlchemy; hence the two outcomes of `RewriteMetadata`. And
`OperatorVerifies` tells whether the operator follows the documented precondition of
recovery (check that the affected workers have stopped). The safety properties of
`queue_recurring` hold without it; the life cycle needs it, because a careless
quarantine fails a row whose worker then records another outcome.

### 3.3 `RqQueue`

The row is an outbox entry. A publisher reads unpublished rows (`PubRead`), leases one
for 60 s (`PubLease`), looks for an RQ job of that id (`PubFetch`), enqueues if there is
none (`PubEnqueue`), marks the row published (`PubMark`); it may fail (`PubError`) or
die (`PubCrash`) at each point. RQ is external: `Deliver`, `JobSucceeds`, `JobRaises`,
`Crash`, `JobExpires` are what the code relies on (at-least-once delivery, a retry
counter per job, `enqueue` under an existing id replaces the job). The worker side is
`Claim`, `Raise`, `Complete`, `FailWrite`. Each execution has its own schedule here, and
`cancel_run` is one step (`Stop`): the races of schedules and of `cancel_run` are the
subject of `JobQueue`.

### 3.4 `RepositoryScan`

One repository, its bare clone (`mirror`: what each ref names), its checkpoints, and
sessions that work under the file lock: `Enter`, `Fetch` (whatever was pushed, forced,
tagged or deleted meanwhile: any assignment of objects to refs), `RecordSync`, `Select`,
then per step `Skip` or `StartScan`, `Persist` (findings, committed), `RecordCheckpoint`
(committed after them), `Finish`, and `Fail` anywhere. git is external and constant:
`Anc` (ancestors), `Newest` (what a capped `git log` yields), `Peel` (annotated tags).
A configuration that cannot be fingerprinted has key `None`, which records and reuses
nothing. `covered` and `beyond` are history variables: the commits a scanner has
examined with findings committed, and those that its cap left out.

Checkpoints live in `repositories.metadata_json`, written as a whole. The session re-reads
it under the lock (`expire_all`) and keeps its own copy afterwards
(`expire_on_commit=False`), which is `view`. Metadata discovery
(`services/assessments/recon.py:215-236`) reads the column before its HTTP requests and
writes it after them without the lock: `InventoryRead`, `InventoryEnd`. It may put old
checkpoints back; `CheckpointCovers` shows that this costs a repeated scan at most, never
a missed commit.

### 3.5 `FindingLifecycle`

One row of `findings`, its `finding_history` and the commits named in its `evidence`.
Sessions read (`ReadForTriage`, `ReadForScan`), and write later (`Decide`, `Create`,
`Observe`) or give up (`Abort`: a refused request, or an `INSERT` that met the unique
fingerprint). `Merge` is what a SQLAlchemy flush does: it writes the columns the session
changed and leaves the others as they are in the table now. `Transition`, `Triaged`,
`Observed`, `EvidenceIsNew` follow `lifecycle.py`, `update_finding_triage` and
`_persist_matches`.

Nothing stops two sessions from overwriting one another, and
`src/docs/finding-lifecycle.md:40` says that concurrent transition races remain
unverified. `raced` records that such an overwrite took place. `HistoryExplainsRow` is
stated for behaviours without one (a behaviour may interleave sessions freely as long as
the row it writes is the row it read); `RegressionRefutesRemediation`, `NeverBackToNew`
and `ScanKeepsDecision` hold whatever races happen. `RegressionsCounted` says both: two
scans that read the same remediation each record a regression and write the same count,
so races may lose one in the row, never in the trail, and without them the two agree.

### 3.6 `SecurityContext` and `AccessControl`

`users`, `memberships` and `sessions` are the three tables; `configured` is the set of
environment tokens the running API process has loaded. A row of `sessions` is a token
(issued by an administrator) or a browser session (opened by a login with a token of
either kind, its `parent`). `TokenContext`, `BrowserContext` and `Resolve` are
`_context_for_row`, `resolve` and `from_headers`; `CappedRole` and `GrantFor` are how
roles and the capability `secrets:reveal` are narrowed by current memberships, `"*"`
included.

A request passes `Arrive`, `CheckEnabled` (its own database session: is authentication
enabled at all?), `Authenticate` (another one: what does the credential stand for?), and
one handler: `Serve`, `Administer`, `Logout`. Login is `LoginRead`, which resolves the
credential, and `LoginWrite`, which stores the browser session. `CommandLine`, `Expire`
and `Restart` (with another set of tokens) happen between any two of those. A restart
drops the requests of its process, hence requests of two processes do not coexist.

A request carries a history flag, whether its credential was already spent when it
arrived (`doomed`). `RevokedStaysOut` speaks of requests that arrive afterwards; one
that was admitted before a revocation finishes, which the code does not prevent. The
unauthenticated administrator of an installation without users and tokens is modelled
(`CheckEnabled`); as a restart with other tokens may bring it back, nothing is claimed of
its end.

### 3.7 `TenantOwnership`

Discoveries read an asset (`Discover`: of an organization, a repository or a domain) and
write what they decided later (`WriteOrganization`, `WriteRepository`, `InsertDomain`),
or die. The claim is an `UPDATE … WHERE owner IS NULL`, the insert meets a unique name;
both are in `Stored`. `TenantForFinding` derives a finding's tenant from what it hangs
on: the organization, or the single owner of its repository and domain.

The vault: `Persist` seals a value under that tenant, `Open` authorises a reveal and
decrypts, `CommitAudit` commits the audit row or fails, `Release` lets the plaintext out.
`SecretsStayWithTenant` needs that owners never move *and* that a finding with two owners
has no tenant: with the repository's owner simply before the domain's (the mutant), a
later claim of the repository would turn a sealed secret into another tenant's.

### 3.8 `RateLimit`

`backend = "memory"`: threads take a lock (`Acquire`), sleep inside it and note the time
(`Wake`). `backend = "db"`: `Ensure` the row, `ReadState`, `Stamp` it with the caller's
own time, and `ClaimSlot` with a compare-and-set on `updated_at`, or `Retry`. Between any
two steps a caller may be arbitrarily slow, or be cancelled (`Abandon`).

Callers share a clock, as processes of one machine do. The row's version *is* a time, so
two writes in one microsecond would have the same version; `Stamp` assumes that a caller
stamps in a later microsecond than that of the row it read. Windows differ between
callers: the row stores the window of whoever wrote it, so that one counts; a process
keeps the time only, so the caller's own counts.

### 3.9 `AssessmentControl`

One assessment with one uploaded artifact and its domains. A call reads (`UpdateRead`,
`LaunchRead`, `RetryRead`, `UploadRead`, `RemoveRead`), and writes later. `Column` is
SQLAlchemy's rule: a column is written if it differs from the value *read*, so an equal
one leaves another session's value alone and a different one overwrites it. An upload
moves the encrypted file into place before it commits its rows (`UploadStore`,
`UploadCommit`), a removal commits before it unlinks (`RemoveCommit`, `RemoveUnlink`),
and the process may die between the two. A worker checks the status and the selection
(`Check`, `Work`) and only then reads the file.

History variables delimit what the code promises: `crossed` (an upload and a removal of
the same content overlapped), `raced` (two launches of probes overlapped), `withdrawn`
and `barred` (which jobs started after the purge). Both overlaps really go wrong (a valid
target can lose its file; a domain can be probed twice), nothing in the repository says
otherwise, and both are in the list of hazards.

### 3.10 `Discovery`

One run of a target by a worker: `Plan`, then per tool `Block`, `StartTool`, `RunTool` or
`AskProvider`, `CompleteTool` or `FailTool`; or a GitHub owner's repositories with the
expansion of each, and the search; then the correlation. A tool is whatever it may find
inside the scope. `Save` is a commit of what the session holds; `RolledBack` is
`session.rollback()`.

The stage records are the delicate part. `DiscoveryProgress.save` copies the dictionary
but not the records in it, and the session does not expire objects at a commit; from then
on the column and the run share the records (`shared`), a change in place changes both,
and SQLAlchemy sees no difference to write. `SavedStages` is what reaches the database.
That is why `FailureIsRemembered` holds (a failure is a new record after a rollback)
while the end of the last stage is not recorded (5.5).

### 3.11 `DomainDiscovery`

A provider is the set of its possible answers: hosts to list, hosts to file an exposure
of, whether an identity is related, whether it ends in an error. A session asks them in
the order of its plan; what it writes stays in its buffer until it commits
(`CompleteInquiry`, `KeepPartial`) or rolls back. The search has its queries and pages,
verified repositories and the point where the rate limit ends it; code search is confined
to a few repositories that GitHub called public. `ChangeVisibility` lets the owner of a
repository change its mind at any time.

Where the promise ends: an *aggregate* (`all-enriched`) drops the failure of the search
and completes, so `CutSearchIsFailed` names the provider in its job clause; in an
aggregate a name the search refuses (a domain of more than 100 characters) raises a
`ValueError`, which is not caught there and takes all other providers' results with it
(`Interrupt`). `identity_correlations` has no unique constraint and
`discovered_subdomains` is rewritten as a whole, so plans for one domain that overlap can
relate twice and lose hosts; `InquiriesAddUp` leaves overlaps out (`overlapped`).
Expansion without a token sees public repositories only and takes the private mark off
what it sees.

### 3.12 `ScannerRun`

`BeginScan` commits a job and a tool run; a built-in scanner reads files (`ScanFiles`), a
program runs as one or more commands. `group` is the process group: its leader, helpers
that hold a pipe open or not, blocks of output, time. `Fork`, `HelperEnds`, `WriteBlock`,
`LeaderEnds`, `TimeRunsOut` happen by themselves; `SeeStop` and `CutOff` kill the group;
`EndProbe` and `EndScan` look at the exit code and the report. A report has a form
(nothing, garbled, a list, an object with results, another object) and matches;
`ReadGitleaks` and its siblings are what each scanner accepts and makes of it, and
`LoadReport` what the ingestion of a saved report does. A stop that `processes.run`
raises passes through the adapter (`Escaped`), which is 5.6.

### 3.13 `SchemaMigration`

A revision is a sequence of statements that add or drop objects (`<<table, part>>`),
skip what is there (looked up just then, or once before the revision, as the code has
it), fill rows, or check before a change. An upgrade runs them one by one:
on PostgreSQL within one transaction, on SQLite with every DDL statement durable at once
until the first row is written. It can be cut off anywhere (`BreakOff`), and several
processes may try (`StartUpgrade`); a service starts when the revision is the newest.
The run starts from an empty database and from what three earlier releases left.

On SQLite the guards of the early revisions take a table without its indexes for a whole
one. `disturbed` records that an upgrade was cut off amid a revision or met another one
there, and `ServedSchemaIsWhole` leaves those out; on PostgreSQL it has no exception.
`HeadSchema` is computed from the models, independently of the revisions.

## 4. Bounds, fairness, deadlock

**Bounds.** Each named bound is a constant.

| bound | where | why it is enough |
|---|---|---|
| `MaxTasks` = 3 (recurring), 2 (progress), 1 (violations) | rows of `queue_tasks` | three occurrences of one schedule: an enqueuer may hold a list that is two completions old |
| `MaxAttempts` = 2 | `retry_limit + 1` | a first, a last attempt, and a retry between them |
| 2 workers, 2 enqueuers (recurring), 1 and 1 (progress) | processes | races are between two; the progress run adds the analyst and the operator instead; the proofs cover any number |
| `Limit` = 1 | due schedules a pass handles, 10 in the code | with two schedules the one behind is out of sight until the first moves on; two stranded schedules are not needed to starve it |
| `ClaimBound` = 4 | claims of a row under a slow publisher | two more than `MaxAttempts`, so an exceeded budget is visible; without the bound a slow publisher renews attempts for ever |
| 2 sessions, 1 ref, 3 commits, 1 tag, 2 scanners, 1 key | `RepositoryScan` | forward, backward and tag moves of a ref, a range and a tree scanner; the cap is one commit, so that full scans leave commits out |
| 2 sessions, 3 jobs (one import), 1 commit | `FindingLifecycle` | one racing pair; an earlier, a later and an imported observation |
| `MaxClock` = 2 | readings of the clock | guards compare two readings with each other; before and after suffice |
| `MaxRows` = 2, `MaxChanges` = 4, 1 person, 1 environment token, 1 request, 2 tenants | `AccessControl` | a request against changes, not against another request; a token and the browser session opened with it; grant, issue, change and revoke in one behaviour |
| `MaxReveals` = 1, 2 organizations, 1 repository, 2 findings, 2 discoveries | `TenantOwnership` | a finding with one anchor and one with two; the races are of two claims |
| `MaxTime` = 5, windows 1 and 2 | `RateLimit` | three grants, of unequal windows |
| `MaxJobs` = 2, `MaxCalls` = 4, 1 domain, 2 analysts | `AssessmentControl` | upload, remove and upload again around a launch; two launches of one domain |
| `MaxUpgrades` = 2 | `SchemaMigration` | an upgrade that is cut off, and the one that repeats it |
| `MaxDomains` = 2, `MaxItems` = 2, `MaxRuns` = 2, 2 names | `Discovery` | the limit on names is within reach; a failed expansion followed by a good one; a second run meets the first one's rows |
| `SensitiveNames` = 1, `ScopeLimit` = 1, `MaxPages` = 2, `PageSize` = 1, `MaxEffort` = 2 | `DomainDiscovery` | a scope smaller than what is verified; two plans, or the long one alone |
| `MaxOutput` = 1, plans of up to two scanners | `ScannerRun` | within and beyond the limit; a scan after a completed one |
| `MaxEvents` = 3 | length of the trail | created, remediated, regressed; sessions already at work may still add to it |

Identifiers that the code treats alike are symmetric (workers, enqueuers, publishers,
sessions, scanning jobs). Runs with temporal properties that involve fairness use no
symmetry; the properties of the form `[][A]_vars` checked under symmetry are themselves
symmetric in those constants.

**Fairness.** Only the liveness properties use it.

- `JobQueue`: weak fairness of time (schedules fall due, backoffs elapse), of claiming a
  ready row by some worker and of each worker's next step (workers poll in a loop,
  `queueing.py:330-343`; scans end because every subprocess has a timeout); weak fairness
  of `Reserve`, and strong fairness of `Poll`: the passes of the scheduler loop recur, with
  publications of the browser between them. A pass sees the front of the due list only,
  so `DueIsReserved` rests on running, retried and stopped schedules leaving the front,
  and makes one exception: `Limit` schedules before it whose workers died (`Stranded`)
  starve a schedule until an operator recovers them. Without that exception TLC refutes it.
  No fairness of crashes, of `cancel_run` or of recovery: `ExecutionsEnd` allows an
  execution whose worker died to stay "running".
- `RqQueue`: weak fairness of time, of reading the outbox and leasing a row, of RQ's
  deliveries and of workers; strong fairness of the three later steps of a publisher.
  A publisher may die between any two steps, every time it gets there as far as weak
  fairness is concerned; strong fairness says that publishers which keep coming back are
  not killed at the same point for ever. The run needs `PromptPublishers`, for a slow
  one can renew retries without end.
- The other modules state no liveness: a session, a call or a process may always fail,
  and nothing in the code tries again by itself.

**Deadlock.** All configurations say `CHECK_DEADLOCK FALSE`, since these systems really
stop. A queue whose schedules are disabled or whose bound on rows is used up has nothing
to do; calls, runs, reveals and upgrades are bounded; in the RQ model a finished row leaves RQ with nothing to deliver. A wait that
should end is what the liveness properties are for, not the absence of deadlock.

## 5. Where the code and its documents disagree

Each of these is a `violation` run with one property, taken from a sentence of the
documentation, and a shortest counterexample by TLC.

1. **A completed execution can lose its result** (`queue_saved_result`,
   `services/assessments/jobs.py:320`). `cancel_run` reads a running row; the worker
   completes it and saves its result; `cancel_run` writes back the `metadata_json` it
   read, plus a stop request. `src/docs/job-reliability.md:34`: "Completed tasks return saved
   results on replay".
2. **A stopped pending run can start** (`queue_stop_pending`, `jobs.py:304`). `cancel_run`
   reads that the run has no execution; an enqueuer reserves one; `cancel_run` disables
   the schedule and answers "cancelled"; a worker claims the row, as claiming does not
   look at `enabled`. `src/docs/job-reliability.md:26`: "stop pending/queued schedules
   immediately".
3. **A stop request can be erased and the run complete** (`queue_stop_lost`,
   `queueing.py:471`). A scan raises a transient error; the failure handler refreshes the
   row; `cancel_run` commits `cancel_requested_at` and answers "cancelling"; the handler
   writes back the `metadata_json` it refreshed and queues a retry, which finds no request
   and completes. `src/docs/job-reliability.md:26`: "persist a stop request for running
   QueueTasks. DB and RQ workers check that request … and record a safe `cancelled` result".
4. **A slow publisher renews retries** (`rq_retry_budget`, `queueing.py:136`). A publisher
   that stalls past its lease between `fetch_job` and `enqueue` puts out a job that
   another has put out already; `retries_left` starts again and the row's
   `attempt_count` passes `max_attempts`. `src/docs/job-reliability.md:17`: "Retry counts are
   clamped to 0–10 (additional attempts)".
5. **A completed discovery does not record its last stage** (`discovery_stages`,
   `services/assessments/discovery_progress.py:35`). The end of a stage is written into a
   record that the session's column shares, so no `UPDATE` is sent; the relationship
   correlation, which comes last, stays "running" in a completed job. The module calls the
   stages "durable" (line 1), `src/docs/assessment-control-plane-validation.md:64` too.
6. **A stopped scan is recorded as failed** (`scanner_stop`, `scanners/registry.py:143`).
   `processes.run` raises `CancellationRequested`, the adapter's `except Exception` makes
   it a scanner error. `src/docs/job-reliability.md:28`: "record a safe `cancelled`
   result".

Two more divergences have no run. `src/docs/finding-lifecycle.md:31` says that imports
count as new observations; the code (`repositories.py:384-386`) and a test
(`src/tests/security/test_release_recovery.py:158`) say that they do not, and
`FindingLifecycle` models the code. `src/docs/job-reliability.md:14` says that the GitHub
search carries its failure into the execution; under `all-enriched` it is dropped (3.11).

## 6. What is proved

Every theorem holds for all values of the constants that satisfy the module's named
assumption (`ConstantsAssumption`, `RqAssumption`, `RepositoryAssumption`,
`FindingAssumption`, `RateAssumption`, `ContextAssumption` with `OwnershipAssumption` or
`AccessAssumption`, `AssessmentAssumption`, `DiscoveryAssumption`,
`DomainDiscoveryAssumption`, `ScannerRunAssumption`, `MigrationAssumption`), which TLC evaluates in each run.
They say no more than: bounds are numbers, null values are not members of the sets they
stand beside, plans and deployments are made of the names the code knows, a selection
with `katana` contains `httpx` (the code refuses others), and git's constants have their types
(reflexive ancestry, `Newest` within `Anc`). Acyclicity and transitivity of ancestry turn
out not to be needed. Every safety property of a passing run is a theorem.

The type invariants of these modules are proved and therefore not listed in the runs.

**`JobQueueProofs`.** `Invariance` proves `IInv`; `TypeCorrect`, `ExecutionHoldsKey`,
`ScansAreExclusive`, `OccurrenceRunsOnce`, `FailuresArePersistent` and
`RetryBudgetKept` follow. None of the safety properties is inductive alone:

- `NoConcurrentExecution` follows from `WorkerHoldsKey` (a worker inside an execution
  works for its schedule's key, even if the row has been quarantined) and
  `OneWorkerPerTask`. Two workers in one schedule would hold one key, hence be in one
  row.
- `WorkerHoldsKey` survives a careless quarantine because `recover_stale_tasks` keeps
  the key; that is the reason for keeping it, and why a quarantined schedule cannot be
  restarted under a live worker.
- `OneExecutionPerOccurrence` needs `RunsBehindSchedule`: rows lie in the past of their
  schedule, and one for the present occurrence still holds the key or the schedule is
  disabled.
- `ReservedWhenDue` (theorem `NoEarlyExecution`) needs `SeenWasDue`, a fact on lists read
  long ago: an entry names an occurrence that is over or still due.
- `Refinement` goes through `StepKinds`, which classifies what a step can do to a row. It
  assumes `OperatorVerifies` and uses
  `QuarantineIsSafe`: what a careful operator has read as stale stays abandoned until
  the quarantine is written.

**`RqQueueProofs`.** Two invariants, for any number of publishers, workers and rows.
`RqInv` holds however slow publishers are; `OneScanPerExecution` and
`PublishedRowsHaveJobs` follow. A worker inside a scan has claimed the row, and a claim
needs a queued row; a success ends the row in the transaction before RQ
hears of it (`SuccessEnds`), so a job that RQ has finished with never hides an open row;
and what a publisher found or enqueued stays in RQ while its row is open
(`SeenJobStays`), which is what makes the mark "published" true when it is written.
`BudgetInv` needs `PromptPublishers`: only the holder of an unexpired lease enqueues
(`LeaseLasts`), hence an open row has at most one delivery, in RQ or at a worker
(`OneDelivery`), hence RQ's `retries_left` and the row's `attempt_count`, which nobody
compares, add up to the budget (`CountsAgree`). `RqRefinement` then maps each step to a
step of the life cycle or to a stutter: whenever RQ has a retry left, or delivers one, the
row has an attempt left for it. `ScansWithinBudget` is the property that `rq_retry_budget`
refutes without the hypothesis, so the hypothesis is what the code lacks.

**`RepositoryScanProofs`.** `CheckpointsAreEarned`, `ScansSeeOneCache` and
`SkipsAreSafe`, for any ancestry and any cap. The invariant says that *every copy* of
the checkpoints keeps its promises (`Promises`: the column, each session's view, the
inventory's copy), that a range starts behind a kept promise (`RangesFollowPromises`),
and that a job whose findings are committed has earned its checkpoint
(`PersistedIsPromised`). As `covered` only grows, putting an old copy back is harmless;
that is the whole argument about the metadata writer.

**`FindingLifecycleProofs`.** `RegressionsAreEarned`, `NewIsLeftForGood` and
`DecisionsSurviveScans`, for any number of sessions, races included. The invariant adds
`Remediations`: every remediation time in the row, *or in a copy that a session still
holds*, was recorded in the trail. This is what `Merge` preserves: a stale session can
put back the columns it changed, but no remediation time that nobody recorded.

`TrailExplainsRow` and half of `RegressionsAreCounted` hold while `raced` is false. `raced`
is set by a write that meets another row than the one its session
read; so a write that leaves it false met exactly that row (`UnracedWrite`), every column
is as the session wants it, and its events start where the trail ends (`Explains`). The
row before the first observation has the columns' defaults (`AbsentRow`), which is what
a first event starts from. The other half of `RegressionsAreCounted` needs no such
hypothesis: whatever the row or a copy counts, the trail has recorded (`Counted`), since a
session that raises its copy's count appends the event in the same commit.

**`TenantOwnershipProofs`.** `OwnersNeverMove`, `SecretsAreConfined` and
`EveryRevealIsAudited`, for any number of tenants, assets and sessions. Discoveries hold
only intentions whose read had no owner (`IntentsAreFresh`), and a write that meets an
owner leaves it. A seal's tenant owns the finding's organization or one of those it was
found in (`SealedByOwner`); since owners stay and a finding only ever gains owners, the
finding's tenant is that one or nobody. `AuditsCover` counts the reveals between audit and
release, so that each durable row is used once.

**`ControlPlaneProofs`.** `AuthorityIsWithinGrants` and `RevokedNeverActs` come from `AccessInv`, which gives each session row its shape
(`RowShape`: a browser session has a parent that is a token or an environment token,
a token has none, so `Root` ends after one step) and says of each request that what it
noted at its arrival is still so in the tables it is looked up in (`Sound`). Both are
kept by every change since rows end but never come back, users are never removed, and a
browser session counts only while its parent does; an inactive or demoted user is covered
because the present grants cap what was stored at each resolution.

`UploadsMatchTheirSource` and `DomainsAreProbedOnce` come from `AssessmentInv`. While no
upload and removal cross, a call that stores finds the file it wrote, and one that
unlinks finds a target that is no longer valid (`UploadInvOf`); while no two launches
race, one launch is in progress, for domains that nobody attempted (`ProbeInvOf`). That a
withdrawn upload is never read needs neither: while it is withdrawn its link is excluded,
and a job that started since then fails when the worker looks at the link (`WithdrawnInv`).

**`SchemaMigrationProofs`.** For any number of services and upgrades, in three parts.

*Who runs when.* The recorded revision never goes back (`RevisionsAdvance`), and a service
that runs has the newest revision under it and no upgrade beside it
(`ServicesMeetTheNewest`), on PostgreSQL without exception, on SQLite unless an upgrade was
disturbed. An upgrade is at the revision after the one its transaction sees
(`UpgradeIsAhead`), so the version row it must find excludes any that fell behind.

*What the statements leave.* `Applied` says what the schema has at the least once a
revision is recorded, and that it has nothing the models do not declare. `Underway` says
what the statements of a revision have done so far: each left its objects or found the one
it looks for (`Done`). A statement skips what it finds, so the end of a revision needs a
reason why what was found was whole: a table made after revision 1 is there with all its
columns and indexes or not at all (`Late`, `LateAreWhole`), and a statement of revisions 2
to 16 looks for nothing but what it adds or the table or column that is made with it
(`StatementsAreOrderly`). Revision 16 drops the indexes of `domains`, and it is harmless
only because the drop comes before the statements that make them again (`DropComesFirst`,
`DroppedIsAdded`). `RevisionEnds` puts these together, and `ContentInv` carries them along
the runs (`ContentInvariance`): of each upgrade its view is `Underway`, the committed
schema is `Applied`, on SQLite when no upgrade is under way.

*Where it ends.* What is `Applied` at revision 16 is exactly what the models declare
(`NewestIsHead`), and the starting states, an empty database and what three releases left,
are `Applied` at theirs (`ReleasesAreApplied`). With the first part this is
`ServedSchemasAreWhole`.

**`WorkerProofs`.** For any selection of tools, any hosts, limits and number of runs:
`InputsAreAlwaysStored` and `FailuresAreRemembered`. What a run holds in memory is in
the database or about to be stored by the stage that found it, and a stage that fails
puts back what it added (`MemoryIsStored`); a failed stage is never opened again, but
for the contributors of the next repository, whose stage remembers how it ended before
(`UnwellIsMarked`).

`OnlyThePublicIsStored`, `CutSearchesFail` and `InquiriesAddUpAlways`: the first says the
same of what every session still holds in its buffer; the second follows a search query
by query (`SearchOK`) and says which failures are deferred to the end of which plan
(`AgendaOK`); the third needs that, until two plans overlapped, one works at a time and its
view of the hosts is what is stored plus its own (`OneAtATime`).

`CompleteScansAreWhole` and `NoProcessStays`: the scanner at work has an open row with
nothing stored (`OpenRowAtWork`), whatever goes wrong ends the plan (`AmissEndsThePlan`),
and a group that is waited for has not been cut off (`WaitedIsWhole`). So a report is only
read of a group that ended by itself, and one that did not has nobody left.

`RequestsAreSpaced` is about the rate limiter, for any number of callers, any windows and any
delays, in both backends. What a caller has read is either still there or strictly older
than the row (`ReadIsOlder`), because a caller stamps later than the row it read
(`ClaimIsDue`) and the stamp becomes the version. So a compare-and-set that succeeds
replaces the very row whose next slot the caller had waited for (`SlotIsLastGrant`). With
the lock, the sleeper's wake-up time cannot become stale (`SleeperHoldsLock`).

## 7. What is only model-checked, and what is not modelled

Only model-checked:

- **Liveness** (`ExecutionsEnd` in both queues, `DueIsReserved`): fairness and `ENABLED`
  are beyond the prover.
- What the violation runs show: a counterexample needs no proof.

Abstractions, and what they hide:

- Delays, durations and rates, but for `RateLimit`. `BecomeDue` may come right after a
  completion.
- Limits of list queries other than the scheduler loop's (`Limit`): a shorter list is a
  smaller `S` in `ReadDue`.
- Severity, confidence and risk of a finding. Each session takes the maximum of what it
  read and what the scanner reports; sessions that overlap may lose the stronger value
  (listed as a hazard).
- The database's isolation level is taken as READ COMMITTED with row locks held to the
  end of a transaction (PostgreSQL) or one writer at a time (SQLite).
- How SQLAlchemy (which columns a flush writes, when objects expire), Alembic and
  `pysqlite` (what a transaction covers) behave is taken from their documentation.
- The process-wide lock of `run_db_schedule_batch` only restricts behaviours; leaving it
  out makes the checks stronger.
- Commit graphs, ranks and clock readings are constants or small numbers; payloads,
  messages, names, masks, hashes and ciphertexts are left out.

Not modelled; `PROJECT.json` gives the reason for each part:

- the inline scheduler and scheduled reports (a second executor beside the queue; the
  hazard is listed), local AI review (one slot around one HTTP call);
- text and data processing: redaction, correlation keys, scanner rules, the parsing of
  tool output and uploads, report formats, input limits;
- of discovery, the tools `naabu`, `nuclei`, `gau`, `amass`, `rdap` and `wayback`, which
  repeat the steps of the modelled ones, installers, the search for an organization and
  graph queries;
- the SQL predicates of tenant visibility, one by one;
- adapters: routes, command line, pages, settings, logging.

## 8. Plan

Done: all modules of section 2, and the proofs of section 6. Next:

1. **The inline scheduler** beside `JobQueue`: what holds when both execute schedules.
2. **Pure algorithms** against reference definitions over bounded inputs: tenant
   visibility predicates, `next_run_from_cadence`, correlation keys.

## 9. Running the checks

`tlc -config JobQueueProgress.cfg MCJobQueue` and likewise for the other rows of the table
in section 2; `Services.cfg` (for `MCServices`) takes about three minutes with two
workers, `JobQueueProgress.cfg`, `FindingLifecycle.cfg` and `RepositoryScan.cfg` one to
two, the others up to forty seconds. `tlapm JobQueueProofs.tla` and likewise for
the other `…Proofs` modules check the proofs (1218 obligations for `JobQueueProofs`, 1677
for `RqQueueProofs`, 456 for `RepositoryScanProofs`, 856 for `FindingLifecycleProofs`, 572
for `TenantOwnershipProofs`, 1400 for `ControlPlaneProofs`, 2172 for `WorkerProofs` and 2438
for `SchemaMigrationProofs`; Z3, Zenon and LS4; one to several minutes each). The community modules must be on the
library path. `PROJECT.json` maps every definition to the lines it models.
