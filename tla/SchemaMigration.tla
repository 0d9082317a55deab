-------------------------- MODULE SchemaMigration ---------------------------
(***************************************************************************)
(* The database schema: the sixteen revisions under migrations/versions,   *)
(* the processes that apply them, and the check every service makes before *)
(* it starts (db.py, models.py, migration_snapshots/phase17_schema.py).    *)
(*                                                                         *)
(* PostgreSQL applies a whole upgrade in one transaction.  On SQLite every *)
(* DDL statement is durable at once until the first row is written; from   *)
(* then on the rest of that revision is one transaction.                   *)
(*                                                                         *)
(* An object of the schema is <<table, part>>: the table, its indexes, or  *)
(* a column or an index that some revision adds to an existing table.      *)
(***************************************************************************)
EXTENDS Integers, FiniteSets, SequencesExt

CONSTANTS
  Deployer,   \* runs orgscan migrate-db
  Services,   \* start with prepare_database
  Engines,    \* "sqlite", "postgresql"
  AutoMigrate, \* values of: development, with auto_migrate left on
  MaxUpgrades  \* bound: upgrades started

ASSUME MigrationAssumption ==
  /\ Deployer \notin Services
  /\ Engines \subseteq {"sqlite", "postgresql"}
  /\ AutoMigrate \subseteq BOOLEAN
  /\ MaxUpgrades \in Nat

Migrators == Services \union {Deployer}

Table(t) == <<t, "table">>
Indexes(t) == <<t, "indexes">>
Parts(t, parts) == {<<t, part>> : part \in parts}

-----------------------------------------------------------------------------
(* What the models declare: every table with the tables its foreign keys   *)
(* name (domains and its identity is a part that revision 16 adds).         *)

AssetModels ==
  [organizations |-> {}, domain_identities |-> {}, domains |-> {"organizations"},
   repositories |-> {"organizations", "accounts"}, accounts |-> {"organizations"},
   scan_jobs |-> {},
   findings |-> {"organizations", "domains", "repositories", "accounts", "scan_jobs"}]

EvidenceModels ==
  [finding_history |-> {"findings", "scan_jobs"}, evidence |-> {"findings"},
   relationships |-> {}, risk_scores |-> {"findings"}, tool_runs |-> {"scan_jobs"},
   scheduled_scans |-> {}, scheduled_reports |-> {}]

ServiceModels ==
  [users |-> {}, user_tenant_memberships |-> {"users"}, user_sessions |-> {"users"},
   queue_tasks |-> {"scheduled_scans"}, rate_limit_states |-> {},
   domain_exposures |-> {"domains"}, identity_correlations |-> {"domains"},
   suppressions |-> {"findings"}, secret_evidence |-> {"findings", "evidence"},
   secret_reveal_audit |-> {"users", "findings", "secret_evidence"}]

ControlPlaneModels ==
  [assessments |-> {"organizations"}, github_connections |-> {},
   assessment_targets |-> {"assessments", "github_connections"},
   assessment_entities |-> {"assessments", "github_connections"},
   assessment_runs |-> {"assessments", "assessment_targets", "scheduled_scans"},
   recon_profiles |-> {}, local_ai_configurations |-> {}, ai_advice |-> {"assessments"},
   recon_assets |-> {"organizations"}]

References ==
  [t \in UNION {DOMAIN AssetModels, DOMAIN EvidenceModels, DOMAIN ServiceModels,
                DOMAIN ControlPlaneModels} |->
     CASE t \in DOMAIN AssetModels -> AssetModels[t]
       [] t \in DOMAIN EvidenceModels -> EvidenceModels[t]
       [] t \in DOMAIN ServiceModels -> ServiceModels[t]
       [] OTHER -> ControlPlaneModels[t]]

\* Columns and indexes that some revision adds to an older table.
ColumnsAdded ==
  [organizations |-> {"tenant_key"}, repositories |-> {"mirror_path", "last_mirrored_at"},
   scan_jobs |-> {"target_ref", "scope_json"},
   findings |-> {"triage_owner", "triage_notes", "remediation_due_date", "lifecycle_state",
                 "remediated_at", "regressed_at", "regression_count"},
   evidence |-> {"ref_name", "metadata_json", "observation_fingerprint"},
   relationships |-> {"metadata_json"}, tool_runs |-> {"artifact_type", "artifact_path"},
   queue_tasks |-> {"execution_key"}, scheduled_scans |-> {"queue_execution_key"}]

IndexesAdded ==
  [findings |-> {"ix_lifecycle_state"}, evidence |-> {"ix_observation_fingerprint"},
   queue_tasks |-> {"ix_execution_key"}]

DomainParts ==
  {"identity_id", "tenant_key", "fk_identity", "uq_tenant_identity", "ix_tenant_key",
   "uq_legacy_identity"}

At(added, t) == IF t \in DOMAIN added THEN Parts(t, added[t]) ELSE {}
Columns(t) == {Table(t)} \union At(ColumnsAdded, t)
IndexesOf(t) == {Indexes(t)} \union At(IndexesAdded, t)

\* Tables without an index of their own.
Unindexed == {"domain_identities", "local_ai_configurations"}

HeadSchema ==
  (UNION {Columns(t) \union (IF t \in Unindexed THEN {} ELSE IndexesOf(t)) :
          t \in DOMAIN References}) \union Parts("domains", DomainParts)

-----------------------------------------------------------------------------
(* A revision is a sequence of statements.  One adds or drops objects,     *)
(* unless a certain object is there: looked up just then, or before the    *)
(* revision's first statement; or it works on rows.                        *)

Statement(kind, objects, unless, lookup) ==
  [kind |-> kind, objects |-> objects, unless |-> unless, lookup |-> lookup]

Add(objects) == <<Statement("add", objects, {}, "now")>>
Drop(objects) == <<Statement("drop", objects, {}, "now")>>
RowWork(what) == <<Statement(what, {}, {}, "now")>>
AddIfMissing(t, parts) ==
  [i \in 1..Len(parts) |-> Statement("add", {<<t, parts[i]>>}, {<<t, parts[i]>>}, "now")]

Create(t) == Add({Table(t)}) \o Add({Indexes(t)})
CreateIfMissing(t) ==
  <<Statement("add", Columns(t), {Table(t)}, "before"),
    Statement("add", IndexesOf(t), {Table(t)}, "before")>>

\* Each table in turn, with the two statements that make it.
All(tables, Made(_)) ==
  [i \in 1..2 * Len(tables) |-> Made(tables[(i + 1) \div 2])[IF i % 2 = 1 THEN 1 ELSE 2]]

\* phase17_schema, in the order of its foreign keys; it has what the
\* revisions up to 8 add to older tables.
Phase17Roots ==
  <<"organizations", "rate_limit_states", "relationships", "scan_jobs", "scheduled_reports",
    "scheduled_scans", "users">>
Phase17Owned ==
  <<"accounts", "domains", "queue_tasks", "tool_runs", "user_sessions",
    "user_tenant_memberships">>
Phase17Findings ==
  <<"domain_exposures", "identity_correlations", "repositories", "findings", "evidence",
    "finding_history", "risk_scores", "suppressions">>

Phase17 == Phase17Roots \o Phase17Owned \o Phase17Findings

Baseline ==
  All(Phase17, CreateIfMissing)
  \o AddIfMissing("organizations", <<"tenant_key">>)
  \o AddIfMissing("repositories", <<"mirror_path", "last_mirrored_at">>)
  \o AddIfMissing("scan_jobs", <<"target_ref", "scope_json">>)
  \o AddIfMissing("findings", <<"triage_owner", "triage_notes", "remediation_due_date">>)
  \o AddIfMissing("evidence", <<"ref_name">>)
  \o AddIfMissing("relationships", <<"metadata_json">>)
  \o AddIfMissing("tool_runs", <<"artifact_type", "artifact_path">>)
  \o RowWork("fill")

ScheduledReports == CreateIfMissing("scheduled_reports")
UsersAndSessions ==
  All(<<"users", "user_tenant_memberships", "user_sessions">>, CreateIfMissing)
QueueTasks == All(<<"queue_tasks">>, CreateIfMissing)
RateLimitStates == CreateIfMissing("rate_limit_states")

EvidenceIdentity ==
  AddIfMissing("evidence",
    <<"metadata_json", "observation_fingerprint", "ix_observation_fingerprint">>)

FindingLifecycleColumns ==
  AddIfMissing("findings", <<"lifecycle_state", "remediated_at", "regressed_at",
                             "regression_count", "ix_lifecycle_state">>)
  \o CreateIfMissing("finding_history") \o RowWork("fill")

\* the index is made with the column or not at all
SecurityExecution ==
  AddIfMissing("scheduled_scans", <<"queue_execution_key">>)
  \o << Statement("add", {<<"queue_tasks", "execution_key">>},
                  {<<"queue_tasks", "execution_key">>}, "before"),
        Statement("add", {<<"queue_tasks", "ix_execution_key">>},
                  {<<"queue_tasks", "execution_key">>}, "before") >>
  \o RowWork("fill")

\* revisions 9 to 11 and 13 repair rows
EvidenceRepair == RowWork("fill")
SecretAssignments == RowWork("fill")
EscapedAssignments == RowWork("fill")
CandidateCopyRepair == RowWork("fill")

ProtectedSecretEvidence == Create("secret_evidence") \o Create("secret_reveal_audit")

ControlPlane ==
  Create("github_connections") \o Add({Table("local_ai_configurations")})
  \o All(<<"recon_profiles", "assessments", "ai_advice", "assessment_entities",
           "assessment_targets", "assessment_runs">>, Create)

ReconAssets == Create("recon_assets")

DomainIdentity ==
  RowWork("preflight")
  \o Add({Table("domain_identities")})
  \o Add(Parts("domains", {"identity_id"})) \o Add(Parts("domains", {"tenant_key"}))
  \o Drop({Indexes("domains")}) \o RowWork("fill")
  \o Add(Parts("domains", {"fk_identity", "uq_tenant_identity"}))
  \o Add({Indexes("domains")}) \o Add(Parts("domains", {"ix_tenant_key"}))
  \o Add(Parts("domains", {"uq_legacy_identity"}))

Revisions ==
  <<Baseline, ScheduledReports, UsersAndSessions, QueueTasks, RateLimitStates,
    EvidenceIdentity, FindingLifecycleColumns, SecurityExecution,
    EvidenceRepair, SecretAssignments, EscapedAssignments, ProtectedSecretEvidence,
    CandidateCopyRepair, ControlPlane, ReconAssets, DomainIdentity>>

Newest == Len(Revisions)

-----------------------------------------------------------------------------
(* The database and the processes.                                         *)

Process ==
  [at : {"down", "upgrade", "serving"}, revision : 0..Newest, step : Nat,
   before : SUBSET HeadSchema, open : BOOLEAN]

Down == [at |-> "down", revision |-> 0, step |-> 0, before |-> {}, open |-> FALSE]

VARIABLES
  engine,    \* the database
  develop,   \* services upgrade the schema themselves
  database,  \* what is committed: the revision and the objects
  work,      \* the same as the open transaction sees it
  processes, \* what each process does, and how far its upgrade is
  upgrades,  \* how many upgrades were started, for the bound
  disturbed  \* on SQLite, an upgrade was cut short or met another one

migrationVars == <<engine, develop, database, work, processes, upgrades, disturbed>>

\* What a release before the later revisions left behind.
EarlyTables ==
  ToSet(Phase17) \ {"scheduled_reports", "users", "user_tenant_memberships", "user_sessions",
                    "queue_tasks", "rate_limit_states", "finding_history"}

Released(r) ==
  {Table(t) : t \in EarlyTables} \union {Indexes(t) : t \in EarlyTables}
  \union (UNION {UNION {s.objects : s \in {x \in ToSet(Revisions[q]) : x.kind = "add"}}
                 : q \in 2..r})
  \union (IF r = 0 THEN {} ELSE
            UNION {s.objects : s \in {x \in ToSet(Baseline) : x.kind = "add" /\ x.lookup = "now"}})

\* clash: two domains of one tenant have the same normalized name.
MigrationInit ==
  /\ engine \in Engines /\ develop \in AutoMigrate
  /\ \E r \in {0, 1, 5}, old, clash \in BOOLEAN :
       /\ r # 0 => old
       /\ clash => r = 5
       /\ database = [revision |-> r, objects |-> IF old THEN Released(r) ELSE {},
                      clash |-> clash]
  /\ work = database
  /\ processes = [p \in Migrators |-> Down]
  /\ upgrades = 0 /\ disturbed = FALSE

-----------------------------------------------------------------------------
(* Starting. *)

Upgrading == {p \in Migrators : processes[p].at = "upgrade"}
InTransaction == \E p \in Migrators : processes[p].open

\* prepare_database upgrades in development and checks otherwise; a second
\* upgrade on PostgreSQL waits for the first and then fails.
StartUpgrade(p) ==
  /\ processes[p].at = "down"
  /\ p = Deployer \/ develop
  /\ database.revision < Newest /\ upgrades < MaxUpgrades
  /\ engine = "postgresql" => ~InTransaction
  /\ processes' = [processes EXCEPT ![p] =
       [at |-> "upgrade", revision |-> database.revision + 1, step |-> 1,
        before |-> database.objects, open |-> engine = "postgresql"]]
  /\ upgrades' = upgrades + 1
  /\ disturbed' = (disturbed \/ (engine = "sqlite" /\ Upgrading # {}))
  /\ UNCHANGED <<engine, develop, database, work>>

\* No revision is looked at but that there is one.
StartServingOnAny(p) ==
  /\ processes[p].at = "down" /\ p \in Services
  /\ database.revision # 0
  /\ processes' = [processes EXCEPT ![p].at = "serving"]
  /\ UNCHANGED <<engine, develop, database, work, upgrades, disturbed>>

StartServing(p) ==
  /\ processes[p].at = "down" /\ p \in Services
  /\ database.revision = Newest
  /\ processes' = [processes EXCEPT ![p].at = "serving"]
  /\ UNCHANGED <<engine, develop, database, work, upgrades, disturbed>>

StopServing(p) ==
  /\ processes[p].at = "serving"
  /\ processes' = [processes EXCEPT ![p] = Down]
  /\ UNCHANGED <<engine, develop, database, work, upgrades, disturbed>>

-----------------------------------------------------------------------------
(* Running the statements of a revision. *)

Effect(s, db) ==
  CASE s.kind = "add" -> [db EXCEPT !.objects = @ \union s.objects]
    [] s.kind = "drop" -> [db EXCEPT !.objects = @ \ s.objects]
    [] OTHER -> db

\* PostgreSQL wants the tables that a new table's foreign keys name.
Fails(s, db) ==
  \/ s.kind = "add" /\ s.objects \intersect db.objects # {}
  \/ s.kind = "drop" /\ ~(s.objects \subseteq db.objects)
  \/ s.kind = "preflight" /\ db.clash
  \/ /\ s.kind = "add" /\ engine = "postgresql"
     /\ \E t \in DOMAIN References : Table(t) \in s.objects
                                     /\ ~({Table(r) : r \in References[t]} \subseteq db.objects)

View(p) == IF processes[p].open THEN work ELSE database

\* Writes db, in p's transaction or at once.
WriteSchema(p, open, db) ==
  IF open THEN work' = db /\ database' = database ELSE database' = db /\ work' = db

Execute(p) ==
  LET run == processes[p]
      s == Revisions[run.revision][run.step]
      db == View(p)
      present == IF s.lookup = "before" THEN run.before ELSE db.objects
      skip == s.unless # {} /\ s.unless \subseteq present
      open == run.open \/ s.kind = "fill"
  IN /\ run.at = "upgrade" /\ run.step <= Len(Revisions[run.revision])
     /\ InTransaction => run.open
     /\ skip \/ ~Fails(s, db)
     /\ WriteSchema(p, open, IF skip THEN db ELSE Effect(s, db))
     /\ processes' = [processes EXCEPT ![p].step = @ + 1, ![p].open = open]
     /\ UNCHANGED <<engine, develop, upgrades, disturbed>>

\* The version row still holds the revision before; SQLite commits here,
\* PostgreSQL after the last revision.
FinishRevision(p) ==
  LET run == processes[p]
      db == [View(p) EXCEPT !.revision = run.revision]
      last == run.revision = Newest
      open == engine = "postgresql" /\ ~last
  IN /\ run.at = "upgrade" /\ run.step = Len(Revisions[run.revision]) + 1
     /\ InTransaction => run.open
     /\ View(p).revision = run.revision - 1
     /\ WriteSchema(p, open, db)
     /\ processes' = [processes EXCEPT ![p] =
          IF ~last THEN [run EXCEPT !.revision = @ + 1, !.step = 1, !.before = db.objects,
                                    !.open = open]
          ELSE IF p \in Services THEN [Down EXCEPT !.at = "serving"] ELSE Down]
     /\ UNCHANGED <<engine, develop, upgrades, disturbed>>

\* A statement fails or the process is killed.
BreakOff(p) ==
  /\ processes[p].at = "upgrade"
  /\ processes' = [processes EXCEPT ![p] = Down]
  /\ work' = IF processes[p].open THEN database ELSE work
  /\ disturbed' = (disturbed \/ (engine = "sqlite" /\ processes[p].step > 1))
  /\ UNCHANGED <<engine, develop, upgrades, database>>

MigrationNext ==
  \E p \in Migrators :
    \/ StartUpgrade(p) \/ StartServing(p) \/ StopServing(p)
    \/ Execute(p) \/ FinishRevision(p) \/ BreakOff(p)

MigrationSpec == MigrationInit /\ [][MigrationNext]_migrationVars

-----------------------------------------------------------------------------
(* Properties. *)

\* prepare_database: a running service never meets a schema that lacks what
\* the models declare, or has more, wherever an upgrade started from and
\* whatever cut it off.  On SQLite this needs that no upgrade was cut off
\* amid a revision or met another one: the guards of the early revisions
\* take a table without its indexes for a whole one.
ServedSchemaIsWhole ==
  (\E p \in Services : processes[p].at = "serving") /\ ~disturbed
    => database.objects = HeadSchema
=============================================================================
