----------------------------- MODULE MCServices -----------------------------
(* The components whose state no other component reads, and the queue of   *)
(* the external broker with slow publishers, side by side for TLC: in each *)
(* behaviour one of them runs and the other ones stay as they were, which  *)
(* is enough because they share no variable.                               *)
EXTENDS AccessControl, TenantOwnership, RateLimit, AssessmentControl, SchemaMigration,
        Discovery, DomainDiscovery, ScannerRun, RqQueue, TLC

CONSTANTS
  t1, t2, ann, ops, q1,            \* tenants, a person, a token, a request
  o1, o2, r1, f1, f2, d1,          \* organizations, a repository, findings, a domain
  a, b, v1, v2,                    \* analysts, callers and names; discoverers
  deploy, api, k1, p1, p2, w1, w2  \* processes and a task

MCEnvContext ==
  [e \in EnvTokens |->
     [role |-> "analyst", tenants |-> {AllTenants}, authenticated |-> TRUE,
      source |-> "env-token", reveal |-> FALSE]]

MCDeployments == {{}, EnvTokens}

MCGrants == {[role |-> "reader", reveal |-> FALSE], [role |-> "admin", reveal |-> TRUE]}

MCContexts ==
  {[role |-> "analyst", tenants |-> {t1}, authenticated |-> TRUE, source |-> "db-session",
    reveal |-> TRUE],
   [role |-> "admin", tenants |-> {t2}, authenticated |-> TRUE, source |-> "env-token",
    reveal |-> FALSE]}

MCAnchor ==
  f1 :> [org |-> o1, repo |-> Nobody, domain |-> Nobody]
  @@ f2 :> [org |-> Nobody, repo |-> r1, domain |-> o1]

MCWindow == a :> 1 @@ b :> 2

MCSelections ==
  {{"subfinder", "dnsx", "httpx", "katana"}, {"subfinder", "crtsh", "httpx"}, {"httpx"}}

MCScanPlans ==
  {<<s>> : s \in ScannerNames} \union {<<"custom-patterns", "gitleaks">>, <<"gitleaks", "yara">>, <<>>}

MCScanTargets ==
  {{"text"}, {"text", "oversized", "binary", "policy"}, {"text", "link"}, {"crowded"}, {"alias"}}

MCLegacyPlans ==
  v1 :> {"all", "all-enriched", "github-search", "securitytxt", "hibp", "dehashed",
         "intelligencex", "discover-repository"}
  @@ v2 :> {"crtsh", "projectdiscovery", "github-search", "expand-repository", "organization"}

MCEffort == [p \in DomainProviders \union Expansions |-> IF p = "all-enriched" THEN 2 ELSE 1]

VARIABLE component \* the component that runs

\* A component that does not run starts in one of its initial states only.
ServicesInit ==
  /\ component \in {"access", "ownership", "rate", "assessment", "migration", "discovery",
                   "legacy", "scanners", "rq"}
  /\ AccessInit /\ OwnershipInit /\ RateInit /\ AssessmentInit
  /\ MigrationInit /\ DiscoveryInit /\ LegacyInit /\ ScannerInit /\ Init
  /\ component # "access" => configured = {}
  /\ component # "rate" => backend = "memory"
  /\ component # "migration" => engine = "sqlite" /\ ~develop /\ database.objects = {}
  /\ component # "legacy" => marked = {} /\ \A r \in GitHubRepos : openness[r] = "public"
  /\ component # "scanners" => target = {"alias"} /\ plan = <<>>

\* Nothing is asked of the schema once an upgrade on SQLite was disturbed.
ServicesNext ==
  \/ /\ component = "access" /\ AccessNext
     /\ UNCHANGED <<component, ownershipVars, rateVars, assessmentVars,
                    migrationVars, discoveryVars, legacyVars, scannerVars, vars>>
  \/ /\ component = "ownership" /\ OwnershipNext
     /\ UNCHANGED <<component, accessVars, rateVars, assessmentVars,
                    migrationVars, discoveryVars, legacyVars, scannerVars, vars>>
  \/ /\ component = "rate" /\ RateNext
     /\ UNCHANGED <<component, accessVars, ownershipVars, assessmentVars,
                    migrationVars, discoveryVars, legacyVars, scannerVars, vars>>
  \/ /\ component = "assessment" /\ AssessmentNext
     /\ UNCHANGED <<component, accessVars, ownershipVars, rateVars,
                    migrationVars, discoveryVars, legacyVars, scannerVars, vars>>
  \/ /\ component = "migration" /\ ~disturbed /\ MigrationNext
     /\ UNCHANGED <<component, accessVars, ownershipVars, rateVars,
                    assessmentVars, discoveryVars, legacyVars, scannerVars, vars>>
  \/ /\ component = "discovery" /\ DiscoveryNext
     /\ UNCHANGED <<component, accessVars, ownershipVars, rateVars,
                    assessmentVars, migrationVars, legacyVars, scannerVars, vars>>
  \/ /\ component = "legacy" /\ LegacyNext
     /\ UNCHANGED <<component, accessVars, ownershipVars, rateVars, assessmentVars,
                    migrationVars, discoveryVars, scannerVars, vars>>
  \/ /\ component = "scanners" /\ ScannerNext
     /\ UNCHANGED <<component, accessVars, ownershipVars, rateVars,
                    assessmentVars, migrationVars, discoveryVars, legacyVars, vars>>
  \/ /\ component = "rq" /\ Next
     /\ UNCHANGED <<component, accessVars, ownershipVars, rateVars,
                    assessmentVars, migrationVars, discoveryVars, legacyVars, scannerVars>>

ServicesSpec ==
  ServicesInit /\ [][ServicesNext]_<<component, accessVars, ownershipVars, rateVars, assessmentVars,
                                    migrationVars, discoveryVars, legacyVars, scannerVars, vars>>

=============================================================================
