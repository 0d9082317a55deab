SPECIFICATION ServicesSpec
CONSTANTS
  t1 = t1
  t2 = t2
  ann = ann
  ops = ops
  q1 = q1
  o1 = o1
  o2 = o2
  r1 = r1
  f1 = f1
  f2 = f2
  d1 = d1
  a = a
  b = b
  v1 = v1
  v2 = v2
  deploy = deploy
  api = api
  k1 = k1
  p1 = p1
  p2 = p2
  w1 = w1
  w2 = w2
  Tenants = {t1, t2}
  AllTenants = AllTenants
  Nobody = Nobody
  People = {ann}
  EnvTokens = {ops}
  EnvContext <- MCEnvContext
  Deployments <- MCDeployments
  AuthRequired = FALSE
  MaxRows = 2
  MaxChanges = 4
  Requests = {q1}
  Grants <- MCGrants
  Missing = Missing
  Orgs = {o1, o2}
  Repos = {r1}
  Findings = {f1, f2}
  Anchor <- MCAnchor
  Contexts <- MCContexts
  Discoverers = {v1, v2}
  Readers = {q1}
  MaxReveals = 1
  NoCaller = NoCaller
  Callers = {a, b}
  Window <- MCWindow
  MaxTime = 5
  Upload = Upload
  Domains = {d1}
  Analysts = {a, b}
  MaxJobs = 2
  MaxCalls = 4
  Deployer = deploy
  Services = {api}
  Engines = {"sqlite", "postgresql"}
  AutoMigrate = {TRUE, FALSE}
  MaxUpgrades = 2
  RootDomain = d1
  Subdomains = {a, b}
  Selections <- MCSelections
  MaxDomains = 2
  MaxItems = 2
  MaxRuns = 2
  NoTool = NoTool
  Investigators = {v1, v2}
  LegacyPlans <- MCLegacyPlans
  HostNames = {a, b}
  GitHubRepos = {r1}
  SensitiveNames = 1
  ScopeLimit = 1
  MaxPages = 2
  PageSize = 1
  Effort <- MCEffort
  MaxEffort = 2
  ScanPlans <- MCScanPlans
  ScanTargets <- MCScanTargets
  MaxOutput = 1
  NoScanner = NoScanner
  TaskIds = {k1}
  Publishers = {p1, p2}
  Workers = {w1, w2}
  MaxAttempts = 2
  PromptPublishers = FALSE
  ClaimBound = 4
  NoLease = NoLease
  Execution = Execution
  NoTask = NoTask
INVARIANTS
  AuthorityWithinGrants
  RevokedStaysOut
  SecretsStayWithTenant
  RevealIsAudited
  UploadMatchesSource
  ProbedOnce
  ServedSchemaIsWhole
  InputsAreStored
  FailureIsRemembered
  OnlyPublicIsStored
  CutSearchIsFailed
  InquiriesAddUp
  ScansAreWhole
  NoProcessLeft
  OneDeliveryScans
  PublishedHasJob
PROPERTIES
  OwnershipNeverMoves
  RequestsSpaced
CHECK_DEADLOCK FALSE
