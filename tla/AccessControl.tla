--------------------------- MODULE AccessControl ---------------------------
(***************************************************************************)
(* Users, tenant memberships, token and browser sessions, and the requests *)
(* that act with them: services/auth_service.py, auth.py and the ASGI      *)
(* middleware of api/authentication.py.                                    *)
(*                                                                         *)
(* A request asks first whether authentication is enabled, then resolves   *)
(* its credential, each in a database session of its own, and only then    *)
(* runs its handler; login likewise resolves the credential in one session *)
(* and stores the browser session in another.  Administrators, the command *)
(* line, expiry and restarts of the API process change the state between   *)
(* those steps.  Table rows are never deleted.                             *)
(***************************************************************************)
EXTENDS SecurityContext

CONSTANTS
  People,       \* names administrators give to users
  EnvTokens,    \* tokens of ORGSCAN_API_TOKENS_JSON; each names its user env:name
  EnvContext,   \* the context each of them carries
  Deployments,  \* the sets of tokens the API may be started with
  AuthRequired, \* the setting api_auth_required
  MaxRows,      \* bound: rows of user_sessions
  MaxChanges,   \* bound: changes by administrators, revocations and expiries
  Requests,     \* concurrent requests
  Grants        \* the roles and capabilities administrators grant

Users == People \union EnvTokens
Rows == 1..MaxRows

Grant == [role : Role, reveal : BOOLEAN]

ASSUME AccessAssumption ==
  /\ MaxRows \in Nat /\ MaxChanges \in Nat /\ AuthRequired \in BOOLEAN
  /\ Deployments \subseteq SUBSET EnvTokens
  /\ EnvContext \in [EnvTokens -> {c \in AuthContext : c.authenticated /\ c.source = "env-token"}]
  /\ Grants \subseteq Grant
  /\ People \intersect EnvTokens = {} /\ Nobody \notin Users /\ Nobody \notin AuthContext
  /\ EnvTokens \intersect Int = {} /\ Nobody \notin Int

NoGrant == [role |-> "reader", reveal |-> FALSE, given |-> FALSE]
Membership == [role : Role, reveal : BOOLEAN, given : BOOLEAN]

\* parent: the row or environment token a browser session was opened with.
SessionRow ==
  [kind : {"free", "token", "browser"}, user : Users \union {Nobody}, role : Role,
   scopes : SUBSET Scope, parent : Rows \union EnvTokens \union {Nobody},
   ended : {"no", "revoked", "expired"}]

FreeRow ==
  [kind |-> "free", user |-> Nobody, role |-> "reader", scopes |-> {}, parent |-> Nobody,
   ended |-> "no"]

\* What a request presents: nothing, an environment token or a session's
\* token, as the cookie or as a header.
Credential == {Nobody} \union EnvTokens \union Rows
Purpose == {"read", "write", "users", "logout", "login"}

RequestState ==
  [at : {"idle", "arrived", "checked", "acting", "minting"}, purpose : Purpose,
   credential : Credential, cookie : BOOLEAN, enabled : BOOLEAN,
   context : AuthContext \union {Nobody}, doomed : BOOLEAN]

NoRequest ==
  [at |-> "idle", purpose |-> "read", credential |-> Nobody, cookie |-> FALSE,
   enabled |-> FALSE, context |-> Nobody, doomed |-> FALSE]

VARIABLES
  users,       \* "absent", "active" or "inactive" for each user
  memberships, \* user_tenant_memberships by user and tenant key
  sessions,    \* user_sessions
  configured,  \* the environment tokens the running API process loaded
  changes,     \* how many changes happened, for the bound
  requests     \* what each request is doing

accessVars == <<users, memberships, sessions, configured, changes, requests>>

AccessInit ==
  /\ users = [u \in Users |-> "absent"]
  /\ memberships = [u \in Users |-> [s \in Scope |-> NoGrant]]
  /\ sessions = [r \in Rows |-> FreeRow]
  /\ configured \in Deployments /\ changes = 0
  /\ requests = [q \in Requests |-> NoRequest]

-----------------------------------------------------------------------------
(* What a credential stands for. *)

Enabled ==
  \/ AuthRequired \/ configured # {}
  \/ \E u \in Users : users[u] # "absent"

Intersect(saved, current) ==
  IF AllTenants \in saved THEN current
  ELSE IF AllTenants \in current THEN saved
  ELSE saved \intersect current

Assigned(u) == {s \in Scope : memberships[u][s].given}

\* memberships.get(scope, memberships["*"]) with the lowest grant as default
GrantFor(u, s) ==
  IF s \in Assigned(u) THEN memberships[u][s] ELSE memberships[u][AllTenants]

RoleFor(u, s) == GrantFor(u, s).role

Usable(row) == row.ended = "no" /\ users[row.user] = "active"

\* The role of the token as it was issued, whatever was granted since.
TokenContextIssued(row) ==
  LET scopes == Intersect(row.scopes, Assigned(row.user)) IN
  IF ~Usable(row) \/ scopes = {} THEN Nobody
  ELSE [role |-> row.role, tenants |-> scopes, authenticated |-> TRUE,
        source |-> "db-session",
        reveal |-> \A s \in scopes : GrantFor(row.user, s).reveal]

TokenContext(row) ==
  LET scopes == Intersect(row.scopes, Assigned(row.user)) IN
  IF ~Usable(row) \/ scopes = {} THEN Nobody
  ELSE [role |-> CappedRole({row.role} \union {RoleFor(row.user, s) : s \in scopes}),
        tenants |-> scopes, authenticated |-> TRUE, source |-> "db-session",
        reveal |-> \A s \in scopes : GrantFor(row.user, s).reveal]

ParentContext(row) ==
  IF row.parent \in EnvTokens
    THEN IF row.parent \in configured THEN EnvContext[row.parent] ELSE Nobody
    ELSE IF sessions[row.parent].kind = "token" THEN TokenContext(sessions[row.parent])
    ELSE Nobody

\* A browser session that lives on its own row.
BrowserContextAlone(row) ==
  IF ~Usable(row) THEN Nobody
  ELSE [role |-> row.role, tenants |-> row.scopes, authenticated |-> TRUE,
        source |-> "browser-session", reveal |-> FALSE]

BrowserContext(row) ==
  LET parent == ParentContext(row)
      scopes == Intersect(row.scopes, parent.tenants)
  IN IF ~Usable(row) \/ parent = Nobody \/ scopes = {} THEN Nobody
     ELSE [parent EXCEPT !.role = CappedRole({row.role, parent.role}),
                         !.tenants = scopes, !.source = "browser-session"]

Resolve(credential, cookie) ==
  IF credential = Nobody THEN Nobody
  ELSE IF credential \in EnvTokens
    THEN IF credential \in configured /\ ~cookie THEN EnvContext[credential] ELSE Nobody
  ELSE LET row == sessions[credential] IN
    IF row.kind = "browser" THEN BrowserContext(row)
    ELSE IF row.kind = "token" /\ ~cookie THEN TokenContext(row) ELSE Nobody

-----------------------------------------------------------------------------
(* A request, from its arrival to its handler. *)

\* The credential can never again stand for anything: its row, or the one
\* its browser session was opened with, was revoked or has expired.
Spent(credential) ==
  /\ credential \in Rows
  /\ LET row == sessions[credential] IN
     \/ row.ended # "no"
     \/ row.parent \in Rows /\ sessions[row.parent].ended # "no"

Presentable(credential) == credential \in Rows => sessions[credential].kind # "free"

Set(q, state) == requests' = [requests EXCEPT ![q] = state]
Finish(q) == Set(q, NoRequest)
Database == <<users, memberships, sessions, configured, changes>>

Change == changes < MaxChanges /\ changes' = changes + 1

Arrive(q) ==
  /\ requests[q].at = "idle"
  /\ \E purpose \in Purpose, credential \in Credential, cookie \in BOOLEAN :
       /\ Presentable(credential)
       /\ purpose = "login" => ~cookie
       /\ credential = Nobody => ~cookie
       /\ Set(q, [NoRequest EXCEPT
            !.at = "arrived", !.purpose = purpose, !.credential = credential,
            !.cookie = cookie, !.doomed = Spent(credential)])
  /\ UNCHANGED Database

CheckEnabled(q) ==
  /\ requests[q].at = "arrived" /\ requests[q].purpose # "login"
  /\ Set(q, [requests[q] EXCEPT !.at = "checked", !.enabled = Enabled])
  /\ UNCHANGED Database

Required(purpose) ==
  CASE purpose \in {"read", "logout"} -> "reader"
    [] purpose = "users" -> "admin"
    [] OTHER -> "analyst"

\* The middleware's answer to the request: a context to act with, or none.
\* A cookie that writes must prove its origin with the session's CSRF token.
Admitted(request, genuine) ==
  LET resolved == Resolve(request.credential, request.cookie)
      context == IF resolved = Nobody /\ ~request.enabled /\ request.credential = Nobody
                 THEN LOCAL_CONTEXT ELSE resolved
  IN IF context = Nobody THEN Nobody
     ELSE IF AllowsRole(context, Required(request.purpose))
             /\ (request.cookie /\ request.purpose # "read" => genuine)
          THEN context ELSE Nobody

Authenticate(q) ==
  /\ requests[q].at = "checked"
  /\ \E genuine \in BOOLEAN :
       LET context == Admitted(requests[q], genuine) IN
       IF context = Nobody THEN Finish(q)
       ELSE Set(q, [requests[q] EXCEPT !.at = "acting", !.context = context])
  /\ UNCHANGED Database

\* A handler that changes nothing here, or a refusal of require_admin.
Serve(q) ==
  /\ requests[q].at = "acting"
  /\ Finish(q)
  /\ UNCHANGED Database

-----------------------------------------------------------------------------
(* Handlers that administer users, and the same operations of the command  *)
(* line, which is trusted with the database.                               *)

RequireAdmin(context) == AllowsRole(context, "admin") /\ AllTenants \in context.tenants

CreateUser ==
  \E u \in People :
    /\ users[u] = "absent"
    /\ users' = [users EXCEPT ![u] = "active"]
    /\ UNCHANGED <<memberships, sessions, configured>>

SetActive ==
  \E u \in Users, active \in {"active", "inactive"} :
    /\ users[u] # "absent"
    /\ users' = [users EXCEPT ![u] = active]
    /\ UNCHANGED <<memberships, sessions, configured>>

\* The API replaces the capabilities, the command line keeps them.
GrantMembership(keep) ==
  \E u \in People, s \in Scope, g \in Grants :
    /\ users[u] # "absent"
    /\ LET old == memberships[u][s]
           reveal == IF keep THEN old.reveal ELSE g.reveal
       IN memberships' = [memberships EXCEPT
            ![u][s] = [role |-> g.role, reveal |-> reveal, given |-> TRUE]]
    /\ UNCHANGED <<users, sessions, configured>>

NextRow(r) == sessions[r].kind = "free" /\ \A other \in 1..r - 1 : sessions[other].kind # "free"

\* The highest role create_db_session_token accepts for these scopes.
RoleCap(u, scopes) == CappedRole({RoleFor(u, s) : s \in scopes})

IssueSession ==
  \E u \in People, scopes \in (SUBSET Scope) \ {{}}, r \in Rows :
    /\ users[u] # "absent" /\ NextRow(r)
    /\ AllTenants \in Assigned(u) \/ scopes \subseteq Assigned(u)
    /\ sessions' = [sessions EXCEPT ![r] =
         [FreeRow EXCEPT !.kind = "token", !.user = u, !.role = RoleCap(u, scopes),
                         !.scopes = scopes]]
    /\ UNCHANGED <<users, memberships, configured>>

Administer(q) ==
  /\ requests[q].at = "acting" /\ requests[q].purpose = "users"
  /\ RequireAdmin(requests[q].context)
  /\ CreateUser \/ SetActive \/ GrantMembership(FALSE) \/ IssueSession
  /\ Change /\ Finish(q)

Revoke(r) ==
  /\ sessions' = [sessions EXCEPT ![r].ended = "revoked"]
  /\ UNCHANGED <<users, memberships, configured>>

CommandLine ==
  /\ \/ CreateUser \/ GrantMembership(TRUE) \/ IssueSession
     \/ \E r \in Rows : sessions[r].kind # "free" /\ sessions[r].ended = "no" /\ Revoke(r)
  /\ Change /\ UNCHANGED requests

\* It ends the session of the cookie, which a request with a header may
\* carry besides.
Logout(q) ==
  /\ requests[q].at = "acting" /\ requests[q].purpose = "logout"
  /\ \E r \in Rows :
       /\ sessions[r].kind # "free"
       /\ requests[q].cookie => r = requests[q].credential
       /\ Revoke(r)
  /\ IF requests[q].cookie THEN UNCHANGED changes ELSE Change
  /\ Finish(q)

-----------------------------------------------------------------------------
(* Login: the context is resolved first, the browser session stored later. *)

LoginRead(q) ==
  LET request == requests[q]
      context == Resolve(request.credential, FALSE)
  IN /\ request.at = "arrived" /\ request.purpose = "login"
     /\ IF context = Nobody THEN Finish(q)
        ELSE IF context.source = "browser-session" THEN Finish(q)
        ELSE Set(q, [request EXCEPT !.at = "minting", !.context = context])
     /\ UNCHANGED Database

Owner(credential) == IF credential \in EnvTokens THEN credential ELSE sessions[credential].user

LoginWrite(q) ==
  LET request == requests[q]
      owner == Owner(request.credential)
      known == [users EXCEPT ![owner] = IF @ = "absent" THEN "active" ELSE @]
  IN /\ request.at = "minting"
     /\ IF known[owner] = "active"
          THEN \E r \in Rows :
            /\ NextRow(r)
            /\ users' = known
            /\ sessions' = [sessions EXCEPT ![r] =
                 [FreeRow EXCEPT !.kind = "browser", !.user = owner,
                                 !.role = request.context.role,
                                 !.scopes = request.context.tenants,
                                 !.parent = request.credential]]
          ELSE UNCHANGED <<users, sessions>>
     /\ Finish(q)
     /\ UNCHANGED <<memberships, configured, changes>>

-----------------------------------------------------------------------------
(* Time and restarts. *)

Expire ==
  /\ \E r \in Rows :
       /\ sessions[r].kind # "free" /\ sessions[r].ended = "no"
       /\ sessions' = [sessions EXCEPT ![r].ended = "expired"]
  /\ Change /\ UNCHANGED <<users, memberships, configured, requests>>

\* The process loads the tokens it is started with; its requests are gone.
Restart ==
  /\ configured' \in Deployments
  /\ requests' = [q \in Requests |-> NoRequest]
  /\ UNCHANGED <<users, memberships, sessions, changes>>

Request(q) ==
  \/ Arrive(q) \/ CheckEnabled(q) \/ Authenticate(q) \/ Serve(q)
  \/ Administer(q) \/ Logout(q) \/ LoginRead(q) \/ LoginWrite(q)

AccessNext ==
  \/ \E q \in Requests : Request(q)
  \/ CommandLine \/ Expire \/ Restart

AccessSpec == AccessInit /\ [][AccessNext]_accessVars

-----------------------------------------------------------------------------
(* Properties. *)

\* The token or row whose grants bound what a row may do.
Root(r) == IF sessions[r].kind = "browser" THEN sessions[r].parent ELSE r

WithinToken(context, bound) ==
  /\ ROLE_LEVELS[context.role] <= ROLE_LEVELS[bound.role]
  /\ \A t \in Tenants : AllowsTenant(context, t) => AllowsTenant(bound, t)
  /\ context.reveal => bound.reveal

\* In each tenant it reaches, no more than the owner is granted there now
\* and no more than the session was issued.
WithinGrants(context, row) ==
  /\ ROLE_LEVELS[context.role] <= ROLE_LEVELS[row.role]
  /\ \A t \in Tenants : AllowsTenant(context, t) =>
       /\ {t, AllTenants} \intersect Assigned(row.user) # {}
       /\ {t, AllTenants} \intersect row.scopes # {}
       /\ ROLE_LEVELS[context.role] <= ROLE_LEVELS[RoleFor(row.user, t)]
       /\ context.reveal => GrantFor(row.user, t).reveal

\* auth_service._context_for_row: whatever was granted, lowered, issued and
\* opened in whatever order, the authority a stored session has right now
\* stays within the present grants of the user behind it, and a browser
\* session's within the token it was opened with.
AuthorityWithinGrants ==
  \A r \in Rows :
    LET context == Resolve(r, FALSE) IN
    context # Nobody =>
      IF Root(r) \in EnvTokens
      THEN Root(r) \in configured /\ WithinToken(context, EnvContext[Root(r)])
      ELSE WithinGrants(context, sessions[Root(r)]) /\ Usable(sessions[Root(r)])

\* auth_service.resolve and login: a request that arrives after its session,
\* or the session its browser session was opened with, was revoked or
\* expired never acts nor opens a new session, although login and the
\* middleware read the state in several database sessions.
RevokedStaysOut ==
  \A q \in Requests : requests[q].at \in {"acting", "minting"} => ~requests[q].doomed
=============================================================================
