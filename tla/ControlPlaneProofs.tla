------------------------- MODULE ControlPlaneProofs -------------------------
(***************************************************************************)
(* Safety of what the API does for its callers: who a request acts as, and *)
(* the jobs and the upload of an assessment.                               *)
(***************************************************************************)
EXTENDS AccessControl, AssessmentControl, FiniteSetTheorems, TLAPS

-----------------------------------------------------------------------------
(* Access control: rows of sessions and requests that present them.        *)

\* A row once it is no longer free: whose it is, and what it was opened with.
RowShape(row) ==
  /\ row \in SessionRow
  /\ row.kind = "free" => row.parent = Nobody /\ row.ended = "no"
  /\ row.kind = "token" => row.user \in Users /\ row.parent = Nobody
  /\ row.kind = "browser" => row.user \in Users /\ row.parent \in EnvTokens \union Rows

\* Type correctness of the tables and of the requests.
AccessTypeOK ==
  /\ users \in [Users -> {"absent", "active", "inactive"}]
  /\ memberships \in [Users -> [Scope -> Membership]]
  /\ sessions \in [Rows -> SessionRow]
  /\ configured \subseteq EnvTokens
  /\ requests \in [Requests -> RequestState]

\* A credential that was ended, or whose parent was, in these rows.
SpentIn(rows, credential) ==
  /\ credential \in Rows
  /\ \/ rows[credential].ended # "no"
     \/ rows[credential].parent \in Rows /\ rows[rows[credential].parent].ended # "no"

\* What a request noted at its arrival is still so in the tables it is
\* looked up in, and what it acts with was resolved from its credential.
Sound(request, rows) ==
  /\ request.credential \in Rows => rows[request.credential].kind # "free"
  /\ request.context # Nobody => request.at \in {"acting", "minting"}
  /\ request.at = "minting" => request.context \in AuthContext /\ request.credential # Nobody
  /\ request.doomed => SpentIn(rows, request.credential) /\ request.at \notin {"acting", "minting"}

\* The inductive invariant of authentication.
AccessInv ==
  /\ AccessTypeOK
  /\ \A r \in Rows : RowShape(sessions[r])
  /\ \A q \in Requests : Sound(requests[q], sessions)

-----------------------------------------------------------------------------
(* Roles. *)

\* The levels of the roles.
LEMMA Levels ==
  /\ ROLE_LEVELS["reader"] = 1 /\ ROLE_LEVELS["analyst"] = 2 /\ ROLE_LEVELS["admin"] = 3
  /\ \A role \in Role : ROLE_LEVELS[role] \in 1..3
BY DEF ROLE_LEVELS, Role

\* The cap of several roles is the lowest of them.
LEMMA CappedRoleIsLowest ==
  ASSUME NEW roles \in SUBSET Role, roles # {}
  PROVE  /\ CappedRole(roles) \in roles
         /\ \A other \in roles : ROLE_LEVELS[CappedRole(roles)] <= ROLE_LEVELS[other]
<1>. DEFINE Lowest(role) == role \in roles /\ \A other \in roles : ROLE_LEVELS[role] <= ROLE_LEVELS[other]
<1>1. \E role \in roles : \A other \in roles : ROLE_LEVELS[role] <= ROLE_LEVELS[other]
  <2>1. CASE "reader" \in roles
    BY <2>1, Levels DEF Role
  <2>2. CASE "reader" \notin roles /\ "analyst" \in roles
    BY <2>2, Levels DEF Role
  <2>3. CASE "reader" \notin roles /\ "analyst" \notin roles
    <3>1. \A role \in roles : role = "admin"
      BY <2>3 DEF Role
    <3>2. "admin" \in roles
      BY <3>1
    <3>. QED
      BY <3>1, <3>2, Levels
  <2>. QED
    BY <2>1, <2>2, <2>3
<1>. QED
  BY <1>1 DEF CappedRole

-----------------------------------------------------------------------------
(* What a credential stands for. *)

\* What is looked up for a user and a tenant is a membership of the table.
LEMMA GrantsAreMemberships ==
  ASSUME AccessTypeOK, NEW u \in Users, NEW s \in Scope
  PROVE  GrantFor(u, s) \in Membership /\ RoleFor(u, s) \in Role
<1>1. memberships[u][s] \in Membership /\ memberships[u][AllTenants] \in Membership
  BY DEF AccessTypeOK, Scope
<1>. QED
  BY <1>1 DEF GrantFor, RoleFor, Membership

\* Two scopes intersect in a scope.
LEMMA IntersectIsScope ==
  ASSUME NEW saved \in SUBSET Scope, NEW current \in SUBSET Scope
  PROVE  Intersect(saved, current) \in SUBSET Scope
BY DEF Intersect

\* The fields of a token's context.
LEMMA TokenContextFields ==
  ASSUME AccessTypeOK, NEW row, RowShape(row), row.kind = "token", TokenContext(row) # Nobody
  PROVE  LET context == TokenContext(row)
             scopes == Intersect(row.scopes, Assigned(row.user))
         IN  /\ Usable(row) /\ context \in AuthContext /\ context.authenticated = TRUE
             /\ context.tenants = scopes
             /\ ROLE_LEVELS[context.role] <= ROLE_LEVELS[row.role]
             /\ \A s \in scopes : ROLE_LEVELS[context.role] <= ROLE_LEVELS[RoleFor(row.user, s)]
             /\ context.reveal => \A s \in scopes : GrantFor(row.user, s).reveal
<1>. DEFINE scopes == Intersect(row.scopes, Assigned(row.user))
            roles == {row.role} \union {RoleFor(row.user, s) : s \in scopes}
            capped == CappedRole(roles)
            reveal == \A s \in scopes : GrantFor(row.user, s).reveal
            context == [role |-> capped, tenants |-> scopes, authenticated |-> TRUE,
                        source |-> "db-session", reveal |-> reveal]
<1>1. row \in SessionRow /\ row.user \in Users /\ row.scopes \in SUBSET Scope /\ row.role \in Role
  BY DEF RowShape, SessionRow
<1>2. scopes \in SUBSET Scope
  BY <1>1, IntersectIsScope DEF Assigned
<1>3. Usable(row) /\ TokenContext(row) = context
  BY DEF TokenContext
<1>. HIDE DEF scopes
<1>4. \A s \in scopes : RoleFor(row.user, s) \in Role
  BY <1>1, <1>2, GrantsAreMemberships
<1>5. roles \in SUBSET Role /\ row.role \in roles /\ \A s \in scopes : RoleFor(row.user, s) \in roles
  BY <1>1, <1>4
<1>. HIDE DEF roles
<1>6. capped \in roles /\ \A other \in roles : ROLE_LEVELS[capped] <= ROLE_LEVELS[other]
  BY <1>5, CappedRoleIsLowest
<1>. HIDE DEF capped
<1>7. reveal \in BOOLEAN
  BY Zenon
<1>8. reveal => \A s \in scopes : GrantFor(row.user, s).reveal
  OBVIOUS
<1>. HIDE DEF reveal
<1>9. capped \in Role
  BY <1>5, <1>6
<1>10. context \in AuthContext
  BY <1>2, <1>7, <1>9 DEF AuthContext, Source
<1>11. /\ context.tenants = scopes /\ context.role = capped /\ context.authenticated = TRUE
       /\ context.reveal = reveal
  BY Zenon
<1>. HIDE DEF context
<1>12. /\ ROLE_LEVELS[context.role] <= ROLE_LEVELS[row.role]
       /\ \A s \in scopes : ROLE_LEVELS[context.role] <= ROLE_LEVELS[RoleFor(row.user, s)]
  BY <1>5, <1>6, <1>11
<1>13. context.reveal => \A s \in scopes : GrantFor(row.user, s).reveal
  BY <1>8, <1>11, Zenon
<1>. QED
  BY <1>3, <1>10, <1>11, <1>12, <1>13 DEF scopes

\* A token's context stays within the grants of its user and its own row.
LEMMA TokenWithinGrants ==
  ASSUME AccessTypeOK, NEW row, RowShape(row), row.kind = "token", TokenContext(row) # Nobody
  PROVE  WithinGrants(TokenContext(row), row)
<1>. DEFINE context == TokenContext(row)
            scopes == Intersect(row.scopes, Assigned(row.user))
<1>1. /\ context.tenants = scopes
      /\ ROLE_LEVELS[context.role] <= ROLE_LEVELS[row.role]
      /\ \A s \in scopes : ROLE_LEVELS[context.role] <= ROLE_LEVELS[RoleFor(row.user, s)]
      /\ context.reveal => \A s \in scopes : GrantFor(row.user, s).reveal
  BY TokenContextFields
<1>. HIDE DEF context
<1>2. ASSUME NEW t \in Tenants, AllowsTenant(context, t)
      PROVE  /\ {t, AllTenants} \intersect Assigned(row.user) # {}
             /\ {t, AllTenants} \intersect row.scopes # {}
             /\ \E s \in scopes : GrantFor(row.user, s) = GrantFor(row.user, t)
  <2>1. AllTenants \in scopes \/ t \in scopes
    BY <1>1, <1>2 DEF AllowsTenant
  <2>2. t \in Scope /\ AllTenants \in Scope
    BY DEF Scope
  <2>3. CASE AllTenants \in row.scopes
    <3>1. scopes = Assigned(row.user)
      BY <2>3 DEF Intersect
    <3>2. CASE t \in Assigned(row.user)
      BY <2>3, <3>1, <3>2
    <3>3. CASE t \notin Assigned(row.user)
      <4>1. AllTenants \in Assigned(row.user)
        BY <2>1, <3>1, <3>3
      <4>2. GrantFor(row.user, t) = GrantFor(row.user, AllTenants)
        BY <3>3, <4>1 DEF GrantFor
      <4>. QED
        BY <2>3, <3>1, <4>1, <4>2
    <3>. QED
      BY <3>2, <3>3
  <2>4. CASE AllTenants \notin row.scopes
    <3>1. t \in scopes /\ t \in row.scopes /\ {t, AllTenants} \intersect Assigned(row.user) # {}
      BY <2>1, <2>4 DEF Intersect
    <3>. QED
      BY <3>1
  <2>. QED
    BY <2>3, <2>4
<1>3. ASSUME NEW t \in Tenants, AllowsTenant(context, t)
      PROVE  /\ ROLE_LEVELS[context.role] <= ROLE_LEVELS[RoleFor(row.user, t)]
             /\ context.reveal => GrantFor(row.user, t).reveal
  <2>1. PICK s \in scopes : GrantFor(row.user, s) = GrantFor(row.user, t)
    BY <1>2, <1>3
  <2>2. RoleFor(row.user, s) = RoleFor(row.user, t)
    BY <2>1 DEF RoleFor
  <2>3. ROLE_LEVELS[context.role] <= ROLE_LEVELS[RoleFor(row.user, t)]
    BY <1>1, <2>2
  <2>4. context.reveal => GrantFor(row.user, t).reveal
    BY <1>1, <2>1, Zenon
  <2>. QED
    BY <2>3, <2>4
<1>4. WithinGrants(context, row)
  <2>1. ASSUME NEW t \in Tenants, AllowsTenant(context, t)
        PROVE  /\ {t, AllTenants} \intersect Assigned(row.user) # {}
               /\ {t, AllTenants} \intersect row.scopes # {}
               /\ ROLE_LEVELS[context.role] <= ROLE_LEVELS[RoleFor(row.user, t)]
               /\ context.reveal => GrantFor(row.user, t).reveal
    BY <1>2, <1>3, <2>1, Zenon
  <2>. QED
    BY <1>1, <2>1, Zenon DEF WithinGrants
<1>. QED
  BY <1>4 DEF context

\* An environment token's context, as the process loaded it.
LEMMA EnvContextFields ==
  ASSUME NEW e \in EnvTokens
  PROVE  EnvContext[e] \in AuthContext /\ EnvContext[e].authenticated = TRUE
<1>1. EnvContext[e] \in {c \in AuthContext : c.authenticated /\ c.source = "env-token"}
  BY AccessAssumption
<1>2. EnvContext[e] \in AuthContext /\ EnvContext[e].authenticated
  BY <1>1
<1>3. EnvContext[e].authenticated \in BOOLEAN
  BY <1>2 DEF AuthContext
<1>. QED
  BY <1>2, <1>3

\* A context is narrower than another one.
Narrower(context, other) ==
  /\ context \in AuthContext /\ context.authenticated = other.authenticated
  /\ context.reveal = other.reveal
  /\ ROLE_LEVELS[context.role] <= ROLE_LEVELS[other.role]
  /\ \A t \in Tenants : AllowsTenant(context, t) => AllowsTenant(other, t)

\* A browser session's context is narrower than the one it was opened with.
LEMMA BrowserContextIsNarrower ==
  ASSUME NEW row, RowShape(row), row.kind = "browser", ParentContext(row) \in AuthContext,
         BrowserContext(row) # Nobody
  PROVE  Usable(row) /\ Narrower(BrowserContext(row), ParentContext(row))
<1>. DEFINE parent == ParentContext(row)
            scopes == Intersect(row.scopes, parent.tenants)
            capped == CappedRole({row.role, parent.role})
            context == [parent EXCEPT !.role = capped, !.tenants = scopes, !.source = "browser-session"]
<1>1. Usable(row) /\ BrowserContext(row) = context
  BY DEF BrowserContext
<1>. HIDE DEF parent
<1>2. parent \in AuthContext /\ row.role \in Role /\ row.scopes \in SUBSET Scope
  BY DEF parent, RowShape, SessionRow
<1>3. parent.role \in Role /\ parent.tenants \in SUBSET Scope
  BY <1>2 DEF AuthContext
<1>4. scopes \in SUBSET Scope
  BY <1>2, <1>3, IntersectIsScope
<1>5. capped \in Role /\ ROLE_LEVELS[capped] <= ROLE_LEVELS[parent.role]
  BY <1>2, <1>3, CappedRoleIsLowest
<1>6. AllTenants \in scopes => AllTenants \in parent.tenants
  BY DEF Intersect
<1>7. \A t \in scopes : t \in parent.tenants \/ AllTenants \in parent.tenants
  BY DEF Intersect
<1>. HIDE DEF scopes, capped
<1>8. /\ context \in AuthContext /\ context.tenants = scopes /\ context.role = capped
      /\ context.authenticated = parent.authenticated /\ context.reveal = parent.reveal
  BY <1>2, <1>4, <1>5 DEF AuthContext, Source
<1>. HIDE DEF context
<1>9. \A t \in Tenants : AllowsTenant(context, t) => AllowsTenant(parent, t)
  BY <1>6, <1>7, <1>8 DEF AllowsTenant
<1>. QED
  BY <1>1, <1>5, <1>8, <1>9 DEF Narrower, parent

\* What a browser session was opened with stands for an authenticated
\* context, or for nothing any more.
LEMMA ParentContextIsResolved ==
  ASSUME AccessInv, NEW row, RowShape(row), row.kind = "browser", ParentContext(row) # Nobody
  PROVE  /\ ParentContext(row) \in AuthContext /\ ParentContext(row).authenticated = TRUE
         /\ IF row.parent \in EnvTokens
            THEN row.parent \in configured /\ ParentContext(row) = EnvContext[row.parent]
            ELSE /\ row.parent \in Rows /\ sessions[row.parent].kind = "token"
                 /\ ParentContext(row) = TokenContext(sessions[row.parent])
<1>1. CASE row.parent \in EnvTokens
  BY <1>1, EnvContextFields DEF ParentContext
<1>2. CASE row.parent \notin EnvTokens
  <2>1. row.parent \in Rows /\ sessions[row.parent].kind = "token"
        /\ ParentContext(row) = TokenContext(sessions[row.parent])
    BY <1>2 DEF ParentContext, RowShape
  <2>2. RowShape(sessions[row.parent]) /\ AccessTypeOK
    BY <2>1 DEF AccessInv
  <2>. QED
    BY <1>2, <2>1, <2>2, TokenContextFields
<1>. QED
  BY <1>1, <1>2

\* auth_service.resolve: what a credential resolves to, if anything, is an
\* authenticated context.
LEMMA ResolvedIsAuthenticated ==
  ASSUME AccessInv, NEW credential \in Credential, NEW cookie \in BOOLEAN, Resolve(credential, cookie) # Nobody
  PROVE  /\ Resolve(credential, cookie) \in AuthContext
         /\ Resolve(credential, cookie).authenticated = TRUE /\ credential # Nobody
<1>1. credential # Nobody
  BY DEF Resolve
<1>2. CASE credential \in EnvTokens
  BY <1>1, <1>2, EnvContextFields DEF Resolve
<1>3. CASE credential \notin EnvTokens
  <2>. DEFINE row == sessions[credential]
  <2>1. credential \in Rows /\ RowShape(row) /\ AccessTypeOK
    BY <1>1, <1>3 DEF AccessInv, Credential
  <2>2. Resolve(credential, cookie) =
          IF row.kind = "browser" THEN BrowserContext(row)
          ELSE IF row.kind = "token" /\ ~cookie THEN TokenContext(row) ELSE Nobody
    BY <1>1, <1>3 DEF Resolve
  <2>. HIDE DEF row
  <2>3. CASE row.kind = "browser"
    <3>1. BrowserContext(row) # Nobody /\ Resolve(credential, cookie) = BrowserContext(row)
      BY <2>2, <2>3
    <3>2. ParentContext(row) # Nobody
      BY <3>1 DEF BrowserContext
    <3>3. ParentContext(row) \in AuthContext /\ ParentContext(row).authenticated = TRUE
      BY <2>1, <2>3, <3>2, ParentContextIsResolved
    <3>4. Narrower(BrowserContext(row), ParentContext(row))
      BY <2>1, <2>3, <3>1, <3>3, BrowserContextIsNarrower
    <3>. QED
      BY <1>1, <3>1, <3>3, <3>4 DEF Narrower
  <2>4. CASE row.kind # "browser"
    <3>1. row.kind = "token" /\ Resolve(credential, cookie) = TokenContext(row)
      BY <2>2, <2>4
    <3>. QED
      BY <1>1, <2>1, <3>1, TokenContextFields
  <2>. QED
    BY <2>3, <2>4
<1>. QED
  BY <1>2, <1>3

\* A narrower context stays within the grants the other one is within.
LEMMA NarrowerIsWithin ==
  ASSUME NEW context, NEW other, Narrower(context, other), other \in AuthContext
  PROVE  /\ WithinToken(context, other)
         /\ \A row : RowShape(row) /\ row.user \in Users /\ AccessTypeOK /\ WithinGrants(other, row)
                     => WithinGrants(context, row)
<1>1. /\ context.role \in Role /\ other.role \in Role /\ context.reveal = other.reveal
      /\ ROLE_LEVELS[context.role] <= ROLE_LEVELS[other.role]
      /\ \A t \in Tenants : AllowsTenant(context, t) => AllowsTenant(other, t)
  BY DEF Narrower, AuthContext
<1>2. WithinToken(context, other)
  BY <1>1, Zenon DEF WithinToken
<1>3. ASSUME NEW row, RowShape(row), row.user \in Users, AccessTypeOK, WithinGrants(other, row)
      PROVE  WithinGrants(context, row)
  <2>1. ROLE_LEVELS[context.role] <= ROLE_LEVELS[row.role]
    <3>1. row.role \in Role /\ ROLE_LEVELS[other.role] <= ROLE_LEVELS[row.role]
      BY <1>3 DEF WithinGrants, RowShape, SessionRow
    <3>. QED
      BY <1>1, <3>1, Levels
  <2>2. ASSUME NEW t \in Tenants, AllowsTenant(context, t)
        PROVE  /\ {t, AllTenants} \intersect Assigned(row.user) # {}
               /\ {t, AllTenants} \intersect row.scopes # {}
               /\ ROLE_LEVELS[context.role] <= ROLE_LEVELS[RoleFor(row.user, t)]
               /\ context.reveal => GrantFor(row.user, t).reveal
    <3>1. /\ {t, AllTenants} \intersect Assigned(row.user) # {}
          /\ {t, AllTenants} \intersect row.scopes # {}
          /\ ROLE_LEVELS[other.role] <= ROLE_LEVELS[RoleFor(row.user, t)]
          /\ other.reveal => GrantFor(row.user, t).reveal
      BY <1>1, <1>3, <2>2, Zenon DEF WithinGrants
    <3>2. t \in Scope
      BY DEF Scope
    <3>3. RoleFor(row.user, t) \in Role
      BY <1>3, <3>2, GrantsAreMemberships
    <3>4. ROLE_LEVELS[context.role] <= ROLE_LEVELS[RoleFor(row.user, t)]
      BY <1>1, <3>1, <3>3, Levels
    <3>5. context.reveal => GrantFor(row.user, t).reveal
      BY <1>1, <3>1, Zenon
    <3>. QED
      BY <3>1, <3>4, <3>5
  <2>. QED
    BY <2>1, <2>2, Zenon DEF WithinGrants
<1>. QED
  BY <1>2, <1>3

\* What AuthorityWithinGrants says of one row.
LEMMA AuthorityIsBounded ==
  ASSUME AccessInv, NEW r \in Rows, Resolve(r, FALSE) # Nobody
  PROVE  IF Root(r) \in EnvTokens
         THEN Root(r) \in configured /\ WithinToken(Resolve(r, FALSE), EnvContext[Root(r)])
         ELSE WithinGrants(Resolve(r, FALSE), sessions[Root(r)]) /\ Usable(sessions[Root(r)])
<1>. DEFINE row == sessions[r]
<1>1. r \notin EnvTokens /\ r # Nobody /\ RowShape(row) /\ AccessTypeOK
  BY AccessAssumption DEF AccessInv, Rows
<1>2. Resolve(r, FALSE) = IF row.kind = "browser" THEN BrowserContext(row)
                          ELSE IF row.kind = "token" THEN TokenContext(row) ELSE Nobody
  BY <1>1 DEF Resolve
<1>3. Root(r) = IF row.kind = "browser" THEN row.parent ELSE r
  BY DEF Root
<1>4. CASE row.kind = "browser"
  <2>. DEFINE context == BrowserContext(row)
              parent == ParentContext(row)
  <2>1. Resolve(r, FALSE) = context /\ context # Nobody /\ Root(r) = row.parent
    BY <1>2, <1>3, <1>4
  <2>2. parent # Nobody
    BY <2>1 DEF BrowserContext
  <2>3. /\ parent \in AuthContext
        /\ IF row.parent \in EnvTokens
            THEN row.parent \in configured /\ parent = EnvContext[row.parent]
            ELSE /\ row.parent \in Rows /\ sessions[row.parent].kind = "token"
                 /\ parent = TokenContext(sessions[row.parent])
    BY <1>1, <1>4, <2>2, ParentContextIsResolved
  <2>4. Narrower(context, parent)
    BY <1>1, <1>4, <2>1, <2>3, BrowserContextIsNarrower
  <2>. HIDE DEF context, parent
  <2>5. CASE row.parent \in EnvTokens
    BY <2>1, <2>3, <2>4, <2>5, NarrowerIsWithin
  <2>6. CASE row.parent \notin EnvTokens
    <3>. DEFINE root == sessions[row.parent]
    <3>1. /\ row.parent \in Rows /\ root.kind = "token" /\ parent = TokenContext(root)
          /\ RowShape(root)
      BY <2>3, <2>6 DEF AccessInv
    <3>. HIDE DEF root
    <3>2. WithinGrants(parent, root) /\ Usable(root) /\ root.user \in Users
      BY <1>1, <2>2, <3>1, TokenWithinGrants, TokenContextFields DEF RowShape
    <3>3. WithinGrants(context, root)
      BY <1>1, <2>3, <2>4, <3>1, <3>2, NarrowerIsWithin
    <3>. QED
      BY <2>1, <2>6, <3>2, <3>3 DEF root
  <2>. QED
    BY <2>5, <2>6
<1>5. CASE row.kind # "browser"
  <2>1. row.kind = "token" /\ Resolve(r, FALSE) = TokenContext(row) /\ Root(r) = r
    BY <1>2, <1>3, <1>5
  <2>. QED
    BY <1>1, <2>1, TokenWithinGrants, TokenContextFields
<1>. QED
  BY <1>4, <1>5

\* A spent credential stands for nothing.
LEMMA SpentResolvesToNothing ==
  ASSUME AccessInv, NEW credential, SpentIn(sessions, credential), NEW cookie
  PROVE  Resolve(credential, cookie) = Nobody
<1>. DEFINE row == sessions[credential]
<1>1. /\ credential \in Rows /\ credential \notin EnvTokens /\ credential # Nobody /\ RowShape(row)
      /\ row.ended # "no" \/ (row.parent \in Rows /\ sessions[row.parent].ended # "no")
  BY AccessAssumption DEF AccessInv, Rows, SpentIn
<1>2. Resolve(credential, cookie) = IF row.kind = "browser" THEN BrowserContext(row)
                                    ELSE IF row.kind = "token" /\ ~cookie THEN TokenContext(row) ELSE Nobody
  BY <1>1 DEF Resolve
<1>. HIDE DEF row
<1>3. CASE row.ended # "no"
  BY <1>2, <1>3 DEF BrowserContext, TokenContext, Usable
<1>4. CASE row.ended = "no"
  <2>1. row.parent \in Rows /\ sessions[row.parent].ended # "no" /\ row.parent \notin EnvTokens /\ row.parent # Nobody
    BY <1>1, <1>4, AccessAssumption DEF Rows
  <2>2. row.kind # "token"
    BY <1>1, <2>1 DEF RowShape
  <2>3. ParentContext(row) = Nobody
    BY <2>1 DEF ParentContext, TokenContext, Usable
  <2>. QED
    BY <1>2, <2>2, <2>3 DEF BrowserContext
<1>. QED
  BY <1>3, <1>4

-----------------------------------------------------------------------------
(* How the tables move.                                                    *)

\* Rows keep what they were opened with, and never come back once ended.
RowsMoveOn(old, new) ==
  \A r \in Rows : old[r].kind # "free" =>
     /\ new[r].kind # "free" /\ new[r].parent = old[r].parent
     /\ old[r].ended # "no" => new[r].ended # "no"

\* What a request noted stays true while rows only end.
LEMMA SoundStays ==
  ASSUME NEW request, NEW rows, NEW rows2,
         Sound(request, rows), RowsMoveOn(rows, rows2), \A r \in Rows : RowShape(rows[r])
  PROVE  Sound(request, rows2)
<1>2. SpentIn(rows, request.credential) => SpentIn(rows2, request.credential)
  <2>1. SUFFICES ASSUME SpentIn(rows, request.credential) PROVE SpentIn(rows2, request.credential)
    OBVIOUS
  <2>2. request.credential \in Rows /\ RowShape(rows[request.credential])
    BY <2>1 DEF SpentIn
  <2>3. CASE rows[request.credential].ended # "no"
    BY <2>2, <2>3 DEF SpentIn, RowShape, RowsMoveOn
  <2>4. CASE rows[request.credential].parent \in Rows /\ rows[rows[request.credential].parent].ended # "no"
    <3>. DEFINE parent == rows[request.credential].parent
    <3>1. RowShape(rows[parent]) /\ parent \in Rows /\ parent # Nobody
      BY <2>4, AccessAssumption DEF Rows
    <3>2. rows[request.credential].kind # "free" /\ rows[parent].kind # "free"
      BY <2>2, <2>4, <3>1 DEF RowShape
    <3>. QED
      BY <2>2, <2>4, <3>1, <3>2 DEF SpentIn, RowsMoveOn
  <2>. QED
    BY <2>1, <2>3, <2>4 DEF SpentIn
<1>. QED
  BY <1>2 DEF Sound, RowsMoveOn

\* A request that is not there is sound.
LEMMA NothingAsked ==
  ASSUME NEW rows
  PROVE  Sound(NoRequest, rows) /\ NoRequest \in RequestState
BY AccessAssumption DEF Sound, NoRequest, RequestState, Credential, Purpose, Rows

\* A step that moves the tables on and leaves each request alone, ends it or
\* takes it on soundly.
LEMMA TablesKeepInv ==
  ASSUME AccessInv,
         users' \in [Users -> {"absent", "active", "inactive"}],
         memberships' \in [Users -> [Scope -> Membership]],
         sessions' \in [Rows -> SessionRow], configured' = configured,
         RowsMoveOn(sessions, sessions'),
         \A r \in Rows : RowShape(sessions'[r]),
         requests' = requests \/ \E q \in Requests : Finish(q)
  PROVE  AccessInv'
<1>1. requests' \in [Requests -> RequestState]
      /\ \A q \in Requests : requests'[q] \in {requests[q], NoRequest}
  BY NothingAsked DEF AccessInv, AccessTypeOK, Finish, Set
<1>2. AccessTypeOK'
  BY <1>1 DEF AccessInv, AccessTypeOK
<1>3. ASSUME NEW q \in Requests PROVE Sound(requests'[q], sessions')
  <2>1. Sound(requests[q], sessions')
    BY SoundStays DEF AccessInv
  <2>. QED
    BY <1>1, <2>1, NothingAsked
<1>. QED
  BY <1>2, <1>3 DEF AccessInv

\* A step that takes one request on and leaves the tables alone.
LEMMA RequestKeepsInv ==
  ASSUME AccessInv, UNCHANGED Database, NEW q \in Requests, NEW state \in RequestState, Set(q, state),
         Sound(state, sessions)
  PROVE  AccessInv'
<1>1. UNCHANGED <<users, memberships, sessions, configured>>
  BY DEF Database
<1>2. requests' \in [Requests -> RequestState]
      /\ \A p \in Requests : requests'[p] = IF p = q THEN state ELSE requests[p]
  BY DEF AccessInv, AccessTypeOK, Set
<1>3. AccessTypeOK'
  BY <1>1, <1>2 DEF AccessInv, AccessTypeOK
<1>4. \A p \in Requests : Sound(requests'[p], sessions')
  BY <1>1, <1>2 DEF AccessInv
<1>. QED
  BY <1>1, <1>3, <1>4 DEF AccessInv

-----------------------------------------------------------------------------
(* The steps of a request.                                                 *)

\* Spent of the model is that of the current table.
LEMMA SpentNow ==
  \A credential : Spent(credential) = SpentIn(sessions, credential) /\ Spent(credential) \in BOOLEAN
BY Zenon DEF Spent, SpentIn

\* The context of local access is one.
LEMMA LocalContext == LOCAL_CONTEXT \in AuthContext
BY DEF LOCAL_CONTEXT, AuthContext, Role, Source, Scope

\* A request arrives with a credential.
LEMMA ArriveKeepsInv ==
  ASSUME AccessInv, NEW q \in Requests, Arrive(q)
  PROVE  AccessInv'
<1>1. UNCHANGED Database
  BY DEF Arrive
<1>2. PICK purpose \in Purpose, credential \in Credential, cookie \in BOOLEAN :
        /\ Presentable(credential)
        /\ Set(q, [NoRequest EXCEPT
             !.at = "arrived", !.purpose = purpose, !.credential = credential,
             !.cookie = cookie, !.doomed = Spent(credential)])
  BY DEF Arrive
<1>. DEFINE doomed == Spent(credential)
            state == [NoRequest EXCEPT
             !.at = "arrived", !.purpose = purpose, !.credential = credential,
             !.cookie = cookie, !.doomed = doomed]
<1>3. Set(q, state)
  BY <1>2
<1>4. doomed \in BOOLEAN /\ doomed = SpentIn(sessions, credential)
  BY SpentNow
<1>. HIDE DEF doomed
<1>5. /\ state \in RequestState /\ state.at = "arrived" /\ state.credential = credential
      /\ state.doomed = doomed /\ state.context = Nobody
  BY <1>4 DEF NoRequest, RequestState
<1>. HIDE DEF state
<1>6. Sound(state, sessions)
  <2>1. state.doomed => SpentIn(sessions, state.credential)
    BY <1>4, <1>5, Zenon
  <2>. QED
    BY <1>2, <1>5, <2>1 DEF Sound, Presentable
<1>. QED
  BY <1>1, <1>3, <1>5, <1>6, RequestKeepsInv

\* The middleware looks whether authentication is enabled.
LEMMA CheckKeepsInv ==
  ASSUME AccessInv, NEW q \in Requests, CheckEnabled(q)
  PROVE  AccessInv'
<1>. DEFINE enabled == Enabled
            state == [requests[q] EXCEPT !.at = "checked", !.enabled = enabled]
<1>1. requests[q].at = "arrived" /\ Set(q, state) /\ UNCHANGED Database
  BY DEF CheckEnabled
<1>2. requests[q] \in RequestState /\ Sound(requests[q], sessions)
  BY DEF AccessInv, AccessTypeOK
<1>3. enabled \in BOOLEAN
  BY Zenon DEF Enabled
<1>. HIDE DEF enabled
<1>4. /\ state \in RequestState /\ state.at = "checked" /\ state.enabled = enabled
      /\ state.credential = requests[q].credential /\ state.context = requests[q].context
      /\ state.doomed = requests[q].doomed
  BY <1>2, <1>3 DEF RequestState
<1>. HIDE DEF state
<1>5. Sound(state, sessions)
  <2>1. /\ state.credential \in Rows => sessions[state.credential].kind # "free"
        /\ state.context = Nobody
        /\ state.doomed => SpentIn(sessions, state.credential)
    BY <1>1, <1>2, <1>4 DEF Sound
  <2>. QED
    BY <1>4, <2>1 DEF Sound
<1>. QED
  BY <1>1, <1>4, <1>5, RequestKeepsInv

\* A request ends.
LEMMA FinishKeepsInv ==
  ASSUME AccessInv, NEW q \in Requests, Finish(q), UNCHANGED Database
  PROVE  AccessInv'
BY NothingAsked, RequestKeepsInv DEF Finish

\* A request that goes on with the context its credential stands for now.
LEMMA ActsWithContext ==
  ASSUME AccessInv, UNCHANGED Database, NEW q \in Requests, NEW at \in {"acting", "minting"},
         NEW context \in AuthContext, Set(q, [requests[q] EXCEPT !.at = at, !.context = context]),
         ~requests[q].doomed,
         at = "minting" => requests[q].credential # Nobody
  PROVE  AccessInv'
<1>. DEFINE state == [requests[q] EXCEPT !.at = at, !.context = context]
<1>1. requests[q] \in RequestState /\ Sound(requests[q], sessions) /\ Set(q, state)
  BY DEF AccessInv, AccessTypeOK
<1>2. /\ state \in RequestState /\ state.at = at /\ state.context = context
      /\ state.credential = requests[q].credential
      /\ state.doomed = requests[q].doomed
  BY <1>1 DEF RequestState
<1>. HIDE DEF state
<1>3. Sound(state, sessions)
  <2>1. ~state.doomed
    BY <1>2, Zenon
  <2>. QED
    BY <1>1, <1>2, <2>1 DEF Sound
<1>. QED
  BY <1>1, <1>2, <1>3, RequestKeepsInv

\* The credential of a request is resolved.
LEMMA AuthenticateKeepsInv ==
  ASSUME AccessInv, NEW q \in Requests, Authenticate(q)
  PROVE  AccessInv'
<1>1. requests[q].at = "checked" /\ UNCHANGED Database
  BY DEF Authenticate
<1>2. requests[q] \in RequestState /\ Sound(requests[q], sessions)
  BY DEF AccessInv, AccessTypeOK
<1>3. PICK genuine \in BOOLEAN :
        IF Admitted(requests[q], genuine) = Nobody THEN Finish(q)
        ELSE Set(q, [requests[q] EXCEPT !.at = "acting", !.context = Admitted(requests[q], genuine)])
  BY DEF Authenticate
<1>. DEFINE context == Admitted(requests[q], genuine)
            resolved == Resolve(requests[q].credential, requests[q].cookie)
<1>4. CASE context = Nobody
  BY <1>1, <1>3, <1>4, FinishKeepsInv
<1>5. CASE context # Nobody
  <2>1. \/ context = resolved /\ resolved # Nobody
        \/ context = LOCAL_CONTEXT /\ ~requests[q].enabled /\ requests[q].credential = Nobody
    BY <1>5 DEF Admitted
  <2>. HIDE DEF context
  <2>2. requests[q].credential \in Credential /\ requests[q].cookie \in BOOLEAN
    BY <1>2 DEF RequestState
  <2>3. context \in AuthContext
    BY <1>5, <2>1, <2>2, LocalContext, ResolvedIsAuthenticated
  <2>4. ~requests[q].doomed
    <3>1. SUFFICES ASSUME requests[q].doomed PROVE FALSE
      OBVIOUS
    <3>2. SpentIn(sessions, requests[q].credential)
      BY <1>2, <3>1 DEF Sound
    <3>3. resolved = Nobody /\ requests[q].credential \in Rows
      BY <3>2, SpentResolvesToNothing DEF SpentIn
    <3>. QED
      BY <2>1, <3>3, AccessAssumption DEF Rows
  <2>5. Set(q, [requests[q] EXCEPT !.at = "acting", !.context = context])
    BY <1>3, <1>5 DEF context
  <2>. QED
    BY <1>1, <2>3, <2>4, <2>5, ActsWithContext
<1>. QED
  BY <1>4, <1>5

\* The login reads the context it opens a browser session with.
LEMMA LoginReadKeepsInv ==
  ASSUME AccessInv, NEW q \in Requests, LoginRead(q)
  PROVE  AccessInv'
<1>. DEFINE context == Resolve(requests[q].credential, FALSE)
<1>1. /\ requests[q].at = "arrived" /\ UNCHANGED Database
      /\ Finish(q) \/ (context # Nobody /\ Set(q, [requests[q] EXCEPT !.at = "minting", !.context = context]))
  BY DEF LoginRead
<1>2. requests[q] \in RequestState /\ Sound(requests[q], sessions)
  BY DEF AccessInv, AccessTypeOK
<1>3. CASE Finish(q)
  BY <1>1, <1>3, FinishKeepsInv
<1>4. CASE context # Nobody /\ Set(q, [requests[q] EXCEPT !.at = "minting", !.context = context])
  <2>1. requests[q].credential \in Credential /\ FALSE \in BOOLEAN
    BY <1>2 DEF RequestState
  <2>2. context \in AuthContext /\ requests[q].credential # Nobody
    BY <1>4, <2>1, ResolvedIsAuthenticated
  <2>3. ~requests[q].doomed
    BY <1>2, <1>4, SpentResolvesToNothing DEF Sound
  <2>. HIDE DEF context
  <2>. QED
    BY <1>1, <1>4, <2>2, <2>3, ActsWithContext
<1>. QED
  BY <1>1, <1>3, <1>4

-----------------------------------------------------------------------------
(* The steps of the tables.                                                *)

\* What a step of an administrator may do to users, grants and sessions.
TablesMove ==
  /\ users' \in [Users -> {"absent", "active", "inactive"}]
  /\ memberships' \in [Users -> [Scope -> Membership]]
  /\ sessions' \in [Rows -> SessionRow] /\ configured' = configured
  /\ RowsMoveOn(sessions, sessions')
  /\ \A r \in Rows : RowShape(sessions'[r])

\* The tables as they are.
LEMMA SameTables ==
  ASSUME AccessInv
  PROVE  /\ users \in [Users -> {"absent", "active", "inactive"}]
         /\ memberships \in [Users -> [Scope -> Membership]]
         /\ sessions \in [Rows -> SessionRow] /\ \A r \in Rows : RowShape(sessions[r])
         /\ RowsMoveOn(sessions, sessions)
BY DEF AccessInv, AccessTypeOK, RowsMoveOn

\* Users are created and switched on and off.
LEMMA UsersMove ==
  ASSUME AccessInv, CreateUser \/ SetActive
  PROVE  TablesMove
<1>1. PICK u \in Users, active \in {"active", "inactive"} :
        users' = [users EXCEPT ![u] = active] /\ UNCHANGED <<memberships, sessions, configured>>
  BY DEF CreateUser, SetActive, Users
<1>2. users' \in [Users -> {"absent", "active", "inactive"}]
  BY <1>1, SameTables
<1>. QED
  BY <1>1, <1>2, SameTables DEF TablesMove

\* A membership is granted, with or without the right to reveal it had.
LEMMA MembershipsMove ==
  ASSUME AccessInv, NEW keep \in BOOLEAN, GrantMembership(keep)
  PROVE  TablesMove
<1>1. PICK u \in People, s \in Scope, g \in Grants :
        /\ memberships' = [memberships EXCEPT ![u][s] =
             [role |-> g.role, reveal |-> IF keep THEN memberships[u][s].reveal ELSE g.reveal, given |-> TRUE]]
        /\ UNCHANGED <<users, sessions, configured>>
  BY DEF GrantMembership
<1>. DEFINE reveal == IF keep THEN memberships[u][s].reveal ELSE g.reveal
            row == [role |-> g.role, reveal |-> reveal, given |-> TRUE]
<1>2. memberships[u][s] \in Membership /\ u \in Users /\ g \in Grant
  BY SameTables, AccessAssumption DEF Users
<1>3. memberships[u][s].reveal \in BOOLEAN /\ g.reveal \in BOOLEAN /\ g.role \in Role
  BY <1>2 DEF Membership, Grant
<1>4. reveal \in BOOLEAN
  BY <1>3
<1>. HIDE DEF reveal
<1>5. row \in Membership
  BY <1>3, <1>4 DEF Membership
<1>6. memberships' = [memberships EXCEPT ![u][s] = row]
  BY <1>1 DEF reveal
<1>. HIDE DEF row
<1>7. memberships' \in [Users -> [Scope -> Membership]]
  BY <1>2, <1>5, <1>6, SameTables
<1>. QED
  BY <1>1, <1>7, SameTables DEF TablesMove

\* A free row becomes a session.
LEMMA NewRowMoves ==
  ASSUME AccessInv, NEW r \in Rows, sessions[r].kind = "free", NEW row, RowShape(row), row.kind # "free",
         sessions' = [sessions EXCEPT ![r] = row]
  PROVE  /\ sessions' \in [Rows -> SessionRow] /\ \A s \in Rows : RowShape(sessions'[s])
         /\ RowsMoveOn(sessions, sessions')
BY SameTables DEF RowShape, RowsMoveOn

\* A session ends.
LEMMA EndedRowMoves ==
  ASSUME AccessInv, NEW r \in Rows, sessions[r].kind # "free", NEW ended \in {"revoked", "expired"},
         sessions' = [sessions EXCEPT ![r].ended = ended]
  PROVE  /\ sessions' \in [Rows -> SessionRow] /\ \A s \in Rows : RowShape(sessions'[s])
         /\ RowsMoveOn(sessions, sessions')
<1>. DEFINE row == [sessions[r] EXCEPT !.ended = ended]
<1>1. sessions[r] \in SessionRow /\ RowShape(sessions[r])
  BY SameTables
<1>2. /\ row \in SessionRow /\ row.kind = sessions[r].kind /\ row.user = sessions[r].user
      /\ row.parent = sessions[r].parent /\ row.ended = ended
  BY <1>1 DEF SessionRow
<1>3. sessions' = [sessions EXCEPT ![r] = row]
  BY SameTables
<1>. HIDE DEF row
<1>4. RowShape(row)
  BY <1>1, <1>2 DEF RowShape
<1>. QED
  BY <1>2, <1>3, <1>4, SameTables DEF RowsMoveOn

\* A token is issued in a free row.
LEMMA IssueMoves ==
  ASSUME AccessInv, IssueSession
  PROVE  TablesMove
<1>1. PICK u \in People, scopes \in (SUBSET Scope) \ {{}}, r \in Rows :
        /\ NextRow(r) /\ UNCHANGED <<users, memberships, configured>>
        /\ sessions' = [sessions EXCEPT ![r] =
             [FreeRow EXCEPT !.kind = "token", !.user = u, !.role = RoleCap(u, scopes), !.scopes = scopes]]
  BY DEF IssueSession
<1>. DEFINE role == RoleCap(u, scopes)
            row == [FreeRow EXCEPT !.kind = "token", !.user = u, !.role = role, !.scopes = scopes]
<1>2. u \in Users /\ AccessTypeOK
  BY DEF Users, AccessInv
<1>3. role \in Role
  <2>. DEFINE roles == {RoleFor(u, s) : s \in scopes}
  <2>1. \A s \in scopes : s \in Scope /\ RoleFor(u, s) \in Role
    BY <1>2, GrantsAreMemberships
  <2>0. roles \in SUBSET Role /\ roles # {}
    BY <2>1
  <2>2. role = CappedRole(roles)
    BY DEF RoleCap
  <2>. QED
    BY <2>0, <2>2, CappedRoleIsLowest
<1>4. sessions' = [sessions EXCEPT ![r] = row]
  BY <1>1
<1>. HIDE DEF role
<1>5. /\ row \in SessionRow /\ row.kind = "token" /\ row.user = u /\ row.parent = Nobody
  BY <1>2, <1>3 DEF SessionRow, FreeRow
<1>. HIDE DEF row
<1>6. RowShape(row) /\ sessions[r].kind = "free"
  BY <1>1, <1>2, <1>5 DEF RowShape, NextRow
<1>. QED
  BY <1>1, <1>4, <1>5, <1>6, NewRowMoves, SameTables DEF TablesMove

\* A session is revoked.
LEMMA RevokeMoves ==
  ASSUME AccessInv, NEW r \in Rows, sessions[r].kind # "free", Revoke(r)
  PROVE  TablesMove
BY EndedRowMoves, SameTables DEF Revoke, TablesMove

\* A session expires.
LEMMA ExpireMoves ==
  ASSUME AccessInv, Expire
  PROVE  TablesMove
BY EndedRowMoves, SameTables DEF Expire, TablesMove

\* The login stores a browser session, whose parent may have ended since it was read.
LEMMA LoginWriteMoves ==
  ASSUME AccessInv, NEW q \in Requests, LoginWrite(q)
  PROVE  TablesMove
<1>. DEFINE request == requests[q]
            owner == Owner(request.credential)
            known == [users EXCEPT ![owner] = IF @ = "absent" THEN "active" ELSE @]
<1>1. /\ request.at = "minting" /\ UNCHANGED <<memberships, configured>>
      /\ \/ UNCHANGED <<users, sessions>>
         \/ /\ users' = known
            /\ \E r \in Rows : NextRow(r) /\ sessions' = [sessions EXCEPT ![r] =
                 [FreeRow EXCEPT !.kind = "browser", !.user = owner, !.role = request.context.role,
                                 !.scopes = request.context.tenants, !.parent = request.credential]]
  BY DEF LoginWrite
<1>2. request \in RequestState /\ Sound(request, sessions)
  BY DEF AccessInv, AccessTypeOK
<1>3. /\ request.context \in AuthContext /\ request.credential \in EnvTokens \union Rows
      /\ request.credential \in Rows => sessions[request.credential].kind # "free"
  BY <1>1, <1>2 DEF Sound, RequestState, Credential
<1>4. owner \in Users
  <2>1. CASE request.credential \in EnvTokens
    BY <2>1 DEF Owner, Users
  <2>2. CASE request.credential \notin EnvTokens
    <3>1. request.credential \in Rows /\ RowShape(sessions[request.credential])
      BY <1>3, <2>2 DEF AccessInv
    <3>2. sessions[request.credential].kind \in {"free", "token", "browser"}
      BY <3>1 DEF RowShape, SessionRow
    <3>. QED
      BY <1>3, <2>2, <3>1, <3>2 DEF Owner, RowShape
  <2>. QED
    BY <2>1, <2>2
<1>. HIDE DEF request, owner
<1>5. CASE UNCHANGED <<users, sessions>>
  BY <1>1, <1>5, SameTables DEF TablesMove
<1>6. CASE users' = known /\ \E r \in Rows : NextRow(r) /\ sessions' = [sessions EXCEPT ![r] =
                 [FreeRow EXCEPT !.kind = "browser", !.user = owner, !.role = request.context.role,
                                 !.scopes = request.context.tenants, !.parent = request.credential]]
  <2>1. users' \in [Users -> {"absent", "active", "inactive"}]
    BY <1>4, <1>6, SameTables
  <2>. DEFINE row == [FreeRow EXCEPT !.kind = "browser", !.user = owner, !.role = request.context.role,
                                     !.scopes = request.context.tenants, !.parent = request.credential]
  <2>2. PICK r \in Rows : NextRow(r) /\ sessions' = [sessions EXCEPT ![r] = row]
    BY <1>6
  <2>3. request.context.role \in Role /\ request.context.tenants \in SUBSET Scope
    BY <1>3 DEF AuthContext
  <2>4. row \in SessionRow /\ row.kind = "browser" /\ row.user = owner /\ row.parent = request.credential
    BY <1>3, <1>4, <2>3 DEF SessionRow, FreeRow
  <2>. HIDE DEF row
  <2>5. RowShape(row) /\ sessions[r].kind = "free"
    BY <1>3, <1>4, <2>2, <2>4 DEF RowShape, NextRow
  <2>. QED
    BY <1>1, <2>1, <2>2, <2>4, <2>5, NewRowMoves, SameTables DEF TablesMove
<1>. QED
  BY <1>1, <1>5, <1>6

\* There are no users, sessions or requests at the start.
LEMMA AccessInitially == AccessInit => AccessInv
<1>. SUFFICES ASSUME AccessInit PROVE AccessInv
  OBVIOUS
<1>1. FreeRow \in SessionRow /\ RowShape(FreeRow) /\ NoGrant \in Membership
  BY DEF FreeRow, SessionRow, RowShape, NoGrant, Membership, Role
<1>2. \A r \in Rows : sessions[r] = FreeRow
  BY DEF AccessInit
<1>3. AccessTypeOK
  BY <1>1, NothingAsked, AccessAssumption DEF AccessInit, AccessTypeOK
<1>4. \A q \in Requests : Sound(requests[q], sessions)
  BY NothingAsked DEF AccessInit
<1>. QED
  BY <1>1, <1>2, <1>3, <1>4 DEF AccessInv

\* Every step of authentication preserves the invariant.
LEMMA AccessStep == AccessInv /\ [AccessNext]_accessVars => AccessInv'
<1>. SUFFICES ASSUME AccessInv, [AccessNext]_accessVars PROVE AccessInv'
  OBVIOUS
<1>1. ASSUME TablesMove, requests' = requests \/ \E q \in Requests : Finish(q) PROVE AccessInv'
  BY <1>1, TablesKeepInv DEF TablesMove
<1>2. CASE UNCHANGED accessVars
  BY <1>2 DEF AccessInv, AccessTypeOK, accessVars
<1>3. ASSUME NEW q \in Requests, Request(q) PROVE AccessInv'
  <2>1. CASE Arrive(q)
    BY <2>1, ArriveKeepsInv
  <2>2. CASE CheckEnabled(q)
    BY <2>2, CheckKeepsInv
  <2>3. CASE Authenticate(q)
    BY <2>3, AuthenticateKeepsInv
  <2>4. CASE Serve(q)
    BY <2>4, FinishKeepsInv DEF Serve
  <2>5. CASE Administer(q)
    BY <1>1, <2>5, UsersMove, MembershipsMove, IssueMoves DEF Administer
  <2>6. CASE Logout(q)
    BY <1>1, <2>6, RevokeMoves DEF Logout
  <2>7. CASE LoginRead(q)
    BY <2>7, LoginReadKeepsInv
  <2>8. CASE LoginWrite(q)
    BY <1>1, <2>8, LoginWriteMoves DEF LoginWrite
  <2>. QED
    BY <1>3, <2>1, <2>2, <2>3, <2>4, <2>5, <2>6, <2>7, <2>8 DEF Request
<1>4. CASE CommandLine
  BY <1>1, <1>4, UsersMove, MembershipsMove, IssueMoves, RevokeMoves DEF CommandLine
<1>5. CASE Expire
  BY <1>1, <1>5, ExpireMoves DEF Expire
<1>6. CASE Restart
  <2>1. UNCHANGED <<users, memberships, sessions>> /\ requests' = [q \in Requests |-> NoRequest]
    BY <1>6 DEF Restart
  <2>0. configured' \subseteq EnvTokens
    BY <1>6, AccessAssumption DEF Restart
  <2>2. AccessTypeOK'
    BY <2>0, <2>1, NothingAsked DEF AccessInv, AccessTypeOK
  <2>3. \A q \in Requests : Sound(requests'[q], sessions')
    BY <2>1, NothingAsked
  <2>. QED
    BY <2>1, <2>2, <2>3 DEF AccessInv
<1>. QED
  BY <1>2, <1>3, <1>4, <1>5, <1>6 DEF AccessNext

\* The inductive invariant of authentication holds in every reachable state, for
\* any users, tenants, environment tokens and number of requests.
THEOREM AccessInvariance == AccessSpec => []AccessInv
BY AccessInitially, AccessStep, PTL DEF AccessSpec

\* The authority a stored session resolves to is within the present grants of
\* the user behind it, and a browser session's within the token it was opened
\* with (auth_service._context_for_row).
THEOREM AuthorityIsWithinGrants == AccessSpec => []AuthorityWithinGrants
<1>1. AccessInv => AuthorityWithinGrants
  BY AuthorityIsBounded DEF AuthorityWithinGrants
<1>. QED
  BY <1>1, AccessInvariance, PTL

\* A request that arrives after its session, or the one that opened it, was
\* revoked or expired never acts nor opens a session (auth_service.login).
THEOREM RevokedNeverActs == AccessSpec => []RevokedStaysOut
<1>1. AccessInv => RevokedStaysOut
  BY DEF AccessInv, Sound, RevokedStaysOut
<1>. QED
  BY <1>1, AccessInvariance, PTL

-----------------------------------------------------------------------------
(* AssessmentControl: analysts, jobs and the upload of one assessment.    *)

\* Type correctness of the assessment, its upload, its jobs and the calls.
AssessmentTypeOK ==
  /\ status \in AssessmentStatus /\ upload \in UploadState /\ jobs \in [Jobs -> Job]
  /\ probed \subseteq Domains /\ calls \in [Analysts -> Call]
  /\ withdrawn \in BOOLEAN /\ crossed \in BOOLEAN /\ raced \in BOOLEAN

\* A call that uploads and one that removes are never in progress together
\* unless that was noted; each leaves the rows and the file so that the next
\* one of its kind may follow.
UploadInvOf(up, cs) ==
  /\ up.target = "valid" => up.file
  /\ ~(\E c, d \in Analysts : cs[c].op \in Uploading /\ cs[d].op \in Removing)
  /\ \A c \in Analysts : cs[c].op = "store" => up.file
  /\ \A c \in Analysts : cs[c].op = "unlink" => up.target # "valid"
  /\ \A c \in Analysts : cs[c].op = "remove" /\ cs[c].upload.target = "purged" => up.target # "valid"

\* What was withdrawn is not selected, and no job started since reads it.
WithdrawnInv ==
  /\ withdrawn => upload.link = "excluded"
  /\ \A j \in Jobs : jobs[j].barred => withdrawn
  /\ \A j \in Jobs : jobs[j].of = Upload /\ jobs[j].state = "working" => ~jobs[j].barred

\* A job that probes a domain for the first time.
Probes(job, d) == job.of = d /\ ~job.retry /\ job.state \notin {"none", "cancelled"}

\* A call that is about to store probes of domains.
Launches(call) == call.op = "launch" /\ call.jobs # {Upload}

\* Only one launch of probes is in progress, for domains that were never
\* attempted, and a domain has one attempt.
ProbeInvOf(js, cs) ==
  /\ \A c, d \in Analysts : Launches(cs[c]) /\ Launches(cs[d]) => c = d
  /\ \A c \in Analysts : Launches(cs[c]) =>
       \A d \in cs[c].jobs : d \in Domains /\ \A j \in Jobs : ~Probes(js[j], d)
  /\ \A d \in Domains : \A i, j \in Jobs : Probes(js[i], d) /\ Probes(js[j], d) => i = j

\* The inductive invariant of an assessment. What only holds while calls do
\* not cross is claimed until the model notes that they did.
AssessmentInv ==
  /\ AssessmentTypeOK /\ WithdrawnInv
  /\ crossed \/ UploadInvOf(upload, calls)
  /\ raced \/ ProbeInvOf(jobs, calls)

\* A new assessment has no upload and no job.
LEMMA AssessmentInitially == AssessmentInit => AssessmentInv
<1>. SUFFICES ASSUME AssessmentInit PROVE AssessmentInv
  OBVIOUS
<1>1. NoJob \in Job /\ NoUpload \in UploadState /\ IdleCall \in Call
  BY DEF NoJob, Job, JobState, NoUpload, UploadState, IdleCall, Call, AssessmentStatus
<1>2. /\ \A j \in Jobs : jobs[j] = NoJob
      /\ \A c \in Analysts : calls[c] = IdleCall
      /\ upload = NoUpload /\ ~withdrawn /\ status = "draft"
  BY DEF AssessmentInit
<1>3. AssessmentTypeOK
  BY <1>1 DEF AssessmentInit, AssessmentTypeOK, AssessmentStatus
<1>4. WithdrawnInv
  BY <1>2 DEF WithdrawnInv, NoJob
<1>5. UploadInvOf(upload, calls)
  BY <1>2 DEF UploadInvOf, Uploading, Removing, NoUpload, IdleCall
<1>6. ProbeInvOf(jobs, calls)
  BY <1>2 DEF ProbeInvOf, Probes, Launches, NoJob, IdleCall
<1>. QED
  BY <1>3, <1>4, <1>5, <1>6 DEF AssessmentInv

-----------------------------------------------------------------------------
(* The calls.                                                              *)

\* A call reads: what it will do later is decided by what it saw.
LEMMA ReadFacts ==
  ASSUME AssessmentTypeOK, NEW c \in Analysts, NEW wanted \in AssessmentStatus,
         NEW op \in {"update", "launch", "retry", "upload", "remove"},
         NEW of \in SUBSET (Domains \union {Upload}), Read(c, op, wanted, of)
  PROVE  /\ calls' \in [Analysts -> Call] /\ UNCHANGED <<status, upload, jobs, probed, withdrawn>>
         /\ calls'[c].op = op /\ calls'[c].jobs = of /\ calls'[c].upload = upload
         /\ \A d \in Analysts \ {c} : calls'[d] = calls[d]
         /\ calls[c].op = "idle"
BY DEF AssessmentTypeOK, Read, Call

\* A call returns to its analyst.
LEMMA ReturnFacts ==
  ASSUME AssessmentTypeOK, NEW c \in Analysts, Return(c)
  PROVE  /\ calls' \in [Analysts -> Call] /\ calls'[c] = IdleCall
         /\ \A d \in Analysts \ {c} : calls'[d] = calls[d]
<1>1. IdleCall \in Call
  BY DEF IdleCall, Call, NoUpload, UploadState, AssessmentStatus
<1>. QED
  BY <1>1 DEF AssessmentTypeOK, Return

\* A call that ended takes no part in the invariants of the other ones.
LEMMA ReturnKeeps ==
  ASSUME AssessmentTypeOK, NEW c \in Analysts, Return(c)
  PROVE  /\ UploadInvOf(upload, calls) => UploadInvOf(upload, calls')
         /\ ProbeInvOf(jobs, calls) => ProbeInvOf(jobs, calls')
<1>1. calls'[c].op = "idle" /\ \A d \in Analysts \ {c} : calls'[d] = calls[d]
  BY ReturnFacts DEF IdleCall
<1>2. UploadInvOf(upload, calls) => UploadInvOf(upload, calls')
  BY <1>1 DEF UploadInvOf, Uploading, Removing
<1>3. ProbeInvOf(jobs, calls) => ProbeInvOf(jobs, calls')
  BY <1>1 DEF ProbeInvOf, Launches
<1>. QED
  BY <1>2, <1>3

\* The status of the assessment is updated, an answer is lost, a retry reads.
LEMMA UpdateKeepsInv ==
  ASSUME AssessmentInv, NEW c \in Analysts, UpdateRead(c) \/ UpdateWrite(c) \/ Lost(c) \/ RetryRead(c)
  PROVE  AssessmentInv'
<1>1. AssessmentTypeOK
  BY DEF AssessmentInv
<1>2. CASE UpdateRead(c) \/ RetryRead(c)
  <2>1. PICK op \in {"update", "retry"}, wanted \in AssessmentStatus, of \in SUBSET (Domains \union {Upload}) :
          Read(c, op, wanted, of) /\ UNCHANGED <<crossed, raced>>
    BY <1>2 DEF UpdateRead, RetryRead, AssessmentStatus
  <2>2. /\ calls' \in [Analysts -> Call] /\ UNCHANGED <<status, upload, jobs, probed, withdrawn>>
        /\ calls'[c].op = op /\ calls[c].op = "idle" /\ \A d \in Analysts \ {c} : calls'[d] = calls[d]
    BY <1>1, <2>1, ReadFacts
  <2>3. AssessmentTypeOK' /\ WithdrawnInv'
    BY <1>1, <2>1, <2>2 DEF AssessmentInv, AssessmentTypeOK, WithdrawnInv
  <2>4. UploadInvOf(upload, calls) => UploadInvOf(upload, calls')
    BY <2>1, <2>2 DEF UploadInvOf, Uploading, Removing
  <2>5. ProbeInvOf(jobs, calls) => ProbeInvOf(jobs, calls')
    BY <2>1, <2>2 DEF ProbeInvOf, Launches
  <2>. QED
    BY <2>1, <2>2, <2>3, <2>4, <2>5 DEF AssessmentInv
<1>3. CASE UpdateWrite(c) \/ Lost(c)
  <2>1. Return(c) /\ UNCHANGED <<upload, jobs, probed, withdrawn, crossed, raced>>
    BY <1>3 DEF UpdateWrite, Lost
  <2>2. status' \in AssessmentStatus
    BY <1>1, <1>3 DEF UpdateWrite, Lost, AssessmentTypeOK, Column, Call
  <2>3. AssessmentTypeOK' /\ WithdrawnInv'
    BY <1>1, <2>1, <2>2, ReturnFacts DEF AssessmentInv, AssessmentTypeOK, WithdrawnInv
  <2>. QED
    BY <1>1, <2>1, <2>3, ReturnKeeps DEF AssessmentInv
<1>. QED
  BY <1>2, <1>3

-----------------------------------------------------------------------------
(* Launches.                                                               *)

\* A launch reads which targets have no job yet.
LEMMA LaunchReadKeepsInv ==
  ASSUME AssessmentInv, NEW c \in Analysts, LaunchRead(c)
  PROVE  AssessmentInv'
<1>1. AssessmentTypeOK
  BY DEF AssessmentInv
<1>2. PICK kind \in {"scan", "http_probe"} :
        /\ Eligible(kind) # {} /\ Read(c, "launch", "active", Eligible(kind)) /\ crossed' = crossed
        /\ raced' = (raced \/ /\ kind = "http_probe"
                              /\ \E other \in Analysts : /\ calls[other].op = "launch"
                                                         /\ calls[other].jobs # {Upload})
  BY DEF LaunchRead
<1>. DEFINE of == Eligible(kind)
<1>3. \/ of = {Upload}
      \/ kind = "http_probe" /\ of \subseteq Domains /\ \A d \in of : \A j \in Jobs : ~Probes(jobs[j], d)
  <2>1. CASE kind = "scan"
    BY <1>2, <2>1 DEF Eligible
  <2>2. CASE kind = "http_probe"
    BY <2>2 DEF Eligible, Attempted, Probes
  <2>. QED
    BY <2>1, <2>2
<1>. HIDE DEF of
<1>4. of \in SUBSET (Domains \union {Upload}) /\ "active" \in AssessmentStatus
  BY <1>3 DEF AssessmentStatus
<1>5. Read(c, "launch", "active", of)
  BY <1>2 DEF of
<1>6. /\ calls' \in [Analysts -> Call] /\ UNCHANGED <<status, upload, jobs, probed, withdrawn>>
      /\ calls'[c].op = "launch" /\ calls'[c].jobs = of
      /\ calls[c].op = "idle" /\ \A d \in Analysts \ {c} : calls'[d] = calls[d]
  BY <1>1, <1>4, <1>5, ReadFacts
<1>7. AssessmentTypeOK' /\ WithdrawnInv'
  <2>1. raced' \in BOOLEAN
    BY <1>1, <1>2, Zenon DEF AssessmentTypeOK
  <2>. QED
    BY <1>1, <1>2, <1>6, <2>1 DEF AssessmentInv, AssessmentTypeOK, WithdrawnInv
<1>8. UploadInvOf(upload, calls) => UploadInvOf(upload, calls')
  BY <1>6 DEF UploadInvOf, Uploading, Removing
<1>9. ~raced' /\ ProbeInvOf(jobs, calls) => ProbeInvOf(jobs, calls')
  <2>1. SUFFICES ASSUME ~raced', ProbeInvOf(jobs, calls) PROVE ProbeInvOf(jobs, calls')
    OBVIOUS
  <2>2. of # {Upload} => \A d \in Analysts : ~Launches(calls[d])
    BY <1>2, <1>3, <2>1 DEF Launches
  <2>3. ASSUME NEW d \in Analysts, NEW e \in Analysts, Launches(calls'[d]), Launches(calls'[e]) PROVE d = e
    BY <1>6, <2>1, <2>2, <2>3 DEF ProbeInvOf, Launches
  <2>4. ASSUME NEW d \in Analysts, Launches(calls'[d]), NEW x \in calls'[d].jobs
        PROVE  x \in Domains /\ \A j \in Jobs : ~Probes(jobs[j], x)
    BY <1>3, <1>6, <2>1, <2>4 DEF ProbeInvOf, Launches
  <2>. QED
    BY <2>1, <2>3, <2>4 DEF ProbeInvOf
<1>10. raced => raced'
  BY <1>2
<1>. QED
  BY <1>2, <1>6, <1>7, <1>8, <1>9, <1>10 DEF AssessmentInv

\* As many rows as jobs, and every job has one: no job has two.
LEMMA OneRowEach ==
  ASSUME NEW rows \in SUBSET Jobs, NEW S, Cardinality(rows) = Cardinality(S),
         NEW of \in [rows -> S], \A x \in S : \E r \in rows : of[r] = x,
         NEW i \in rows, NEW j \in rows, of[i] = of[j]
  PROVE  i = j
<1>1. IsFiniteSet(Jobs)
  BY AssessmentAssumption, FS_Interval DEF Jobs
<1>2. IsFiniteSet(rows)
  BY <1>1, FS_Subset
<1>3. of \in Surjection(rows, S)
  BY DEF Surjection
<1>4. of \in Injection(rows, S)
  BY <1>2, <1>3, FS_Surjection
<1>. QED
  BY <1>4 DEF Injection, IsInjective

\* A launch stores a job for each target it saw without one.
LEMMA LaunchWriteKeepsInv ==
  ASSUME AssessmentInv, NEW c \in Analysts, LaunchWrite(c)
  PROVE  AssessmentInv'
<1>. DEFINE call == calls[c]
            retry == call.op = "retry"
<1>1. /\ AssessmentTypeOK /\ call \in Call /\ call.op \in {"launch", "retry"} /\ Return(c)
      /\ UNCHANGED <<upload, probed, withdrawn, crossed, raced>>
      /\ status' = Column(call.status, "active", status)
  BY DEF AssessmentInv, AssessmentTypeOK, LaunchWrite
<1>2. PICK rows \in SUBSET Free :
        /\ Cardinality(rows) = Cardinality(call.jobs)
        /\ \E of \in [rows -> call.jobs] :
             /\ \A x \in call.jobs : \E r \in rows : of[r] = x
             /\ jobs' = [j \in Jobs |->
                  IF j \in rows
                  THEN [state |-> "pending", of |-> of[j], retry |-> call.op = "retry", barred |-> FALSE]
                  ELSE jobs[j]]
  BY DEF LaunchWrite
<1>3. PICK of \in [rows -> call.jobs] :
        /\ \A x \in call.jobs : \E r \in rows : of[r] = x
        /\ jobs' = [j \in Jobs |->
             IF j \in rows
             THEN [state |-> "pending", of |-> of[j], retry |-> call.op = "retry", barred |-> FALSE]
             ELSE jobs[j]]
  BY <1>2
<1>. DEFINE new(j) == [state |-> "pending", of |-> of[j], retry |-> retry, barred |-> FALSE]
<1>4. /\ \A j \in rows : jobs'[j] = new(j) /\ j \in Jobs
      /\ \A j \in Jobs \ rows : jobs'[j] = jobs[j]
      /\ DOMAIN jobs' = Jobs
  BY <1>3 DEF Free
<1>5. retry \in BOOLEAN /\ \A j \in rows : of[j] \in call.jobs /\ of[j] \in Domains \union {Upload}
  BY <1>1, <1>3 DEF Call
<1>6. \A j \in rows : /\ jobs'[j] \in Job /\ jobs'[j].of = of[j] /\ jobs'[j].retry = retry
                      /\ jobs'[j].state = "pending" /\ jobs'[j].barred = FALSE
  <2>. HIDE DEF retry
  <2>1. \A j \in rows : /\ new(j) \in Job /\ new(j).of = of[j] /\ new(j).retry = retry
                        /\ new(j).state = "pending" /\ new(j).barred = FALSE
    BY <1>5 DEF Job, JobState
  <2>. QED
    BY <1>4, <2>1
<1>7. jobs' \in [Jobs -> Job]
  <2>1. \A j \in Jobs : jobs'[j] \in Job
    BY <1>1, <1>4, <1>6 DEF AssessmentTypeOK
  <2>2. jobs' = [j \in Jobs |-> jobs'[j]]
    BY <1>3, <1>4
  <2>. QED
    BY <2>1, <2>2
<1>8. AssessmentTypeOK'
  BY <1>1, <1>7, ReturnFacts DEF AssessmentTypeOK, Column, AssessmentStatus
<1>9. WithdrawnInv'
  BY <1>1, <1>4, <1>6 DEF AssessmentInv, WithdrawnInv
<1>10. UploadInvOf(upload, calls) => UploadInvOf(upload, calls')
  BY <1>1, ReturnKeeps
<1>11. ProbeInvOf(jobs, calls) => ProbeInvOf(jobs', calls')
  <2>1. SUFFICES ASSUME ProbeInvOf(jobs, calls) PROVE ProbeInvOf(jobs', calls')
    OBVIOUS
  <2>2. ProbeInvOf(jobs, calls') /\ calls'[c].op = "idle" /\ \A d \in Analysts \ {c} : calls'[d] = calls[d]
    BY <1>1, <2>1, ReturnKeeps, ReturnFacts DEF IdleCall
  <2>3. ASSUME NEW j \in rows, NEW d \in Domains, Probes(jobs'[j], d)
        PROVE  d \in call.jobs /\ Launches(call) /\ of[j] = d
    <3>1. of[j] = d /\ ~retry
      BY <1>6, <2>3, Zenon DEF Probes
    <3>2. d \in call.jobs /\ d # Upload
      BY <1>5, <3>1, AssessmentAssumption
    <3>. QED
      BY <1>1, <3>1, <3>2 DEF Launches
  <2>4. \A j \in Jobs \ rows : jobs'[j] = jobs[j]
    BY <1>4
  <2>5. ASSUME NEW a \in Analysts, Launches(calls'[a]), NEW d \in calls'[a].jobs
        PROVE  d \in Domains /\ \A j \in Jobs : ~Probes(jobs'[j], d)
    <3>1. d \in Domains /\ (\A j \in Jobs : ~Probes(jobs[j], d)) /\ a # c /\ Launches(calls[a])
      BY <2>2, <2>5 DEF ProbeInvOf, Launches
    <3>2. ~Launches(call)
      BY <2>1, <3>1 DEF ProbeInvOf
    <3>. QED
      BY <2>3, <2>4, <3>1, <3>2
  <2>6. ASSUME NEW d \in Domains, NEW i \in Jobs, NEW j \in Jobs, Probes(jobs'[i], d), Probes(jobs'[j], d)
        PROVE  i = j
    <3>1. CASE i \in rows /\ j \in rows
      <4>1. of[i] = of[j]
        BY <2>3, <2>6, <3>1
      <4>2. rows \in SUBSET Jobs
        BY DEF Free
      <4>3. /\ rows \in SUBSET Jobs /\ Cardinality(rows) = Cardinality(call.jobs)
            /\ of \in [rows -> call.jobs] /\ \A x \in call.jobs : \E r \in rows : of[r] = x
        BY <1>2, <1>3, <4>2
      <4>. HIDE DEF call
      <4>. QED
        BY <3>1, <4>1, <4>3, OneRowEach
    <3>2. CASE i \notin rows /\ j \notin rows
      BY <2>1, <2>4, <2>6, <3>2 DEF ProbeInvOf
    <3>3. CASE i \in rows /\ j \notin rows
      BY <2>1, <2>3, <2>4, <2>6, <3>3 DEF ProbeInvOf
    <3>4. CASE i \notin rows /\ j \in rows
      BY <2>1, <2>3, <2>4, <2>6, <3>4 DEF ProbeInvOf
    <3>. QED
      BY <3>1, <3>2, <3>3, <3>4
  <2>7. \A a, b \in Analysts : Launches(calls'[a]) /\ Launches(calls'[b]) => a = b
    BY <2>2, Zenon DEF ProbeInvOf
  <2>. QED
    BY <2>5, <2>6, <2>7 DEF ProbeInvOf
<1>. QED
  BY <1>1, <1>8, <1>9, <1>10, <1>11 DEF AssessmentInv

-----------------------------------------------------------------------------
(* The jobs.                                                               *)

\* A job is cancelled, starts, looks at its target, works and ends.
LEMMA JobKeepsInv ==
  ASSUME AssessmentInv, NEW j \in Jobs, CancelRun(j) \/ Start(j) \/ Check(j) \/ Work(j) \/ End(j)
  PROVE  AssessmentInv'
<1>1. AssessmentTypeOK /\ jobs[j] \in Job
  BY DEF AssessmentInv, AssessmentTypeOK
<1>2. /\ UNCHANGED <<status, upload, calls, withdrawn, crossed, raced>>
      /\ jobs[j].state \in LiveJob /\ probed' \subseteq Domains
  BY <1>1 DEF CancelRun, Start, Check, Work, End, Rest, LiveJob, Job, AssessmentTypeOK
<1>. DEFINE Moved(state, barred) ==
              /\ jobs' = [jobs EXCEPT ![j].state = state, ![j].barred = barred]
              /\ barred => jobs[j].barred \/ withdrawn
              /\ state = "working" /\ jobs[j].of = Upload =>
                   upload.link = "included" /\ barred = jobs[j].barred
<1>3. PICK state \in JobState \ {"none"}, barred \in BOOLEAN : Moved(state, barred)
  <2>1. ASSUME NEW state \in JobState \ {"none"}, jobs' = [jobs EXCEPT ![j].state = state],
               state = "working" /\ jobs[j].of = Upload => upload.link = "included"
        PROVE  Moved(state, jobs[j].barred)
    <3>1. jobs' = [jobs EXCEPT ![j].state = state, ![j].barred = jobs[j].barred]
      BY <1>1, <2>1 DEF AssessmentTypeOK, Job
    <3>. QED
      BY <2>1, <3>1, Zenon
  <2>2. jobs[j].barred \in BOOLEAN
    BY <1>1 DEF Job
  <2>. HIDE DEF Moved
  <2>3. CASE CancelRun(j)
    BY <2>1, <2>2, <2>3 DEF CancelRun, JobState
  <2>4. CASE Check(j)
    BY <2>1, <2>2, <2>4 DEF Check, JobState
  <2>5. CASE Work(j)
    <3>. DEFINE state == IF jobs[j].of = Upload /\ ~upload.file THEN "failed" ELSE "working"
    <3>1. state \in JobState \ {"none"} /\ jobs' = [jobs EXCEPT ![j].state = state]
          /\ (jobs[j].of = Upload => upload.link = "included")
      BY <2>5 DEF Work, JobState, Permitted
    <3>. HIDE DEF state
    <3>. QED
      BY <2>1, <2>2, <3>1
  <2>6. CASE End(j)
    <3>1. PICK state \in {"completed", "failed", "cancelled", "pending"} : jobs' = [jobs EXCEPT ![j].state = state]
      BY <2>6 DEF End
    <3>2. state \in JobState \ {"none"} /\ state # "working"
      BY DEF JobState
    <3>. QED
      BY <2>1, <2>2, <3>1, <3>2
  <2>7. CASE Start(j)
    <3>. DEFINE barred == withdrawn /\ jobs[j].of = Upload
    <3>1. jobs' = [jobs EXCEPT ![j].state = "checking", ![j].barred = barred] /\ barred \in BOOLEAN
      BY <1>1, <2>7, Zenon DEF Start, AssessmentTypeOK
    <3>2. barred => withdrawn
      OBVIOUS
    <3>. HIDE DEF barred
    <3>3. "checking" \in JobState \ {"none"} /\ "checking" # "working"
      BY DEF JobState
    <3>4. Moved("checking", barred)
      BY <3>1, <3>2, <3>3, Zenon DEF Moved
    <3>. QED
      BY <3>1, <3>3, <3>4
  <2>. QED
    BY <2>3, <2>4, <2>5, <2>6, <2>7
<1>. DEFINE job == [jobs[j] EXCEPT !.state = state, !.barred = barred]
<1>4. /\ jobs' = [jobs EXCEPT ![j] = job]
      /\ job \in Job /\ job.state = state /\ job.barred = barred /\ job.of = jobs[j].of
      /\ job.retry = jobs[j].retry
  BY <1>1, <1>3 DEF AssessmentTypeOK, Job
<1>. HIDE DEF job
<1>5. jobs' \in [Jobs -> Job] /\ jobs'[j] = job /\ \A i \in Jobs \ {j} : jobs'[i] = jobs[i]
  BY <1>1, <1>4 DEF AssessmentTypeOK
<1>6. AssessmentTypeOK'
  BY <1>1, <1>2, <1>5 DEF AssessmentTypeOK
<1>7. WithdrawnInv'
  <2>1. /\ withdrawn => upload.link = "excluded"
        /\ \A i \in Jobs : jobs[i].barred => withdrawn
        /\ \A i \in Jobs : jobs[i].of = Upload /\ jobs[i].state = "working" => ~jobs[i].barred
    BY DEF AssessmentInv, WithdrawnInv
  <2>2. barred => withdrawn
    BY <1>3, <2>1
  <2>3. job.barred => withdrawn
    BY <1>4, <2>2, Zenon
  <2>4. job.of = Upload /\ job.state = "working" => ~job.barred
    BY <1>3, <1>4, <2>1, <2>3
  <2>. QED
    BY <1>2, <1>5, <2>1, <2>3, <2>4 DEF WithdrawnInv
<1>8. UploadInvOf(upload, calls) => UploadInvOf(upload', calls')
  BY <1>2
<1>9. ProbeInvOf(jobs, calls) => ProbeInvOf(jobs', calls')
  <2>1. \A d \in Domains : Probes(job, d) => Probes(jobs[j], d)
    BY <1>2, <1>4, Zenon DEF Probes, LiveJob
  <2>2. \A i \in Jobs, d \in Domains : Probes(jobs'[i], d) => Probes(jobs[i], d)
    BY <1>5, <2>1
  <2>. QED
    BY <1>2, <2>2 DEF ProbeInvOf
<1>. QED
  BY <1>2, <1>6, <1>7, <1>8, <1>9 DEF AssessmentInv

-----------------------------------------------------------------------------
(* The uploaded artifact.                                                  *)

\* Lifting the bar from the jobs leaves everything else of them alone.
LEMMA UnbarFacts ==
  ASSUME AssessmentTypeOK
  PROVE  /\ Unbar \in [Jobs -> Job]
         /\ \A j \in Jobs : /\ ~Unbar[j].barred /\ Unbar[j].of = jobs[j].of
                            /\ \A d : Probes(Unbar[j], d) = Probes(jobs[j], d)
<1>1. ASSUME NEW j \in Jobs
      PROVE  /\ Unbar[j] \in Job /\ Unbar[j].barred = FALSE /\ Unbar[j].of = jobs[j].of
             /\ Unbar[j].retry = jobs[j].retry /\ Unbar[j].state = jobs[j].state
  <2>1. jobs[j] \in Job
    BY DEF AssessmentTypeOK
  <2>. QED
    BY <2>1 DEF Unbar, Job
<1>2. \A j \in Jobs : \A d : Probes(Unbar[j], d) = Probes(jobs[j], d)
  BY <1>1, Zenon DEF Probes
<1>3. Unbar \in [Jobs -> Job]
  BY <1>1 DEF Unbar
<1>. QED
  BY <1>1, <1>2, <1>3

\* An upload or a removal reads the rows.
LEMMA UploadReadKeepsInv ==
  ASSUME AssessmentInv, NEW c \in Analysts, UploadRead(c) \/ RemoveRead(c)
  PROVE  AssessmentInv'
<1>. DEFINE up == UploadRead(c)
            op == IF up THEN "upload" ELSE "remove"
            others == IF up THEN Removing ELSE Uploading
<1>1. AssessmentTypeOK /\ status \in AssessmentStatus
  BY DEF AssessmentInv, AssessmentTypeOK
<1>2. /\ Read(c, op, status, {}) /\ crossed' = (crossed \/ InProgress(others)) /\ raced' = raced
  BY DEF UploadRead, RemoveRead
<1>3. op \in {"upload", "remove"} /\ others \in {Removing, Uploading}
      /\ (op = "upload" => others = Removing) /\ (op = "remove" => others = Uploading)
  OBVIOUS
<1>. HIDE DEF op, others
<1>4. /\ calls' \in [Analysts -> Call] /\ UNCHANGED <<status, upload, jobs, probed, withdrawn>>
      /\ calls'[c].op = op /\ calls[c].op = "idle" /\ calls'[c].upload = upload
      /\ \A d \in Analysts \ {c} : calls'[d] = calls[d]
  BY <1>1, <1>2, <1>3, ReadFacts
<1>5. crossed' \in BOOLEAN /\ (crossed => crossed')
  BY <1>1, <1>2, Zenon DEF AssessmentTypeOK
<1>6. AssessmentTypeOK' /\ WithdrawnInv'
  BY <1>1, <1>2, <1>4, <1>5 DEF AssessmentInv, AssessmentTypeOK, WithdrawnInv
<1>7. ProbeInvOf(jobs, calls) => ProbeInvOf(jobs, calls')
  BY <1>3, <1>4 DEF ProbeInvOf, Launches
<1>8. ~crossed' /\ UploadInvOf(upload, calls) => UploadInvOf(upload, calls')
  <2>1. SUFFICES ASSUME ~crossed', UploadInvOf(upload, calls) PROVE UploadInvOf(upload, calls')
    OBVIOUS
  <2>2. \A d \in Analysts : calls[d].op \notin others
    BY <1>2, <2>1 DEF InProgress
  <2>3. ASSUME NEW a \in Analysts, NEW b \in Analysts, calls'[a].op \in Uploading, calls'[b].op \in Removing
        PROVE  FALSE
    BY <1>3, <1>4, <2>1, <2>2, <2>3 DEF UploadInvOf, Uploading, Removing
  <2>4. \A a \in Analysts : calls'[a].op = "remove" /\ calls'[a].upload.target = "purged" => upload.target # "valid"
    BY <1>4, <2>1 DEF UploadInvOf
  <2>5. /\ \A a \in Analysts : calls'[a].op = "store" => upload.file
        /\ \A a \in Analysts : calls'[a].op = "unlink" => upload.target # "valid"
    BY <1>3, <1>4, <2>1 DEF UploadInvOf
  <2>. QED
    BY <2>1, <2>3, <2>4, <2>5 DEF UploadInvOf
<1>. QED
  BY <1>2, <1>4, <1>5, <1>6, <1>7, <1>8 DEF AssessmentInv

\* An upload stores its file before it commits the rows.
LEMMA UploadStoreKeepsInv ==
  ASSUME AssessmentInv, NEW c \in Analysts, UploadStore(c)
  PROVE  AssessmentInv'
<1>1. AssessmentTypeOK /\ upload \in UploadState /\ calls[c] \in Call
  BY DEF AssessmentInv, AssessmentTypeOK
<1>2. /\ calls[c].op = "upload" /\ upload' = [upload EXCEPT !.file = TRUE]
      /\ calls' = [calls EXCEPT ![c].op = "store", ![c].upload.link = upload.link]
      /\ UNCHANGED <<status, jobs, probed, withdrawn, crossed, raced>>
  BY DEF UploadStore
<1>3. /\ upload' \in UploadState /\ upload'.file = TRUE /\ upload'.target = upload.target
      /\ upload'.link = upload.link
  BY <1>1, <1>2 DEF UploadState
<1>4. /\ calls' \in [Analysts -> Call] /\ calls'[c].op = "store"
      /\ \A d \in Analysts \ {c} : calls'[d] = calls[d]
  BY <1>1, <1>2 DEF AssessmentTypeOK, Call, UploadState
<1>5. AssessmentTypeOK' /\ WithdrawnInv'
  BY <1>1, <1>2, <1>3, <1>4 DEF AssessmentInv, AssessmentTypeOK, WithdrawnInv
<1>6. ProbeInvOf(jobs, calls) => ProbeInvOf(jobs, calls')
  BY <1>4 DEF ProbeInvOf, Launches
<1>7. UploadInvOf(upload, calls) => UploadInvOf(upload', calls')
  BY <1>2, <1>3, <1>4 DEF UploadInvOf, Uploading, Removing
<1>. QED
  BY <1>2, <1>5, <1>6, <1>7 DEF AssessmentInv

\* An upload commits the rows of its file.
LEMMA UploadCommitKeepsInv ==
  ASSUME AssessmentInv, NEW c \in Analysts, UploadCommit(c)
  PROVE  AssessmentInv'
<1>1. AssessmentTypeOK /\ upload \in UploadState
  BY DEF AssessmentInv, AssessmentTypeOK
<1>2. /\ calls[c].op = "store" /\ withdrawn' = FALSE /\ jobs' = Unbar /\ Return(c)
      /\ upload' = [upload EXCEPT !.target = Column(calls[c].upload.target, "valid", @),
                                  !.link = Column(calls[c].upload.link, "included", @)]
      /\ UNCHANGED <<status, probed, crossed, raced>>
  BY DEF UploadCommit
<1>3. upload' \in UploadState /\ upload'.file = upload.file
  BY <1>1, <1>2 DEF UploadState, Column
<1>4. /\ calls' \in [Analysts -> Call] /\ calls'[c].op = "idle"
      /\ \A d \in Analysts \ {c} : calls'[d] = calls[d]
  BY <1>1, <1>2, ReturnFacts DEF IdleCall
<1>5. AssessmentTypeOK'
  BY <1>1, <1>2, <1>3, <1>4, UnbarFacts DEF AssessmentTypeOK
<1>6. WithdrawnInv'
  BY <1>1, <1>2, UnbarFacts DEF WithdrawnInv
<1>7. ProbeInvOf(jobs, calls) => ProbeInvOf(jobs', calls')
  BY <1>1, <1>2, ReturnKeeps, UnbarFacts DEF ProbeInvOf
<1>8. UploadInvOf(upload, calls) => UploadInvOf(upload', calls')
  BY <1>2, <1>3, <1>4 DEF UploadInvOf, Uploading, Removing
<1>. QED
  BY <1>2, <1>5, <1>6, <1>7, <1>8 DEF AssessmentInv

\* A removal commits the rows as purged before it deletes the file.
LEMMA RemoveCommitKeepsInv ==
  ASSUME AssessmentInv, NEW c \in Analysts, RemoveCommit(c)
  PROVE  AssessmentInv'
<1>. DEFINE seen == calls[c].upload
            link == Column(seen.link, "excluded", upload.link)
            target == Column(seen.target, "purged", upload.target)
<1>1. AssessmentTypeOK /\ upload \in UploadState /\ calls[c] \in Call
  BY DEF AssessmentInv, AssessmentTypeOK
<1>2. /\ calls[c].op = "remove" /\ upload' = [upload EXCEPT !.target = target, !.link = link]
      /\ withdrawn' = (link = "excluded") /\ calls' = [calls EXCEPT ![c].op = "unlink"]
      /\ UNCHANGED <<status, jobs, probed, crossed, raced>>
  BY DEF RemoveCommit
<1>3. /\ link \in {"excluded", upload.link} /\ target \in {"purged", upload.target}
      /\ (seen.target # "purged" => target = "purged")
  BY DEF Column
<1>. HIDE DEF link, target
<1>4. /\ upload' \in UploadState /\ upload'.file = upload.file /\ upload'.target = target
      /\ upload'.link = link
  BY <1>1, <1>2, <1>3 DEF UploadState
<1>5. /\ calls' \in [Analysts -> Call] /\ calls'[c].op = "unlink"
      /\ \A d \in Analysts \ {c} : calls'[d] = calls[d]
  BY <1>1, <1>2 DEF AssessmentTypeOK, Call
<1>6. withdrawn' \in BOOLEAN
  BY <1>2, Zenon
<1>7. AssessmentTypeOK'
  BY <1>1, <1>2, <1>4, <1>5, <1>6 DEF AssessmentTypeOK
<1>8. WithdrawnInv'
  <2>1. withdrawn => withdrawn'
    BY <1>2, <1>3 DEF AssessmentInv, WithdrawnInv
  <2>. QED
    BY <1>2, <1>4, <2>1 DEF AssessmentInv, WithdrawnInv
<1>9. ProbeInvOf(jobs, calls) => ProbeInvOf(jobs, calls')
  BY <1>5 DEF ProbeInvOf, Launches
<1>10. UploadInvOf(upload, calls) => UploadInvOf(upload', calls')
  BY <1>2, <1>3, <1>4, <1>5 DEF UploadInvOf, Uploading, Removing
<1>. QED
  BY <1>2, <1>7, <1>8, <1>9, <1>10 DEF AssessmentInv

\* A removal deletes the file.
LEMMA RemoveUnlinkKeepsInv ==
  ASSUME AssessmentInv, NEW c \in Analysts, RemoveUnlink(c)
  PROVE  AssessmentInv'
<1>1. AssessmentTypeOK /\ upload \in UploadState
  BY DEF AssessmentInv, AssessmentTypeOK
<1>2. /\ calls[c].op = "unlink" /\ upload' = [upload EXCEPT !.file = FALSE] /\ Return(c)
      /\ UNCHANGED <<status, jobs, probed, withdrawn, crossed, raced>>
  BY DEF RemoveUnlink
<1>3. /\ upload' \in UploadState /\ upload'.target = upload.target /\ upload'.link = upload.link
  BY <1>1, <1>2 DEF UploadState
<1>4. /\ calls' \in [Analysts -> Call] /\ calls'[c].op = "idle"
      /\ \A d \in Analysts \ {c} : calls'[d] = calls[d]
  BY <1>1, <1>2, ReturnFacts DEF IdleCall
<1>5. AssessmentTypeOK' /\ WithdrawnInv'
  BY <1>1, <1>2, <1>3, <1>4 DEF AssessmentInv, AssessmentTypeOK, WithdrawnInv
<1>6. ProbeInvOf(jobs, calls) => ProbeInvOf(jobs, calls')
  BY <1>1, <1>2, ReturnKeeps
<1>7. UploadInvOf(upload, calls) => UploadInvOf(upload', calls')
  BY <1>2, <1>3, <1>4 DEF UploadInvOf, Uploading, Removing
<1>. QED
  BY <1>2, <1>5, <1>6, <1>7 DEF AssessmentInv

\* The upload is selected or withdrawn.
LEMMA SelectKeepsInv ==
  ASSUME AssessmentInv, NEW included \in BOOLEAN, Select(included)
  PROVE  AssessmentInv'
<1>1. AssessmentTypeOK /\ upload \in UploadState
  BY DEF AssessmentInv, AssessmentTypeOK
<1>2. /\ upload' = [upload EXCEPT !.link = IF included THEN "included" ELSE "excluded"]
      /\ withdrawn' = (withdrawn /\ ~included) /\ jobs' = IF included THEN Unbar ELSE jobs
      /\ UNCHANGED <<status, probed, calls, crossed, raced>>
  BY DEF Select
<1>3. /\ upload' \in UploadState /\ upload'.target = upload.target /\ upload'.file = upload.file
      /\ (~included => upload'.link = "excluded")
  BY <1>1, <1>2 DEF UploadState
<1>4. withdrawn' \in BOOLEAN /\ (withdrawn' => withdrawn /\ ~included) /\ (~included /\ withdrawn => withdrawn')
  BY <1>1, <1>2, Zenon DEF AssessmentTypeOK
<1>5. AssessmentTypeOK'
  BY <1>1, <1>2, <1>3, <1>4, UnbarFacts DEF AssessmentTypeOK
<1>6. WithdrawnInv'
  <2>1. CASE included
    BY <1>1, <1>2, <1>4, <2>1, UnbarFacts DEF WithdrawnInv
  <2>2. CASE ~included
    BY <1>2, <1>3, <1>4, <2>2 DEF AssessmentInv, WithdrawnInv
  <2>. QED
    BY <2>1, <2>2
<1>7. ProbeInvOf(jobs, calls) => ProbeInvOf(jobs', calls')
  BY <1>1, <1>2, UnbarFacts DEF ProbeInvOf
<1>8. UploadInvOf(upload, calls) => UploadInvOf(upload', calls')
  BY <1>2, <1>3 DEF UploadInvOf
<1>. QED
  BY <1>2, <1>5, <1>6, <1>7, <1>8 DEF AssessmentInv

\* Every step of an assessment preserves the invariant.
LEMMA AssessmentStep == AssessmentInv /\ [AssessmentNext]_assessmentVars => AssessmentInv'
<1>1. ASSUME AssessmentInv, UNCHANGED assessmentVars PROVE AssessmentInv'
  BY <1>1 DEF AssessmentInv, AssessmentTypeOK, WithdrawnInv, assessmentVars
<1>. QED
  BY <1>1, UpdateKeepsInv, LaunchReadKeepsInv, LaunchWriteKeepsInv, JobKeepsInv, UploadReadKeepsInv,
     UploadStoreKeepsInv, UploadCommitKeepsInv, RemoveCommitKeepsInv, RemoveUnlinkKeepsInv,
     SelectKeepsInv DEF AssessmentNext

\* The inductive invariant of assessments holds in every reachable state, for
\* any domains and any number of jobs and of analysts.
THEOREM AssessmentInvariance == AssessmentSpec => []AssessmentInv
BY AssessmentInitially, AssessmentStep, PTL DEF AssessmentSpec

\* A valid upload has its source unless an upload and a removal crossed, and a
\* scan that starts after the purge never reads it (artifacts.upload,
\* remove_target).
THEOREM UploadsMatchTheirSource == AssessmentSpec => []UploadMatchesSource
<1>1. AssessmentInv => UploadMatchesSource
  BY DEF AssessmentInv, WithdrawnInv, UploadInvOf, UploadMatchesSource
<1>. QED
  BY <1>1, AssessmentInvariance, PTL

\* Launches one after the other never probe a domain twice, whatever ended,
\* failed or was stopped in between (jobs.launch_http_probe).
THEOREM DomainsAreProbedOnce == AssessmentSpec => []ProbedOnce
<1>1. AssessmentInv => ProbedOnce
  <2>1. SUFFICES ASSUME AssessmentInv, ~raced, NEW d \in Domains
                 PROVE  Cardinality({j \in Jobs : /\ jobs[j].of = d /\ ~jobs[j].retry
                                                  /\ jobs[j].state \notin {"none", "cancelled"}}) <= 1
    BY DEF ProbedOnce
  <2>. DEFINE attempts == {j \in Jobs : /\ jobs[j].of = d /\ ~jobs[j].retry
                                       /\ jobs[j].state \notin {"none", "cancelled"}}
  <2>2. \A i, j \in attempts : i = j
    BY <2>1 DEF AssessmentInv, ProbeInvOf, Probes
  <2>. HIDE DEF attempts
  <2>3. attempts = {} => Cardinality(attempts) <= 1
    BY FS_EmptySet
  <2>4. ASSUME attempts # {} PROVE Cardinality(attempts) <= 1
    <3>1. PICK i \in attempts : attempts = {i}
      BY <2>2, <2>4
    <3>2. Cardinality(attempts) = 1
      BY <3>1, FS_Singleton
    <3>. QED
      BY <3>2
  <2>. QED
    BY <2>3, <2>4 DEF attempts
<1>. QED
  BY <1>1, AssessmentInvariance, PTL
=============================================================================
