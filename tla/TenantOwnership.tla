-------------------------- MODULE TenantOwnership --------------------------
(***************************************************************************)
(* Who owns a discovered asset, and the secrets stored for its findings:   *)
(* the ownership claims of repositories.py and storage/domain_identity.py, *)
(* and the vault of services/secret_evidence.py.                           *)
(*                                                                         *)
(* Discoveries read an asset, decide on what they read and claim it later. *)
(* An UPDATE takes the row's lock until the commit, hence the claim and    *)
(* the commit are one step.  One domain name is enough: names meet only in *)
(* the uniqueness of a name within a tenant.                               *)
(***************************************************************************)
EXTENDS SecurityContext

CONSTANTS
  Orgs,       \* names of organizations
  Repos,      \* full names of repositories
  Findings,   \* findings that hold a secret
  Anchor,     \* the organization each is recorded under, or the repository
              \* and the domain (by its organization) it was found in
  Discoverers, \* database sessions of discoveries
  Readers,    \* requests that reveal secrets
  Contexts,   \* the authorization contexts those requests carry
  MaxReveals, \* bound: no reveal starts once a principal has as many
  Missing     \* no row

Tenant == Tenants \union {Nobody}

ASSUME OwnershipAssumption ==
  /\ Anchor \in [Findings -> [org : Orgs \union {Nobody}, repo : Repos \union {Nobody},
                              domain : Orgs \union {Nobody}]]
  /\ Contexts \subseteq AuthContext
  /\ MaxReveals \in Nat
  /\ Nobody \notin Orgs /\ Missing \notin Tenant \union Orgs

Intent ==
  [kind : {"idle", "organization", "repository", "domain"},
   target : Orgs \union Repos \union {Missing}, owner : Tenants \union Orgs \union {Nobody, Missing},
   seen : Tenants \union Orgs \union {Nobody, Missing}]

NoIntent == [kind |-> "idle", target |-> Missing, owner |-> Missing, seen |-> Missing]

NoReveal == [at |-> "idle", context |-> LOCAL_CONTEXT, finding |-> Missing, tenant |-> Missing]

VARIABLES
  orgTenant, \* organizations.tenant_key, Missing before the row exists
  repoOrg,   \* repositories.organization_id, Missing before the row exists
  domainOf,  \* domains.tenant_key of the name's row under each organization
  intents,   \* what each discovery read and wants to write
  vault,     \* the tenant of each finding's row in secret_evidence
  audits,    \* rows of secret_reveal_audits, by principal and finding
  reveals,   \* what each reveal is doing
  released   \* plaintexts that left the service, by principal and finding

assetVars == <<orgTenant, repoOrg, domainOf>>
vaultVars == <<vault, audits, reveals, released>>
ownershipVars == <<assetVars, intents, vaultVars>>

OwnershipInit ==
  /\ orgTenant = [o \in Orgs |-> Missing]
  /\ repoOrg = [r \in Repos |-> Missing]
  /\ domainOf = [o \in Orgs |-> Missing]
  /\ intents = [w \in Discoverers |-> NoIntent]
  /\ vault = [f \in Findings |-> Missing]
  /\ audits = [c \in Contexts |-> [f \in Findings |-> 0]]
  /\ reveals = [q \in Readers |-> NoReveal]
  /\ released = [c \in Contexts |-> [f \in Findings |-> 0]]

-----------------------------------------------------------------------------
(* Discoveries: get_or_create_organization, get_or_create_repository and   *)
(* resolve_domain.                                                         *)

Intend(w, intent) == intents' = [intents EXCEPT ![w] = intent]
Done(w) == Intend(w, NoIntent)

\* An owner that is stored is never claimed again: the discovery of another
\* owner fails at once.
Unowned == {Missing, Nobody}

ReadOrganization(w) ==
  \E o \in Orgs, t \in Tenant :
    /\ orgTenant[o] \in Unowned
    /\ Intend(w, [kind |-> "organization", target |-> o, owner |-> t, seen |-> orgTenant[o]])

ReadRepository(w) ==
  \E r \in Repos, o \in Orgs \union {Nobody} :
    /\ repoOrg[r] \in Unowned
    /\ o # Nobody => orgTenant[o] # Missing
    /\ Intend(w, [kind |-> "repository", target |-> r, owner |-> o, seen |-> repoOrg[r]])

\* prepare_domain reads the organization's tenant for the row it will insert.
ReadDomain(w) ==
  \E o \in Orgs :
    /\ orgTenant[o] # Missing /\ domainOf[o] = Missing
    /\ Intend(w, [kind |-> "domain", target |-> o, owner |-> orgTenant[o], seen |-> Missing])

Discover(w) ==
  /\ intents[w].kind = "idle"
  /\ ReadOrganization(w) \/ ReadRepository(w) \/ ReadDomain(w)
  /\ UNCHANGED <<assetVars, vaultVars>>

\* validate_organization_domain_anchor: the organization has no domain of
\* another tenant, nor one without.
Anchored(o, t) == domainOf[o] \in {Missing, t}

\* A claim that trusts its read.
ClaimedBlindly(seen, owner, stored) ==
  IF seen = Nobody /\ owner # Nobody THEN owner ELSE stored

\* A claim writes only where no owner is stored: one that loses the race
\* fails.
Claimed(seen, owner, stored) ==
  IF seen = Nobody /\ owner # Nobody /\ stored = Nobody THEN owner ELSE stored

\* The unique name is inserted by one session; the other one fails.
Stored(seen, owner, stored) ==
  IF seen # Missing THEN Claimed(seen, owner, stored)
  ELSE IF stored = Missing THEN owner ELSE stored

WriteOrganization(w) ==
  LET i == intents[w]
      claims == i.seen = Nobody /\ i.owner # Nobody
  IN /\ i.kind = "organization"
     /\ orgTenant' = IF claims /\ ~Anchored(i.target, i.owner) THEN orgTenant
                     ELSE [orgTenant EXCEPT ![i.target] = Stored(i.seen, i.owner, @)]
     /\ Done(w)
     /\ UNCHANGED <<repoOrg, domainOf, vaultVars>>

WriteRepository(w) ==
  LET i == intents[w] IN
  /\ i.kind = "repository"
  /\ repoOrg' = [repoOrg EXCEPT ![i.target] = Stored(i.seen, i.owner, @)]
  /\ Done(w)
  /\ UNCHANGED <<orgTenant, domainOf, vaultVars>>

\* One row for a name and a tenant, and one for a name without tenant.
NameFree(t) == \A o \in Orgs : domainOf[o] # t

InsertDomain(w) ==
  LET i == intents[w] IN
  /\ i.kind = "domain"
  /\ domainOf' = IF NameFree(i.owner) /\ domainOf[i.target] = Missing
                 THEN [domainOf EXCEPT ![i.target] = i.owner] ELSE domainOf
  /\ Done(w)
  /\ UNCHANGED <<orgTenant, repoOrg, vaultVars>>

-----------------------------------------------------------------------------
(* The tenant of a finding. *)

TenantOf(o) == IF orgTenant[o] = Missing THEN Nobody ELSE orgTenant[o]

\* The organizations that own what a finding was found in.
Owners(f) ==
  LET asset == Anchor[f] IN
  (IF asset.repo # Nobody THEN {repoOrg[asset.repo]} \intersect Orgs ELSE {})
  \union (IF asset.domain # Nobody THEN {asset.domain} ELSE {})

\* The repository's owner before the domain's.
TenantOfRepositoryFirst(f) ==
  LET asset == Anchor[f] IN
  IF asset.org # Nobody THEN TenantOf(asset.org)
  ELSE IF asset.repo # Nobody /\ repoOrg[asset.repo] \in Orgs THEN TenantOf(repoOrg[asset.repo])
  ELSE IF asset.domain # Nobody THEN TenantOf(asset.domain) ELSE Nobody

\* tenant_for_finding: the finding's organization, else the only owner.
TenantForFinding(f) ==
  IF Anchor[f].org # Nobody THEN TenantOf(Anchor[f].org)
  ELSE IF \E o \in Orgs : Owners(f) = {o} THEN TenantOf(CHOOSE o \in Orgs : Owners(f) = {o})
  ELSE Nobody

-----------------------------------------------------------------------------
(* The vault. *)

Exists(f) ==
  /\ Anchor[f].org # Nobody => orgTenant[Anchor[f].org] # Missing
  /\ Anchor[f].repo # Nobody => repoOrg[Anchor[f].repo] # Missing
  /\ Anchor[f].domain # Nobody => domainOf[Anchor[f].domain] # Missing

\* _encrypt_candidates refuses a finding without a tenant; a second
\* observation of the same value finds the stored row.
Persist(f) ==
  /\ Exists(f) /\ vault[f] = Missing
  /\ TenantForFinding(f) # Nobody
  /\ vault' = [vault EXCEPT ![f] = TenantForFinding(f)]
  /\ UNCHANGED <<assetVars, intents, audits, reveals, released>>

Authorized(c, f) ==
  /\ AllowsSecretReveal(c)
  /\ TenantForFinding(f) # Nobody /\ AllowsTenant(c, TenantForFinding(f))
  /\ vault[f] = TenantForFinding(f)

\* reveal up to the decryption: the tenant and the row are read, and the
\* audit row is pending.
Open(q) ==
  /\ reveals[q].at = "idle"
  /\ \E c \in Contexts, f \in Findings :
       /\ Authorized(c, f) /\ audits[c][f] < MaxReveals
       /\ reveals' = [reveals EXCEPT ![q] =
            [at |-> "open", context |-> c, finding |-> f, tenant |-> TenantForFinding(f)]]
  /\ UNCHANGED <<assetVars, intents, vault, audits, released>>

\* A failed commit whose plaintext is released all the same.
CommitAuditAnyway(q) ==
  /\ reveals[q].at = "open"
  /\ \/ audits' = [audits EXCEPT ![reveals[q].context][reveals[q].finding] = @ + 1]
     \/ UNCHANGED audits
  /\ reveals' = [reveals EXCEPT ![q].at = "audited"]
  /\ UNCHANGED <<assetVars, intents, vault, released>>

\* The plaintext leaves only after the audit row is committed.
CommitAudit(q) ==
  /\ reveals[q].at = "open"
  /\ \/ /\ audits' = [audits EXCEPT ![reveals[q].context][reveals[q].finding] = @ + 1]
        /\ reveals' = [reveals EXCEPT ![q].at = "audited"]
     \/ /\ UNCHANGED audits
        /\ reveals' = [reveals EXCEPT ![q] = NoReveal]
  /\ UNCHANGED <<assetVars, intents, vault, released>>

Release(q) ==
  /\ reveals[q].at = "audited"
  /\ released' = [released EXCEPT ![reveals[q].context][reveals[q].finding] = @ + 1]
  /\ reveals' = [reveals EXCEPT ![q] = NoReveal]
  /\ UNCHANGED <<assetVars, intents, vault, audits>>

\* The process dies with the reveal or the discovery.
RevealLost(q) ==
  /\ reveals[q].at # "idle"
  /\ reveals' = [reveals EXCEPT ![q] = NoReveal]
  /\ UNCHANGED <<assetVars, intents, vault, audits, released>>

DiscoveryLost(w) ==
  /\ intents[w].kind # "idle" /\ Done(w)
  /\ UNCHANGED <<assetVars, vaultVars>>

OwnershipNext ==
  \/ \E w \in Discoverers :
       \/ Discover(w) \/ WriteOrganization(w) \/ WriteRepository(w) \/ InsertDomain(w)
       \/ DiscoveryLost(w)
  \/ \E f \in Findings : Persist(f)
  \/ \E q \in Readers : Open(q) \/ CommitAudit(q) \/ Release(q) \/ RevealLost(q)

OwnershipSpec == OwnershipInit /\ [][OwnershipNext]_ownershipVars

-----------------------------------------------------------------------------
(* Properties. *)

\* repositories._claim_unassigned_owner: however discoveries race, an owner
\* once stored for an organization, a repository or a domain never changes.
OwnershipNeverMoves ==
  [][/\ \A o \in Orgs : orgTenant[o] \in Tenants => orgTenant'[o] = orgTenant[o]
     /\ \A r \in Repos : repoOrg[r] \in Orgs => repoOrg'[r] = repoOrg[r]
     /\ \A o \in Orgs : domainOf[o] # Missing => domainOf'[o] = domainOf[o]]_ownershipVars

\* secret_evidence.tenant_for_finding: while discoveries claim the assets a
\* finding hangs on, its sealed secret never becomes one of another tenant,
\* though it may end as nobody's; and nobody outside the tenant it was sealed
\* for ever receives it.
SecretsStayWithTenant ==
  \A f \in Findings : vault[f] # Missing =>
    /\ TenantForFinding(f) \in {vault[f], Nobody}
    /\ \A c \in Contexts : released[c][f] > 0 => AllowsTenant(c, vault[f])

\* secret_evidence.reveal: every plaintext that left has a durable audit row
\* of its own that names the principal, also when commits fail or the
\* process dies.
RevealIsAudited == \A c \in Contexts, f \in Findings : released[c][f] <= audits[c][f]
=============================================================================
