----------------------- MODULE TenantOwnershipProofs ------------------------
(* Proofs about TenantOwnership, for any number of tenants, assets, findings *)
(* and sessions.                                                             *)
EXTENDS TenantOwnership, FiniteSets, FiniteSetTheorems, TLAPS

\* What a discovery read had no owner, and what it will write is one.
IntentOf(i) ==
  \/ i.kind = "idle"
  \/ i.kind = "organization" /\ i.target \in Orgs /\ i.owner \in Tenant /\ i.seen \in Unowned
  \/ /\ i.kind = "repository"
     /\ i.target \in Repos /\ i.owner \in Orgs \union {Nobody} /\ i.seen \in Unowned
  \/ i.kind = "domain" /\ i.target \in Orgs /\ i.owner \in Tenant /\ i.seen = Missing

Opened == [at : {"open", "audited"}, context : Contexts, finding : Findings, tenant : Tenants]

OwnershipTypeOK ==
  /\ orgTenant \in [Orgs -> Tenant \union {Missing}]
  /\ repoOrg \in [Repos -> Orgs \union {Nobody, Missing}]
  /\ domainOf \in [Orgs -> Tenant \union {Missing}]
  /\ intents \in [Discoverers -> Intent]
  /\ vault \in [Findings -> Tenants \union {Missing}]
  /\ audits \in [Contexts -> [Findings -> Nat]]
  /\ reveals \in [Readers -> Opened \union {NoReveal}]
  /\ released \in [Contexts -> [Findings -> Nat]]

IntentsAreFresh == \A w \in Discoverers : IntentOf(intents[w])

\* The tenant a secret was sealed for owns the finding's organization, or
\* one of the organizations it was found in.
SealedByOwner ==
  \A f \in Findings : vault[f] # Missing =>
    IF Anchor[f].org # Nobody THEN orgTenant[Anchor[f].org] = vault[f]
    ELSE \E o \in Owners(f) : orgTenant[o] = vault[f]

\* An open reveal reads a secret its principal may read.
OpenIsAuthorized ==
  \A q \in Readers : reveals[q].at # "idle" =>
    /\ vault[reveals[q].finding] = reveals[q].tenant
    /\ AllowsTenant(reveals[q].context, reveals[q].tenant)

\* So did those who received one.
ReleasedWasAuthorized ==
  \A c \in Contexts, f \in Findings : released[c][f] > 0 =>
    vault[f] # Missing /\ AllowsTenant(c, vault[f])

OInv ==
  /\ OwnershipTypeOK /\ IntentsAreFresh /\ SealedByOwner /\ OpenIsAuthorized
  /\ ReleasedWasAuthorized

-----------------------------------------------------------------------------
(* Ownership.                                                              *)

OwnersStay ==
  /\ \A o \in Orgs : orgTenant[o] \in Tenants => orgTenant'[o] = orgTenant[o]
  /\ \A r \in Repos : repoOrg[r] \in Orgs => repoOrg'[r] = repoOrg[r]
  /\ \A o \in Orgs : domainOf[o] # Missing => domainOf'[o] = domainOf[o]

\* A write that meets an owner leaves it.
LEMMA StoredKeepsOwner ==
  ASSUME NEW seen \in Unowned, NEW owner, NEW stored, stored \notin Unowned
  PROVE  Stored(seen, owner, stored) = stored
BY OwnershipAssumption DEF Stored, Claimed, Unowned

\* A stored value is what was stored or what is written.
LEMMA StoredIsOneOfTwo ==
  ASSUME NEW seen, NEW owner, NEW stored
  PROVE  Stored(seen, owner, stored) \in {owner, stored}
BY DEF Stored, Claimed

\* No step of a discovery, a reveal or a seal moves an owner.
LEMMA StepKeepsOwners == OInv /\ [OwnershipNext]_ownershipVars => OwnersStay
<1>. SUFFICES ASSUME OInv, [OwnershipNext]_ownershipVars PROVE OwnersStay
  OBVIOUS
<1>1. Missing \notin Tenants /\ Nobody \notin Tenants /\ Nobody \notin Orgs /\ Missing \notin Orgs
  BY OwnershipAssumption, ContextAssumption DEF Tenant
<1>2. ASSUME NEW w \in Discoverers, WriteOrganization(w) PROVE OwnersStay
  <2>1. intents[w].target \in Orgs /\ intents[w].seen \in Unowned
    BY <1>2 DEF WriteOrganization, OInv, IntentsAreFresh, IntentOf
  <2>2. ASSUME NEW o \in Orgs, orgTenant[o] \in Tenants PROVE orgTenant'[o] = orgTenant[o]
    <3>1. orgTenant[o] \notin Unowned
      BY <1>1, <2>2 DEF Unowned
    <3>2. Stored(intents[w].seen, intents[w].owner, orgTenant[o]) = orgTenant[o]
      BY <2>1, <3>1, StoredKeepsOwner
    <3>. QED
      BY <1>2, <2>1, <3>2 DEF WriteOrganization, OInv, OwnershipTypeOK
  <2>. QED
    BY <1>2, <2>2 DEF WriteOrganization, OwnersStay
<1>3. ASSUME NEW w \in Discoverers, WriteRepository(w) PROVE OwnersStay
  <2>1. intents[w].target \in Repos /\ intents[w].seen \in Unowned
    BY <1>3 DEF WriteRepository, OInv, IntentsAreFresh, IntentOf
  <2>2. ASSUME NEW r \in Repos, repoOrg[r] \in Orgs PROVE repoOrg'[r] = repoOrg[r]
    <3>1. repoOrg[r] \notin Unowned
      BY <1>1, <2>2 DEF Unowned
    <3>2. Stored(intents[w].seen, intents[w].owner, repoOrg[r]) = repoOrg[r]
      BY <2>1, <3>1, StoredKeepsOwner
    <3>. QED
      BY <1>3, <2>1, <3>2 DEF WriteRepository, OInv, OwnershipTypeOK
  <2>. QED
    BY <1>3, <2>2 DEF WriteRepository, OwnersStay
<1>4. ASSUME NEW w \in Discoverers, InsertDomain(w) PROVE OwnersStay
  <2>1. intents[w].target \in Orgs
    BY <1>4 DEF InsertDomain, OInv, IntentsAreFresh, IntentOf
  <2>2. ASSUME NEW o \in Orgs, domainOf[o] # Missing PROVE domainOf'[o] = domainOf[o]
    BY <1>4, <2>1, <2>2 DEF InsertDomain, OInv, OwnershipTypeOK
  <2>. QED
    BY <1>4, <2>2 DEF InsertDomain, OwnersStay
<1>5. UNCHANGED assetVars => OwnersStay
  BY DEF assetVars, OwnersStay
<1>. QED
  BY <1>2, <1>3, <1>4, <1>5
     DEF OwnershipNext, Discover, DiscoveryLost, Persist, Open, CommitAudit, Release,
         RevealLost, ownershipVars, assetVars

-----------------------------------------------------------------------------
(* Types and intents.                                                      *)

\* The initial states have the invariant.
LEMMA OwnershipInitially == OwnershipInit => OInv
BY OwnershipAssumption
   DEF OwnershipInit, OInv, OwnershipTypeOK, IntentsAreFresh, IntentOf, SealedByOwner,
       OpenIsAuthorized, ReleasedWasAuthorized, NoIntent, NoReveal, Intent

\* The tenant of an organization, and of a finding, is one or nobody.
LEMMA TenantOfType == ASSUME OwnershipTypeOK, NEW o \in Orgs PROVE TenantOf(o) \in Tenant
BY DEF OwnershipTypeOK, TenantOf, Tenant

\* Whatever owns the assets of a finding is an organization.
LEMMA OwnersAreOrgs == ASSUME NEW f \in Findings PROVE Owners(f) \subseteq Orgs
<1>1. Anchor[f].domain \in Orgs \union {Nobody}
  BY OwnershipAssumption
<1>. QED
  BY <1>1 DEF Owners

\* The tenant derived for a finding is a tenant or none.
LEMMA TenantForFindingType ==
  ASSUME OwnershipTypeOK, NEW f \in Findings PROVE TenantForFinding(f) \in Tenant
<1>1. CASE Anchor[f].org # Nobody
  <2>1. Anchor[f].org \in Orgs
    BY <1>1, OwnershipAssumption
  <2>. QED
    BY <1>1, <2>1, TenantOfType DEF TenantForFinding
<1>2. CASE Anchor[f].org = Nobody /\ \E o \in Orgs : Owners(f) = {o}
  <2>1. (CHOOSE o \in Orgs : Owners(f) = {o}) \in Orgs
    BY <1>2
  <2>. QED
    BY <1>2, <2>1, TenantOfType DEF TenantForFinding
<1>3. CASE Anchor[f].org = Nobody /\ ~\E o \in Orgs : Owners(f) = {o}
  BY <1>3 DEF TenantForFinding, Tenant
<1>. QED
  BY <1>1, <1>2, <1>3

\* A finding with a tenant is owned by it.
LEMMA TenantIsOwner ==
  ASSUME OwnershipTypeOK, NEW f \in Findings, TenantForFinding(f) # Nobody
  PROVE  IF Anchor[f].org # Nobody THEN orgTenant[Anchor[f].org] = TenantForFinding(f)
         ELSE \E o \in Owners(f) : orgTenant[o] = TenantForFinding(f)
<1>1. CASE Anchor[f].org # Nobody
  BY <1>1 DEF TenantForFinding, TenantOf
<1>2. CASE Anchor[f].org = Nobody
  <2>1. \E o \in Orgs : Owners(f) = {o}
    BY <1>2 DEF TenantForFinding
  <2>2. PICK o \in Orgs : o = (CHOOSE x \in Orgs : Owners(f) = {x}) /\ Owners(f) = {o}
    BY <2>1
  <2>3. TenantForFinding(f) = TenantOf(o)
    BY <1>2, <2>1, <2>2 DEF TenantForFinding
  <2>. QED
    BY <1>2, <2>2, <2>3 DEF TenantOf
<1>. QED
  BY <1>1, <1>2

\* Conversely, whoever owns what a finding was found in is its tenant, or
\* the finding has none.
LEMMA OwnerIsTenant ==
  ASSUME OwnershipTypeOK, NEW f \in Findings, NEW t \in Tenants,
         IF Anchor[f].org # Nobody THEN orgTenant[Anchor[f].org] = t
         ELSE \E o \in Owners(f) : orgTenant[o] = t
  PROVE  TenantForFinding(f) \in {t, Nobody}
<1>0. t # Missing
  BY OwnershipAssumption DEF Tenant
<1>1. CASE Anchor[f].org # Nobody
  BY <1>0, <1>1 DEF TenantForFinding, TenantOf
<1>2. CASE Anchor[f].org = Nobody /\ \E o \in Orgs : Owners(f) = {o}
  <2>1. PICK o \in Orgs : o = (CHOOSE x \in Orgs : Owners(f) = {x}) /\ Owners(f) = {o}
    BY <1>2
  <2>2. orgTenant[o] = t
    BY <1>2, <2>1
  <2>3. TenantForFinding(f) = TenantOf(o)
    BY <1>2, <2>1 DEF TenantForFinding
  <2>. QED
    BY <1>0, <2>2, <2>3 DEF TenantOf
<1>3. CASE Anchor[f].org = Nobody /\ ~\E o \in Orgs : Owners(f) = {o}
  BY <1>3 DEF TenantForFinding
<1>. QED
  BY <1>1, <1>2, <1>3

\* The types and the discoveries' intentions are kept.
LEMMA StepKeepsTypes ==
  OInv /\ [OwnershipNext]_ownershipVars => OwnershipTypeOK' /\ IntentsAreFresh'
<1>. SUFFICES ASSUME OInv, [OwnershipNext]_ownershipVars
              PROVE  OwnershipTypeOK' /\ IntentsAreFresh'
  OBVIOUS
<1>. USE DEF OInv
<1>1. ASSUME NEW w \in Discoverers, NEW i \in Intent, IntentOf(i), Intend(w, i)
      PROVE  intents' \in [Discoverers -> Intent] /\ IntentsAreFresh'
  BY <1>1 DEF Intend, OwnershipTypeOK, IntentsAreFresh
<1>2. NoIntent \in Intent /\ IntentOf(NoIntent)
  BY DEF NoIntent, Intent, IntentOf
<1>3. ASSUME NEW w \in Discoverers, Discover(w) PROVE OwnershipTypeOK' /\ IntentsAreFresh'
  <2>1. CASE ReadOrganization(w)
    <3>1. PICK o \in Orgs, t \in Tenant :
            /\ orgTenant[o] \in Unowned
            /\ Intend(w, [kind |-> "organization", target |-> o, owner |-> t, seen |-> orgTenant[o]])
      BY <2>1 DEF ReadOrganization
    <3>2. [kind |-> "organization", target |-> o, owner |-> t, seen |-> orgTenant[o]] \in Intent
      BY <3>1 DEF Intent, Tenant, Unowned
    <3>3. IntentOf([kind |-> "organization", target |-> o, owner |-> t, seen |-> orgTenant[o]])
      BY <3>1 DEF IntentOf
    <3>. QED
      BY <1>1, <1>3, <3>1, <3>2, <3>3 DEF Discover, OwnershipTypeOK, assetVars, vaultVars
  <2>2. CASE ReadRepository(w)
    <3>1. PICK r \in Repos, o \in Orgs \union {Nobody} :
            /\ repoOrg[r] \in Unowned
            /\ Intend(w, [kind |-> "repository", target |-> r, owner |-> o, seen |-> repoOrg[r]])
      BY <2>2 DEF ReadRepository
    <3>2. [kind |-> "repository", target |-> r, owner |-> o, seen |-> repoOrg[r]] \in Intent
      BY <3>1 DEF Intent, Unowned
    <3>3. IntentOf([kind |-> "repository", target |-> r, owner |-> o, seen |-> repoOrg[r]])
      BY <3>1 DEF IntentOf
    <3>. QED
      BY <1>1, <1>3, <3>1, <3>2, <3>3 DEF Discover, OwnershipTypeOK, assetVars, vaultVars
  <2>3. CASE ReadDomain(w)
    <3>1. PICK o \in Orgs :
            /\ orgTenant[o] # Missing
            /\ Intend(w, [kind |-> "domain", target |-> o, owner |-> orgTenant[o], seen |-> Missing])
      BY <2>3 DEF ReadDomain
    <3>2. orgTenant[o] \in Tenant
      BY <3>1 DEF OwnershipTypeOK
    <3>3. [kind |-> "domain", target |-> o, owner |-> orgTenant[o], seen |-> Missing] \in Intent
      BY <3>2 DEF Intent, Tenant
    <3>4. IntentOf([kind |-> "domain", target |-> o, owner |-> orgTenant[o], seen |-> Missing])
      BY <3>2 DEF IntentOf
    <3>. QED
      BY <1>1, <1>3, <3>1, <3>3, <3>4 DEF Discover, OwnershipTypeOK, assetVars, vaultVars
  <2>. QED
    BY <1>3, <2>1, <2>2, <2>3 DEF Discover
<1>4. ASSUME NEW w \in Discoverers, WriteOrganization(w)
      PROVE  OwnershipTypeOK' /\ IntentsAreFresh'
  <2>1. intents[w].owner \in Tenant
    BY <1>4 DEF WriteOrganization, IntentsAreFresh, IntentOf
  <2>2. orgTenant' \in [Orgs -> Tenant \union {Missing}]
    <3>1. ASSUME NEW o \in Orgs
          PROVE  Stored(intents[w].seen, intents[w].owner, orgTenant[o]) \in Tenant \union {Missing}
      BY <2>1, StoredIsOneOfTwo DEF OwnershipTypeOK
    <3>. QED
      BY <1>4, <3>1 DEF WriteOrganization, OwnershipTypeOK
  <2>. QED
    BY <1>1, <1>2, <1>4, <2>2 DEF WriteOrganization, Done, OwnershipTypeOK, vaultVars
<1>5. ASSUME NEW w \in Discoverers, WriteRepository(w)
      PROVE  OwnershipTypeOK' /\ IntentsAreFresh'
  <2>1. intents[w].owner \in Orgs \union {Nobody}
    BY <1>5 DEF WriteRepository, IntentsAreFresh, IntentOf
  <2>2. repoOrg' \in [Repos -> Orgs \union {Nobody, Missing}]
    <3>1. ASSUME NEW r \in Repos
          PROVE  Stored(intents[w].seen, intents[w].owner, repoOrg[r])
                   \in Orgs \union {Nobody, Missing}
      BY <2>1, StoredIsOneOfTwo DEF OwnershipTypeOK
    <3>. QED
      BY <1>5, <3>1 DEF WriteRepository, OwnershipTypeOK
  <2>. QED
    BY <1>1, <1>2, <1>5, <2>2 DEF WriteRepository, Done, OwnershipTypeOK, vaultVars
<1>6. ASSUME NEW w \in Discoverers, InsertDomain(w)
      PROVE  OwnershipTypeOK' /\ IntentsAreFresh'
  <2>1. intents[w].owner \in Tenant
    BY <1>6 DEF InsertDomain, IntentsAreFresh, IntentOf
  <2>2. domainOf' \in [Orgs -> Tenant \union {Missing}]
    BY <1>6, <2>1 DEF InsertDomain, OwnershipTypeOK
  <2>. QED
    BY <1>1, <1>2, <1>6, <2>2 DEF InsertDomain, Done, OwnershipTypeOK, vaultVars
<1>7. ASSUME NEW w \in Discoverers, DiscoveryLost(w)
      PROVE  OwnershipTypeOK' /\ IntentsAreFresh'
  BY <1>1, <1>2, <1>7 DEF DiscoveryLost, Done, OwnershipTypeOK, assetVars, vaultVars
<1>8. ASSUME NEW f \in Findings, Persist(f) PROVE OwnershipTypeOK' /\ IntentsAreFresh'
  <2>1. TenantForFinding(f) \in Tenants
    BY <1>8, TenantForFindingType DEF Persist, Tenant
  <2>. QED
    BY <1>8, <2>1 DEF Persist, OwnershipTypeOK, assetVars, IntentsAreFresh
<1>9. ASSUME NEW q \in Readers, Open(q) PROVE OwnershipTypeOK' /\ IntentsAreFresh'
  <2>1. PICK c \in Contexts, f \in Findings :
          /\ Authorized(c, f)
          /\ reveals' = [reveals EXCEPT ![q] =
               [at |-> "open", context |-> c, finding |-> f, tenant |-> TenantForFinding(f)]]
    BY <1>9 DEF Open
  <2>2. TenantForFinding(f) \in Tenants
    BY <2>1, TenantForFindingType DEF Authorized, Tenant
  <2>3. [at |-> "open", context |-> c, finding |-> f, tenant |-> TenantForFinding(f)] \in Opened
    BY <2>2 DEF Opened
  <2>. QED
    BY <1>9, <2>1, <2>3 DEF Open, OwnershipTypeOK, assetVars, IntentsAreFresh
<1>10. ASSUME NEW q \in Readers, CommitAudit(q) PROVE OwnershipTypeOK' /\ IntentsAreFresh'
  <2>1. reveals[q] \in Opened
    BY <1>10 DEF CommitAudit, OwnershipTypeOK, NoReveal
  <2>2. reveals' \in [Readers -> Opened \union {NoReveal}]
    BY <1>10, <2>1 DEF CommitAudit, OwnershipTypeOK, Opened
  <2>3. audits' \in [Contexts -> [Findings -> Nat]]
    BY <1>10, <2>1 DEF CommitAudit, OwnershipTypeOK, Opened
  <2>. QED
    BY <1>10, <2>2, <2>3 DEF CommitAudit, OwnershipTypeOK, assetVars, IntentsAreFresh
<1>11. ASSUME NEW q \in Readers, Release(q) PROVE OwnershipTypeOK' /\ IntentsAreFresh'
  <2>1. reveals[q] \in Opened
    BY <1>11 DEF Release, OwnershipTypeOK, NoReveal
  <2>2. released' \in [Contexts -> [Findings -> Nat]]
    BY <1>11, <2>1 DEF Release, OwnershipTypeOK, Opened
  <2>. QED
    BY <1>11, <2>2 DEF Release, OwnershipTypeOK, assetVars, IntentsAreFresh
<1>12. ASSUME NEW q \in Readers, RevealLost(q) PROVE OwnershipTypeOK' /\ IntentsAreFresh'
  BY <1>12 DEF RevealLost, OwnershipTypeOK, assetVars, IntentsAreFresh
<1>13. CASE UNCHANGED ownershipVars
  BY <1>13 DEF ownershipVars, assetVars, vaultVars, OwnershipTypeOK, IntentsAreFresh
<1>. QED
  BY <1>3, <1>4, <1>5, <1>6, <1>7, <1>8, <1>9, <1>10, <1>11, <1>12, <1>13 DEF OwnershipNext

-----------------------------------------------------------------------------
(* Secrets.                                                                *)

\* Where owners stay, a finding loses none.
LEMMA OwnersGrow ==
  ASSUME OwnershipTypeOK, OwnersStay, NEW f \in Findings PROVE Owners(f) \subseteq Owners(f)'
<1>1. Anchor[f].repo \in Repos \union {Nobody}
  BY OwnershipAssumption
<1>2. ASSUME Anchor[f].repo # Nobody, repoOrg[Anchor[f].repo] \in Orgs
      PROVE  repoOrg'[Anchor[f].repo] = repoOrg[Anchor[f].repo]
  BY <1>1, <1>2 DEF OwnersStay
<1>. QED
  BY <1>2 DEF Owners

\* A seal stays, and so do the owners it was made for.
LEMMA StepKeepsSeals == OInv /\ [OwnershipNext]_ownershipVars => SealedByOwner'
<1>. SUFFICES ASSUME OInv, [OwnershipNext]_ownershipVars, NEW f \in Findings, vault'[f] # Missing
              PROVE  IF Anchor[f].org # Nobody THEN orgTenant'[Anchor[f].org] = vault'[f]
                     ELSE \E o \in Owners(f)' : orgTenant'[o] = vault'[f]
  BY DEF SealedByOwner
<1>1. OwnershipTypeOK /\ OwnersStay /\ SealedByOwner
  BY StepKeepsOwners DEF OInv
<1>2. /\ Anchor[f].org # Nobody => Anchor[f].org \in Orgs
      /\ Owners(f) \subseteq Orgs
  BY OwnershipAssumption, OwnersAreOrgs
<1>3. ASSUME vault[f] # Missing, vault'[f] = vault[f]
      PROVE  IF Anchor[f].org # Nobody THEN orgTenant'[Anchor[f].org] = vault'[f]
             ELSE \E o \in Owners(f)' : orgTenant'[o] = vault'[f]
  <2>1. vault[f] \in Tenants
    BY <1>1, <1>3 DEF OwnershipTypeOK
  <2>2. CASE Anchor[f].org # Nobody
    BY <1>1, <1>2, <1>3, <2>1, <2>2 DEF SealedByOwner, OwnersStay
  <2>3. CASE Anchor[f].org = Nobody
    <3>1. PICK o \in Owners(f) : orgTenant[o] = vault[f]
      BY <1>1, <1>3, <2>3 DEF SealedByOwner
    <3>2. o \in Owners(f)'
      BY <1>1, OwnersGrow
    <3>3. orgTenant'[o] = orgTenant[o]
      BY <1>1, <1>2, <2>1, <3>1 DEF OwnersStay
    <3>. QED
      BY <1>3, <2>3, <3>1, <3>2, <3>3
  <2>. QED
    BY <2>2, <2>3
<1>4. ASSUME Persist(f)
      PROVE  IF Anchor[f].org # Nobody THEN orgTenant'[Anchor[f].org] = vault'[f]
             ELSE \E o \in Owners(f)' : orgTenant'[o] = vault'[f]
  <2>1. TenantForFinding(f) # Nobody /\ vault'[f] = TenantForFinding(f) /\ orgTenant' = orgTenant
    BY <1>1, <1>4 DEF Persist, OwnershipTypeOK, assetVars
  <2>. QED
    BY <1>1, <2>1, OwnersGrow, TenantIsOwner
<1>5. ASSUME NEW g \in Findings, g # f, Persist(g) PROVE vault'[f] = vault[f]
  BY <1>1, <1>5 DEF Persist, OwnershipTypeOK
<1>6. UNCHANGED vault => vault'[f] = vault[f]
  OBVIOUS
<1>. QED
  BY <1>3, <1>4, <1>5, <1>6
     DEF OwnershipNext, Discover, WriteOrganization, WriteRepository, InsertDomain,
         DiscoveryLost, Open, CommitAudit, Release, RevealLost, ownershipVars, vaultVars

\* A secret is sealed once.
LEMMA SealsStay ==
  OInv /\ [OwnershipNext]_ownershipVars =>
    \A f \in Findings : vault[f] # Missing => vault'[f] = vault[f]
<1>. SUFFICES ASSUME OInv, [OwnershipNext]_ownershipVars, NEW f \in Findings, vault[f] # Missing
              PROVE  vault'[f] = vault[f]
  OBVIOUS
<1>1. ASSUME NEW g \in Findings, Persist(g) PROVE vault'[f] = vault[f]
  BY <1>1 DEF Persist, OInv, OwnershipTypeOK
<1>. QED
  BY <1>1
     DEF OwnershipNext, Discover, WriteOrganization, WriteRepository, InsertDomain,
         DiscoveryLost, Open, CommitAudit, Release, RevealLost, ownershipVars, vaultVars

\* Reveals are opened for those who may read, and release to them.
LEMMA StepKeepsAuthorization ==
  OInv /\ [OwnershipNext]_ownershipVars => OpenIsAuthorized' /\ ReleasedWasAuthorized'
<1>. SUFFICES ASSUME OInv, [OwnershipNext]_ownershipVars
              PROVE  OpenIsAuthorized' /\ ReleasedWasAuthorized'
  OBVIOUS
<1>0. /\ OwnershipTypeOK /\ OpenIsAuthorized /\ ReleasedWasAuthorized
      /\ \A f \in Findings : vault[f] # Missing => vault'[f] = vault[f]
  BY SealsStay DEF OInv
<1>1. ASSUME NEW q \in Readers, reveals[q].at # "idle"
      PROVE  /\ reveals[q] \in Opened /\ vault[reveals[q].finding] = reveals[q].tenant
             /\ vault'[reveals[q].finding] = reveals[q].tenant
             /\ reveals[q].tenant # Missing
             /\ AllowsTenant(reveals[q].context, reveals[q].tenant)
  <2>1. reveals[q] \in Opened
    BY <1>0, <1>1 DEF OwnershipTypeOK, NoReveal
  <2>2. reveals[q].tenant # Missing
    BY <2>1, OwnershipAssumption DEF Opened, Tenant
  <2>. QED
    BY <1>0, <1>1, <2>1, <2>2 DEF OpenIsAuthorized, Opened
<1>2. released' = released => ReleasedWasAuthorized'
  BY <1>0 DEF ReleasedWasAuthorized
<1>3. reveals' = reveals => OpenIsAuthorized'
  BY <1>1 DEF OpenIsAuthorized
<1>4. ASSUME NEW q \in Readers, reveals' = [reveals EXCEPT ![q] = NoReveal]
      PROVE  OpenIsAuthorized'
  BY <1>0, <1>1, <1>4 DEF OpenIsAuthorized, OwnershipTypeOK, NoReveal
<1>5. ASSUME NEW q \in Readers, Open(q) PROVE OpenIsAuthorized'
  <2>1. PICK c \in Contexts, f \in Findings :
          /\ Authorized(c, f)
          /\ reveals' = [reveals EXCEPT ![q] =
               [at |-> "open", context |-> c, finding |-> f, tenant |-> TenantForFinding(f)]]
    BY <1>5 DEF Open
  <2>2. vault[f] = TenantForFinding(f) /\ AllowsTenant(c, TenantForFinding(f)) /\ vault' = vault
    BY <1>5, <2>1 DEF Open, Authorized
  <2>. QED
    BY <1>0, <1>1, <2>1, <2>2 DEF OpenIsAuthorized, OwnershipTypeOK
<1>6. ASSUME NEW q \in Readers, reveals[q].at # "idle",
             reveals' = [reveals EXCEPT ![q].at = "audited"]
      PROVE  OpenIsAuthorized'
  BY <1>0, <1>1, <1>6 DEF OpenIsAuthorized, OwnershipTypeOK, Opened
<1>7. ASSUME NEW q \in Readers, CommitAudit(q) PROVE OpenIsAuthorized'
  BY <1>4, <1>6, <1>7 DEF CommitAudit
<1>8. ASSUME NEW q \in Readers, Release(q) PROVE ReleasedWasAuthorized'
  <2>1. /\ reveals[q].at # "idle"
        /\ released' = [released EXCEPT ![reveals[q].context][reveals[q].finding] = @ + 1]
    BY <1>8 DEF Release
  <2>2. SUFFICES ASSUME NEW c \in Contexts, NEW f \in Findings, released'[c][f] > 0
                 PROVE  vault'[f] # Missing /\ AllowsTenant(c, vault'[f])
    BY DEF ReleasedWasAuthorized
  <2>3. CASE c = reveals[q].context /\ f = reveals[q].finding
    BY <1>1, <2>1, <2>3
  <2>4. CASE ~(c = reveals[q].context /\ f = reveals[q].finding)
    <3>1. released'[c][f] = released[c][f]
      BY <1>0, <2>1, <2>4 DEF OwnershipTypeOK
    <3>. QED
      BY <1>0, <2>2, <3>1 DEF ReleasedWasAuthorized
  <2>. QED
    BY <2>3, <2>4
<1>. QED
  BY <1>2, <1>3, <1>4, <1>5, <1>7, <1>8
     DEF OwnershipNext, Discover, WriteOrganization, WriteRepository, InsertDomain,
         DiscoveryLost, Persist, Open, CommitAudit, Release, RevealLost, ownershipVars, vaultVars

\* Every step keeps the invariant.
LEMMA StepKeepsOwnership == OInv /\ [OwnershipNext]_ownershipVars => OInv'
BY StepKeepsTypes, StepKeepsSeals, StepKeepsAuthorization DEF OInv

\* In every state of the specification the invariant holds.
THEOREM OwnershipInvariance == OwnershipSpec => []OInv
BY OwnershipInitially, StepKeepsOwnership, PTL DEF OwnershipSpec

\* Discoveries and the vault keep the values of their columns in range.
THEOREM OwnershipTypesCorrect == OwnershipSpec => []OwnershipTypeOK
<1>1. OInv => OwnershipTypeOK
  BY DEF OInv
<1>. QED
  BY <1>1, OwnershipInvariance, PTL

\* _claim_unassigned_owner: an owner that is stored never changes, whatever
\* discoveries race and whatever each of them has read.
THEOREM OwnersNeverMove == OwnershipSpec => OwnershipNeverMoves
<1>1. OInv /\ [OwnershipNext]_ownershipVars =>
        [/\ \A o \in Orgs : orgTenant[o] \in Tenants => orgTenant'[o] = orgTenant[o]
         /\ \A r \in Repos : repoOrg[r] \in Orgs => repoOrg'[r] = repoOrg[r]
         /\ \A o \in Orgs : domainOf[o] # Missing => domainOf'[o] = domainOf[o]]_ownershipVars
  BY StepKeepsOwners DEF OwnersStay
<1>. QED
  BY <1>1, OwnershipInvariance, PTL DEF OwnershipSpec, OwnershipNeverMoves

\* tenant_for_finding: the tenant a secret was sealed for remains the only
\* one its finding can have, and the only one whose principals receive it.
THEOREM SecretsAreConfined == OwnershipSpec => []SecretsStayWithTenant
<1>1. OInv => SecretsStayWithTenant
  <2>. SUFFICES ASSUME OInv, NEW f \in Findings, vault[f] # Missing
                PROVE  /\ TenantForFinding(f) \in {vault[f], Nobody}
                       /\ \A c \in Contexts : released[c][f] > 0 => AllowsTenant(c, vault[f])
    BY DEF SecretsStayWithTenant
  <2>1. OwnershipTypeOK /\ vault[f] \in Tenants
    BY DEF OInv, OwnershipTypeOK
  <2>2. TenantForFinding(f) \in {vault[f], Nobody}
    BY <2>1, OwnerIsTenant DEF OInv, SealedByOwner
  <2>. QED
    BY <2>2 DEF OInv, ReleasedWasAuthorized
<1>. QED
  BY <1>1, OwnershipInvariance, PTL

-----------------------------------------------------------------------------
(* The audit.                                                              *)

\* Reveals whose audit row is committed and whose plaintext is not out yet.
Pending(c, f) ==
  {q \in Readers : /\ reveals[q].at = "audited"
                   /\ reveals[q].context = c /\ reveals[q].finding = f}

AuditsCover ==
  \A c \in Contexts, f \in Findings :
    /\ IsFiniteSet(Pending(c, f))
    /\ released[c][f] + Cardinality(Pending(c, f)) <= audits[c][f]

\* No plaintext has left at the start.
LEMMA AuditsCoverInitially == OwnershipInit => AuditsCover
<1>. SUFFICES ASSUME OwnershipInit, NEW c \in Contexts, NEW f \in Findings
              PROVE  /\ IsFiniteSet(Pending(c, f))
                     /\ released[c][f] + Cardinality(Pending(c, f)) <= audits[c][f]
  BY DEF AuditsCover
<1>1. Pending(c, f) = {}
  BY DEF OwnershipInit, Pending, NoReveal
<1>2. released[c][f] = 0 /\ audits[c][f] = 0
  BY DEF OwnershipInit
<1>. QED
  BY <1>1, <1>2, FS_EmptySet

\* The audit row comes before the release, and each release uses one up.
LEMMA StepKeepsAudits == OInv /\ AuditsCover /\ [OwnershipNext]_ownershipVars => AuditsCover'
<1>. SUFFICES ASSUME OInv, AuditsCover, [OwnershipNext]_ownershipVars,
                     NEW c \in Contexts, NEW f \in Findings
              PROVE  /\ IsFiniteSet(Pending(c, f)')
                     /\ released'[c][f] + Cardinality(Pending(c, f)') <= audits'[c][f]
  BY DEF AuditsCover
<1>0. /\ OwnershipTypeOK
      /\ released[c][f] \in Nat /\ audits[c][f] \in Nat
      /\ IsFiniteSet(Pending(c, f)) /\ Cardinality(Pending(c, f)) \in Nat
      /\ released[c][f] + Cardinality(Pending(c, f)) <= audits[c][f]
  BY FS_CardinalityType DEF OInv, OwnershipTypeOK, AuditsCover
<1>. DEFINE Goal == /\ IsFiniteSet(Pending(c, f)')
                    /\ released'[c][f] + Cardinality(Pending(c, f)') <= audits'[c][f]
<1>1. ASSUME UNCHANGED <<reveals, audits, released>> PROVE Goal
  BY <1>0, <1>1 DEF Pending
<1>2. ASSUME NEW q \in Readers, Open(q) PROVE Goal
  <2>1. reveals[q].at = "idle" /\ released' = released /\ audits' = audits
    BY <1>2 DEF Open
  <2>2. PICK r : r.at = "open" /\ reveals' = [reveals EXCEPT ![q] = r]
    BY <1>2 DEF Open
  <2>3. Pending(c, f)' = Pending(c, f)
    BY <1>0, <2>1, <2>2 DEF Pending, OwnershipTypeOK
  <2>. QED
    BY <1>0, <2>1, <2>3
<1>3. ASSUME NEW q \in Readers, CommitAudit(q) PROVE Goal
  <2>1. reveals[q].at = "open" /\ released' = released /\ reveals[q] \in Opened
    BY <1>0, <1>3 DEF CommitAudit, OwnershipTypeOK, NoReveal
  <2>2. CASE audits' = audits /\ reveals' = [reveals EXCEPT ![q] = NoReveal]
    <3>1. Pending(c, f)' = Pending(c, f)
      BY <1>0, <2>1, <2>2 DEF Pending, OwnershipTypeOK, NoReveal
    <3>. QED
      BY <1>0, <2>1, <2>2, <3>1
  <2>3. CASE /\ audits' = [audits EXCEPT ![reveals[q].context][reveals[q].finding] = @ + 1]
             /\ reveals' = [reveals EXCEPT ![q].at = "audited"]
    <3>1. CASE reveals[q].context = c /\ reveals[q].finding = f
      <4>1. Pending(c, f)' = Pending(c, f) \union {q} /\ q \notin Pending(c, f)
        BY <1>0, <2>1, <2>3, <3>1 DEF Pending, OwnershipTypeOK, Opened
      <4>2. /\ IsFiniteSet(Pending(c, f)')
            /\ Cardinality(Pending(c, f)') = Cardinality(Pending(c, f)) + 1
        BY <1>0, <4>1, FS_AddElement
      <4>3. audits'[c][f] = audits[c][f] + 1
        BY <1>0, <2>3, <3>1 DEF OwnershipTypeOK
      <4>. QED
        BY <1>0, <2>1, <4>2, <4>3
    <3>2. CASE ~(reveals[q].context = c /\ reveals[q].finding = f)
      <4>1. Pending(c, f)' = Pending(c, f)
        BY <1>0, <2>1, <2>3, <3>2 DEF Pending, OwnershipTypeOK, Opened
      <4>2. audits'[c][f] = audits[c][f]
        BY <1>0, <2>3, <3>2 DEF OwnershipTypeOK
      <4>. QED
        BY <1>0, <2>1, <4>1, <4>2
    <3>. QED
      BY <3>1, <3>2
  <2>. QED
    BY <1>3, <2>2, <2>3 DEF CommitAudit
<1>4. ASSUME NEW q \in Readers, Release(q) PROVE Goal
  <2>1. /\ reveals[q].at = "audited" /\ audits' = audits /\ reveals[q] \in Opened
        /\ reveals' = [reveals EXCEPT ![q] = NoReveal]
        /\ released' = [released EXCEPT ![reveals[q].context][reveals[q].finding] = @ + 1]
    BY <1>0, <1>4 DEF Release, OwnershipTypeOK, NoReveal
  <2>2. CASE reveals[q].context = c /\ reveals[q].finding = f
    <3>1. Pending(c, f)' = Pending(c, f) \ {q} /\ q \in Pending(c, f)
      BY <1>0, <2>1, <2>2 DEF Pending, OwnershipTypeOK, NoReveal
    <3>2. /\ IsFiniteSet(Pending(c, f)')
          /\ Cardinality(Pending(c, f)') = Cardinality(Pending(c, f)) - 1
      BY <1>0, <3>1, FS_RemoveElement
    <3>3. released'[c][f] = released[c][f] + 1
      BY <1>0, <2>1, <2>2 DEF OwnershipTypeOK
    <3>. QED
      BY <1>0, <2>1, <3>2, <3>3
  <2>3. CASE ~(reveals[q].context = c /\ reveals[q].finding = f)
    <3>1. Pending(c, f)' = Pending(c, f)
      BY <1>0, <2>1, <2>3 DEF Pending, OwnershipTypeOK, NoReveal
    <3>2. released'[c][f] = released[c][f]
      BY <1>0, <2>1, <2>3 DEF OwnershipTypeOK
    <3>. QED
      BY <1>0, <2>1, <3>1, <3>2
  <2>. QED
    BY <2>2, <2>3
<1>5. ASSUME NEW q \in Readers, RevealLost(q) PROVE Goal
  <2>1. /\ reveals' = [reveals EXCEPT ![q] = NoReveal]
        /\ released' = released /\ audits' = audits
    BY <1>5 DEF RevealLost
  <2>2. Pending(c, f)' \subseteq Pending(c, f)
    BY <1>0, <2>1 DEF Pending, OwnershipTypeOK, NoReveal
  <2>3. /\ IsFiniteSet(Pending(c, f)')
        /\ Cardinality(Pending(c, f)') <= Cardinality(Pending(c, f))
    BY <1>0, <2>2, FS_Subset
  <2>4. Cardinality(Pending(c, f)') \in Nat
    BY <2>3, FS_CardinalityType
  <2>. QED
    BY <1>0, <2>1, <2>3, <2>4
<1>. QED
  BY <1>1, <1>2, <1>3, <1>4, <1>5
     DEF OwnershipNext, Discover, WriteOrganization, WriteRepository, InsertDomain,
         DiscoveryLost, Persist, ownershipVars, vaultVars

\* reveal: no more plaintexts have left than audit rows are durable, for
\* each principal and finding, whatever commits failed or processes died.
THEOREM EveryRevealIsAudited == OwnershipSpec => []RevealIsAudited
<1>1. OwnershipSpec => []AuditsCover
  BY AuditsCoverInitially, StepKeepsAudits, OwnershipInvariance, PTL DEF OwnershipSpec
<1>2. OInv /\ AuditsCover => RevealIsAudited
  <2>. SUFFICES ASSUME OInv, AuditsCover, NEW c \in Contexts, NEW f \in Findings
                PROVE  released[c][f] <= audits[c][f]
    BY DEF RevealIsAudited
  <2>1. released[c][f] \in Nat /\ audits[c][f] \in Nat
    BY DEF OInv, OwnershipTypeOK
  <2>2. /\ Cardinality(Pending(c, f)) \in Nat
        /\ released[c][f] + Cardinality(Pending(c, f)) <= audits[c][f]
    BY FS_CardinalityType DEF AuditsCover
  <2>. QED
    BY <2>1, <2>2
<1>. QED
  BY <1>1, <1>2, OwnershipInvariance, PTL
=============================================================================
