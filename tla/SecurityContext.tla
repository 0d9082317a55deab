-------------------------- MODULE SecurityContext --------------------------
(***************************************************************************)
(* The authorization context that travels with a request or a job          *)
(* (security_context.py), and the order of roles it is built on.           *)
(***************************************************************************)
EXTENDS Integers

CONSTANTS
  Tenants,    \* tenant keys
  AllTenants, \* the key "*"
  Nobody      \* no value: no context, no user, no tenant

ASSUME ContextAssumption ==
  /\ AllTenants \notin Tenants
  /\ Nobody \notin Tenants \union {AllTenants}

Role == {"reader", "analyst", "admin"}

ROLE_LEVELS == [reader |-> 1, analyst |-> 2, admin |-> 3]

Scope == Tenants \union {AllTenants}

Source == {"local", "env-token", "db-session", "browser-session"}

\* reveal: the context carries the capability secrets:reveal.
AuthContext ==
  [role : Role, tenants : SUBSET Scope, authenticated : BOOLEAN, source : Source,
   reveal : BOOLEAN]

LOCAL_CONTEXT ==
  [role |-> "admin", tenants |-> {AllTenants}, authenticated |-> FALSE, source |-> "local",
   reveal |-> FALSE]

AllowsRole(context, required) == ROLE_LEVELS[context.role] >= ROLE_LEVELS[required]

AllowsTenant(context, tenant) ==
  \/ AllTenants \in context.tenants
  \/ tenant # Nobody /\ tenant \in context.tenants

AllowsSecretReveal(context) ==
  /\ context.authenticated
  /\ \/ context.role = "admin"
     \/ context.role = "analyst" /\ context.reveal

\* The lowest of a nonempty set of roles.
CappedRole(roles) ==
  CHOOSE role \in roles : \A other \in roles : ROLE_LEVELS[role] <= ROLE_LEVELS[other]
=============================================================================
