-------------------------- MODULE DomainDiscovery --------------------------
(***************************************************************************)
(* Discovery outside an assessment: the domain providers of providers.py   *)
(* under services/scan_service.execute_domain_plan, the bounded search of  *)
(* services/github_search.py among them, and the expansion of public       *)
(* GitHub repositories (services/discovery_service.py and                  *)
(* relationship_service.py).                                               *)
(*                                                                         *)
(* Every investigator has a database session of its own and may be at any  *)
(* request while the others are at theirs.  One domain is enough; what a   *)
(* provider tells about the domain itself is left out, hosts, identities   *)
(* and references to repositories are kept.                                *)
(***************************************************************************)
EXTENDS Integers, FiniteSets, Sequences

CONSTANTS
  Investigators, \* database sessions
  LegacyPlans,   \* what each may be asked for: a provider or an expansion
  HostNames,     \* names below the domain
  GitHubRepos,   \* repositories elsewhere
  SensitiveNames, \* bound: file names code search is also tried with (3 in the code)
  ScopeLimit,    \* bound: repositories a code search is confined to (5 in the code)
  MaxPages,      \* bound: pages of a query
  PageSize,      \* bound: results on a page (10 in the code)
  Effort,        \* bound: what each plan counts for
  MaxEffort      \* bound: what the plans that are started count for

AllProviders == <<"local-metadata", "crtsh", "projectdiscovery", "whois", "dns">>

AllEnriched ==
  AllProviders \o <<"securitytxt", "github-search", "hibp", "dehashed", "intelligencex">>

Aggregates == {"all", "all-enriched"}
DomainProviders == {AllEnriched[i] : i \in DOMAIN AllEnriched} \union Aggregates
Expansions == {"discover-repository", "expand-repository", "organization"}

ASSUME DomainDiscoveryAssumption ==
  /\ LegacyPlans \in [Investigators -> SUBSET (DomainProviders \union Expansions)]
  /\ {SensitiveNames, ScopeLimit, MaxPages, PageSize, MaxEffort} \subseteq Nat
  /\ \A p \in DomainProviders \union Expansions : Effort[p] \in Nat
  /\ "unwritten" \notin HostNames

\* What has to be asked, one after the other.
Agenda(p) ==
  CASE p = "all" -> AllProviders
    [] p = "all-enriched" -> AllEnriched
    [] p = "expand-repository" -> <<"repository", "contributors", "forks", "commits">>
    [] p = "discover-repository" -> <<"repository">>
    [] OTHER -> <<p>>

\* build_queries for one identifier.
SearchQueries == <<"repositories", "code", "issues">> \o [i \in 1..SensitiveNames |-> "code"]

\* The providers that relate identities to the domain.
Correlators == {"local-metadata", "securitytxt", "github-search", "dehashed", "intelligencex"}

Unwritten == {"unwritten"}

NoSearch == [status |-> "none", query |-> 1, page |-> 1, verified |-> {}, answered |-> {}]

\* What a session did and did not commit: the listing of hosts it read and
\* the one it wrote, its exposures of hosts, correlations and references.
AtRest ==
  [at |-> "idle", plan |-> "none", todo |-> <<>>, read |-> {}, own |-> Unwritten,
   files |-> {}, relates |-> {}, refers |-> {}, search |-> NoSearch, deferred |-> FALSE]

\* The committed rows of a session's last plan.
NoRows == [plan |-> "none", job |-> "none", search |-> "none", answered |-> {}, kept |-> FALSE]

VARIABLES
  openness,   \* what GitHub lets everybody see (external)
  marked,     \* repositories.is_private
  subdomains, \* domains.discovered_subdomains
  filed,      \* hosts with a row in domain_exposures
  correlated, \* rows of identity_correlations, by provider
  references, \* findings that refer to a repository, and expanded repositories
  inquiry,    \* the sessions
  verdict,    \* the jobs
  inquiries,  \* what the plans that were started count for
  overlapped  \* two plans ran at the same time

tables == <<marked, subdomains, filed, correlated, references>>
legacyVars == <<openness, tables, inquiry, verdict, inquiries, overlapped>>

LegacyInit ==
  /\ openness \in [GitHubRepos -> {"public", "private"}]
  /\ marked \in SUBSET {r \in GitHubRepos : openness[r] = "private"}
  /\ subdomains = {} /\ filed = {} /\ references = {}
  /\ correlated = [p \in Correlators |-> 0]
  /\ inquiry = [w \in Investigators |-> AtRest]
  /\ verdict = [w \in Investigators |-> NoRows]
  /\ inquiries = 0 /\ overlapped = FALSE

-----------------------------------------------------------------------------
(* What the providers answer: hosts to list, hosts to file an exposure of, *)
(* whether an identity is related, and whether a DomainProviderError ends  *)
(* it (after what was stored before).                                      *)

Answer(lists, files, relates, raises) ==
  [lists |-> lists, files |-> files, relates |-> relates, raises |-> raises]

Nothing == Answer({}, {}, FALSE, FALSE)

\* _request_json and _run_provider_process: no configuration, time, size,
\* status or form of the answer.
Raised == Answer({}, {}, FALSE, TRUE)

\* Matching repositories are exposures of the domain, matching accounts
\* related identities.
LocalMetadata == {Answer({}, {}, related, FALSE) : related \in BOOLEAN}

\* Names outside the domain and wildcards are passed over.
CrtSh == {Raised} \union {Answer(hosts, hosts, FALSE, FALSE) : hosts \in SUBSET HostNames}

\* Hosts of subfinder are listed before httpx is asked about them, and more
\* than the limit are refused.
ProjectDiscovery ==
  {Raised, Nothing}
  \union {Answer(hosts, hosts, FALSE, raises) : hosts \in (SUBSET HostNames) \ {{}}, raises \in BOOLEAN}

Whois == {Raised, Nothing}

\* The domain and its listed hosts are resolved; a lookup that fails is a
\* warning.
Dns(listed) == {Answer({}, hosts, FALSE, FALSE) : hosts \in SUBSET listed}

\* No file at either place is a warning; a contact may be an address.
SecurityTxt == {Raised, Nothing, Answer({}, {}, TRUE, FALSE)}

Hibp == {Raised, Nothing}

DeHashed == {Raised, Nothing, Answer({}, {}, TRUE, FALSE)}

IntelligenceX == {Raised, Nothing, Answer({}, {}, TRUE, FALSE)}

AnswersOf(p, listed) ==
  CASE p = "local-metadata" -> LocalMetadata
    [] p = "crtsh" -> CrtSh
    [] p = "projectdiscovery" -> ProjectDiscovery
    [] p = "whois" -> Whois
    [] p = "dns" -> Dns(listed)
    [] p = "securitytxt" -> SecurityTxt
    [] p = "hibp" -> Hibp
    [] p = "dehashed" -> DeHashed
    [] OTHER -> IntelligenceX

-----------------------------------------------------------------------------
(* Jobs and sessions. *)

Goes(w, session) == inquiry' = [inquiry EXCEPT ![w] = session]

Inquiring(w) == inquiry[w].at # "idle"

\* execute_domain_plan commits job and tool run first; an expansion has none.
StartInquiry(w) ==
  /\ ~Inquiring(w)
  /\ \E p \in LegacyPlans[w] :
       /\ inquiries + Effort[p] <= MaxEffort
       /\ inquiries' = inquiries + Effort[p]
       /\ Goes(w, [AtRest EXCEPT !.at = IF p \in Expansions THEN "expanding" ELSE "next",
                                 !.plan = p, !.todo = Agenda(p)])
       /\ verdict' = [verdict EXCEPT ![w] =
            [NoRows EXCEPT !.plan = p, !.job = IF p \in Expansions THEN "none" ELSE "running"]]
  /\ overlapped' = (overlapped \/ \E v \in Investigators : Inquiring(v))
  /\ UNCHANGED <<openness, tables>>

\* What the session writes becomes visible at once; a correlation is a row
\* of its own.
Commits(s) ==
  /\ subdomains' = IF s.own = Unwritten THEN subdomains ELSE s.own
  /\ filed' = filed \union s.files
  /\ correlated' = [p \in Correlators |-> IF p \in s.relates THEN correlated[p] + 1 ELSE correlated[p]]
  /\ references' = references \union s.refers

Kept(s) == s.own # Unwritten \/ s.files # {} \/ s.relates # {} \/ s.refers # {}

Settled(s, job) ==
  [plan |-> s.plan, job |-> job, search |-> s.search.status, answered |-> s.search.answered,
   kept |-> Kept(s)]

\* All providers are done, and none of them has left a failure.
CompleteInquiry(w) ==
  LET s == inquiry[w] IN
  /\ s.at = "next" /\ s.todo = <<>> /\ ~s.deferred
  /\ Commits(s)
  /\ verdict' = [verdict EXCEPT ![w] = Settled(s, "completed")]
  /\ Goes(w, AtRest)
  /\ UNCHANGED <<openness, marked, inquiries, overlapped>>

\* outcome.failure: partial observations are committed before the failure.
KeepPartial(w) ==
  LET s == inquiry[w] IN
  /\ s.at = "next" /\ s.todo = <<>> /\ s.deferred
  /\ Commits(s)
  /\ verdict' = [verdict EXCEPT ![w] = Settled(s, "running")]
  /\ Goes(w, [AtRest EXCEPT !.at = "failing", !.plan = s.plan])
  /\ UNCHANGED <<openness, marked, inquiries, overlapped>>

\* The session is rolled back, and the status is a commit of its own.
RollBack(w, status) ==
  /\ verdict' = [verdict EXCEPT ![w].job = IF @ = "running" THEN status ELSE @]
  /\ Goes(w, AtRest)
  /\ UNCHANGED <<openness, tables, inquiries, overlapped>>

FailInquiry(w) == inquiry[w].at = "failing" /\ RollBack(w, "failed")

\* Any other exception, in any provider: a database error, also on a row that
\* an overlapping plan inserted first, a name that search refuses, a stop.
Interrupt(w) ==
  /\ inquiry[w].at \notin {"idle", "failing"}
  /\ \E status \in {"failed", "cancelled"} : RollBack(w, status)

\* The process dies: what is not committed is gone.
InvestigatorDies(w) ==
  /\ Inquiring(w) /\ Goes(w, AtRest)
  /\ UNCHANGED <<openness, tables, verdict, inquiries, overlapped>>

-----------------------------------------------------------------------------
(* Providers. *)

Aggregated(s) == s.plan \in Aggregates

\* Each provider reads the domain's row before its requests.
AskDomain(w) ==
  LET s == inquiry[w] IN
  /\ s.at = "next" /\ s.todo # <<>> /\ Head(s.todo) # "github-search"
  /\ Goes(w, [s EXCEPT !.at = "asked", !.read = IF s.own = Unwritten THEN subdomains ELSE s.own])
  /\ UNCHANGED <<openness, tables, verdict, inquiries, overlapped>>

\* create_identity_correlation looks for the row first.
Relates(p, s) == IF correlated[p] > 0 THEN s.relates ELSE s.relates \union {p}

ListingOfLast(read, lists) == lists

\* discovered_subdomains is written as a whole.
Listing(read, lists) == read \union lists

\* The row of the domain stays locked from its first change to the commit.
RowFree(w) == \A v \in Investigators \ {w} : inquiry[v].own = Unwritten

Store(w, a) ==
  LET s == inquiry[w]
      listing == Listing(s.read, a.lists)
      writes == a.lists # {} /\ listing # s.read
  IN /\ writes => RowFree(w)
     /\ Goes(w, [s EXCEPT !.at = "next", !.todo = Tail(@), !.read = {},
                          !.own = IF writes THEN listing ELSE @,
                          !.files = @ \union a.files,
                          !.relates = IF a.relates THEN Relates(Head(s.todo), s) ELSE @])
     /\ UNCHANGED <<openness, tables, verdict, inquiries, overlapped>>

\* The aggregates take a DomainProviderError for a warning; for one provider
\* it is the failure of the job.
StoreAnswer(w) ==
  LET s == inquiry[w] IN
  /\ s.at = "asked"
  /\ \E a \in AnswersOf(Head(s.todo), s.read) :
       IF a.raises /\ ~Aggregated(s) THEN RollBack(w, "failed") ELSE Store(w, a)

-----------------------------------------------------------------------------
(* The search. *)

SearchOf(w) == inquiry[w].search
Query(w) == SearchQueries[SearchOf(w).query]

\* public_visibility: flags that contradict each other, or none at all, are
\* not enough.
PublicVisibilityUnlessPrivate(item) == item.flags # "private"

PublicVisibility(item) == item.flags = "public"

\* Flags that say public are true; there may be none, or contradictory ones.
Items ==
  {item \in [repo : GitHubRepos, flags : {"public", "private", "mixed", "none"}] :
     item.flags = "public" => openness[item.repo] = "public"}

SearchScope(verified) ==
  CHOOSE s \in SUBSET verified :
    Cardinality(s) = (IF Cardinality(verified) < ScopeLimit THEN Cardinality(verified) ELSE ScopeLimit)

Reference(kind, repo) == [kind |-> kind, repo |-> repo, public |-> openness[repo] = "public"]

\* _persist_item; a repository that is marked private is left alone.
Persisted(w, items) ==
  {Reference(Query(w), item.repo) : item \in
     {i \in items : /\ Query(w) = "code" => i.repo \in SearchScope(SearchOf(w).verified)
                    /\ PublicVisibility(i) /\ i.repo \notin marked}}

\* A repository result with a public flag widens what code search may see.
Verified(w, items) ==
  SearchOf(w).verified \union
    (IF Query(w) = "repositories" THEN {i.repo : i \in {x \in items : PublicVisibility(x)}} ELSE {})

BeginSearch(w) ==
  LET s == inquiry[w] IN
  /\ s.at = "next" /\ s.todo # <<>> /\ Head(s.todo) = "github-search"
  /\ Goes(w, [s EXCEPT !.at = "searching", !.search = [NoSearch EXCEPT !.status = "running"]])
  /\ UNCHANGED <<openness, tables, verdict, inquiries, overlapped>>

\* The provider hands the failure to its caller; an aggregate drops it.
SearchEnded(s, status) ==
  [s EXCEPT !.at = "next", !.todo = Tail(@), !.search.status = status,
            !.deferred = status = "failed" /\ ~Aggregated(s)]

InSearch(w) == inquiry[w].at = "searching" /\ SearchOf(w).query \in DOMAIN SearchQueries

NextQuery(s) ==
  [s EXCEPT !.search.query = @ + 1, !.search.page = 1,
            !.search.answered = @ \union {s.search.query}]

\* Code is searched with a token only, and in verified repositories.
SkipQuery(w) ==
  /\ InSearch(w) /\ Query(w) = "code"
  /\ Goes(w, NextQuery(inquiry[w]))
  /\ UNCHANGED <<openness, tables, verdict, inquiries, overlapped>>

\* A request that fails, or an answer without a list of items.
SearchFails(w) ==
  /\ InSearch(w)
  /\ Query(w) = "code" => SearchOf(w).verified # {}
  /\ Goes(w, SearchEnded(inquiry[w], "failed"))
  /\ UNCHANGED <<openness, tables, verdict, inquiries, overlapped>>

\* The rate limit is reached with this page.
ExhaustedUnnoticed(s) == SearchEnded(s, "completed")

Exhausted(s) == SearchEnded(s, "failed")

SearchPage(w) ==
  LET s == inquiry[w] IN
  /\ InSearch(w)
  /\ Query(w) = "code" => SearchOf(w).verified # {}
  /\ \E items \in {page \in SUBSET Items : Cardinality(page) <= PageSize} :
       LET found == Persisted(w, items)
           next == [s EXCEPT !.refers = @ \union found, !.search.verified = Verified(w, items),
                             !.relates = IF found = {} THEN @ ELSE Relates("github-search", s)]
       IN \/ Goes(w, Exhausted(next))
          \/ Goes(w, NextQuery(next))
          \/ s.search.page < MaxPages /\ Goes(w, [next EXCEPT !.search.page = @ + 1])
  /\ UNCHANGED <<openness, tables, verdict, inquiries, overlapped>>

CompleteSearchJob(w) ==
  /\ inquiry[w].at = "searching" /\ ~InSearch(w)
  /\ Goes(w, SearchEnded(inquiry[w], "completed"))
  /\ UNCHANGED <<openness, tables, verdict, inquiries, overlapped>>

-----------------------------------------------------------------------------
(* Expansion. *)

\* Without a token GitHub shows what is public; the flag may be missing.
Shown == {r \in GitHubRepos : openness[r] = "public"}

\* Repositories come with their own visibility; contributors and commits
\* only name accounts and domains.
FetchRecords(w) ==
  LET s == inquiry[w] IN
  /\ s.at = "expanding" /\ s.todo # <<>>
  /\ \E repos \in IF Head(s.todo) \in {"contributors", "commits"} THEN {{}} ELSE SUBSET Shown :
       Goes(w, [s EXCEPT !.todo = Tail(@),
                         !.refers = @ \union {Reference("record", r) : r \in repos}])
  /\ UNCHANGED <<openness, tables, verdict, inquiries, overlapped>>

\* One commit at the end, which also takes the mark off what was shown.
CommitRecords(w) ==
  LET s == inquiry[w] IN
  /\ s.at = "expanding" /\ s.todo = <<>>
  /\ Commits(s)
  /\ marked' = marked \ {f.repo : f \in s.refers}
  /\ Goes(w, AtRest)
  /\ UNCHANGED <<openness, verdict, inquiries, overlapped>>

\* The owner of a repository makes it private, or public.
ChangeVisibility ==
  /\ \E r \in GitHubRepos :
       openness' = [openness EXCEPT ![r] = IF @ = "public" THEN "private" ELSE "public"]
  /\ UNCHANGED <<tables, inquiry, verdict, inquiries, overlapped>>

LegacyNext ==
  \/ \E w \in Investigators :
       \/ StartInquiry(w) \/ CompleteInquiry(w) \/ KeepPartial(w) \/ FailInquiry(w)
       \/ Interrupt(w) \/ InvestigatorDies(w)
       \/ AskDomain(w) \/ StoreAnswer(w)
       \/ BeginSearch(w) \/ SkipQuery(w) \/ SearchFails(w) \/ SearchPage(w) \/ CompleteSearchJob(w)
       \/ FetchRecords(w) \/ CommitRecords(w)
  \/ ChangeVisibility

LegacySpec == LegacyInit /\ [][LegacyNext]_legacyVars

-----------------------------------------------------------------------------
(* Properties. *)

\* docs/github-search.md: whatever the flags of a result and whenever its
\* owner changes the visibility of a repository, what is stored as a
\* reference was public when GitHub answered.
OnlyPublicIsStored == \A f \in references : f.public

\* docs/job-reliability.md:14: a search that was cut short is on record as
\* failed and its job never as completed; and what a job without a good end
\* left behind comes from such a search, with the record of it.
CutSearchIsFailed ==
  \A w \in Investigators :
    LET v == verdict[w] IN
    /\ v.search \in {"none", "completed", "failed"}
    /\ v.search = "completed" => v.answered = DOMAIN SearchQueries
    /\ v.job = "completed" /\ v.plan = "github-search" => v.search = "completed"
    /\ v.job \in {"running", "failed", "cancelled"} /\ v.kept => v.search = "failed"

\* Repeated and failed plans add up: every host with an exposure is listed
\* for the later lookups, and an identity is related to the domain once,
\* unless two plans for the domain ran at the same time.
InquiriesAddUp ==
  ~overlapped => filed \subseteq subdomains /\ \A p \in Correlators : correlated[p] <= 1
=============================================================================
