--------------------------- MODULE RepositoryScan ---------------------------
(***************************************************************************)
(* Scans of one repository's cache.  A session takes the repository's file *)
(* lock, may fetch the cache, selects refs, and for every ref and scanner  *)
(* decides from the last successful checkpoint what is left to scan; the   *)
(* findings are committed first, the checkpoint after them.  Sessions fail *)
(* or die anywhere.  Checkpoints live in a JSON column that is written as  *)
(* a whole, also by the discovery of repository metadata, which does not   *)
(* take the lock.                                                          *)
(*                                                                         *)
(* git is external: a commit's ancestors, the commits a capped log yields  *)
(* and the commit a branch or tag object peels to are constants.           *)
(***************************************************************************)
CONSTANTS
  Sessions,       \* processes in RepositoryMirrorManager.locked
  Refs, Scanners,
  RangeScanners,  \* the scanners that support history and incremental ranges
  Keys,           \* configuration keys
  Commits,
  Anc,            \* the commits reachable from a commit, itself included
  Newest,         \* the commits git log yields under git_history_max_commits
  Objects,        \* what a ref may name: commits' and annotated tags' objects
  Peel,           \* the commit of an object
  None

Checkpoint == [oid : Commits, ref_oid : Objects]
Slots == Refs \X Scanners \X Keys
Checkpoints == [Slots -> Checkpoint \union {None}]
Steps == [ref : Refs, object : Objects \union {None}, scanner : Scanners]
Jobs == [ref : Refs, object : Objects, scanner : Scanners,
         key : Keys \union {None}, start : Commits \union {None}]

ASSUME RepositoryAssumption ==
  /\ RangeScanners \subseteq Scanners
  /\ Anc \in [Commits -> SUBSET Commits]
  /\ Newest \in [Commits -> SUBSET Commits]
  /\ \A c \in Commits : c \in Anc[c] /\ c \in Newest[c] /\ Newest[c] \subseteq Anc[c]
  /\ Peel \in [Objects -> Commits]
  /\ None \notin Sessions \union Keys \union Commits \union Objects
  /\ None \notin Checkpoint \union Jobs

VARIABLES
  mirror,      \* the object of each ref in the cache
  checkpoint,  \* metadata_json.repository_state.checkpoints of the repository row
  lock,        \* the holder of the repository's file lock
  phase,       \* each session's progress
  view,        \* the checkpoints as each session read them, and its own since
  todo,        \* the (ref, object, scanner) steps a session has selected
  job,         \* the step a session is executing
  inventory,   \* the checkpoints a metadata discovery has read, while it runs
  covered,     \* the commits a scanner examined under a key, findings committed
  beyond       \* the commits its capped full history scans left out

sessionVars == <<lock, phase, view, todo, job>>
coverage == <<covered, beyond>>
vars == <<mirror, checkpoint, sessionVars, inventory, coverage>>

Phases == {"idle", "locked", "fetched", "ready", "selected", "scanning", "scanned"}

TypeOK ==
  /\ mirror \in [Refs -> Objects \union {None}]
  /\ checkpoint \in Checkpoints
  /\ lock \in Sessions \union {None}
  /\ phase \in [Sessions -> Phases]
  /\ view \in [Sessions -> Checkpoints]
  /\ todo \in [Sessions -> SUBSET Steps]
  /\ job \in [Sessions -> Jobs \union {None}]
  /\ \A p \in Sessions :
       /\ phase[p] # "idle" <=> lock = p
       /\ job[p] # None <=> phase[p] \in {"scanning", "scanned"}
  /\ inventory \in Checkpoints \union {None}
  /\ covered \in [Scanners \X Keys -> SUBSET Commits]
  /\ beyond \in [Scanners \X Keys -> SUBSET Commits]

Unscanned == [slot \in Slots |-> None]
Nothing == [sk \in Scanners \X Keys |-> {}]

Init ==
  /\ mirror = [r \in Refs |-> None]
  /\ checkpoint = Unscanned
  /\ lock = None
  /\ phase = [p \in Sessions |-> "idle"]
  /\ view = [p \in Sessions |-> Unscanned]
  /\ todo = [p \in Sessions |-> {}]
  /\ job = [p \in Sessions |-> None]
  /\ inventory = None
  /\ covered = Nothing /\ beyond = Nothing

Goto(p, next) == phase' = [phase EXCEPT ![p] = next]

Leave(p) ==
  /\ lock' = None
  /\ phase' = [phase EXCEPT ![p] = "idle"]
  /\ view' = [view EXCEPT ![p] = Unscanned]
  /\ todo' = [todo EXCEPT ![p] = {}]
  /\ job' = [job EXCEPT ![p] = None]

-----------------------------------------------------------------------------
(* A session: lock, sync, select.                                          *)

\* Mutant: the lock is not waited for.
LockFreeAny(p) == phase[p] = "idle"

LockFree(p) == phase[p] = "idle" /\ lock = None

\* The persisted state is read anew under the lock; resync asks for a fetch.
Enter(p) ==
  /\ LockFree(p)
  /\ lock' = p
  /\ view' = [view EXCEPT ![p] = checkpoint]
  /\ Goto(p, "locked") \/ Goto(p, "ready")
  /\ UNCHANGED <<mirror, checkpoint, todo, job, inventory, coverage>>

\* Whatever was pushed, forced, tagged or deleted since the last fetch.
Fetch(p) ==
  /\ phase[p] = "locked"
  /\ mirror' \in [Refs -> Objects \union {None}]
  /\ Goto(p, "fetched")
  /\ UNCHANGED <<checkpoint, lock, view, todo, job, inventory, coverage>>

\* The observed refs are recorded with the column as the session read it.
RecordSync(p) ==
  /\ phase[p] = "fetched"
  /\ checkpoint' = view[p]
  /\ Goto(p, "ready")
  /\ UNCHANGED <<mirror, lock, view, todo, job, inventory, coverage>>

\* The whole selection is resolved before anything runs.
Select(p, refs, scanners) ==
  /\ phase[p] = "ready"
  /\ todo' = [todo EXCEPT ![p] = {st \in Steps :
       st.ref \in refs /\ st.object = mirror[st.ref] /\ st.scanner \in scanners}]
  /\ Goto(p, "selected")
  /\ UNCHANGED <<mirror, checkpoint, lock, view, job, inventory, coverage>>

-----------------------------------------------------------------------------
(* The decision for a step, in incremental mode or not.                    *)

At(p, st, k) == view[p][<<st.ref, st.scanner, k>>]
Reusable(p, st, k, incremental) == incremental /\ k \in Keys /\ At(p, st, k) # None

\* Mutant: the checkpoint of any scanner will do.
UnchangedForAnyScanner(p, st, k, incremental) ==
  /\ st.object # None /\ incremental
  /\ \E s \in Scanners : LET cp == At(p, [st EXCEPT !.scanner = s], k) IN
       k \in Keys /\ cp # None /\ cp.oid = Peel[st.object] /\ cp.ref_oid = st.object

Unchanged(p, st, k, incremental) ==
  /\ st.object # None /\ Reusable(p, st, k, incremental)
  /\ At(p, st, k).oid = Peel[st.object] /\ At(p, st, k).ref_oid = st.object

FastForward(p, st, k, incremental) ==
  /\ Reusable(p, st, k, incremental)
  /\ At(p, st, k).oid \in Anc[Peel[st.object]] \ {Peel[st.object]}
  /\ st.scanner \in RangeScanners

\* A deleted ref or an unchanged one.
Skip(p, st, k, incremental) ==
  /\ phase[p] = "selected" /\ st \in todo[p]
  /\ \/ st.object = None
     \/ Unchanged(p, st, k, incremental)
  /\ todo' = [todo EXCEPT ![p] = @ \ {st}]
  /\ UNCHANGED <<mirror, checkpoint, lock, phase, view, job, inventory, coverage>>

\* The ref is resolved again when the worktree is made.
StartScan(p, st, k, incremental) ==
  /\ phase[p] = "selected" /\ st \in todo[p]
  /\ st.object # None /\ ~Unchanged(p, st, k, incremental)
  /\ mirror[st.ref] # None /\ Peel[mirror[st.ref]] = Peel[st.object]
  /\ todo' = [todo EXCEPT ![p] = @ \ {st}]
  /\ job' = [job EXCEPT ![p] =
       [ref |-> st.ref, object |-> st.object, scanner |-> st.scanner, key |-> k,
        start |-> IF FastForward(p, st, k, incremental) THEN At(p, st, k).oid ELSE None]]
  /\ Goto(p, "scanning")
  /\ UNCHANGED <<mirror, checkpoint, lock, view, inventory, coverage>>

\* Mutant: the cap applies to ranges too.
ExaminedCapped(j) ==
  LET tip == Peel[j.object] IN
  IF j.scanner \notin RangeScanners THEN {tip}
  ELSE IF j.start = None THEN Newest[tip] ELSE Newest[tip] \ Anc[j.start]

\* The tree of the tip, the newest commits behind it, or exactly the range.
Examined(j) ==
  LET tip == Peel[j.object] IN
  IF j.scanner \notin RangeScanners THEN {tip}
  ELSE IF j.start = None THEN Newest[tip] ELSE Anc[tip] \ Anc[j.start]

LeftOut(j) ==
  IF j.scanner \in RangeScanners /\ j.start = None
  THEN Anc[Peel[j.object]] \ Newest[Peel[j.object]] ELSE {}

\* execute_scan: all findings of the run in one transaction.
Persist(p) ==
  LET j == job[p]
      sk == <<j.scanner, j.key>> IN
  /\ phase[p] = "scanning"
  /\ \/ j.key = None /\ UNCHANGED coverage
     \/ /\ j.key # None
        /\ covered' = [covered EXCEPT ![sk] = @ \union Examined(j)]
        /\ beyond' = [beyond EXCEPT ![sk] = @ \union LeftOut(j)]
  /\ Goto(p, "scanned")
  /\ UNCHANGED <<mirror, checkpoint, lock, view, todo, job, inventory>>

Slot(j) == <<j.ref, j.scanner, j.key>>

\* After the worktree is gone.
RecordCheckpoint(p) ==
  LET j == job[p] IN
  /\ phase[p] = "scanned"
  /\ \/ j.key = None /\ UNCHANGED <<view, checkpoint>>
     \/ /\ j.key # None
        /\ view' = [view EXCEPT ![p][Slot(j)] = [oid |-> Peel[j.object], ref_oid |-> j.object]]
        /\ checkpoint' = view'[p]
  /\ job' = [job EXCEPT ![p] = None]
  /\ Goto(p, "selected")
  /\ UNCHANGED <<mirror, lock, todo, inventory, coverage>>

Finish(p) ==
  /\ phase[p] \in {"ready", "selected"} /\ todo[p] = {}
  /\ Leave(p)
  /\ UNCHANGED <<mirror, checkpoint, inventory, coverage>>

\* A git command, the scanner, the disk budget or the database fails, the run is
\* cancelled, or the process dies: what is committed stays, the rest is dropped.
Fail(p) ==
  /\ phase[p] # "idle"
  /\ Leave(p)
  /\ UNCHANGED <<mirror, checkpoint, inventory, coverage>>

-----------------------------------------------------------------------------
(* Discovery of repository metadata, which reads the column before its HTTP *)
(* requests and writes it after them, or fails.                             *)

InventoryRead ==
  /\ inventory = None
  /\ inventory' = checkpoint
  /\ UNCHANGED <<mirror, checkpoint, sessionVars, coverage>>

InventoryEnd ==
  /\ inventory # None
  /\ checkpoint' \in {checkpoint, inventory}
  /\ inventory' = None
  /\ UNCHANGED <<mirror, sessionVars, coverage>>

Session(p) ==
  \/ Enter(p) \/ Fetch(p) \/ RecordSync(p) \/ Persist(p) \/ RecordCheckpoint(p) \/ Finish(p)
  \/ \E refs \in SUBSET Refs, scanners \in SUBSET Scanners : Select(p, refs, scanners)
  \/ \E st \in Steps, k \in Keys \union {None}, incremental \in BOOLEAN :
       Skip(p, st, k, incremental) \/ StartScan(p, st, k, incremental)

Next == InventoryRead \/ InventoryEnd \/ \E p \in Sessions : Session(p) \/ Fail(p)

Spec == Init /\ [][Next]_vars

-----------------------------------------------------------------------------
(* Properties.                                                             *)

\* What a checkpoint promises: the scanner examined the tree of the commit, or
\* every commit behind it but those beyond the cap of a full history scan, and the
\* findings are committed.
Promise(s, k, c) ==
  IF s \in RangeScanners THEN Anc[c] \subseteq covered[<<s, k>>] \union beyond[<<s, k>>]
                         ELSE c \in covered[<<s, k>>]

Holds(cps) ==
  \A r \in Refs, s \in Scanners, k \in Keys :
    cps[<<r, s, k>>] # None => Promise(s, k, cps[<<r, s, k>>].oid)

\* Wherever sessions crash, however refs are forced, and although the discovery of
\* metadata puts old checkpoints back, no checkpoint promises too much: a scan of
\* the range behind it misses no commit (findings first, then the checkpoint).
CheckpointCovers == Holds(checkpoint)

\* The cache does not move under a scan: what a session resolved is there until
\* the step is done (the lock covers sync, worktrees and scans).
CacheHoldsStill ==
  \A p \in Sessions : phase[p] \in {"scanning", "scanned"} => mirror[job[p].ref] = job[p].object

\* A step is skipped as unchanged only when this scanner has examined, under this
\* key, what a scan of it would examine.
SkipMissesNothing ==
  \A p \in Sessions : \A st \in todo[p] : \A k \in Keys :
    Unchanged(p, st, k, TRUE) => Promise(st.scanner, k, Peel[st.object])
=============================================================================
