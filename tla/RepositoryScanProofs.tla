------------------------ MODULE RepositoryScanProofs ------------------------
(* Proofs about RepositoryScan, for any number of sessions, refs, scanners,  *)
(* keys and commits, any ancestry and any cap.                               *)
EXTENDS RepositoryScan, TLAPS

\* Every copy of the checkpoints keeps its promises.
Promises ==
  /\ Holds(checkpoint)
  /\ \A p \in Sessions : Holds(view[p])
  /\ inventory # None => Holds(inventory)

\* A selected step names what the cache has now.
StepsPinned ==
  \A p \in Sessions : \A st \in todo[p] : 
    phase[p] \in {"selected", "scanning", "scanned"} /\ st.object = mirror[st.ref]

\* A range starts behind a kept promise.
RangesFollowPromises ==
  \A p \in Sessions : phase[p] \in {"scanning", "scanned"} /\ job[p].start # None =>
    /\ job[p].scanner \in RangeScanners /\ job[p].key \in Keys
    /\ Promise(job[p].scanner, job[p].key, job[p].start)

\* When its findings are committed, a job has earned its checkpoint.
PersistedIsPromised ==
  \A p \in Sessions : phase[p] = "scanned" /\ job[p].key # None =>
    Promise(job[p].scanner, job[p].key, Peel[job[p].object])

IInv ==
  /\ TypeOK /\ Promises /\ StepsPinned /\ CacheHoldsStill
  /\ RangesFollowPromises /\ PersistedIsPromised

-----------------------------------------------------------------------------
(* Steps.                                                                  *)

\* A function on slots keeps its type when one slot gets a checkpoint.
LEMMA RecordedType ==
  ASSUME NEW cps \in Checkpoints, NEW slot \in Slots, NEW cp \in Checkpoint
  PROVE  [cps EXCEPT ![slot] = cp] \in Checkpoints
BY DEF Checkpoints

\* The checkpoint of a repository never scanned is a checkpoint.
LEMMA UnscannedType == Unscanned \in Checkpoints
BY DEF Unscanned, Checkpoints

\* A checkpoint that was read has a commit.
LEMMA CheckpointHasCommit ==
  ASSUME NEW cps \in Checkpoints, NEW slot \in Slots, cps[slot] # None
  PROVE  cps[slot] \in Checkpoint /\ cps[slot].oid \in Commits
BY DEF Checkpoints, Checkpoint

\* The promises as a function of what has been examined.
Kept(cps, cov, bey) ==
  \A r \in Refs, s \in Scanners, k \in Keys :
    cps[<<r, s, k>>] # None =>
      LET c == cps[<<r, s, k>>].oid IN
      IF s \in RangeScanners THEN Anc[c] \subseteq cov[<<s, k>>] \union bey[<<s, k>>]
                             ELSE c \in cov[<<s, k>>]

Grows(cov, next) == \A sk \in Scanners \X Keys : cov[sk] \subseteq next[sk]

\* Promises are never withdrawn: what is examined stays examined.
LEMMA KeptGrows ==
  ASSUME NEW cps, NEW cov, NEW bey, NEW cov2, NEW bey2,
         Kept(cps, cov, bey), Grows(cov, cov2), Grows(bey, bey2)
  PROVE  Kept(cps, cov2, bey2)
BY DEF Kept, Grows

\* What a checkpoint promises depends on nothing but the coverage.
LEMMA HoldsIsKept ==
  /\ Holds(checkpoint) <=> Kept(checkpoint, covered, beyond)
  /\ \A p \in Sessions : Holds(view[p]) <=> Kept(view[p], covered, beyond)
  /\ Holds(inventory) <=> Kept(inventory, covered, beyond)
BY DEF Holds, Kept, Promise

\* A repository never scanned promises nothing.
LEMMA UnscannedIsKept ==
  ASSUME NEW cov, NEW bey PROVE Kept(Unscanned, cov, bey)
BY DEF Unscanned, Kept, Slots

\* A step that leaves the copies alone, but for dropping them or taking one over.
LEMMA CopiesKept ==
  ASSUME Promises, Grows(covered, covered'), Grows(beyond, beyond'),
         checkpoint' = checkpoint \/ (\E p \in Sessions : checkpoint' = view[p])
           \/ (inventory # None /\ checkpoint' = inventory),
         \A p \in Sessions : view'[p] \in {view[p], checkpoint, Unscanned},
         inventory' \in {inventory, checkpoint, None}
  PROVE  Promises'
<1>1. /\ Kept(checkpoint, covered', beyond')
      /\ \A p \in Sessions : Kept(view[p], covered', beyond')
      /\ inventory # None => Kept(inventory, covered', beyond')
  BY HoldsIsKept, KeptGrows DEF Promises
<1>2. /\ Kept(checkpoint', covered', beyond')
      /\ \A p \in Sessions : Kept(view'[p], covered', beyond')
      /\ inventory' # None => Kept(inventory', covered', beyond')
  BY <1>1, UnscannedIsKept
<1>3. /\ Holds(checkpoint)' <=> Kept(checkpoint', covered', beyond')
      /\ \A p \in Sessions : Holds(view[p])' <=> Kept(view'[p], covered', beyond')
      /\ Holds(inventory)' <=> Kept(inventory', covered', beyond')
  BY DEF Holds, Kept, Promise
<1> QED BY <1>2, <1>3 DEF Promises

\* Steps that persist nothing leave the coverage alone.
LEMMA QuietGrows ==
  ASSUME UNCHANGED coverage
  PROVE  Grows(covered, covered') /\ Grows(beyond, beyond')
BY DEF coverage, Grows

\* Persisting the results of a scan only adds to the coverage.
LEMMA PersistGrows ==
  ASSUME TypeOK, NEW p \in Sessions, Persist(p)
  PROVE  Grows(covered, covered') /\ Grows(beyond, beyond')
<1> DEFINE j == job[p]
           sk == <<j.scanner, j.key>>
<1>1. CASE j.key = None
  BY <1>1 DEF Persist, Grows, coverage
<1>2. CASE j.key # None
  <2>1. /\ covered' = [covered EXCEPT ![sk] = @ \union Examined(j)]
        /\ beyond' = [beyond EXCEPT ![sk] = @ \union LeftOut(j)]
    BY <1>2 DEF Persist
  <2> HIDE DEF j, sk
  <2> QED BY <2>1 DEF TypeOK, Grows
<1> QED BY <1>1, <1>2

\* A promise stays kept as the coverage grows.
LEMMA PromiseGrows ==
  ASSUME Grows(covered, covered'), Grows(beyond, beyond'),
         NEW s \in Scanners, NEW k \in Keys, NEW c, Promise(s, k, c)
  PROVE  IF s \in RangeScanners THEN Anc[c] \subseteq covered'[<<s, k>>] \union beyond'[<<s, k>>]
                                ELSE c \in covered'[<<s, k>>]
BY DEF Promise, Grows

\* A session comes in with the checkpoints of the row.
LEMMA EnterStep ==
  ASSUME IInv, NEW p \in Sessions, Enter(p)
  PROVE  IInv'
<1> USE DEF IInv
<1>1. TypeOK'
  BY RepositoryAssumption DEF Enter, TypeOK, coverage, Goto, LockFree, Phases
<1>2. Promises'
  BY QuietGrows, CopiesKept DEF Enter
<1>3. StepsPinned'
  BY DEF Enter, StepsPinned, TypeOK, Goto, LockFree
<1>4. CacheHoldsStill'
  BY DEF Enter, CacheHoldsStill, TypeOK, Goto
<1>5. RangesFollowPromises'
  BY DEF Enter, RangesFollowPromises, Promise, TypeOK, coverage, Goto
<1>6. PersistedIsPromised'
  BY DEF Enter, PersistedIsPromised, Promise, TypeOK, coverage, Goto
<1> QED BY <1>1, <1>2, <1>3, <1>4, <1>5, <1>6


\* Only the holder of the lock moves the cache, and it has selected nothing.
LEMMA FetchStep ==
  ASSUME IInv, NEW p \in Sessions, Fetch(p)
  PROVE  IInv'
<1> USE DEF IInv
<1>1. TypeOK'
  BY DEF Fetch, TypeOK, coverage, Goto, Phases
<1>2. Promises'
  BY QuietGrows, CopiesKept DEF Fetch
<1>3. StepsPinned'
  BY DEF Fetch, StepsPinned, TypeOK
<1>4. CacheHoldsStill'
  BY DEF Fetch, CacheHoldsStill, TypeOK, Goto
<1>5. RangesFollowPromises'
  BY DEF Fetch, RangesFollowPromises, TypeOK, Goto
<1>6. PersistedIsPromised'
  BY DEF Fetch, PersistedIsPromised, TypeOK, Goto
<1> QED BY <1>1, <1>2, <1>3, <1>4, <1>5, <1>6


\* The column is written back as it was read.
LEMMA RecordSyncStep ==
  ASSUME IInv, NEW p \in Sessions, RecordSync(p)
  PROVE  IInv'
<1> USE DEF IInv
<1>1. TypeOK'
  BY DEF RecordSync, TypeOK, coverage, Goto, Phases
<1>2. Promises'
  BY QuietGrows, CopiesKept DEF RecordSync
<1>3. StepsPinned'
  BY DEF RecordSync, StepsPinned, Goto
<1>4. CacheHoldsStill'
  BY DEF RecordSync, CacheHoldsStill, Goto
<1>5. RangesFollowPromises'
  BY DEF RecordSync, RangesFollowPromises, TypeOK, Goto
<1>6. PersistedIsPromised'
  BY DEF RecordSync, PersistedIsPromised, TypeOK, Goto
<1> QED BY <1>1, <1>2, <1>3, <1>4, <1>5, <1>6


\* What is selected is what the cache has.
LEMMA SelectStep ==
  ASSUME IInv, NEW p \in Sessions, NEW refs, NEW scanners, Select(p, refs, scanners)
  PROVE  IInv'
<1> USE DEF IInv
<1>1. TypeOK'
  BY DEF Select, TypeOK, coverage, Goto, Phases
<1>2. Promises'
  BY QuietGrows, CopiesKept DEF Select
<1>3. StepsPinned'
  BY DEF Select, StepsPinned, TypeOK, Goto
<1>4. CacheHoldsStill'
  BY DEF Select, CacheHoldsStill, Goto
<1>5. RangesFollowPromises'
  BY DEF Select, RangesFollowPromises, TypeOK, Goto
<1>6. PersistedIsPromised'
  BY DEF Select, PersistedIsPromised, TypeOK, Goto
<1> QED BY <1>1, <1>2, <1>3, <1>4, <1>5, <1>6


\* A skip changes nothing but the list.
LEMMA SkipStep ==
  ASSUME IInv, NEW p \in Sessions, NEW st, NEW k, NEW incremental, Skip(p, st, k, incremental)
  PROVE  IInv'
<1> USE DEF IInv
<1>1. TypeOK'
  BY DEF Skip, TypeOK, coverage
<1>2. Promises'
  BY QuietGrows, CopiesKept DEF Skip
<1>3. StepsPinned'
  BY DEF Skip, StepsPinned
<1>4. CacheHoldsStill'
  BY DEF Skip, CacheHoldsStill
<1>5. RangesFollowPromises'
  BY DEF Skip, RangesFollowPromises, TypeOK
<1>6. PersistedIsPromised'
  BY DEF Skip, PersistedIsPromised, TypeOK
<1> QED BY <1>1, <1>2, <1>3, <1>4, <1>5, <1>6


\* A range starts at a checkpoint of the same scanner and key.
LEMMA StartScanStep ==
  ASSUME IInv, NEW p \in Sessions, NEW st \in Steps, NEW k \in Keys \union {None}, NEW incremental, StartScan(p, st, k, incremental)
  PROVE  IInv'
<1> USE DEF IInv
<1>1. TypeOK'
  <2> DEFINE from == IF FastForward(p, st, k, incremental) THEN At(p, st, k).oid ELSE None
             j == [ref |-> st.ref, object |-> st.object, scanner |-> st.scanner,
                   key |-> k, start |-> from]
  <2>1. st.ref \in Refs /\ st.object \in Objects /\ st.scanner \in Scanners
    BY DEF StartScan, Steps
  <2>2. from \in Commits \union {None}
    <3>1. SUFFICES ASSUME FastForward(p, st, k, incremental) PROVE At(p, st, k).oid \in Commits
      OBVIOUS
    <3>2. <<st.ref, st.scanner, k>> \in Slots
      BY <2>1, <3>1 DEF FastForward, Reusable, Slots
    <3> QED BY <3>1, <3>2, CheckpointHasCommit DEF FastForward, Reusable, At, TypeOK
  <2>3. j \in Jobs
    BY <2>1, <2>2 DEF Jobs
  <2>4. job' = [job EXCEPT ![p] = j] /\ phase' = [phase EXCEPT ![p] = "scanning"]
    BY DEF StartScan, Goto
  <2>5. j # None
    BY <2>3, RepositoryAssumption DEF Jobs
  <2> HIDE DEF j
  <2> QED BY <2>3, <2>4, <2>5 DEF StartScan, TypeOK, Phases, coverage
<1>2. Promises'
  BY QuietGrows, CopiesKept DEF StartScan
<1>3. StepsPinned'
  BY DEF StartScan, StepsPinned, Goto
<1>4. CacheHoldsStill'
  BY DEF StartScan, CacheHoldsStill, TypeOK, StepsPinned, Goto
<1>5. RangesFollowPromises'
  <2> SUFFICES ASSUME NEW q \in Sessions, phase'[q] \in {"scanning", "scanned"},
                      job'[q].start # None
               PROVE  /\ job'[q].scanner \in RangeScanners /\ job'[q].key \in Keys
                      /\ Promise(job'[q].scanner, job'[q].key, job'[q].start)
    BY DEF StartScan, RangesFollowPromises, Promise, coverage
  <2>1. CASE q # p
    BY <2>1 DEF StartScan, Goto, TypeOK, RangesFollowPromises
  <2>2. CASE q = p
    <3>1. /\ job'[p].scanner = st.scanner /\ job'[p].key = k
          /\ job'[p].start = IF FastForward(p, st, k, incremental) THEN At(p, st, k).oid ELSE None
      BY DEF StartScan, TypeOK
    <3>2. FastForward(p, st, k, incremental)
      BY <2>2, <3>1
    <3>3. Holds(view[p])
      BY DEF Promises
    <3> QED BY <2>2, <3>1, <3>2, <3>3 DEF FastForward, Reusable, At, Holds, Steps
  <2> QED BY <2>1, <2>2
<1>6. PersistedIsPromised'
  BY DEF StartScan, PersistedIsPromised, TypeOK, Goto
<1> QED BY <1>1, <1>2, <1>3, <1>4, <1>5, <1>6


\* The findings make the job's promise good.
LEMMA PersistStep ==
  ASSUME IInv, NEW p \in Sessions, Persist(p)
  PROVE  IInv'
<1> USE DEF IInv
<1>1. TypeOK'
  <2> DEFINE j == job[p]
             sk == <<j.scanner, j.key>>
  <2>1. j \in Jobs
    BY DEF Persist, TypeOK
  <2>2. Examined(j) \subseteq Commits /\ LeftOut(j) \subseteq Commits
    BY <2>1, RepositoryAssumption DEF Examined, LeftOut, Jobs
  <2>3. covered' \in [Scanners \X Keys -> SUBSET Commits] /\ beyond' \in [Scanners \X Keys -> SUBSET Commits]
    <3>1. CASE j.key = None
      BY <3>1 DEF Persist, TypeOK, coverage
    <3>2. CASE j.key # None
      <4>1. /\ covered' = [covered EXCEPT ![sk] = @ \union Examined(j)]
            /\ beyond' = [beyond EXCEPT ![sk] = @ \union LeftOut(j)]
        BY <3>2 DEF Persist
      <4> HIDE DEF j, sk
      <4> QED BY <4>1, <2>2 DEF TypeOK
    <3> QED BY <3>1, <3>2
  <2> QED BY <2>3 DEF Persist, Goto, TypeOK, Phases
<1>2. Promises'
  BY PersistGrows, CopiesKept DEF Persist
<1>3. StepsPinned'
  BY DEF Persist, StepsPinned, Goto
<1>4. CacheHoldsStill'
  BY DEF Persist, CacheHoldsStill, Goto
<1>5. RangesFollowPromises'
  <2> SUFFICES ASSUME NEW q \in Sessions, phase'[q] \in {"scanning", "scanned"},
                      job'[q].start # None
               PROVE  /\ job'[q].scanner \in RangeScanners /\ job'[q].key \in Keys
                      /\ Promise(job[q].scanner, job[q].key, job[q].start)'
    BY DEF RangesFollowPromises
  <2>1. job'[q] = job[q] /\ phase[q] \in {"scanning", "scanned"}
    BY DEF Persist, Goto, TypeOK
  <2>2. /\ job[q].scanner \in RangeScanners /\ job[q].key \in Keys
        /\ Promise(job[q].scanner, job[q].key, job[q].start)
    BY <2>1 DEF RangesFollowPromises
  <2>3. job[q].scanner \in Scanners
    BY <2>2, RepositoryAssumption
  <2> QED BY <2>1, <2>2, <2>3, PersistGrows, PromiseGrows DEF Promise
<1>6. PersistedIsPromised'
  <2> SUFFICES ASSUME NEW q \in Sessions, phase'[q] = "scanned", job'[q].key # None
               PROVE  Promise(job[q].scanner, job[q].key, Peel[job[q].object])'
    BY DEF PersistedIsPromised
  <2>1. job'[q] = job[q] /\ job[q] \in Jobs
    BY RepositoryAssumption DEF Persist, Goto, TypeOK
  <2>2. job[q].scanner \in Scanners /\ job[q].key \in Keys /\ Peel[job[q].object] \in Commits
    BY <2>1, RepositoryAssumption DEF Jobs
  <2>3. CASE q # p
    <3>1. Promise(job[q].scanner, job[q].key, Peel[job[q].object])
      BY <2>1, <2>3 DEF PersistedIsPromised, Persist, Goto, TypeOK
    <3> QED BY <2>1, <2>2, <3>1, PersistGrows, PromiseGrows DEF Promise
  <2>4. CASE q = p
    <3> DEFINE j == job[p]
               sk == <<j.scanner, j.key>>
               tip == Peel[j.object]
    <3>1. /\ covered' = [covered EXCEPT ![sk] = @ \union Examined(j)]
          /\ beyond' = [beyond EXCEPT ![sk] = @ \union LeftOut(j)]
      BY <2>1, <2>4 DEF Persist
    <3>2. sk \in Scanners \X Keys
      BY <2>2, <2>4
    <3>3. covered'[sk] = covered[sk] \union Examined(j) /\ beyond'[sk] = beyond[sk] \union LeftOut(j)
      BY <3>1, <3>2 DEF TypeOK
    <3>4. CASE j.scanner \notin RangeScanners
      BY <2>1, <2>4, <3>3, <3>4 DEF Promise, Examined
    <3>5. CASE j.scanner \in RangeScanners /\ j.start = None
      BY <2>1, <2>4, <3>3, <3>5 DEF Promise, Examined, LeftOut
    <3>6. CASE j.scanner \in RangeScanners /\ j.start # None
      <4>1. Anc[j.start] \subseteq covered[sk] \union beyond[sk]
        BY <3>6 DEF Persist, RangesFollowPromises, Promise
      <4>2. Anc[tip] \ Anc[j.start] \subseteq covered'[sk]
        BY <3>3, <3>6 DEF Examined
      <4>3. Anc[tip] \subseteq covered'[sk] \union beyond'[sk]
        BY <4>1, <4>2, <3>3
      <4> QED BY <2>1, <2>4, <3>6, <4>3 DEF Promise
    <3> QED BY <3>4, <3>5, <3>6
  <2> QED BY <2>3, <2>4
<1> QED BY <1>1, <1>2, <1>3, <1>4, <1>5, <1>6


\* The checkpoint promises what the job has earned.
LEMMA RecordCheckpointStep ==
  ASSUME IInv, NEW p \in Sessions, RecordCheckpoint(p)
  PROVE  IInv'
<1> USE DEF IInv
<1>1. TypeOK'
  <2> DEFINE j == job[p]
             cp == [oid |-> Peel[j.object], ref_oid |-> j.object]
  <2>1. j \in Jobs
    BY DEF RecordCheckpoint, TypeOK
  <2>2. cp \in Checkpoint
    BY <2>1, RepositoryAssumption DEF Checkpoint, Jobs
  <2>3. view' \in [Sessions -> Checkpoints] /\ checkpoint' \in Checkpoints
    <3>1. CASE j.key = None
      BY <3>1 DEF RecordCheckpoint, TypeOK
    <3>2. CASE j.key # None
      <4>1. Slot(j) \in Slots
        BY <2>1, <3>2 DEF Slot, Slots, Jobs
      <4>2. [view[p] EXCEPT ![Slot(j)] = cp] \in Checkpoints
        BY <4>1, <2>2, RecordedType DEF TypeOK
      <4>3. view' = [view EXCEPT ![p] = [view[p] EXCEPT ![Slot(j)] = cp]] /\ checkpoint' = view'[p]
        BY <3>2 DEF RecordCheckpoint
      <4> HIDE DEF j, cp
      <4> QED BY <4>2, <4>3 DEF TypeOK
    <3> QED BY <3>1, <3>2
  <2> QED BY <2>3 DEF RecordCheckpoint, Goto, TypeOK, Phases, coverage
<1>2. Promises'
  <2> DEFINE j == job[p]
             cp == [oid |-> Peel[j.object], ref_oid |-> j.object]
  <2>1. CASE j.key = None
    BY <2>1, QuietGrows, CopiesKept DEF RecordCheckpoint
  <2>2. CASE j.key # None
    <3>1. j \in Jobs
      BY DEF RecordCheckpoint, TypeOK
    <3>2. Slot(j) \in Slots
      BY <2>2, <3>1 DEF Slot, Slots, Jobs
    <3>3. view' = [view EXCEPT ![p] = [view[p] EXCEPT ![Slot(j)] = cp]] /\ checkpoint' = view'[p]
      BY <2>2 DEF RecordCheckpoint
    <3>4. view'[p] = [view[p] EXCEPT ![Slot(j)] = cp] /\ \A q \in Sessions \ {p} : view'[q] = view[q]
      BY <3>3 DEF TypeOK
    <3>5. Promise(j.scanner, j.key, Peel[j.object])
      BY <2>2 DEF RecordCheckpoint, PersistedIsPromised
    <3>6. Kept(view'[p], covered, beyond)
      <4> SUFFICES ASSUME NEW r \in Refs, NEW s \in Scanners, NEW k \in Keys,
                          view'[p][<<r, s, k>>] # None
                   PROVE  LET c == view'[p][<<r, s, k>>].oid IN
                          IF s \in RangeScanners THEN Anc[c] \subseteq covered[<<s, k>>] \union beyond[<<s, k>>]
                                                 ELSE c \in covered[<<s, k>>]
        BY DEF Kept
      <4>0. <<r, s, k>> \in Slots /\ DOMAIN view[p] = Slots
        BY DEF Slots, TypeOK, Checkpoints
      <4>1. CASE <<r, s, k>> = Slot(j)
        <5>1. view'[p][<<r, s, k>>] = cp /\ s = j.scanner /\ k = j.key
          BY <4>0, <4>1, <3>4 DEF Slot
        <5> QED BY <5>1, <3>5 DEF Promise
      <4>2. CASE <<r, s, k>> # Slot(j)
        <5>1. view'[p][<<r, s, k>>] = view[p][<<r, s, k>>]
          BY <4>0, <4>2, <3>4
        <5>2. Kept(view[p], covered, beyond)
          BY HoldsIsKept DEF Promises
        <5> QED BY <5>1, <5>2 DEF Kept
      <4> QED BY <4>1, <4>2
    <3>7. /\ Kept(checkpoint', covered', beyond')
          /\ \A q \in Sessions : Kept(view'[q], covered', beyond')
          /\ inventory' # None => Kept(inventory', covered', beyond')
      BY <3>3, <3>4, <3>6, HoldsIsKept DEF RecordCheckpoint, Promises, coverage
    <3>8. /\ Holds(checkpoint)' <=> Kept(checkpoint', covered', beyond')
          /\ \A q \in Sessions : Holds(view[q])' <=> Kept(view'[q], covered', beyond')
          /\ Holds(inventory)' <=> Kept(inventory', covered', beyond')
      BY DEF Holds, Kept, Promise
    <3> QED BY <3>7, <3>8 DEF Promises
  <2> QED BY <2>1, <2>2
<1>3. StepsPinned'
  BY DEF RecordCheckpoint, StepsPinned, Goto
<1>4. CacheHoldsStill'
  BY DEF RecordCheckpoint, CacheHoldsStill, TypeOK, Goto
<1>5. RangesFollowPromises'
  BY DEF RecordCheckpoint, RangesFollowPromises, TypeOK, Goto
<1>6. PersistedIsPromised'
  BY DEF RecordCheckpoint, PersistedIsPromised, TypeOK, Goto
<1> QED BY <1>1, <1>2, <1>3, <1>4, <1>5, <1>6


\* The lock is given back.
LEMMA FinishStep ==
  ASSUME IInv, NEW p \in Sessions, Finish(p)
  PROVE  IInv'
<1> USE DEF IInv
<1>1. TypeOK'
  BY RepositoryAssumption, UnscannedType DEF Finish, TypeOK, coverage, Leave, Phases
<1>2. Promises'
  BY QuietGrows, CopiesKept DEF Finish, Leave
<1>3. StepsPinned'
  BY DEF Finish, StepsPinned, Leave
<1>4. CacheHoldsStill'
  BY DEF Finish, CacheHoldsStill, Leave
<1>5. RangesFollowPromises'
  BY DEF Finish, RangesFollowPromises, TypeOK, Leave
<1>6. PersistedIsPromised'
  BY DEF Finish, PersistedIsPromised, TypeOK, Leave
<1> QED BY <1>1, <1>2, <1>3, <1>4, <1>5, <1>6


\* A failure drops the session and nothing else.
LEMMA FailStep ==
  ASSUME IInv, NEW p \in Sessions, Fail(p)
  PROVE  IInv'
<1> USE DEF IInv
<1>1. TypeOK'
  BY RepositoryAssumption, UnscannedType DEF Fail, TypeOK, coverage, Leave, Phases
<1>2. Promises'
  BY QuietGrows, CopiesKept DEF Fail, Leave
<1>3. StepsPinned'
  BY DEF Fail, StepsPinned, TypeOK, Leave
<1>4. CacheHoldsStill'
  BY DEF Fail, CacheHoldsStill, TypeOK, Leave
<1>5. RangesFollowPromises'
  BY DEF Fail, RangesFollowPromises, TypeOK, Leave
<1>6. PersistedIsPromised'
  BY DEF Fail, PersistedIsPromised, TypeOK, Leave
<1> QED BY <1>1, <1>2, <1>3, <1>4, <1>5, <1>6

\* Discovery takes a copy that keeps its promises, and puts it back.
LEMMA InventoryStep ==
  ASSUME IInv, InventoryRead \/ InventoryEnd
  PROVE  IInv'
<1> USE DEF IInv
<1>1. TypeOK'
  BY RepositoryAssumption DEF InventoryRead, InventoryEnd, TypeOK, sessionVars, coverage
<1>2. Promises'
  BY QuietGrows, CopiesKept DEF InventoryRead, InventoryEnd, TypeOK, sessionVars
<1>3. StepsPinned' /\ CacheHoldsStill' /\ RangesFollowPromises' /\ PersistedIsPromised'
  BY DEF InventoryRead, InventoryEnd, StepsPinned, CacheHoldsStill, RangesFollowPromises,
         PersistedIsPromised, Promise, sessionVars, coverage
<1> QED BY <1>1, <1>2, <1>3

\* A step that changes nothing keeps the invariant.
LEMMA StutterStep ==
  ASSUME IInv, UNCHANGED vars
  PROVE  IInv'
<1> USE DEF IInv, vars, sessionVars, coverage
<1>1. TypeOK'
  BY DEF TypeOK
<1>2. Promises'
  BY QuietGrows, CopiesKept
<1>3. StepsPinned' /\ CacheHoldsStill' /\ RangesFollowPromises' /\ PersistedIsPromised'
  BY DEF StepsPinned, CacheHoldsStill, RangesFollowPromises, PersistedIsPromised, Promise
<1> QED BY <1>1, <1>2, <1>3

\* The invariant holds before the first scan.
LEMMA InitIInv == Init => IInv
<1> SUFFICES ASSUME Init PROVE IInv
  OBVIOUS
<1>1. TypeOK
  BY RepositoryAssumption, UnscannedType DEF Init, TypeOK, Nothing, Phases
<1>2. Promises
  BY HoldsIsKept, UnscannedIsKept DEF Init, Promises
<1>3. StepsPinned /\ CacheHoldsStill /\ RangesFollowPromises /\ PersistedIsPromised
  BY DEF Init, StepsPinned, CacheHoldsStill, RangesFollowPromises, PersistedIsPromised
<1> QED BY <1>1, <1>2, <1>3 DEF IInv

\* Every step preserves the invariant.
LEMMA NextIInv == IInv /\ [Next]_vars => IInv'
<1> SUFFICES ASSUME IInv, [Next]_vars PROVE IInv'
  OBVIOUS
<1>1. CASE InventoryRead \/ InventoryEnd
  BY <1>1, InventoryStep
<1>2. ASSUME NEW p \in Sessions, Session(p) PROVE IInv'
  <2>1. CASE Enter(p) \/ Fetch(p) \/ RecordSync(p) \/ Persist(p) \/ RecordCheckpoint(p) \/ Finish(p)
    BY <2>1, EnterStep, FetchStep, RecordSyncStep, PersistStep, RecordCheckpointStep, FinishStep
  <2>2. CASE \E refs \in SUBSET Refs, scanners \in SUBSET Scanners : Select(p, refs, scanners)
    BY <2>2, SelectStep
  <2>3. ASSUME NEW st \in Steps, NEW k \in Keys \union {None}, NEW incremental \in BOOLEAN,
               Skip(p, st, k, incremental) \/ StartScan(p, st, k, incremental)
        PROVE  IInv'
    BY <2>3, SkipStep, StartScanStep
  <2> QED BY <1>2, <2>1, <2>2, <2>3 DEF Session
<1>3. ASSUME NEW p \in Sessions, Fail(p) PROVE IInv'
  BY <1>3, FailStep
<1>4. CASE UNCHANGED vars
  BY <1>4, StutterStep
<1> QED BY <1>1, <1>2, <1>3, <1>4 DEF Next

\* The inductive invariant of repository scans holds in every reachable state.
THEOREM Invariance == Spec => []IInv
BY InitIInv, NextIInv, PTL DEF Spec

-----------------------------------------------------------------------------
(* Theorems.                                                               *)

\* The cache, the row's checkpoints and the sessions' copies keep their types, and
\* a session is inside exactly while it holds the lock.
THEOREM TypeCorrect == Spec => []TypeOK
<1>1. IInv => TypeOK
  BY DEF IInv
<1> QED BY <1>1, Invariance, PTL

\* Whatever fails, whatever is forced or deleted, and although metadata discoveries
\* put old checkpoints back: a checkpoint promises only what was examined and
\* committed, so scanning the range behind it misses nothing.
THEOREM CheckpointsAreEarned == Spec => []CheckpointCovers
<1>1. IInv => CheckpointCovers
  BY DEF IInv, Promises, CheckpointCovers
<1> QED BY <1>1, Invariance, PTL

\* The repository lock keeps the cache still under every scan.
THEOREM ScansSeeOneCache == Spec => []CacheHoldsStill
<1>1. IInv => CacheHoldsStill
  BY DEF IInv
<1> QED BY <1>1, Invariance, PTL

\* What incremental mode skips as unchanged has been examined.
THEOREM SkipsAreSafe == Spec => []SkipMissesNothing
<1>1. IInv => SkipMissesNothing
  <2> SUFFICES ASSUME IInv, NEW p \in Sessions, NEW st \in todo[p], NEW k \in Keys,
                      Unchanged(p, st, k, TRUE)
               PROVE  Promise(st.scanner, k, Peel[st.object])
    BY DEF SkipMissesNothing
  <2>1. st.ref \in Refs /\ st.scanner \in Scanners
    BY DEF IInv, TypeOK, Steps
  <2> QED BY <2>1 DEF IInv, Promises, Holds, Unchanged, Reusable, At
<1> QED BY <1>1, Invariance, PTL
=============================================================================
