----------------------- MODULE SchemaMigrationProofs -----------------------
(***************************************************************************)
(* Safety of the schema's upgrades: who upgrades, that a service runs on   *)
(* the newest revision with no upgrade beside it, and that this revision   *)
(* is what the models declare, for any number of processes and upgrades.   *)
(***************************************************************************)
EXTENDS SchemaMigration, TLAPS

-----------------------------------------------------------------------------
(* Schema: who upgrades, and what a service runs on.                       *)

\* Type correctness, but for the objects of the schema.
MigrationTypeOK ==
  /\ engine \in {"sqlite", "postgresql"} /\ disturbed \in BOOLEAN
  /\ DOMAIN database = {"revision", "objects", "clash"} /\ database.revision \in 0..Newest
  /\ DOMAIN work = {"revision", "objects", "clash"}
  /\ DOMAIN processes = Migrators
  /\ \A p \in Migrators : /\ DOMAIN processes[p] = {"at", "revision", "step", "before", "open"}
                          /\ processes[p].open \in BOOLEAN

\* At most one upgrade has a transaction open; without one there is nothing
\* that the others do not see.
OneTransaction ==
  /\ \A p, q \in Migrators : processes[p].open /\ processes[q].open => p = q
  /\ \A p \in Migrators : processes[p].open => processes[p].at = "upgrade"
  /\ (\A p \in Migrators : ~processes[p].open) => work = database

\* An upgrade is at the revision after the one its transaction sees, and on
\* PostgreSQL it is in a transaction from its first statement to its last.
UpgradeIsAhead(p) ==
  processes[p].at = "upgrade" =>
    /\ processes[p].revision \in 1..Newest
    /\ engine = "postgresql" => processes[p].open /\ database.revision < processes[p].revision
    /\ processes[p].open =>
         work.revision = IF engine = "postgresql" THEN processes[p].revision - 1 ELSE database.revision
    /\ ~disturbed => database.revision < processes[p].revision

\* Nobody else upgrades, on SQLite as long as no upgrade was disturbed.
UpgradesAlone ==
  /\ engine = "postgresql" => ~disturbed
  /\ ~disturbed => \A p, q \in Migrators :
                     processes[p].at = "upgrade" /\ processes[q].at = "upgrade" => p = q

\* Services run on the newest revision.
ServedIsNewest == \A p \in Migrators : processes[p].at = "serving" => database.revision = Newest

\* The inductive invariant of the schema's revisions.
MigrationInv ==
  /\ MigrationTypeOK /\ OneTransaction /\ (\A p \in Migrators : UpgradeIsAhead(p))
  /\ UpgradesAlone /\ ServedIsNewest

\* There are more than five revisions.
LEMMA RevisionCount == Newest \in Nat /\ Newest > 5
BY DEF Newest, Revisions

\* Every release before left one of the revisions, and nobody upgrades yet.
LEMMA MigrationInitially == MigrationInit => MigrationInv
<1>. SUFFICES ASSUME MigrationInit PROVE MigrationInv
  OBVIOUS
<1>1. PICK r \in {0, 1, 5}, old \in BOOLEAN, clash \in BOOLEAN :
        database = [revision |-> r, objects |-> IF old THEN Released(r) ELSE {}, clash |-> clash]
  BY Zenon DEF MigrationInit
<1>2. /\ engine \in {"sqlite", "postgresql"} /\ disturbed = FALSE /\ work = database
      /\ processes = [p \in Migrators |-> Down]
  BY MigrationAssumption DEF MigrationInit
<1>3. /\ DOMAIN database = {"revision", "objects", "clash"} /\ database.revision \in 0..Newest
  BY <1>1, RevisionCount
<1>4. \A p \in Migrators : /\ processes[p].at = "down" /\ processes[p].open = FALSE
                           /\ DOMAIN processes[p] = {"at", "revision", "step", "before", "open"}
  BY <1>2 DEF Down
<1>. QED
  BY <1>2, <1>3, <1>4
     DEF MigrationInv, MigrationTypeOK, OneTransaction, UpgradeIsAhead, UpgradesAlone, ServedIsNewest

\* A process that writes the schema has the transaction, if there is one.
LEMMA WriterSees ==
  ASSUME MigrationInv, NEW p \in Migrators, processes[p].at = "upgrade",
         InTransaction => processes[p].open
  PROVE  /\ \A q \in Migrators : q # p => ~processes[q].open
         /\ ~processes[p].open => work = database
         /\ View(p) = IF processes[p].open THEN work ELSE database
         /\ View(p).revision = IF engine = "postgresql" THEN processes[p].revision - 1
                                                        ELSE database.revision
         /\ DOMAIN View(p) = {"revision", "objects", "clash"}
<1>1. View(p) = IF processes[p].open THEN work ELSE database
  BY DEF View
<1>2. \A q \in Migrators : q # p => ~processes[q].open
  BY DEF MigrationInv, OneTransaction, InTransaction
<1>3. ~processes[p].open => work = database
  BY <1>2 DEF MigrationInv, OneTransaction
<1>4. UpgradeIsAhead(p) /\ MigrationTypeOK
  BY DEF MigrationInv
<1>. QED
  BY <1>1, <1>2, <1>3, <1>4 DEF UpgradeIsAhead, MigrationTypeOK

\* A statement leaves the revision, and opens a transaction at most.
LEMMA ExecuteMoves ==
  ASSUME MigrationInv, NEW p \in Migrators, Execute(p)
  PROVE  /\ processes[p].at = "upgrade" /\ (InTransaction => processes[p].open)
         /\ \E open \in BOOLEAN :
              /\ processes[p].open => open
              /\ processes' = [processes EXCEPT ![p].step = @ + 1, ![p].open = open]
              /\ open => database' = database
              /\ ~open => work' = database'
         /\ database'.revision = database.revision /\ DOMAIN database' = DOMAIN database
         /\ work'.revision = View(p).revision /\ DOMAIN work' = DOMAIN View(p)
         /\ UNCHANGED <<engine, disturbed>>
<1>. DEFINE s == Revisions[processes[p].revision][processes[p].step]
            present == IF s.lookup = "before" THEN processes[p].before ELSE View(p).objects
            skip == s.unless # {} /\ s.unless \subseteq present
            open == processes[p].open \/ s.kind = "fill"
            written == IF skip THEN View(p) ELSE Effect(s, View(p))
<1>1. /\ processes[p].at = "upgrade" /\ (InTransaction => processes[p].open)
      /\ WriteSchema(p, open, written)
      /\ processes' = [processes EXCEPT ![p].step = @ + 1, ![p].open = open]
      /\ UNCHANGED <<engine, disturbed>>
  BY Zenon DEF Execute
<1>2. written.revision = View(p).revision /\ DOMAIN written = DOMAIN View(p)
  <2>1. DOMAIN View(p) = {"revision", "objects", "clash"}
    BY <1>1, WriterSees
  <2>. QED
    BY <2>1 DEF Effect
<1>3. open \in BOOLEAN
  <2>1. processes[p].open \in BOOLEAN
    BY DEF MigrationInv, MigrationTypeOK
  <2>. QED
    BY <2>1, Zenon
<1>4. View(p) = IF processes[p].open THEN work ELSE database
  BY <1>1, WriterSees
<1>. HIDE DEF s, present, skip, written
<1>5. IF open THEN work' = written /\ database' = database ELSE database' = written /\ work' = written
  BY <1>1, Zenon DEF WriteSchema
<1>6. processes[p].open => open
  OBVIOUS
<1>. HIDE DEF open
<1>7. database'.revision = database.revision /\ DOMAIN database' = DOMAIN database
  BY <1>2, <1>4, <1>5, <1>6
<1>8. work' = written
  BY <1>5
<1>. QED
  BY <1>1, <1>2, <1>3, <1>5, <1>6, <1>7, <1>8

\* The end of a revision: on PostgreSQL the upgrade goes on in its
\* transaction, on SQLite the revision is committed.
LEMMA FinishMoves ==
  ASSUME MigrationInv, NEW p \in Migrators, FinishRevision(p)
  PROVE  /\ processes[p].at = "upgrade" /\ (InTransaction => processes[p].open)
         /\ View(p).revision = processes[p].revision - 1
         /\ work'.revision = processes[p].revision
         /\ DOMAIN work' = {"revision", "objects", "clash"}
         /\ DOMAIN processes' = Migrators
         /\ \A q \in Migrators : q # p => processes'[q] = processes[q]
         /\ DOMAIN processes'[p] = {"at", "revision", "step", "before", "open"}
         /\ \/ /\ processes[p].revision = Newest
               /\ processes'[p].at \in {"down", "serving"} /\ processes'[p].open = FALSE
               /\ database' = work'
            \/ /\ processes[p].revision # Newest
               /\ processes'[p].at = "upgrade"
               /\ processes'[p].revision = processes[p].revision + 1
               /\ processes'[p].open = (engine = "postgresql")
               /\ database' = IF engine = "postgresql" THEN database ELSE work'
         /\ UNCHANGED <<engine, disturbed>>
<1>. DEFINE run == processes[p]
            written == [View(p) EXCEPT !.revision = run.revision]
            last == run.revision = Newest
            open == engine = "postgresql" /\ ~last
            next == IF ~last THEN [run EXCEPT !.revision = @ + 1, !.step = 1,
                                              !.before = written.objects, !.open = open]
                    ELSE IF p \in Services THEN [Down EXCEPT !.at = "serving"] ELSE Down
<1>1. /\ run.at = "upgrade" /\ (InTransaction => run.open)
      /\ View(p).revision = run.revision - 1
      /\ WriteSchema(p, open, written)
      /\ processes' = [processes EXCEPT ![p] = next]
      /\ UNCHANGED <<engine, disturbed>>
  BY Zenon DEF FinishRevision
<1>2. DOMAIN written = {"revision", "objects", "clash"} /\ written.revision = run.revision
  BY <1>1, WriterSees
<1>3. /\ DOMAIN processes = Migrators
      /\ DOMAIN run = {"at", "revision", "step", "before", "open"}
  BY DEF MigrationInv, MigrationTypeOK
<1>4. IF open THEN work' = written /\ database' = database ELSE database' = written /\ work' = written
  BY <1>1, Zenon DEF WriteSchema
<1>5. DOMAIN processes' = Migrators /\ processes'[p] = next
      /\ \A q \in Migrators : q # p => processes'[q] = processes[q]
  BY <1>1, <1>3
<1>6. CASE last
  <2>1. ~open
    BY <1>6
  <2>2. next = IF p \in Services THEN [Down EXCEPT !.at = "serving"] ELSE Down
    BY <1>6
  <2>3. /\ DOMAIN next = {"at", "revision", "step", "before", "open"}
        /\ next.at \in {"down", "serving"} /\ next.open = FALSE
    BY <2>2 DEF Down
  <2>4. work' = written /\ database' = written
    BY <1>4, <2>1
  <2>. HIDE DEF next, written, open
  <2>. QED
    BY <1>1, <1>2, <1>5, <1>6, <2>3, <2>4
<1>7. CASE ~last
  <2>1. next = [run EXCEPT !.revision = @ + 1, !.step = 1, !.before = written.objects, !.open = open]
    BY <1>7
  <2>2. open = (engine = "postgresql")
    BY <1>7
  <2>. HIDE DEF open, written, next
  <2>3. /\ DOMAIN next = {"at", "revision", "step", "before", "open"}
        /\ next.at = "upgrade" /\ next.revision = run.revision + 1 /\ next.open = open
    BY <1>1, <1>3, <2>1
  <2>4. work' = written /\ database' = IF engine = "postgresql" THEN database ELSE written
    BY <1>4, <2>2
  <2>. QED
    BY <1>1, <1>2, <1>5, <1>7, <2>2, <2>3, <2>4
<1>. QED
  BY <1>6, <1>7

\* Starting an upgrade.
LEMMA StartUpgradeKeeps ==
  ASSUME MigrationInv, NEW p \in Migrators, StartUpgrade(p) PROVE MigrationInv'
<1>1. /\ processes[p].at = "down" /\ database.revision < Newest
      /\ engine = "postgresql" => ~InTransaction
      /\ processes' = [processes EXCEPT ![p] =
           [at |-> "upgrade", revision |-> database.revision + 1, step |-> 1,
            before |-> database.objects, open |-> engine = "postgresql"]]
      /\ disturbed' = (disturbed \/ (engine = "sqlite" /\ Upgrading # {}))
      /\ UNCHANGED <<engine, database, work>>
  BY Zenon DEF StartUpgrade
<1>2. MigrationTypeOK /\ OneTransaction /\ UpgradesAlone /\ ServedIsNewest
      /\ \A q \in Migrators : UpgradeIsAhead(q)
  BY DEF MigrationInv
<1>3. /\ DOMAIN processes' = Migrators
      /\ \A q \in Migrators : q # p => processes'[q] = processes[q]
      /\ processes'[p].at = "upgrade" /\ processes'[p].revision = database.revision + 1
      /\ processes'[p].open = (engine = "postgresql")
      /\ DOMAIN processes'[p] = {"at", "revision", "step", "before", "open"}
  BY <1>1, <1>2 DEF MigrationTypeOK
<1>4. processes[p].open = FALSE
  BY <1>1, <1>2 DEF MigrationTypeOK, OneTransaction
<1>5. engine = "postgresql" => \A q \in Migrators : processes[q].at # "upgrade" /\ ~processes[q].open
  BY <1>1, <1>2 DEF UpgradeIsAhead, InTransaction
<1>6. MigrationTypeOK'
  <2>1. disturbed' \in BOOLEAN
    BY <1>1, <1>2 DEF MigrationTypeOK
  <2>. QED
    BY <1>1, <1>2, <1>3, <2>1 DEF MigrationTypeOK
<1>7. OneTransaction'
  BY <1>1, <1>2, <1>3, <1>4, <1>5 DEF OneTransaction, MigrationTypeOK
<1>8. \A q \in Migrators : UpgradeIsAhead(q)'
  <2>. SUFFICES ASSUME NEW q \in Migrators PROVE UpgradeIsAhead(q)'
    OBVIOUS
  <2>1. ~disturbed' => ~disturbed
    BY <1>1
  <2>2. CASE q = p
    <3>1. database.revision \in 0..Newest /\ database.revision < Newest /\ Newest \in Nat
      BY <1>1, <1>2, RevisionCount DEF MigrationTypeOK
    <3>2. /\ processes'[p].revision \in 1..Newest
          /\ database'.revision < processes'[p].revision
          /\ database'.revision = processes'[p].revision - 1
      BY <1>1, <1>3, <3>1
    <3>3. processes'[p].open => engine = "postgresql"
      BY <1>3, Zenon
    <3>4. engine = "postgresql" => processes'[p].open
      BY <1>3, Zenon
    <3>5. engine = "postgresql" => work' = database'
      <4>1. engine = "postgresql" => work = database
        BY <1>2, <1>5 DEF OneTransaction
      <4>. QED
        BY <1>1, <4>1
    <3>. QED
      BY <1>1, <2>2, <3>2, <3>3, <3>4, <3>5 DEF UpgradeIsAhead
  <2>3. CASE q # p
    BY <1>1, <1>2, <1>3, <2>1, <2>3 DEF UpgradeIsAhead
  <2>. QED
    BY <2>2, <2>3
<1>9. UpgradesAlone'
  <2>1. engine = "postgresql" => ~disturbed'
    BY <1>1, <1>2 DEF UpgradesAlone
  <2>2. ~disturbed' => ~disturbed /\ \A q \in Migrators : processes[q].at # "upgrade"
    BY <1>1, <1>2, <1>5 DEF MigrationTypeOK, Upgrading
  <2>. QED
    BY <1>1, <1>3, <2>1, <2>2 DEF UpgradesAlone
<1>10. ServedIsNewest'
  BY <1>1, <1>2, <1>3 DEF ServedIsNewest
<1>. QED
  BY <1>6, <1>7, <1>8, <1>9, <1>10 DEF MigrationInv

\* Services start on the newest revision only.
LEMMA StartServingKeeps ==
  ASSUME MigrationInv, NEW p \in Migrators, StartServing(p) \/ StopServing(p) PROVE MigrationInv'
<1>1. /\ processes[p].at \in {"down", "serving"}
      /\ processes[p].at = "down" => database.revision = Newest
      /\ \/ processes' = [processes EXCEPT ![p].at = "serving"] /\ database.revision = Newest
         \/ processes' = [processes EXCEPT ![p] = Down]
      /\ UNCHANGED <<engine, database, work, disturbed>>
  BY Zenon DEF StartServing, StopServing
<1>2. MigrationTypeOK /\ OneTransaction /\ UpgradesAlone /\ ServedIsNewest
      /\ \A q \in Migrators : UpgradeIsAhead(q)
  BY DEF MigrationInv
<1>3. processes[p].open = FALSE
  BY <1>1, <1>2 DEF MigrationTypeOK, OneTransaction
<1>4. /\ DOMAIN processes' = Migrators
      /\ \A q \in Migrators : q # p => processes'[q] = processes[q]
      /\ processes'[p].at # "upgrade" /\ processes'[p].open = FALSE
      /\ processes'[p].at = "serving" => database.revision = Newest
      /\ DOMAIN processes'[p] = {"at", "revision", "step", "before", "open"}
  BY <1>1, <1>2, <1>3 DEF MigrationTypeOK, Down
<1>5. MigrationTypeOK'
  BY <1>1, <1>2, <1>4 DEF MigrationTypeOK
<1>6. OneTransaction'
  BY <1>1, <1>2, <1>3, <1>4 DEF OneTransaction
<1>7. \A q \in Migrators : UpgradeIsAhead(q)'
  BY <1>1, <1>2, <1>4 DEF UpgradeIsAhead
<1>8. UpgradesAlone'
  BY <1>1, <1>2, <1>4 DEF UpgradesAlone
<1>9. ServedIsNewest'
  BY <1>1, <1>2, <1>4 DEF ServedIsNewest
<1>. QED
  BY <1>5, <1>6, <1>7, <1>8, <1>9 DEF MigrationInv

\* A statement of an upgrade.
LEMMA ExecuteKeeps ==
  ASSUME MigrationInv, NEW p \in Migrators, Execute(p) PROVE MigrationInv'
<1>1. PICK open \in BOOLEAN :
        /\ processes[p].open => open
        /\ processes' = [processes EXCEPT ![p].step = @ + 1, ![p].open = open]
        /\ open => database' = database
        /\ ~open => work' = database'
  BY ExecuteMoves
<1>2. /\ processes[p].at = "upgrade" /\ (InTransaction => processes[p].open)
      /\ database'.revision = database.revision /\ DOMAIN database' = DOMAIN database
      /\ work'.revision = View(p).revision /\ DOMAIN work' = DOMAIN View(p)
      /\ UNCHANGED <<engine, disturbed>>
  BY ExecuteMoves
<1>3. /\ \A q \in Migrators : q # p => ~processes[q].open
      /\ View(p).revision = IF engine = "postgresql" THEN processes[p].revision - 1
                                                     ELSE database.revision
      /\ DOMAIN View(p) = {"revision", "objects", "clash"}
  BY <1>2, WriterSees
<1>4. MigrationTypeOK /\ OneTransaction /\ UpgradesAlone /\ ServedIsNewest
      /\ \A q \in Migrators : UpgradeIsAhead(q)
  BY DEF MigrationInv
<1>5. /\ DOMAIN processes' = Migrators
      /\ \A q \in Migrators : q # p => processes'[q] = processes[q]
      /\ processes'[p].at = "upgrade" /\ processes'[p].revision = processes[p].revision
      /\ processes'[p].open = open
      /\ DOMAIN processes'[p] = {"at", "revision", "step", "before", "open"}
  BY <1>1, <1>2, <1>4 DEF MigrationTypeOK
<1>6. \A q \in Migrators : processes'[q].at = processes[q].at
  BY <1>2, <1>5
<1>7. MigrationTypeOK'
  BY <1>2, <1>3, <1>4, <1>5 DEF MigrationTypeOK
<1>8. OneTransaction'
  BY <1>1, <1>3, <1>5 DEF OneTransaction
<1>9. \A q \in Migrators : UpgradeIsAhead(q)'
  <2>. SUFFICES ASSUME NEW q \in Migrators PROVE UpgradeIsAhead(q)'
    OBVIOUS
  <2>1. UpgradeIsAhead(p) /\ UpgradeIsAhead(q)
    BY <1>4
  <2>2. CASE q = p
    BY <1>1, <1>2, <1>3, <1>5, <2>1, <2>2 DEF UpgradeIsAhead
  <2>3. CASE q # p
    BY <1>2, <1>3, <1>5, <2>1, <2>3 DEF UpgradeIsAhead
  <2>. QED
    BY <2>2, <2>3
<1>10. UpgradesAlone'
  BY <1>2, <1>4, <1>6 DEF UpgradesAlone
<1>11. ServedIsNewest'
  BY <1>2, <1>4, <1>6 DEF ServedIsNewest
<1>. QED
  BY <1>7, <1>8, <1>9, <1>10, <1>11 DEF MigrationInv

\* The end of a revision raises the revision, and meets no service.
LEMMA FinishRaises ==
  ASSUME MigrationInv, NEW p \in Migrators, FinishRevision(p)
  PROVE  /\ database'.revision \in {database.revision, processes[p].revision}
         /\ database.revision < processes[p].revision
         /\ \A q \in Migrators : processes[q].at # "serving"
<1>1. /\ processes[p].at = "upgrade" /\ (InTransaction => processes[p].open)
      /\ View(p).revision = processes[p].revision - 1
      /\ work'.revision = processes[p].revision
      /\ database' \in {database, work'}
  BY FinishMoves
<1>2. View(p).revision = IF engine = "postgresql" THEN processes[p].revision - 1 ELSE database.revision
  BY <1>1, WriterSees
<1>3. MigrationTypeOK /\ ServedIsNewest /\ UpgradeIsAhead(p)
  BY DEF MigrationInv
<1>4. database.revision < processes[p].revision /\ processes[p].revision \in 1..Newest
  BY <1>1, <1>2, <1>3, RevisionCount DEF UpgradeIsAhead, MigrationTypeOK
<1>5. database.revision # Newest
  BY <1>3, <1>4, RevisionCount DEF MigrationTypeOK
<1>. QED
  BY <1>1, <1>3, <1>4, <1>5 DEF ServedIsNewest

\* The end of a revision.
LEMMA FinishKeeps ==
  ASSUME MigrationInv, NEW p \in Migrators, FinishRevision(p) PROVE MigrationInv'
<1>1. /\ processes[p].at = "upgrade" /\ (InTransaction => processes[p].open)
      /\ work'.revision = processes[p].revision
      /\ DOMAIN work' = {"revision", "objects", "clash"}
      /\ DOMAIN processes' = Migrators
      /\ \A q \in Migrators : q # p => processes'[q] = processes[q]
      /\ DOMAIN processes'[p] = {"at", "revision", "step", "before", "open"}
      /\ UNCHANGED <<engine, disturbed>>
  BY FinishMoves
<1>2. /\ \A q \in Migrators : q # p => ~processes[q].open
      /\ \A q \in Migrators : processes[q].at # "serving"
      /\ database.revision < processes[p].revision
  BY <1>1, WriterSees, FinishRaises
<1>3. MigrationTypeOK /\ OneTransaction /\ UpgradesAlone
      /\ \A q \in Migrators : UpgradeIsAhead(q)
  BY DEF MigrationInv
<1>4. processes[p].revision \in 1..Newest
  BY <1>1, <1>3 DEF UpgradeIsAhead
<1>5. \A q \in Migrators : processes'[q].at = "upgrade" => processes[q].at = "upgrade"
  BY <1>1
<1>6. UpgradesAlone'
  BY <1>1, <1>3, <1>5 DEF UpgradesAlone
<1>7. CASE processes[p].revision = Newest
  <2>1. processes'[p].at \in {"down", "serving"} /\ processes'[p].open = FALSE /\ database' = work'
    BY <1>7, FinishMoves
  <2>2. MigrationTypeOK'
    <3>1. database'.revision \in 0..Newest /\ DOMAIN database' = {"revision", "objects", "clash"}
      BY <1>1, <1>4, <2>1, RevisionCount
    <3>2. \A q \in Migrators : /\ DOMAIN processes'[q] = {"at", "revision", "step", "before", "open"}
                               /\ processes'[q].open \in BOOLEAN
      BY <1>1, <1>3, <2>1 DEF MigrationTypeOK
    <3>. QED
      BY <1>1, <1>3, <3>1, <3>2 DEF MigrationTypeOK
  <2>3. OneTransaction'
    BY <1>1, <1>2, <2>1 DEF OneTransaction
  <2>4. \A q \in Migrators : UpgradeIsAhead(q)'
    <3>. SUFFICES ASSUME NEW q \in Migrators, processes'[q].at = "upgrade" PROVE UpgradeIsAhead(q)'
      BY DEF UpgradeIsAhead
    <3>1. q # p /\ processes'[q] = processes[q] /\ processes[q].at = "upgrade" /\ ~processes[q].open
      BY <1>1, <1>2, <2>1
    <3>2. disturbed
      BY <1>1, <1>3, <3>1 DEF UpgradesAlone
    <3>. QED
      BY <1>1, <1>3, <3>1, <3>2 DEF UpgradeIsAhead, UpgradesAlone
  <2>5. ServedIsNewest'
    BY <1>1, <1>7, <2>1 DEF ServedIsNewest
  <2>. QED
    BY <1>6, <2>2, <2>3, <2>4, <2>5 DEF MigrationInv
<1>8. CASE processes[p].revision # Newest
  <2>1. /\ processes'[p].at = "upgrade" /\ processes'[p].revision = processes[p].revision + 1
        /\ processes'[p].open = (engine = "postgresql")
        /\ database' = IF engine = "postgresql" THEN database ELSE work'
    BY <1>8, FinishMoves
  <2>2. MigrationTypeOK'
    <3>1. database'.revision \in 0..Newest /\ DOMAIN database' = {"revision", "objects", "clash"}
      BY <1>1, <1>3, <1>4, <2>1, RevisionCount DEF MigrationTypeOK
    <3>2. processes'[p].open \in BOOLEAN
      BY <2>1, Zenon
    <3>3. \A q \in Migrators : /\ DOMAIN processes'[q] = {"at", "revision", "step", "before", "open"}
                               /\ processes'[q].open \in BOOLEAN
      BY <1>1, <1>3, <3>2 DEF MigrationTypeOK
    <3>. QED
      BY <1>1, <1>3, <3>1, <3>3 DEF MigrationTypeOK
  <2>3. OneTransaction'
    <3>1. engine # "postgresql" => database' = work'
      BY <2>1
    <3>2. \A q \in Migrators : processes'[q].open => q = p /\ engine = "postgresql"
      BY <1>1, <1>2, <2>1
    <3>. QED
      BY <2>1, <3>1, <3>2 DEF OneTransaction
  <2>4. \A q \in Migrators : UpgradeIsAhead(q)'
    <3>. SUFFICES ASSUME NEW q \in Migrators, processes'[q].at = "upgrade" PROVE UpgradeIsAhead(q)'
      BY DEF UpgradeIsAhead
    <3>1. CASE q = p
      <4>1. processes'[p].revision \in 1..Newest
        BY <1>4, <1>8, <2>1, RevisionCount
      <4>2. database'.revision < processes'[p].revision
        BY <1>1, <1>2, <1>3, <1>4, <2>1 DEF MigrationTypeOK
      <4>3. work'.revision = processes'[p].revision - 1
        BY <1>1, <1>4, <2>1
      <4>. QED
        BY <1>1, <2>1, <3>1, <4>1, <4>2, <4>3 DEF UpgradeIsAhead
    <3>2. CASE q # p
      <4>1. processes'[q] = processes[q] /\ processes[q].at = "upgrade" /\ ~processes[q].open
        BY <1>1, <1>2, <3>2
      <4>2. disturbed
        BY <1>1, <1>3, <3>2, <4>1 DEF UpgradesAlone
      <4>. QED
        BY <1>1, <1>3, <4>1, <4>2 DEF UpgradeIsAhead, UpgradesAlone
    <3>. QED
      BY <3>1, <3>2
  <2>5. ServedIsNewest'
    BY <1>1, <1>2, <2>1 DEF ServedIsNewest
  <2>. QED
    BY <1>6, <2>2, <2>3, <2>4, <2>5 DEF MigrationInv
<1>. QED
  BY <1>7, <1>8

\* A statement fails or the process is killed: its transaction is undone.
LEMMA BreakOffKeeps ==
  ASSUME MigrationInv, NEW p \in Migrators, BreakOff(p) PROVE MigrationInv'
<1>1. /\ processes[p].at = "upgrade"
      /\ processes' = [processes EXCEPT ![p] = Down]
      /\ work' = IF processes[p].open THEN database ELSE work
      /\ disturbed' = (disturbed \/ (engine = "sqlite" /\ processes[p].step > 1))
      /\ UNCHANGED <<engine, database>>
  BY Zenon DEF BreakOff
<1>2. MigrationTypeOK /\ OneTransaction /\ UpgradesAlone /\ ServedIsNewest
      /\ \A q \in Migrators : UpgradeIsAhead(q)
  BY DEF MigrationInv
<1>3. /\ DOMAIN processes' = Migrators
      /\ \A q \in Migrators : q # p => processes'[q] = processes[q]
      /\ processes'[p].at = "down" /\ processes'[p].open = FALSE
      /\ DOMAIN processes'[p] = {"at", "revision", "step", "before", "open"}
  BY <1>1, <1>2 DEF MigrationTypeOK, Down
<1>4. /\ disturbed' \in BOOLEAN /\ (~disturbed' => ~disturbed)
      /\ (engine = "postgresql" => disturbed' = disturbed)
  BY <1>1, <1>2 DEF MigrationTypeOK
<1>5. MigrationTypeOK'
  BY <1>1, <1>2, <1>3, <1>4 DEF MigrationTypeOK
<1>6. OneTransaction'
  BY <1>1, <1>2, <1>3 DEF OneTransaction
<1>7. \A q \in Migrators : UpgradeIsAhead(q)'
  <2>. SUFFICES ASSUME NEW q \in Migrators, processes'[q].at = "upgrade" PROVE UpgradeIsAhead(q)'
    BY DEF UpgradeIsAhead
  <2>1. q # p /\ processes'[q] = processes[q] /\ processes[q].open => ~processes[p].open
    BY <1>2, <1>3 DEF OneTransaction
  <2>2. q # p /\ processes'[q] = processes[q]
    BY <1>3
  <2>. QED
    BY <1>1, <1>2, <1>4, <2>1, <2>2 DEF UpgradeIsAhead
<1>8. UpgradesAlone'
  BY <1>1, <1>2, <1>3, <1>4 DEF UpgradesAlone
<1>9. ServedIsNewest'
  BY <1>1, <1>2, <1>3 DEF ServedIsNewest
<1>. QED
  BY <1>5, <1>6, <1>7, <1>8, <1>9 DEF MigrationInv

\* Every step keeps the invariant.
LEMMA MigrationStep == MigrationInv /\ [MigrationNext]_migrationVars => MigrationInv'
<1>1. ASSUME MigrationInv, NEW p \in Migrators,
             StartUpgrade(p) \/ StartServing(p) \/ StopServing(p)
             \/ Execute(p) \/ FinishRevision(p) \/ BreakOff(p)
      PROVE  MigrationInv'
  BY <1>1, StartUpgradeKeeps, StartServingKeeps, ExecuteKeeps, FinishKeeps, BreakOffKeeps
<1>2. ASSUME MigrationInv, UNCHANGED migrationVars PROVE MigrationInv'
  BY <1>2 DEF migrationVars, MigrationInv, MigrationTypeOK, OneTransaction, UpgradeIsAhead,
              UpgradesAlone, ServedIsNewest
<1>. QED
  BY <1>1, <1>2 DEF MigrationNext

\* MigrationInv holds in every reachable state.
THEOREM MigrationInvariance == MigrationSpec => []MigrationInv
BY MigrationInitially, MigrationStep, PTL DEF MigrationSpec

\* prepare_database: a service only runs on the newest revision, and no
\* upgrade changes the schema under it: on PostgreSQL never, on SQLite unless
\* an upgrade was cut off amid a revision or met another one.
ServicesMeetNoUpgrade ==
  (\E p \in Services : processes[p].at = "serving") =>
    /\ database.revision = Newest
    /\ engine = "postgresql" \/ ~disturbed => Upgrading = {}

\* Whatever is cut off and however many processes upgrade, a service that runs
\* meets the newest revision (prepare_database), and no upgrade beside it.
THEOREM ServicesMeetTheNewest == MigrationSpec => []ServicesMeetNoUpgrade
<1>1. MigrationInv => ServicesMeetNoUpgrade
  <2>. SUFFICES ASSUME MigrationInv, NEW s \in Services, processes[s].at = "serving"
                PROVE  /\ database.revision = Newest
                       /\ engine = "postgresql" \/ ~disturbed => Upgrading = {}
    BY DEF ServicesMeetNoUpgrade
  <2>1. database.revision = Newest
    BY DEF MigrationInv, ServedIsNewest, Migrators
  <2>2. ASSUME engine = "postgresql" \/ ~disturbed, NEW q \in Migrators
        PROVE  processes[q].at # "upgrade"
    BY <2>1, <2>2, RevisionCount DEF MigrationInv, UpgradesAlone, UpgradeIsAhead
  <2>. QED
    BY <2>1, <2>2 DEF Upgrading
<1>. QED
  BY <1>1, MigrationInvariance, PTL

\* The recorded revision never goes back, however many processes upgrade.
THEOREM RevisionsAdvance == MigrationSpec => [][database'.revision >= database.revision]_migrationVars
<1>1. ASSUME MigrationInv, [MigrationNext]_migrationVars
      PROVE  [database'.revision >= database.revision]_migrationVars
  <2>. SUFFICES ASSUME NEW p \in Migrators,
                       StartUpgrade(p) \/ StartServing(p) \/ StopServing(p)
                       \/ Execute(p) \/ FinishRevision(p) \/ BreakOff(p)
                PROVE  database'.revision >= database.revision
    BY <1>1 DEF MigrationNext
  <2>1. database.revision \in Int
    BY <1>1 DEF MigrationInv, MigrationTypeOK
  <2>2. CASE StartUpgrade(p) \/ StartServing(p) \/ StopServing(p) \/ BreakOff(p)
    BY <2>1, <2>2 DEF StartUpgrade, StartServing, StopServing, BreakOff
  <2>3. CASE Execute(p)
    <3>1. database'.revision = database.revision
      BY <1>1, <2>3, ExecuteMoves
    <3>. QED
      BY <2>1, <3>1
  <2>4. CASE FinishRevision(p)
    <3>1. processes[p].revision \in Int
      <4>1. processes[p].at = "upgrade"
        BY <1>1, <2>4, FinishMoves
      <4>. QED
        BY <1>1, <4>1, RevisionCount DEF MigrationInv, UpgradeIsAhead
    <3>2. /\ database'.revision \in {database.revision, processes[p].revision}
          /\ database.revision < processes[p].revision
      BY <1>1, <2>4, FinishRaises
    <3>. QED
      BY <2>1, <3>1, <3>2
  <2>. QED
    BY <2>2, <2>3, <2>4
<1>. QED
  BY <1>1, MigrationInvariance, PTL DEF MigrationSpec

-----------------------------------------------------------------------------
(* What each revision leaves at the least, and the way there.              *)

\* The tables that a release before the revision that makes them did not have.
Late == ToSet(Phase17) \ EarlyTables

\* A table of the early revisions with all that they give it.
Made(t) == Columns(t) \union IndexesOf(t)

\* What the statements of revision r can add.
Adds(r) == UNION {s.objects : s \in {x \in ToSet(Revisions[r]) : x.kind = "add"}}

\* What revision r drops, to add it again.
Drops(r) == IF r = 16 THEN {Indexes("domains")} ELSE {}

\* What the first revision leaves at the least.
Baselined ==
  (UNION {{Table(t), Indexes(t)} : t \in EarlyTables})
  \union (UNION {s.objects : s \in {x \in ToSet(Baseline) : x.kind = "add" /\ x.lookup = "now"}})

\* The objects once revision r is applied.
Applied(r, objects) ==
  /\ objects \subseteq HeadSchema
  /\ r = 0 => \A t \in EarlyTables : Table(t) \in objects => Indexes(t) \in objects
  /\ \A t \in Late : Table(t) \in objects => Made(t) \subseteq objects
  /\ r > 0 => Baselined \subseteq objects
  /\ \A q \in 2..r : Adds(q) \subseteq objects

\* A statement that was executed left its objects, or was not needed.
Done(s, before, objects) ==
  s.kind = "add" => \/ s.objects \subseteq objects
                    \/ /\ s.unless # {}
                       /\ s.unless \subseteq IF s.lookup = "before" THEN before ELSE objects

\* The objects after the statements of revision r before the given one.
Underway(r, step, before, objects) ==
  /\ objects \subseteq before \union Adds(r)
  /\ before \ Drops(r) \subseteq objects
  /\ \A j \in 1..step - 1 : Done(Revisions[r][j], before, objects)

-----------------------------------------------------------------------------
(* The statements of the revisions, as sets.                               *)

\* A sequence of its elements.
List(s) == s \in Seq(ToSet(s))

\* What a list contains.
LEMMA Elements == ASSUME NEW s, List(s) PROVE ToSet(s) = {s[i] : i \in 1..Len(s)} /\ Len(s) \in Nat
BY DEF List, ToSet

\* The elements of two sequences that are joined.
LEMMA Joined ==
  ASSUME NEW s, NEW t, List(s), List(t)
  PROVE  List(s \o t) /\ ToSet(s \o t) = ToSet(s) \union ToSet(t)
<1>. DEFINE both == ToSet(s) \union ToSet(t)
            joined == s \o t
<1>1. s \in Seq(both) /\ t \in Seq(both)
  BY DEF List
<1>2. /\ joined \in Seq(both) /\ Len(joined) = Len(s) + Len(t) /\ Len(s) \in Nat /\ Len(t) \in Nat
      /\ \A i \in 1..Len(s) : joined[i] = s[i]
      /\ \A i \in 1..Len(t) : joined[Len(s) + i] = t[i]
  BY <1>1
<1>3. /\ ToSet(s) = {s[i] : i \in 1..Len(s)} /\ ToSet(t) = {t[i] : i \in 1..Len(t)}
      /\ ToSet(joined) = {joined[i] : i \in 1..Len(joined)}
  <2>. HIDE DEF joined
  <2>1. DOMAIN joined = 1..Len(joined)
    BY <1>2
  <2>. QED
    BY <2>1, Elements DEF ToSet
<1>. HIDE DEF joined, both
<1>4. ASSUME NEW x \in ToSet(joined) PROVE x \in both
  BY <1>2, <1>3, <1>4
<1>5. ASSUME NEW x \in ToSet(s) PROVE x \in ToSet(joined)
  <2>1. PICK i \in 1..Len(s) : x = s[i]
    BY <1>3
  <2>2. i \in 1..Len(joined) /\ x = joined[i]
    BY <1>2, <2>1
  <2>. QED
    BY <1>3, <2>2
<1>6. ASSUME NEW x \in ToSet(t) PROVE x \in ToSet(joined)
  <2>1. PICK i \in 1..Len(t) : x = t[i]
    BY <1>3
  <2>2. Len(s) + i \in 1..Len(joined) /\ x = joined[Len(s) + i]
    BY <1>2, <2>1
  <2>. QED
    BY <1>3, <2>2
<1>7. ToSet(joined) = both
  BY <1>4, <1>5, <1>6 DEF both
<1>. QED
  BY <1>2, <1>7 DEF List, joined, both

\* The statement that adds one object unless it is there.
AddingOne(object) == Statement("add", {object}, {object}, "now")

\* Those that add parts of a table.
Adding(t, parts) == {AddingOne(<<t, part>>) : part \in parts}

\* The first statement that makes a table that is missing.
MakesColumns(t) == Statement("add", Columns(t), {Table(t)}, "before")

\* The second of them.
MakesIndexes(t) == Statement("add", IndexesOf(t), {Table(t)}, "before")

\* Both of them.
Making(t) == {MakesColumns(t), MakesIndexes(t)}

\* The first statement that makes a new table.
MakesTable(t) == Statement("add", {Table(t)}, {}, "now")

\* The second of them.
MakesItsIndexes(t) == Statement("add", {Indexes(t)}, {}, "now")

\* Both of them.
Creating(t) == {MakesTable(t), MakesItsIndexes(t)}

\* Work on rows.
Work(what) == {Statement(what, {}, {}, "now")}

\* Two statements for each table.
LEMMA TwoEach ==
  ASSUME NEW tables, List(tables), NEW first, NEW second, NEW all,
         List(all), Len(all) = 2 * Len(tables),
         DOMAIN first = ToSet(tables), DOMAIN second = ToSet(tables),
         \A k \in 1..Len(tables) : all[2 * k - 1] = first[tables[k]] /\ all[2 * k] = second[tables[k]]
  PROVE  ToSet(all) = UNION {{first[t], second[t]} : t \in ToSet(tables)}
<1>1. Len(tables) \in Nat /\ ToSet(tables) = {tables[k] : k \in 1..Len(tables)}
  BY Elements
<1>2. ToSet(all) = {all[i] : i \in 1..2 * Len(tables)}
  <2>1. ToSet(all) = {all[i] : i \in 1..Len(all)}
    BY Elements
  <2>. QED
    BY <2>1
<1>3. ASSUME NEW x \in ToSet(all) PROVE \E t \in ToSet(tables) : x \in {first[t], second[t]}
  <2>1. PICK i \in 1..2 * Len(tables) : x = all[i]
    BY <1>2
  <2>2. PICK k \in 1..Len(tables) : i = 2 * k - 1 \/ i = 2 * k
    <3>1. /\ (i + 1) \div 2 \in 1..Len(tables)
          /\ i = 2 * ((i + 1) \div 2) - 1 \/ i = 2 * ((i + 1) \div 2)
      BY <1>1
    <3>. QED
      BY <3>1
  <2>3. x \in {first[tables[k]], second[tables[k]]}
    BY <2>1, <2>2
  <2>. QED
    BY <1>1, <2>3
<1>4. ASSUME NEW t \in ToSet(tables), NEW x \in {first[t], second[t]} PROVE x \in ToSet(all)
  <2>1. PICK k \in 1..Len(tables) : t = tables[k]
    BY <1>1
  <2>2. 2 * k - 1 \in 1..2 * Len(tables) /\ 2 * k \in 1..2 * Len(tables)
    BY <1>1
  <2>. QED
    BY <1>2, <2>1, <2>2
<1>. QED
  BY <1>3, <1>4

\* A list of one.
LEMMA Single == ASSUME NEW x PROVE List(<<x>>) /\ ToSet(<<x>>) = {x}
BY DEF List, ToSet

\* The two statements for a table that is missing, and for a new one.
LEMMA TwoStatements ==
  ASSUME NEW t
  PROVE  /\ CreateIfMissing(t)[1] = MakesColumns(t) /\ CreateIfMissing(t)[2] = MakesIndexes(t)
         /\ Create(t)[1] = MakesTable(t) /\ Create(t)[2] = MakesItsIndexes(t)
         /\ List(CreateIfMissing(t)) /\ ToSet(CreateIfMissing(t)) = Making(t)
         /\ List(Create(t)) /\ ToSet(Create(t)) = Creating(t)
<1>1. CreateIfMissing(t) = <<MakesColumns(t), MakesIndexes(t)>>
  BY DEF CreateIfMissing, MakesColumns, MakesIndexes
<1>2. ASSUME NEW a, NEW b PROVE List(<<a, b>>) /\ ToSet(<<a, b>>) = {a, b}
  BY DEF List, ToSet
<1>3. Create(t) = <<MakesTable(t)>> \o <<MakesItsIndexes(t)>>
  BY DEF Create, Add, MakesTable, MakesItsIndexes
<1>4. Create(t)[1] = MakesTable(t) /\ Create(t)[2] = MakesItsIndexes(t)
  <2>1. ASSUME NEW a, NEW b PROVE (<<a>> \o <<b>>)[1] = a /\ (<<a>> \o <<b>>)[2] = b
    OBVIOUS
  <2>. QED
    BY <1>3, <2>1
<1>5. List(Create(t)) /\ ToSet(Create(t)) = {MakesTable(t)} \union {MakesItsIndexes(t)}
  BY <1>3, Single, Joined
<1>. QED
  BY <1>1, <1>2, <1>4, <1>5 DEF Making, Creating

\* Both statements of each table.
LEMMA MakingAll ==
  ASSUME NEW tables, List(tables)
  PROVE  /\ List(All(tables, CreateIfMissing))
         /\ ToSet(All(tables, CreateIfMissing)) = UNION {Making(t) : t \in ToSet(tables)}
<1>. DEFINE all == All(tables, CreateIfMissing)
            first == [t \in ToSet(tables) |-> MakesColumns(t)]
            second == [t \in ToSet(tables) |-> MakesIndexes(t)]
<1>1. all = [i \in 1..2 * Len(tables) |->
               CreateIfMissing(tables[(i + 1) \div 2])[IF i % 2 = 1 THEN 1 ELSE 2]]
  BY DEF All
<1>2. \A t : CreateIfMissing(t)[1] = MakesColumns(t) /\ CreateIfMissing(t)[2] = MakesIndexes(t)
  BY TwoStatements
<1>3. DOMAIN first = ToSet(tables) /\ DOMAIN second = ToSet(tables)
      /\ \A t \in ToSet(tables) : first[t] = MakesColumns(t) /\ second[t] = MakesIndexes(t)
  OBVIOUS
<1>. HIDE DEF all, first, second
<1>4. ASSUME NEW k \in 1..Len(tables)
      PROVE  all[2 * k - 1] = first[tables[k]] /\ all[2 * k] = second[tables[k]]
  <2>1. (2 * k - 1 + 1) \div 2 = k /\ (2 * k - 1) % 2 = 1 /\ 2 * k - 1 \in 1..2 * Len(tables)
    BY Elements
  <2>2. (2 * k + 1) \div 2 = k /\ (2 * k) % 2 # 1 /\ 2 * k \in 1..2 * Len(tables)
    BY Elements
  <2>3. all[2 * k - 1] = MakesColumns(tables[k]) /\ all[2 * k] = MakesIndexes(tables[k])
    BY <1>1, <1>2, <2>1, <2>2
  <2>4. tables[k] \in ToSet(tables)
    BY Elements
  <2>. QED
    BY <1>3, <2>3, <2>4
<1>5. List(all) /\ Len(all) = 2 * Len(tables)
  <2>1. 2 * Len(tables) \in Nat /\ DOMAIN all = 1..2 * Len(tables)
    BY <1>1, Elements
  <2>2. \A i \in 1..2 * Len(tables) : all[i] \in ToSet(all)
    BY <2>1 DEF ToSet
  <2>3. all = [i \in 1..2 * Len(tables) |-> all[i]]
    BY <1>1
  <2>4. all \in [1..2 * Len(tables) -> ToSet(all)]
    BY <2>2, <2>3
  <2>. QED
    BY <2>1, <2>4 DEF List
<1>6. ToSet(all) = UNION {{first[t], second[t]} : t \in ToSet(tables)}
  BY <1>3, <1>4, <1>5, TwoEach
<1>7. {{first[t], second[t]} : t \in ToSet(tables)} = {Making(t) : t \in ToSet(tables)}
  BY <1>3 DEF Making
<1>. QED
  BY <1>5, <1>6, <1>7 DEF all

\* The same for new tables.
LEMMA CreatingAll ==
  ASSUME NEW tables, List(tables)
  PROVE  /\ List(All(tables, Create))
         /\ ToSet(All(tables, Create)) = UNION {Creating(t) : t \in ToSet(tables)}
<1>. DEFINE all == All(tables, Create)
            first == [t \in ToSet(tables) |-> MakesTable(t)]
            second == [t \in ToSet(tables) |-> MakesItsIndexes(t)]
<1>1. all = [i \in 1..2 * Len(tables) |->
               Create(tables[(i + 1) \div 2])[IF i % 2 = 1 THEN 1 ELSE 2]]
  BY DEF All
<1>2. \A t : Create(t)[1] = MakesTable(t) /\ Create(t)[2] = MakesItsIndexes(t)
  BY TwoStatements
<1>3. DOMAIN first = ToSet(tables) /\ DOMAIN second = ToSet(tables)
      /\ \A t \in ToSet(tables) : first[t] = MakesTable(t) /\ second[t] = MakesItsIndexes(t)
  OBVIOUS
<1>. HIDE DEF all, first, second
<1>4. ASSUME NEW k \in 1..Len(tables)
      PROVE  all[2 * k - 1] = first[tables[k]] /\ all[2 * k] = second[tables[k]]
  <2>1. (2 * k - 1 + 1) \div 2 = k /\ (2 * k - 1) % 2 = 1 /\ 2 * k - 1 \in 1..2 * Len(tables)
    BY Elements
  <2>2. (2 * k + 1) \div 2 = k /\ (2 * k) % 2 # 1 /\ 2 * k \in 1..2 * Len(tables)
    BY Elements
  <2>3. all[2 * k - 1] = MakesTable(tables[k]) /\ all[2 * k] = MakesItsIndexes(tables[k])
    BY <1>1, <1>2, <2>1, <2>2
  <2>4. tables[k] \in ToSet(tables)
    BY Elements
  <2>. QED
    BY <1>3, <2>3, <2>4
<1>5. List(all) /\ Len(all) = 2 * Len(tables)
  <2>1. 2 * Len(tables) \in Nat /\ DOMAIN all = 1..2 * Len(tables)
    BY <1>1, Elements
  <2>2. \A i \in 1..2 * Len(tables) : all[i] \in ToSet(all)
    BY <2>1 DEF ToSet
  <2>3. all = [i \in 1..2 * Len(tables) |-> all[i]]
    BY <1>1
  <2>4. all \in [1..2 * Len(tables) -> ToSet(all)]
    BY <2>2, <2>3
  <2>. QED
    BY <2>1, <2>4 DEF List
<1>6. ToSet(all) = UNION {{first[t], second[t]} : t \in ToSet(tables)}
  BY <1>3, <1>4, <1>5, TwoEach
<1>7. {{first[t], second[t]} : t \in ToSet(tables)} = {Creating(t) : t \in ToSet(tables)}
  BY <1>3 DEF Creating
<1>. QED
  BY <1>5, <1>6, <1>7 DEF all

\* One statement for each part that may be missing.
LEMMA AddingAll ==
  ASSUME NEW t, NEW parts, List(parts)
  PROVE  List(AddIfMissing(t, parts)) /\ ToSet(AddIfMissing(t, parts)) = Adding(t, ToSet(parts))
<1>. DEFINE all == AddIfMissing(t, parts)
<1>1. all = [i \in 1..Len(parts) |-> AddingOne(<<t, parts[i]>>)]
  BY DEF AddIfMissing, AddingOne
<1>2. Len(parts) \in Nat /\ ToSet(parts) = {parts[i] : i \in 1..Len(parts)}
  BY Elements
<1>. HIDE DEF all
<1>3. ToSet(all) = {AddingOne(<<t, parts[i]>>) : i \in 1..Len(parts)}
  BY <1>1 DEF ToSet
<1>4. ToSet(all) = Adding(t, ToSet(parts))
  BY <1>2, <1>3 DEF Adding
<1>5. \A i \in 1..Len(parts) : all[i] \in ToSet(all)
  BY <1>1, <1>3
<1>6. all \in Seq(ToSet(all))
  BY <1>1, <1>2, <1>5
<1>. QED
  BY <1>4, <1>6 DEF List, all

\* Work on rows is one statement.
LEMMA Working == ASSUME NEW what PROVE List(RowWork(what)) /\ ToSet(RowWork(what)) = Work(what)
BY Single DEF RowWork, Work

\* So is a plain addition.
LEMMA Additions ==
  ASSUME NEW objects
  PROVE  List(Add(objects)) /\ ToSet(Add(objects)) = {Statement("add", objects, {}, "now")}
BY Single DEF Add

\* The tables of the early revisions, by name.
LEMMA PhaseTables ==
  /\ List(Phase17)
  /\ ToSet(Phase17) =
       {"organizations", "rate_limit_states", "relationships", "scan_jobs", "scheduled_reports",
        "scheduled_scans", "users", "accounts", "domains", "queue_tasks", "tool_runs",
        "user_sessions", "user_tenant_memberships", "domain_exposures", "identity_correlations",
        "repositories", "findings", "evidence", "finding_history", "risk_scores", "suppressions"}
<1>1. List(Phase17Roots) /\ ToSet(Phase17Roots) =
        {"organizations", "rate_limit_states", "relationships", "scan_jobs", "scheduled_reports",
         "scheduled_scans", "users"}
  BY DEF List, ToSet, Phase17Roots
<1>2. List(Phase17Owned) /\ ToSet(Phase17Owned) =
        {"accounts", "domains", "queue_tasks", "tool_runs", "user_sessions",
         "user_tenant_memberships"}
  BY DEF List, ToSet, Phase17Owned
<1>3. List(Phase17Findings) /\ ToSet(Phase17Findings) =
        {"domain_exposures", "identity_correlations", "repositories", "findings", "evidence",
         "finding_history", "risk_scores", "suppressions"}
  BY DEF List, ToSet, Phase17Findings
<1>4. /\ List(Phase17)
      /\ ToSet(Phase17) = ToSet(Phase17Roots) \union ToSet(Phase17Owned) \union ToSet(Phase17Findings)
  BY <1>1, <1>2, <1>3, Joined DEF Phase17
<1>. QED
  BY <1>1, <1>2, <1>3, <1>4

\* Those that a release without the late revisions has, and those it lacks.
LEMMA EarlyAndLate ==
  /\ EarlyTables =
       {"organizations", "relationships", "scan_jobs", "scheduled_scans", "accounts", "domains",
        "tool_runs", "domain_exposures", "identity_correlations", "repositories", "findings",
        "evidence", "risk_scores", "suppressions"}
  /\ Late = {"scheduled_reports", "users", "user_tenant_memberships", "user_sessions",
             "queue_tasks", "rate_limit_states", "finding_history"}
BY PhaseTables DEF EarlyTables, Late

\* The columns that the first revision adds.
BaselineColumns ==
  Adding("organizations", {"tenant_key"})
  \union Adding("repositories", {"mirror_path", "last_mirrored_at"})
  \union Adding("scan_jobs", {"target_ref", "scope_json"})
  \union Adding("findings", {"triage_owner", "triage_notes", "remediation_due_date"})
  \union Adding("evidence", {"ref_name"})
  \union Adding("relationships", {"metadata_json"})
  \union Adding("tool_runs", {"artifact_type", "artifact_path"})

\* The first revision.
LEMMA BaselineStatements ==
  /\ List(Baseline)
  /\ ToSet(Baseline) = (UNION {Making(t) : t \in ToSet(Phase17)}) \union BaselineColumns
                       \union Work("fill")
<1>. DEFINE a == AddIfMissing("organizations", <<"tenant_key">>)
            b == AddIfMissing("repositories", <<"mirror_path", "last_mirrored_at">>)
            c == AddIfMissing("scan_jobs", <<"target_ref", "scope_json">>)
            d == AddIfMissing("findings", <<"triage_owner", "triage_notes", "remediation_due_date">>)
            e == AddIfMissing("evidence", <<"ref_name">>)
            f == AddIfMissing("relationships", <<"metadata_json">>)
            g == AddIfMissing("tool_runs", <<"artifact_type", "artifact_path">>)
            h == RowWork("fill")
            all == All(Phase17, CreateIfMissing)
<1>1. List(a) /\ ToSet(a) = Adding("organizations", {"tenant_key"})
  <2>1. List(<<"tenant_key">>) /\ ToSet(<<"tenant_key">>) = {"tenant_key"}
    BY Single
  <2>. QED
    BY <2>1, AddingAll
<1>2. List(b) /\ ToSet(b) = Adding("repositories", {"mirror_path", "last_mirrored_at"})
  <2>1. /\ List(<<"mirror_path", "last_mirrored_at">>)
        /\ ToSet(<<"mirror_path", "last_mirrored_at">>) = {"mirror_path", "last_mirrored_at"}
    BY DEF List, ToSet
  <2>. QED
    BY <2>1, AddingAll
<1>3. List(c) /\ ToSet(c) = Adding("scan_jobs", {"target_ref", "scope_json"})
  <2>1. /\ List(<<"target_ref", "scope_json">>)
        /\ ToSet(<<"target_ref", "scope_json">>) = {"target_ref", "scope_json"}
    BY DEF List, ToSet
  <2>. QED
    BY <2>1, AddingAll
<1>4. List(d) /\ ToSet(d) =
        Adding("findings", {"triage_owner", "triage_notes", "remediation_due_date"})
  <2>1. /\ List(<<"triage_owner", "triage_notes", "remediation_due_date">>)
        /\ ToSet(<<"triage_owner", "triage_notes", "remediation_due_date">>) =
             {"triage_owner", "triage_notes", "remediation_due_date"}
    BY DEF List, ToSet
  <2>. QED
    BY <2>1, AddingAll
<1>5. List(e) /\ ToSet(e) = Adding("evidence", {"ref_name"})
  <2>1. List(<<"ref_name">>) /\ ToSet(<<"ref_name">>) = {"ref_name"}
    BY Single
  <2>. QED
    BY <2>1, AddingAll
<1>6. List(f) /\ ToSet(f) = Adding("relationships", {"metadata_json"})
  <2>1. List(<<"metadata_json">>) /\ ToSet(<<"metadata_json">>) = {"metadata_json"}
    BY Single
  <2>. QED
    BY <2>1, AddingAll
<1>7. List(g) /\ ToSet(g) = Adding("tool_runs", {"artifact_type", "artifact_path"})
  <2>1. /\ List(<<"artifact_type", "artifact_path">>)
        /\ ToSet(<<"artifact_type", "artifact_path">>) = {"artifact_type", "artifact_path"}
    BY DEF List, ToSet
  <2>. QED
    BY <2>1, AddingAll
<1>8. List(h) /\ ToSet(h) = Work("fill")
  BY Working
<1>9. List(all) /\ ToSet(all) = UNION {Making(t) : t \in ToSet(Phase17)}
  BY MakingAll, PhaseTables
<1>10. Baseline = all \o a \o b \o c \o d \o e \o f \o g \o h
  BY DEF Baseline
<1>. HIDE DEF a, b, c, d, e, f, g, h, all
<1>11. List(all \o a \o b) /\ ToSet(all \o a \o b) = ToSet(all) \union ToSet(a) \union ToSet(b)
  BY <1>1, <1>2, <1>9, Joined
<1>. DEFINE x == all \o a \o b
<1>. HIDE DEF x
<1>12. List(x \o c \o d) /\ ToSet(x \o c \o d) = ToSet(x) \union ToSet(c) \union ToSet(d)
  BY <1>3, <1>4, <1>11, Joined DEF x
<1>. DEFINE y == x \o c \o d
<1>. HIDE DEF y
<1>13. List(y \o e \o f) /\ ToSet(y \o e \o f) = ToSet(y) \union ToSet(e) \union ToSet(f)
  BY <1>5, <1>6, <1>12, Joined DEF y
<1>. DEFINE z == y \o e \o f
<1>. HIDE DEF z
<1>14. ToSet(z \o g \o h) = ToSet(z) \union ToSet(g) \union ToSet(h)
  BY <1>7, <1>8, <1>13, Joined DEF z
<1>15. ToSet(Baseline) =
         ToSet(all) \union ToSet(a) \union ToSet(b) \union ToSet(c) \union ToSet(d)
         \union ToSet(e) \union ToSet(f) \union ToSet(g) \union ToSet(h)
  BY <1>10, <1>11, <1>12, <1>13, <1>14 DEF x, y, z
<1>16. BaselineColumns =
         ToSet(a) \union ToSet(b) \union ToSet(c) \union ToSet(d) \union ToSet(e)
         \union ToSet(f) \union ToSet(g)
  BY <1>1, <1>2, <1>3, <1>4, <1>5, <1>6, <1>7 DEF BaselineColumns
<1>17. ASSUME NEW v
       PROVE  v \in ToSet(Baseline) <=> v \in ToSet(all) \union BaselineColumns \union ToSet(h)
  BY <1>15, <1>16
<1>18. ToSet(Baseline) = ToSet(all) \union BaselineColumns \union ToSet(h)
  BY <1>17
<1>19. List(Baseline)
  BY <1>7, <1>8, <1>10, <1>13, Joined DEF x, y, z
<1>. QED
  BY <1>8, <1>9, <1>18, <1>19

\* The revisions by number.
LEMMA RevisionNames ==
  /\ Newest = 16
  /\ Revisions[1] = Baseline /\ Revisions[2] = ScheduledReports
  /\ Revisions[3] = UsersAndSessions /\ Revisions[4] = QueueTasks
  /\ Revisions[5] = RateLimitStates /\ Revisions[6] = EvidenceIdentity
  /\ Revisions[7] = FindingLifecycleColumns /\ Revisions[8] = SecurityExecution
  /\ Revisions[9] = EvidenceRepair /\ Revisions[10] = SecretAssignments
  /\ Revisions[11] = EscapedAssignments /\ Revisions[12] = ProtectedSecretEvidence
  /\ Revisions[13] = CandidateCopyRepair /\ Revisions[14] = ControlPlane
  /\ Revisions[15] = ReconAssets /\ Revisions[16] = DomainIdentity
BY DEF Newest, Revisions

\* The revisions that make tables which an older release does not have.
MakesTables(r) ==
  CASE r = 2 -> {"scheduled_reports"}
    [] r = 3 -> {"users", "user_tenant_memberships", "user_sessions"}
    [] r = 4 -> {"queue_tasks"}
    [] r = 5 -> {"rate_limit_states"}
    [] r = 7 -> {"finding_history"}
    [] OTHER -> {}

\* Revisions 2 to 5.
LEMMA TableRevisions ==
  ASSUME NEW r \in 2..5
  PROVE  List(Revisions[r]) /\ ToSet(Revisions[r]) = UNION {Making(t) : t \in MakesTables(r)}
<1>1. CASE r = 2
  <2>1. List(Revisions[2]) /\ ToSet(Revisions[2]) = Making("scheduled_reports")
    BY RevisionNames, TwoStatements DEF ScheduledReports
  <2>2. MakesTables(2) = {"scheduled_reports"}
    BY DEF MakesTables
  <2>. QED
    BY <1>1, <2>1, <2>2
<1>2. CASE r = 3
  <2>. DEFINE tables == <<"users", "user_tenant_memberships", "user_sessions">>
  <2>1. List(tables) /\ ToSet(tables) = {"users", "user_tenant_memberships", "user_sessions"}
    BY DEF List, ToSet
  <2>2. Revisions[3] = All(tables, CreateIfMissing)
    BY RevisionNames DEF UsersAndSessions
  <2>. HIDE DEF tables
  <2>3. /\ List(All(tables, CreateIfMissing))
        /\ ToSet(All(tables, CreateIfMissing)) = UNION {Making(t) : t \in ToSet(tables)}
    BY <2>1, MakingAll
  <2>4. MakesTables(3) = ToSet(tables)
    BY <2>1 DEF MakesTables
  <2>. QED
    BY <1>2, <2>2, <2>3, <2>4
<1>3. CASE r = 4
  <2>. DEFINE tables == <<"queue_tasks">>
  <2>1. List(tables) /\ ToSet(tables) = {"queue_tasks"}
    BY Single
  <2>2. Revisions[4] = All(tables, CreateIfMissing)
    BY RevisionNames DEF QueueTasks
  <2>. HIDE DEF tables
  <2>3. /\ List(All(tables, CreateIfMissing))
        /\ ToSet(All(tables, CreateIfMissing)) = UNION {Making(t) : t \in ToSet(tables)}
    BY <2>1, MakingAll
  <2>4. MakesTables(4) = ToSet(tables)
    BY <2>1 DEF MakesTables
  <2>. QED
    BY <1>3, <2>2, <2>3, <2>4
<1>4. CASE r = 5
  <2>1. List(Revisions[5]) /\ ToSet(Revisions[5]) = Making("rate_limit_states")
    BY RevisionNames, TwoStatements DEF RateLimitStates
  <2>2. MakesTables(5) = {"rate_limit_states"}
    BY DEF MakesTables
  <2>. QED
    BY <1>4, <2>1, <2>2
<1>. QED
  BY <1>1, <1>2, <1>3, <1>4

\* Revision 6.
LEMMA EvidenceRevision ==
  /\ List(Revisions[6])
  /\ ToSet(Revisions[6]) =
       Adding("evidence", {"metadata_json", "observation_fingerprint", "ix_observation_fingerprint"})
<1>. DEFINE parts == <<"metadata_json", "observation_fingerprint", "ix_observation_fingerprint">>
<1>1. /\ List(parts)
      /\ ToSet(parts) = {"metadata_json", "observation_fingerprint", "ix_observation_fingerprint"}
  BY DEF List, ToSet
<1>2. Revisions[6] = AddIfMissing("evidence", parts)
  BY RevisionNames DEF EvidenceIdentity
<1>. HIDE DEF parts
<1>. QED
  BY <1>1, <1>2, AddingAll

\* What revision 7 adds to an older table.
LifecycleParts ==
  {"lifecycle_state", "remediated_at", "regressed_at", "regression_count", "ix_lifecycle_state"}

\* Revision 7.
LEMMA LifecycleRevision ==
  /\ List(Revisions[7])
  /\ ToSet(Revisions[7]) =
       Adding("findings", LifecycleParts) \union Making("finding_history") \union Work("fill")
<1>. DEFINE parts == <<"lifecycle_state", "remediated_at", "regressed_at", "regression_count",
                       "ix_lifecycle_state">>
            a == AddIfMissing("findings", parts)
            b == CreateIfMissing("finding_history")
            c == RowWork("fill")
<1>1. List(parts) /\ ToSet(parts) = LifecycleParts
  BY DEF List, ToSet, LifecycleParts
<1>2. Revisions[7] = (a \o b) \o c
  BY RevisionNames DEF FindingLifecycleColumns
<1>. HIDE DEF parts
<1>3. List(a) /\ ToSet(a) = Adding("findings", LifecycleParts)
  BY <1>1, AddingAll
<1>4. List(b) /\ ToSet(b) = Making("finding_history")
  BY TwoStatements
<1>5. List(c) /\ ToSet(c) = Work("fill")
  BY Working
<1>. HIDE DEF a, b, c
<1>6. List(a \o b) /\ ToSet(a \o b) = ToSet(a) \union ToSet(b)
  BY <1>3, <1>4, Joined
<1>7. List((a \o b) \o c) /\ ToSet((a \o b) \o c) = ToSet(a \o b) \union ToSet(c)
  BY <1>5, <1>6, Joined
<1>. QED
  BY <1>2, <1>3, <1>4, <1>5, <1>6, <1>7

\* The column that decides whether revision 8 adds it and its index.
ExecutionKey == <<"queue_tasks", "execution_key">>

\* The two statements for it.
AddsKey ==
  {Statement("add", {ExecutionKey}, {ExecutionKey}, "before"),
   Statement("add", {<<"queue_tasks", "ix_execution_key">>}, {ExecutionKey}, "before")}

\* Revision 8.
LEMMA SecurityRevision ==
  /\ List(Revisions[8])
  /\ ToSet(Revisions[8]) =
       Adding("scheduled_scans", {"queue_execution_key"}) \union AddsKey \union Work("fill")
<1>. DEFINE a == AddIfMissing("scheduled_scans", <<"queue_execution_key">>)
            b == <<Statement("add", {<<"queue_tasks", "execution_key">>},
                             {<<"queue_tasks", "execution_key">>}, "before"),
                   Statement("add", {<<"queue_tasks", "ix_execution_key">>},
                             {<<"queue_tasks", "execution_key">>}, "before")>>
            c == RowWork("fill")
<1>1. Revisions[8] = (a \o b) \o c
  BY RevisionNames DEF SecurityExecution
<1>2. List(a) /\ ToSet(a) = Adding("scheduled_scans", {"queue_execution_key"})
  <2>1. List(<<"queue_execution_key">>) /\ ToSet(<<"queue_execution_key">>) = {"queue_execution_key"}
    BY Single
  <2>. QED
    BY <2>1, AddingAll
<1>3. List(b) /\ ToSet(b) = AddsKey
  <2>1. ASSUME NEW x, NEW y PROVE List(<<x, y>>) /\ ToSet(<<x, y>>) = {x, y}
    BY DEF List, ToSet
  <2>. QED
    BY <2>1 DEF AddsKey, ExecutionKey
<1>4. List(c) /\ ToSet(c) = Work("fill")
  BY Working
<1>. HIDE DEF a, b, c
<1>5. List(a \o b) /\ ToSet(a \o b) = ToSet(a) \union ToSet(b)
  BY <1>2, <1>3, Joined
<1>6. List((a \o b) \o c) /\ ToSet((a \o b) \o c) = ToSet(a \o b) \union ToSet(c)
  BY <1>4, <1>5, Joined
<1>. QED
  BY <1>1, <1>2, <1>3, <1>4, <1>5, <1>6

\* The revisions that repair rows.
LEMMA RepairRevisions ==
  ASSUME NEW r \in {9, 10, 11, 13}
  PROVE  List(Revisions[r]) /\ ToSet(Revisions[r]) = Work("fill")
BY RevisionNames, Working
   DEF EvidenceRepair, SecretAssignments, EscapedAssignments, CandidateCopyRepair

\* The tables that revisions 12, 14 and 15 make; one has no index.
NewTables(r) ==
  CASE r = 12 -> {"secret_evidence", "secret_reveal_audit"}
    [] r = 14 -> {"github_connections", "recon_profiles", "assessments", "ai_advice",
                  "assessment_entities", "assessment_targets", "assessment_runs"}
    [] r = 15 -> {"recon_assets"}
    [] OTHER -> {}

\* Revision 12.
LEMMA SecretRevision ==
  List(Revisions[12]) /\ ToSet(Revisions[12]) = UNION {Creating(t) : t \in NewTables(12)}
<1>1. Revisions[12] = Create("secret_evidence") \o Create("secret_reveal_audit")
  BY RevisionNames DEF ProtectedSecretEvidence
<1>2. /\ List(Revisions[12])
      /\ ToSet(Revisions[12]) = Creating("secret_evidence") \union Creating("secret_reveal_audit")
  BY <1>1, TwoStatements, Joined
<1>3. NewTables(12) = {"secret_evidence", "secret_reveal_audit"}
  BY DEF NewTables
<1>. QED
  BY <1>2, <1>3

\* Revision 15.
LEMMA AssetRevision ==
  List(Revisions[15]) /\ ToSet(Revisions[15]) = UNION {Creating(t) : t \in NewTables(15)}
<1>1. NewTables(15) = {"recon_assets"}
  BY DEF NewTables
<1>. QED
  BY <1>1, RevisionNames, TwoStatements DEF ReconAssets

\* Revision 14.
LEMMA ControlPlaneRevision ==
  /\ List(Revisions[14])
  /\ ToSet(Revisions[14]) = {MakesTable("local_ai_configurations")}
                            \union (UNION {Creating(t) : t \in NewTables(14)})
<1>. DEFINE tables == <<"recon_profiles", "assessments", "ai_advice", "assessment_entities",
                        "assessment_targets", "assessment_runs">>
            names == {"recon_profiles", "assessments", "ai_advice", "assessment_entities",
                      "assessment_targets", "assessment_runs"}
            a == Create("github_connections")
            b == Add({Table("local_ai_configurations")})
            c == All(tables, Create)
<1>1. List(tables) /\ ToSet(tables) = names
  BY DEF List, ToSet
<1>2. Revisions[14] = (a \o b) \o c
  BY RevisionNames DEF ControlPlane
<1>3. NewTables(14) = names \union {"github_connections"}
  BY DEF NewTables
<1>. HIDE DEF tables, names
<1>4. List(a) /\ ToSet(a) = Creating("github_connections")
  BY TwoStatements
<1>5. List(b) /\ ToSet(b) = {MakesTable("local_ai_configurations")}
  BY Additions DEF MakesTable
<1>6. List(c) /\ ToSet(c) = UNION {Creating(t) : t \in names}
  BY <1>1, CreatingAll
<1>. HIDE DEF a, b, c
<1>7. List(a \o b) /\ ToSet(a \o b) = ToSet(a) \union ToSet(b)
  BY <1>4, <1>5, Joined
<1>8. List((a \o b) \o c) /\ ToSet((a \o b) \o c) = ToSet(a \o b) \union ToSet(c)
  BY <1>6, <1>7, Joined
<1>. QED
  BY <1>2, <1>3, <1>4, <1>5, <1>6, <1>7, <1>8

\* The statement that adds objects whatever is there.
Adds1(objects) == Statement("add", objects, {}, "now")

\* The statements of revision 16 in their order.
DomainStatements ==
  <<Statement("preflight", {}, {}, "now"), Adds1({Table("domain_identities")}),
    Adds1(Parts("domains", {"identity_id"})), Adds1(Parts("domains", {"tenant_key"})),
    Statement("drop", {Indexes("domains")}, {}, "now"), Statement("fill", {}, {}, "now"),
    Adds1(Parts("domains", {"fk_identity", "uq_tenant_identity"})),
    Adds1({Indexes("domains")}), Adds1(Parts("domains", {"ix_tenant_key"})),
    Adds1(Parts("domains", {"uq_legacy_identity"}))>>

\* s is what the first k of the statements in all are.
Begins(s, k, all) == List(s) /\ Len(s) = k /\ \A i \in 1..k : s[i] = all[i]

\* One more statement.
LEMMA OneMore ==
  ASSUME NEW s, NEW k \in Nat, NEW all, Begins(s, k, all), NEW x, x = all[k + 1]
  PROVE  Begins(s \o <<x>>, k + 1, all)
<1>. DEFINE longer == s \o <<x>>
            both == ToSet(s) \union {x}
<1>1. List(longer)
  BY Single, Joined DEF Begins
<1>2. s \in Seq(both) /\ <<x>> \in Seq(both) /\ Len(s) = k
  BY DEF Begins, List
<1>3. Len(longer) = k + 1 /\ longer[k + 1] = x /\ \A i \in 1..k : longer[i] = s[i]
  BY <1>2
<1>. HIDE DEF longer
<1>4. \A i \in 1..k + 1 : longer[i] = all[i]
  <2>1. ASSUME NEW i \in 1..k + 1 PROVE longer[i] = all[i]
    <3>1. CASE i = k + 1
      BY <1>3, <3>1
    <3>2. CASE i # k + 1
      <4>1. i \in 1..k
        BY <3>2
      <4>. QED
        BY <1>3, <4>1 DEF Begins
    <3>. QED
      BY <3>1, <3>2
  <2>. QED
    BY <2>1
<1>. QED
  BY <1>1, <1>3, <1>4 DEF Begins, longer

\* Revision 16.
LEMMA DomainRevision == Begins(Revisions[16], 10, DomainStatements)
<1>. DEFINE all == DomainStatements
            s1 == RowWork("preflight")
            s2 == s1 \o <<all[2]>>
            s3 == s2 \o <<all[3]>>
            s4 == s3 \o <<all[4]>>
            s5 == s4 \o <<all[5]>>
            s6 == s5 \o <<all[6]>>
            s7 == s6 \o <<all[7]>>
            s8 == s7 \o <<all[8]>>
            s9 == s8 \o <<all[9]>>
            s10 == s9 \o <<all[10]>>
<1>1. /\ all[1] = Statement("preflight", {}, {}, "now")
      /\ all[2] = Adds1({Table("domain_identities")})
      /\ all[3] = Adds1(Parts("domains", {"identity_id"}))
      /\ all[4] = Adds1(Parts("domains", {"tenant_key"}))
      /\ all[5] = Statement("drop", {Indexes("domains")}, {}, "now")
      /\ all[6] = Statement("fill", {}, {}, "now")
      /\ all[7] = Adds1(Parts("domains", {"fk_identity", "uq_tenant_identity"}))
      /\ all[8] = Adds1({Indexes("domains")})
      /\ all[9] = Adds1(Parts("domains", {"ix_tenant_key"}))
      /\ all[10] = Adds1(Parts("domains", {"uq_legacy_identity"}))
  BY DEF DomainStatements
<1>2. Revisions[16] = s10
  BY <1>1, RevisionNames DEF DomainIdentity, RowWork, Add, Drop, Adds1
<1>3. Begins(s1, 1, all)
  BY <1>1, Single DEF Begins, RowWork
<1>. HIDE DEF all, s1
<1>4. Begins(s2, 2, all)
  BY <1>3, OneMore
<1>. HIDE DEF s2
<1>5. Begins(s3, 3, all)
  BY <1>4, OneMore
<1>. HIDE DEF s3
<1>6. Begins(s4, 4, all)
  BY <1>5, OneMore
<1>. HIDE DEF s4
<1>7. Begins(s5, 5, all)
  BY <1>6, OneMore
<1>. HIDE DEF s5
<1>8. Begins(s6, 6, all)
  BY <1>7, OneMore
<1>. HIDE DEF s6
<1>9. Begins(s7, 7, all)
  BY <1>8, OneMore
<1>. HIDE DEF s7
<1>10. Begins(s8, 8, all)
  BY <1>9, OneMore
<1>. HIDE DEF s8
<1>11. Begins(s9, 9, all)
  BY <1>10, OneMore
<1>. HIDE DEF s9
<1>12. Begins(s10, 10, all)
  BY <1>11, OneMore
<1>. QED
  BY <1>2, <1>12 DEF all

\* Its statements as a set.
LEMMA DomainElements == \A s : s \in ToSet(Revisions[16]) <=> \E i \in 1..10 : s = DomainStatements[i]
<1>1. List(Revisions[16]) /\ Len(Revisions[16]) = 10
      /\ \A i \in 1..10 : Revisions[16][i] = DomainStatements[i]
  BY DomainRevision DEF Begins
<1>2. ToSet(Revisions[16]) = {Revisions[16][i] : i \in 1..Len(Revisions[16])}
  BY <1>1, Elements
<1>. QED
  BY <1>1, <1>2

-----------------------------------------------------------------------------
(* What the revisions add, and what the models declare.                    *)

\* The tables of the models, by the revision that makes them.
LEMMA TableNames ==
  DOMAIN References =
    EarlyTables \union Late \union NewTables(12) \union NewTables(14) \union NewTables(15)
    \union Unindexed
<1>1. DOMAIN References = DOMAIN AssetModels \union DOMAIN EvidenceModels
                          \union DOMAIN ServiceModels \union DOMAIN ControlPlaneModels
  BY DEF References
<1>2. DOMAIN AssetModels = {"organizations", "domain_identities", "domains", "repositories",
                            "accounts", "scan_jobs", "findings"}
  BY DEF AssetModels
<1>3. DOMAIN EvidenceModels = {"finding_history", "evidence", "relationships", "risk_scores",
                               "tool_runs", "scheduled_scans", "scheduled_reports"}
  BY DEF EvidenceModels
<1>4. DOMAIN ServiceModels = {"users", "user_tenant_memberships", "user_sessions", "queue_tasks",
                              "rate_limit_states", "domain_exposures", "identity_correlations",
                              "suppressions", "secret_evidence", "secret_reveal_audit"}
  BY DEF ServiceModels
<1>5. DOMAIN ControlPlaneModels = {"assessments", "github_connections", "assessment_targets",
                                   "assessment_entities", "assessment_runs", "recon_profiles",
                                   "local_ai_configurations", "ai_advice", "recon_assets"}
  BY DEF ControlPlaneModels
<1>6. /\ NewTables(12) = {"secret_evidence", "secret_reveal_audit"}
      /\ NewTables(14) = {"github_connections", "recon_profiles", "assessments", "ai_advice",
                          "assessment_entities", "assessment_targets", "assessment_runs"}
      /\ NewTables(15) = {"recon_assets"}
  BY DEF NewTables
<1>7. Unindexed = {"domain_identities", "local_ai_configurations"}
  BY DEF Unindexed
<1>8. ASSUME NEW t
      PROVE  t \in DOMAIN References <=>
               t \in EarlyTables \union Late \union NewTables(12) \union NewTables(14)
                     \union NewTables(15) \union Unindexed
  BY <1>1, <1>2, <1>3, <1>4, <1>5, <1>6, <1>7, EarlyAndLate
<1>. QED
  BY <1>8

\* Which tables the groups do not share.
LEMMA Groups ==
  /\ EarlyTables \intersect Late = {} /\ (EarlyTables \union Late) \intersect Unindexed = {}
  /\ ToSet(Phase17) = EarlyTables \union Late
  /\ \A r \in {12, 14, 15} : NewTables(r) \intersect (EarlyTables \union Late \union Unindexed) = {}
  /\ \A r \in 2..16 : MakesTables(r) \subseteq Late
  /\ Late = UNION {MakesTables(r) : r \in {2, 3, 4, 5, 7}}
  /\ MakesTables(7) = {"finding_history"}
  /\ \A r : r \notin {2, 3, 4, 5, 7} => MakesTables(r) = {}
<1>1. /\ EarlyTables \intersect Late = {} /\ (EarlyTables \union Late) \intersect Unindexed = {}
      /\ ToSet(Phase17) = EarlyTables \union Late
  <2>1. EarlyTables \intersect Late = {} /\ (EarlyTables \union Late) \intersect Unindexed = {}
    BY EarlyAndLate DEF Unindexed
  <2>2. ToSet(Phase17) = EarlyTables \union Late
    BY DEF Late, EarlyTables
  <2>. QED
    BY <2>1, <2>2
<1>2. \A r \in {12, 14, 15} : NewTables(r) \intersect (EarlyTables \union Late \union Unindexed) = {}
  BY EarlyAndLate DEF NewTables, Unindexed
<1>3. /\ MakesTables(2) = {"scheduled_reports"} /\ MakesTables(4) = {"queue_tasks"}
      /\ MakesTables(3) = {"users", "user_tenant_memberships", "user_sessions"}
      /\ MakesTables(5) = {"rate_limit_states"} /\ MakesTables(7) = {"finding_history"}
      /\ \A r : r \notin {2, 3, 4, 5, 7} => MakesTables(r) = {}
  BY DEF MakesTables
<1>4. \A r \in 2..16 : MakesTables(r) \subseteq Late
  BY <1>3, EarlyAndLate
<1>5. Late = UNION {MakesTables(r) : r \in {2, 3, 4, 5, 7}}
  BY <1>3, EarlyAndLate
<1>. QED
  BY <1>1, <1>2, <1>3, <1>4, <1>5

\* What the models declare of a table, and of the domains.
LEMMA HeadHas ==
  /\ \A t \in DOMAIN References : Columns(t) \subseteq HeadSchema
  /\ \A t \in DOMAIN References \ Unindexed : IndexesOf(t) \subseteq HeadSchema
  /\ Parts("domains", DomainParts) \subseteq HeadSchema
BY DEF HeadSchema

\* The columns and the indexes by table.
LEMMA TableParts ==
  ASSUME NEW t
  PROVE  /\ Table(t) \in Columns(t) /\ Indexes(t) \in IndexesOf(t)
         /\ t \notin DOMAIN ColumnsAdded => Columns(t) = {Table(t)}
         /\ t \notin DOMAIN IndexesAdded => IndexesOf(t) = {Indexes(t)}
         /\ t \in DOMAIN ColumnsAdded => Columns(t) = {Table(t)} \union Parts(t, ColumnsAdded[t])
         /\ t \in DOMAIN IndexesAdded => IndexesOf(t) = {Indexes(t)} \union Parts(t, IndexesAdded[t])
BY DEF Columns, IndexesOf, At

\* The tables that have more than one revision's columns and indexes.
LEMMA PartsAdded ==
  /\ DOMAIN ColumnsAdded = {"organizations", "repositories", "scan_jobs", "findings", "evidence",
                            "relationships", "tool_runs", "queue_tasks", "scheduled_scans"}
  /\ DOMAIN IndexesAdded = {"findings", "evidence", "queue_tasks"}
BY DEF ColumnsAdded, IndexesAdded

\* A part that some revision adds is one that the models declare.
LEMMA AddedIsDeclared ==
  ASSUME NEW t \in DOMAIN References \ Unindexed, NEW part,
         \/ t \in DOMAIN ColumnsAdded /\ part \in ColumnsAdded[t]
         \/ t \in DOMAIN IndexesAdded /\ part \in IndexesAdded[t]
  PROVE  <<t, part>> \in HeadSchema
<1>1. CASE t \in DOMAIN ColumnsAdded /\ part \in ColumnsAdded[t]
  <2>1. <<t, part>> \in Columns(t)
    BY <1>1, TableParts DEF Parts
  <2>. QED
    BY <2>1, HeadHas
<1>2. CASE t \in DOMAIN IndexesAdded /\ part \in IndexesAdded[t]
  <2>1. <<t, part>> \in IndexesOf(t)
    BY <1>2, TableParts DEF Parts
  <2>. QED
    BY <2>1, HeadHas
<1>. QED
  BY <1>1, <1>2

\* What is so of every statement s of a revision r after the first.
Orderly(r, s) ==
  /\ s.kind = "add" =>
       /\ s.objects \subseteq HeadSchema
       /\ \/ s.unless = {}
          \/ s.lookup = "now" /\ s.unless = s.objects
          \/ \E t \in MakesTables(r) : s \in Making(t)
          \/ r = 8 /\ s \in AddsKey
       /\ \A t \in Late : Table(t) \in s.objects => t \in MakesTables(r)
  /\ s.kind = "drop" => r = 16 /\ s.objects = {Indexes("domains")}

\* The statements that make a late table in its revision.
LEMMA MakingIsOrderly ==
  ASSUME NEW r, NEW t \in MakesTables(r), t \in Late, NEW s \in Making(t) PROVE Orderly(r, s)
<1>1. t \in DOMAIN References \ Unindexed
  BY TableNames, Groups
<1>2. s.kind = "add" /\ s.objects \in {Columns(t), IndexesOf(t)}
  BY DEF Making, MakesColumns, MakesIndexes, Statement
<1>3. s.objects \subseteq HeadSchema
  BY <1>1, <1>2, HeadHas
<1>4. \A u : Table(u) \in s.objects => u = t
  <2>1. \A x \in Columns(t) \union IndexesOf(t) : x[1] = t
    BY DEF Columns, IndexesOf, At, Table, Indexes, Parts
  <2>2. \A u : Table(u)[1] = u
    BY DEF Table
  <2>. QED
    BY <1>2, <2>1, <2>2
<1>. QED
  BY <1>2, <1>3, <1>4 DEF Orderly

\* The statements that add a part that may be missing.
LEMMA AddingIsOrderly ==
  ASSUME NEW r, NEW t, NEW parts, "table" \notin parts, \A part \in parts : <<t, part>> \in HeadSchema,
         NEW s \in Adding(t, parts)
  PROVE  Orderly(r, s)
<1>1. PICK part \in parts : s = AddingOne(<<t, part>>)
  BY DEF Adding
<1>2. s.kind = "add" /\ s.objects = {<<t, part>>} /\ s.unless = s.objects /\ s.lookup = "now"
  BY <1>1 DEF AddingOne, Statement
<1>3. \A u : Table(u) # <<t, part>>
  BY DEF Table
<1>. QED
  BY <1>2, <1>3 DEF Orderly

\* A plain addition that makes no late table.
LEMMA PlainIsOrderly ==
  ASSUME NEW r, NEW objects, objects \subseteq HeadSchema, \A t \in Late : Table(t) \notin objects
  PROVE  Orderly(r, Adds1(objects))
<1>1. Adds1(objects).kind = "add" /\ Adds1(objects).objects = objects /\ Adds1(objects).unless = {}
  BY DEF Adds1, Statement
<1>. QED
  BY <1>1 DEF Orderly

\* The statements that make a new table.
LEMMA CreatingIsOrderly ==
  ASSUME NEW r, NEW t \in DOMAIN References \ Unindexed, t \notin Late, NEW s \in Creating(t)
  PROVE  Orderly(r, s)
<1>1. s = Adds1({Table(t)}) \/ s = Adds1({Indexes(t)})
  BY DEF Creating, MakesTable, MakesItsIndexes, Adds1
<1>2. Table(t) \in HeadSchema /\ Indexes(t) \in HeadSchema
  BY HeadHas, TableParts
<1>3. \A u \in Late : Table(u) # Table(t) /\ Table(u) # Indexes(t)
  BY DEF Table, Indexes
<1>. QED
  BY <1>1, <1>2, <1>3, PlainIsOrderly

\* Work on rows.
LEMMA WorkIsOrderly ==
  ASSUME NEW r, NEW s \in Work("fill") \union Work("preflight") PROVE Orderly(r, s)
BY DEF Work, Statement, Orderly

\* Every statement after the first revision is so.
LEMMA StatementsAreOrderly == ASSUME NEW r \in 2..16, NEW s \in ToSet(Revisions[r]) PROVE Orderly(r, s)
<1>1. CASE r \in 2..5
  <2>1. PICK t \in MakesTables(r) : s \in Making(t)
    BY <1>1, TableRevisions
  <2>2. t \in Late
    BY Groups
  <2>. QED
    BY <2>1, <2>2, MakingIsOrderly
<1>2. CASE r = 6
  <2>1. "evidence" \in DOMAIN References \ Unindexed
    BY TableNames, Groups, EarlyAndLate
  <2>2. /\ "evidence" \in DOMAIN ColumnsAdded /\ "evidence" \in DOMAIN IndexesAdded
        /\ ColumnsAdded["evidence"] = {"ref_name", "metadata_json", "observation_fingerprint"}
        /\ IndexesAdded["evidence"] = {"ix_observation_fingerprint"}
    BY DEF ColumnsAdded, IndexesAdded
  <2>. DEFINE parts == {"metadata_json", "observation_fingerprint", "ix_observation_fingerprint"}
  <2>3. \A part \in parts : <<"evidence", part>> \in HeadSchema
    BY <2>1, <2>2, AddedIsDeclared
  <2>4. "table" \notin parts
    OBVIOUS
  <2>5. s \in Adding("evidence", parts)
    BY <1>2, EvidenceRevision
  <2>. QED
    BY <2>3, <2>4, <2>5, AddingIsOrderly
<1>3. CASE r = 7
  <2>1. "findings" \in DOMAIN References \ Unindexed
    BY TableNames, Groups, EarlyAndLate
  <2>2. /\ "findings" \in DOMAIN ColumnsAdded /\ "findings" \in DOMAIN IndexesAdded
        /\ ColumnsAdded["findings"] =
             {"triage_owner", "triage_notes", "remediation_due_date", "lifecycle_state",
              "remediated_at", "regressed_at", "regression_count"}
        /\ IndexesAdded["findings"] = {"ix_lifecycle_state"}
    BY DEF ColumnsAdded, IndexesAdded
  <2>3. \A part \in LifecycleParts : <<"findings", part>> \in HeadSchema
    BY <2>1, <2>2, AddedIsDeclared DEF LifecycleParts
  <2>4. "table" \notin LifecycleParts
    BY DEF LifecycleParts
  <2>5. "finding_history" \in MakesTables(7) /\ "finding_history" \in Late
    BY EarlyAndLate DEF MakesTables
  <2>6. \/ s \in Adding("findings", LifecycleParts) \/ s \in Making("finding_history")
        \/ s \in Work("fill")
    BY <1>3, LifecycleRevision
  <2>. QED
    BY <1>3, <2>3, <2>4, <2>5, <2>6, AddingIsOrderly, MakingIsOrderly, WorkIsOrderly
<1>4. CASE r = 8
  <2>1. {"scheduled_scans", "queue_tasks"} \subseteq DOMAIN References \ Unindexed
    BY TableNames, Groups, EarlyAndLate
  <2>2. /\ "scheduled_scans" \in DOMAIN ColumnsAdded
        /\ ColumnsAdded["scheduled_scans"] = {"queue_execution_key"}
        /\ "queue_tasks" \in DOMAIN ColumnsAdded /\ ColumnsAdded["queue_tasks"] = {"execution_key"}
        /\ "queue_tasks" \in DOMAIN IndexesAdded /\ IndexesAdded["queue_tasks"] = {"ix_execution_key"}
    BY DEF ColumnsAdded, IndexesAdded
  <2>3. /\ <<"scheduled_scans", "queue_execution_key">> \in HeadSchema
        /\ <<"queue_tasks", "execution_key">> \in HeadSchema
        /\ <<"queue_tasks", "ix_execution_key">> \in HeadSchema
    BY <2>1, <2>2, AddedIsDeclared
  <2>4. s \in Adding("scheduled_scans", {"queue_execution_key"}) => Orderly(8, s)
    BY <2>3, AddingIsOrderly
  <2>5. s \in AddsKey => Orderly(8, s)
    <3>. SUFFICES ASSUME s \in AddsKey PROVE Orderly(8, s)
      OBVIOUS
    <3>1. /\ s.kind = "add"
          /\ s.objects = {<<"queue_tasks", "execution_key">>}
             \/ s.objects = {<<"queue_tasks", "ix_execution_key">>}
      BY DEF AddsKey, Statement, ExecutionKey
    <3>2. \A t : Table(t) \notin s.objects
      BY <3>1 DEF Table
    <3>. QED
      BY <2>3, <3>1, <3>2 DEF Orderly
  <2>6. s \in Work("fill") => Orderly(8, s)
    BY WorkIsOrderly
  <2>. QED
    BY <1>4, <2>4, <2>5, <2>6, SecurityRevision
<1>5. CASE r \in {9, 10, 11, 13}
  BY <1>5, RepairRevisions, WorkIsOrderly
<1>6. CASE r \in {12, 14, 15}
  <2>1. \A t \in NewTables(r) : t \in DOMAIN References \ Unindexed /\ t \notin Late
    BY <1>6, TableNames, Groups
  <2>2. (\E t \in NewTables(r) : s \in Creating(t)) \/ s = MakesTable("local_ai_configurations")
    BY <1>6, SecretRevision, AssetRevision, ControlPlaneRevision
  <2>3. ASSUME s = MakesTable("local_ai_configurations") PROVE Orderly(r, s)
    <3>1. "local_ai_configurations" \in Unindexed
      BY DEF Unindexed
    <3>2. "local_ai_configurations" \in DOMAIN References /\ "local_ai_configurations" \notin Late
      BY <3>1, TableNames, Groups
    <3>3. Table("local_ai_configurations") \in HeadSchema
      BY <3>2, HeadHas, TableParts
    <3>4. \A t \in Late : Table(t) # Table("local_ai_configurations")
      BY <3>2 DEF Table
    <3>5. s = Adds1({Table("local_ai_configurations")})
      BY <2>3 DEF MakesTable, Adds1
    <3>. QED
      BY <3>3, <3>4, <3>5, PlainIsOrderly
  <2>. QED
    BY <2>1, <2>2, <2>3, CreatingIsOrderly
<1>7. CASE r = 16
  <2>1. PICK i \in 1..10 : s = DomainStatements[i]
    BY <1>7, DomainElements
  <2>2. \A part \in DomainParts : <<"domains", part>> \in HeadSchema
    BY HeadHas DEF Parts
  <2>3. Indexes("domains") \in HeadSchema /\ Table("domain_identities") \in HeadSchema
    <3>1. "domains" \in DOMAIN References \ Unindexed
      BY TableNames, Groups, EarlyAndLate
    <3>2. "domain_identities" \in DOMAIN References
      BY TableNames DEF Unindexed
    <3>. QED
      BY <3>1, <3>2, HeadHas, TableParts
  <2>4. \A t : \A part \in DomainParts \union {"indexes"} : Table(t) # <<"domains", part>>
    BY DEF Table, DomainParts
  <2>5. \A t \in Late : Table(t) # Table("domain_identities")
    BY EarlyAndLate DEF Table
  <2>6. \A parts \in SUBSET DomainParts : Orderly(16, Adds1(Parts("domains", parts)))
    <3>. SUFFICES ASSUME NEW parts \in SUBSET DomainParts
                  PROVE  Orderly(16, Adds1(Parts("domains", parts)))
      OBVIOUS
    <3>1. Parts("domains", parts) \subseteq HeadSchema
      BY <2>2 DEF Parts
    <3>2. \A t : Table(t) \notin Parts("domains", parts)
      BY <2>4 DEF Parts
    <3>. QED
      BY <3>1, <3>2, PlainIsOrderly
  <2>7. /\ {"identity_id"} \in SUBSET DomainParts /\ {"tenant_key"} \in SUBSET DomainParts
        /\ {"fk_identity", "uq_tenant_identity"} \in SUBSET DomainParts
        /\ {"ix_tenant_key"} \in SUBSET DomainParts /\ {"uq_legacy_identity"} \in SUBSET DomainParts
    BY DEF DomainParts
  <2>8. Orderly(16, Adds1({Table("domain_identities")})) /\ Orderly(16, Adds1({Indexes("domains")}))
    <3>1. \A t : Table(t) # Indexes("domains")
      BY DEF Table, Indexes
    <3>. QED
      BY <2>3, <2>5, <3>1, PlainIsOrderly
  <2>9. Orderly(16, Statement("drop", {Indexes("domains")}, {}, "now"))
    BY DEF Statement, Orderly
  <2>10. /\ Orderly(16, Statement("fill", {}, {}, "now"))
         /\ Orderly(16, Statement("preflight", {}, {}, "now"))
    BY WorkIsOrderly DEF Work
  <2>11. \/ s \in {Statement("preflight", {}, {}, "now"), Statement("fill", {}, {}, "now"),
                   Statement("drop", {Indexes("domains")}, {}, "now"),
                   Adds1({Table("domain_identities")}), Adds1({Indexes("domains")})}
         \/ s \in {Adds1(Parts("domains", {"identity_id"})), Adds1(Parts("domains", {"tenant_key"})),
                   Adds1(Parts("domains", {"fk_identity", "uq_tenant_identity"})),
                   Adds1(Parts("domains", {"ix_tenant_key"})),
                   Adds1(Parts("domains", {"uq_legacy_identity"}))}
    BY <2>1 DEF DomainStatements
  <2>. QED
    BY <1>7, <2>6, <2>7, <2>8, <2>9, <2>10, <2>11
<1>. QED
  BY <1>1, <1>2, <1>3, <1>4, <1>5, <1>6, <1>7

\* What a revision adds.
LEMMA AddsContain ==
  ASSUME NEW r, NEW s \in ToSet(Revisions[r]), s.kind = "add" PROVE s.objects \subseteq Adds(r)
BY DEF Adds

\* A revision that makes a late table makes all of it.
LEMMA LateAreWhole ==
  ASSUME NEW r \in 2..16, NEW t \in MakesTables(r)
  PROVE  Making(t) \subseteq ToSet(Revisions[r]) /\ Made(t) \subseteq Adds(r)
<1>1. r \in 2..5 \/ (r = 7 /\ t = "finding_history")
  <2>1. r \in {2, 3, 4, 5, 7}
    BY Groups
  <2>2. r = 7 => t = "finding_history"
    BY Groups
  <2>. QED
    BY <2>1, <2>2
<1>2. Making(t) \subseteq ToSet(Revisions[r])
  BY <1>1, TableRevisions, LifecycleRevision
<1>3. /\ MakesColumns(t) \in ToSet(Revisions[r]) /\ MakesIndexes(t) \in ToSet(Revisions[r])
      /\ MakesColumns(t).kind = "add" /\ MakesColumns(t).objects = Columns(t)
      /\ MakesIndexes(t).kind = "add" /\ MakesIndexes(t).objects = IndexesOf(t)
  BY <1>2 DEF Making, MakesColumns, MakesIndexes, Statement
<1>4. Columns(t) \subseteq Adds(r) /\ IndexesOf(t) \subseteq Adds(r)
  BY <1>3, AddsContain
<1>. QED
  BY <1>2, <1>4 DEF Made

\* A late table is only made by its revision.
LEMMA LateIsMade ==
  ASSUME NEW r \in 2..16, NEW t \in Late, Table(t) \in Adds(r) PROVE Made(t) \subseteq Adds(r)
<1>1. PICK s \in ToSet(Revisions[r]) : s.kind = "add" /\ Table(t) \in s.objects
  BY DEF Adds
<1>2. t \in MakesTables(r)
  BY <1>1, StatementsAreOrderly DEF Orderly
<1>. QED
  BY <1>2, LateAreWhole

\* All revisions are lists.
LEMMA AllAreLists == ASSUME NEW r \in 1..16 PROVE List(Revisions[r])
<1>1. CASE r = 1
  BY <1>1, BaselineStatements, RevisionNames
<1>2. CASE r \in 2..5
  BY <1>2, TableRevisions
<1>3. CASE r \in {9, 10, 11, 13}
  BY <1>3, RepairRevisions
<1>4. CASE r \in {6, 7, 8, 12, 14, 15, 16}
  BY <1>4, EvidenceRevision, LifecycleRevision, SecurityRevision, SecretRevision,
     ControlPlaneRevision, AssetRevision, DomainRevision DEF Begins
<1>. QED
  BY <1>1, <1>2, <1>3, <1>4

\* Revision 16 drops an index before its other statements name it.
LEMMA DropComesFirst ==
  ASSUME NEW r \in 2..16, NEW i \in 1..Len(Revisions[r]), Revisions[r][i].kind = "drop",
         NEW j \in 1..i - 1
  PROVE  LET s == Revisions[r][j]
         IN  s.kind = "add" => Indexes("domains") \notin s.objects /\ s.unless = {}
<1>1. Revisions[r][i] \in ToSet(Revisions[r])
  <2>1. List(Revisions[r])
    <3>1. r \in 1..16
      OBVIOUS
    <3>. QED
      BY <3>1, AllAreLists
  <2>2. ToSet(Revisions[r]) = {Revisions[r][k] : k \in 1..Len(Revisions[r])}
    BY <2>1, Elements
  <2>. QED
    BY <2>2
<1>2. r = 16
  BY <1>1, StatementsAreOrderly DEF Orderly
<1>3. i = 5
  <2>1. i \in 1..10 /\ DomainStatements[i].kind = "drop"
    BY <1>2, DomainRevision DEF Begins
  <2>2. i # 5 => DomainStatements[i].kind # "drop"
    BY <2>1 DEF DomainStatements, Adds1, Statement
  <2>. QED
    BY <2>1, <2>2
<1>4. j \in 1..4 /\ Revisions[r][j] = DomainStatements[j]
  BY <1>2, <1>3, DomainRevision DEF Begins
<1>5. \/ DomainStatements[j].kind # "add"
      \/ /\ DomainStatements[j].unless = {}
         /\ DomainStatements[j].objects \in
              {{Table("domain_identities")}, Parts("domains", {"identity_id"}),
               Parts("domains", {"tenant_key"})}
  BY <1>4 DEF DomainStatements, Adds1, Statement
<1>6. /\ Indexes("domains") \notin {Table("domain_identities")}
      /\ Indexes("domains") \notin Parts("domains", {"identity_id"})
      /\ Indexes("domains") \notin Parts("domains", {"tenant_key"})
  BY DEF Indexes, Table, Parts
<1>. QED
  BY <1>4, <1>5, <1>6

\* What is dropped is added again.
LEMMA DroppedIsAdded ==
  ASSUME NEW r \in 1..16
  PROVE  /\ Drops(r) \subseteq Adds(r)
         /\ \A t \in Late : Drops(r) \intersect Made(t) = {}
<1>1. Drops(16) \subseteq Adds(16)
  <2>1. DomainStatements[8] = Adds1({Indexes("domains")})
    BY DEF DomainStatements
  <2>2. Adds1({Indexes("domains")}) \in ToSet(Revisions[16])
    <3>1. 8 \in 1..10
      OBVIOUS
    <3>. QED
      BY <2>1, <3>1, DomainElements
  <2>3. /\ Adds1({Indexes("domains")}).kind = "add"
        /\ Adds1({Indexes("domains")}).objects = {Indexes("domains")}
    BY DEF Adds1, Statement
  <2>4. Indexes("domains") \in Adds(16)
    BY <2>2, <2>3, AddsContain
  <2>. QED
    BY <2>4 DEF Drops
<1>2. ASSUME NEW t \in Late PROVE Indexes("domains") \notin Made(t)
  <2>1. t # "domains"
    BY EarlyAndLate
  <2>2. \A x \in Columns(t) \union IndexesOf(t) : x[1] = t
    BY DEF Columns, IndexesOf, At, Table, Indexes, Parts
  <2>3. Indexes("domains")[1] = "domains"
    BY DEF Indexes
  <2>. QED
    BY <2>1, <2>2, <2>3 DEF Made
<1>. QED
  BY <1>1, <1>2 DEF Drops

\* The columns that the first revision adds are declared.
LEMMA BaselineIsDeclared ==
  ASSUME NEW s, s \in BaselineColumns
  PROVE  /\ s.kind = "add" /\ s.lookup = "now" /\ s.unless = s.objects
         /\ s.objects \subseteq HeadSchema /\ \A t : Table(t) \notin s.objects
<1>. DEFINE tables == {"organizations", "repositories", "scan_jobs", "findings", "evidence",
                       "relationships", "tool_runs"}
<1>0. PICK t \in tables : \E part \in ColumnsAdded[t] : s = AddingOne(<<t, part>>)
  <2>1. ASSUME NEW t \in tables, NEW parts, parts \subseteq ColumnsAdded[t], s \in Adding(t, parts)
        PROVE  \E part \in ColumnsAdded[t] : s = AddingOne(<<t, part>>)
    BY <2>1 DEF Adding
  <2>2. /\ {"tenant_key"} \subseteq ColumnsAdded["organizations"]
        /\ {"mirror_path", "last_mirrored_at"} \subseteq ColumnsAdded["repositories"]
        /\ {"target_ref", "scope_json"} \subseteq ColumnsAdded["scan_jobs"]
        /\ {"triage_owner", "triage_notes", "remediation_due_date"} \subseteq ColumnsAdded["findings"]
        /\ {"ref_name"} \subseteq ColumnsAdded["evidence"]
        /\ {"metadata_json"} \subseteq ColumnsAdded["relationships"]
        /\ {"artifact_type", "artifact_path"} \subseteq ColumnsAdded["tool_runs"]
    BY DEF ColumnsAdded
  <2>. QED
    BY <2>1, <2>2 DEF BaselineColumns
<1>1. PICK part \in ColumnsAdded[t] : s = AddingOne(<<t, part>>)
  BY <1>0
<1>2. t \in DOMAIN References \ Unindexed /\ t \in DOMAIN ColumnsAdded
  BY TableNames, Groups, EarlyAndLate, PartsAdded
<1>3. <<t, part>> \in HeadSchema
  BY <1>2, AddedIsDeclared
<1>4. part # "table"
  BY DEF ColumnsAdded
<1>5. \A u : Table(u) # <<t, part>>
  BY <1>4 DEF Table
<1>6. s.kind = "add" /\ s.lookup = "now" /\ s.unless = s.objects /\ s.objects = {<<t, part>>}
  BY <1>1 DEF AddingOne, Statement
<1>. QED
  BY <1>3, <1>5, <1>6

\* A statement of the first revision makes a table that is missing, or a
\* column, or works on rows.
LEMMA BaselineCases ==
  ASSUME NEW s \in ToSet(Revisions[1]), s.kind \in {"add", "drop"}
  PROVE  /\ s.kind = "add" /\ s.objects \subseteq HeadSchema
         /\ \/ s.lookup = "before" /\ \E t \in EarlyTables \union Late : s \in Making(t)
            \/ s.lookup = "now" /\ s.unless = s.objects /\ \A t : Table(t) \notin s.objects
<1>1. (\E t \in ToSet(Phase17) : s \in Making(t)) \/ s \in BaselineColumns \/ s \in Work("fill")
  BY BaselineStatements, RevisionNames
<1>2. s \notin Work("fill")
  BY DEF Work, Statement
<1>3. ASSUME NEW t \in EarlyTables \union Late, s \in Making(t)
      PROVE  s.kind = "add" /\ s.lookup = "before" /\ s.objects \subseteq HeadSchema
  <2>1. t \in DOMAIN References \ Unindexed
    BY TableNames, Groups
  <2>2. s.kind = "add" /\ s.lookup = "before" /\ s.objects \in {Columns(t), IndexesOf(t)}
    BY <1>3 DEF Making, MakesColumns, MakesIndexes, Statement
  <2>. QED
    BY <2>1, <2>2, HeadHas
<1>. QED
  BY <1>1, <1>2, <1>3, BaselineIsDeclared, Groups

\* All that is added is declared.
LEMMA AddsAreDeclared == ASSUME NEW r \in 1..16 PROVE Adds(r) \subseteq HeadSchema
<1>1. ASSUME NEW s \in ToSet(Revisions[r]), s.kind = "add" PROVE s.objects \subseteq HeadSchema
  <2>1. CASE r = 1
    BY <1>1, <2>1, BaselineCases
  <2>2. CASE r \in 2..16
    BY <1>1, <2>2, StatementsAreOrderly DEF Orderly
  <2>. QED
    BY <2>1, <2>2
<1>. QED
  BY <1>1 DEF Adds

\* What a release leaves is what its revision leaves.
LEMMA ReleasesAreApplied ==
  /\ Applied(0, {})
  /\ \A r \in {0, 1, 5} : Applied(r, Released(r))
<1>1. Applied(0, {})
  BY DEF Applied
<1>2. ASSUME NEW r \in {0, 1, 5} PROVE Applied(r, Released(r))
  <2>. DEFINE early == {Table(t) : t \in EarlyTables} \union {Indexes(t) : t \in EarlyTables}
              later == UNION {Adds(q) : q \in 2..r}
              columns == UNION {s.objects : s \in {x \in ToSet(Baseline) :
                                                     x.kind = "add" /\ x.lookup = "now"}}
              first == IF r = 0 THEN {} ELSE columns
  <2>1. Released(r) = early \union later \union first
    BY DEF Released, Adds
  <2>2. \A s : s \in {x \in ToSet(Baseline) : x.kind = "add" /\ x.lookup = "now"} =>
                 s.objects \subseteq HeadSchema /\ \A t : Table(t) \notin s.objects
    <3>1. ASSUME NEW s \in ToSet(Baseline), s.kind = "add", s.lookup = "now"
          PROVE  s.objects \subseteq HeadSchema /\ \A t : Table(t) \notin s.objects
      BY <3>1, RevisionNames, BaselineCases
    <3>. QED
      BY <3>1
  <2>3. columns \subseteq HeadSchema /\ \A t : Table(t) \notin columns
    BY <2>2
  <2>4. first \subseteq HeadSchema /\ \A t : Table(t) \notin first
    BY <2>3
  <2>5. early \subseteq HeadSchema
    <3>1. \A t \in EarlyTables : t \in DOMAIN References \ Unindexed
      BY TableNames, Groups
    <3>2. \A t \in EarlyTables : Table(t) \in HeadSchema /\ Indexes(t) \in HeadSchema
      BY <3>1, HeadHas, TableParts
    <3>. QED
      BY <3>2
  <2>6. later \subseteq HeadSchema
    <3>1. \A q \in 2..r : q \in 1..16
      OBVIOUS
    <3>2. \A q \in 2..r : Adds(q) \subseteq HeadSchema
      BY <3>1, AddsAreDeclared
    <3>. QED
      BY <3>2
  <2>7. \A t \in Late : Table(t) \in Released(r) => Made(t) \subseteq Released(r)
    <3>. SUFFICES ASSUME NEW t \in Late, Table(t) \in Released(r) PROVE Made(t) \subseteq Released(r)
      OBVIOUS
    <3>1. Table(t) \notin early
      <4>1. t \notin EarlyTables
        BY Groups
      <4>2. \A u \in EarlyTables : Table(u) # Table(t) /\ Indexes(u) # Table(t)
        BY <4>1 DEF Table, Indexes
      <4>. QED
        BY <4>2
    <3>2. Table(t) \in later
      BY <2>1, <2>4, <3>1
    <3>3. PICK q \in 2..r : Table(t) \in Adds(q)
      BY <3>2
    <3>4. q \in 2..16
      OBVIOUS
    <3>5. Made(t) \subseteq Adds(q)
      BY <3>3, <3>4, LateIsMade
    <3>. HIDE DEF early, first
    <3>6. Adds(q) \subseteq Released(r)
      BY <2>1
    <3>. QED
      BY <3>5, <3>6
  <2>8. r > 0 => Baselined \subseteq Released(r)
    <3>1. UNION {{Table(t), Indexes(t)} : t \in EarlyTables} \subseteq early
      OBVIOUS
    <3>2. Baselined = (UNION {{Table(t), Indexes(t)} : t \in EarlyTables}) \union columns
      BY DEF Baselined
    <3>3. r > 0 => first = columns
      OBVIOUS
    <3>. HIDE DEF early, columns, first, later
    <3>. QED
      BY <2>1, <3>1, <3>2, <3>3
  <2>9. r = 0 => \A t \in EarlyTables : Table(t) \in Released(r) => Indexes(t) \in Released(r)
    <3>1. \A t \in EarlyTables : Indexes(t) \in early
      OBVIOUS
    <3>. HIDE DEF early, first, later
    <3>. QED
      BY <2>1, <3>1
  <2>10. \A q \in 2..r : Adds(q) \subseteq Released(r)
    <3>. HIDE DEF early, first
    <3>. QED
      BY <2>1
  <2>11. Released(r) \subseteq HeadSchema
    <3>. HIDE DEF early, first, later
    <3>. QED
      BY <2>1, <2>4, <2>5, <2>6
  <2>. QED
    BY <2>7, <2>8, <2>9, <2>10, <2>11 DEF Applied
<1>. QED
  BY <1>1, <1>2

-----------------------------------------------------------------------------
(* One revision, from its first statement to its last.                     *)

\* Nothing is executed yet.
LEMMA RevisionBegins == ASSUME NEW r, NEW objects PROVE Underway(r, 1, objects, objects)
BY DEF Underway

\* What has come of the objects after one more statement.
After(s, before, objects) ==
  IF s.unless # {} /\ s.unless \subseteq (IF s.lookup = "before" THEN before ELSE objects)
  THEN objects
  ELSE IF s.kind = "add" THEN objects \union s.objects
  ELSE IF s.kind = "drop" THEN objects \ s.objects
  ELSE objects

\* A statement is executed, or skipped.
LEMMA RevisionGoesOn ==
  ASSUME NEW r \in 1..16, NEW i \in 1..Len(Revisions[r]), NEW before, NEW objects,
         Underway(r, i, before, objects)
  PROVE  Underway(r, i + 1, before, After(Revisions[r][i], before, objects))
<1>. DEFINE s == Revisions[r][i]
            present == IF s.lookup = "before" THEN before ELSE objects
            after == After(s, before, objects)
<1>1. s \in ToSet(Revisions[r])
  <2>1. List(Revisions[r])
    BY AllAreLists
  <2>2. ToSet(Revisions[r]) = {Revisions[r][k] : k \in 1..Len(Revisions[r])}
    BY <2>1, Elements
  <2>. QED
    BY <2>2
<1>2. /\ objects \subseteq before \union Adds(r) /\ before \ Drops(r) \subseteq objects
      /\ \A j \in 1..i - 1 : Done(Revisions[r][j], before, objects)
  BY DEF Underway
<1>3. i \in Int
  OBVIOUS
<1>4. \A j \in 1..i + 1 - 1 : j \in 1..i - 1 \/ j = i
  BY <1>3
<1>5. CASE s.unless # {} /\ s.unless \subseteq present
  <2>1. after = objects
    BY <1>5 DEF After
  <2>2. Done(s, before, objects)
    BY <1>5 DEF Done
  <2>. HIDE DEF after, present
  <2>. QED
    BY <1>2, <1>4, <2>1, <2>2 DEF Underway, after
<1>6. CASE ~(s.unless # {} /\ s.unless \subseteq present) /\ s.kind = "add"
  <2>1. after = objects \union s.objects
    BY <1>6 DEF After
  <2>2. s.objects \subseteq Adds(r)
    BY <1>1, <1>6, AddsContain
  <2>3. Done(s, before, objects \union s.objects)
    BY DEF Done
  <2>4. \A j \in 1..i - 1 : Done(Revisions[r][j], before, objects \union s.objects)
    BY <1>2 DEF Done
  <2>. HIDE DEF after, present, s
  <2>5. objects \union s.objects \subseteq before \union Adds(r)
        /\ before \ Drops(r) \subseteq objects \union s.objects
    BY <1>2, <2>2
  <2>6. \A j \in 1..i + 1 - 1 : Done(Revisions[r][j], before, objects \union s.objects)
    BY <1>4, <2>3, <2>4 DEF s
  <2>7. Underway(r, i + 1, before, objects \union s.objects)
    <3>. DEFINE more == objects \union s.objects
    <3>1. /\ more \subseteq before \union Adds(r) /\ before \ Drops(r) \subseteq more
          /\ \A j \in 1..i + 1 - 1 : Done(Revisions[r][j], before, more)
      BY <2>5, <2>6
    <3>. HIDE DEF more
    <3>2. Underway(r, i + 1, before, more)
      BY <3>1 DEF Underway
    <3>. QED
      BY <3>2 DEF more
  <2>. QED
    BY <2>1, <2>7, Zenon DEF after, s
<1>7. CASE ~(s.unless # {} /\ s.unless \subseteq present) /\ s.kind = "drop"
  <2>1. after = objects \ s.objects
    BY <1>7 DEF After
  <2>2. r \in 2..16
    <3>1. r # 1
      BY <1>1, <1>7, BaselineCases
    <3>. QED
      BY <3>1
  <2>3. r = 16 /\ s.objects = {Indexes("domains")}
    BY <1>1, <1>7, <2>2, StatementsAreOrderly DEF Orderly
  <2>4. Done(s, before, objects \ s.objects)
    BY <1>7 DEF Done
  <2>5. ASSUME NEW j \in 1..i - 1 PROVE Done(Revisions[r][j], before, objects \ s.objects)
    <3>1. LET t == Revisions[r][j]
          IN  t.kind = "add" => Indexes("domains") \notin t.objects /\ t.unless = {}
      BY <1>7, <2>3, DropComesFirst
    <3>2. Done(Revisions[r][j], before, objects)
      BY <1>2
    <3>. QED
      BY <2>3, <3>1, <3>2 DEF Done
  <2>6. Drops(r) = s.objects
    BY <2>3 DEF Drops
  <2>. HIDE DEF after, present, s
  <2>7. objects \ s.objects \subseteq before \union Adds(r)
        /\ before \ Drops(r) \subseteq objects \ s.objects
    BY <1>2, <2>6
  <2>8. \A j \in 1..i + 1 - 1 : Done(Revisions[r][j], before, objects \ s.objects)
    BY <1>4, <2>4, <2>5 DEF s
  <2>9. Underway(r, i + 1, before, objects \ s.objects)
    BY <2>7, <2>8 DEF Underway
  <2>. QED
    BY <2>1, <2>9, Zenon DEF after, s
<1>8. CASE ~(s.unless # {} /\ s.unless \subseteq present) /\ s.kind \notin {"add", "drop"}
  <2>1. after = objects
    BY <1>8 DEF After
  <2>2. Done(s, before, objects)
    BY <1>8 DEF Done
  <2>. HIDE DEF after, present
  <2>. QED
    BY <1>2, <1>4, <2>1, <2>2 DEF Underway, after
<1>. QED
  BY <1>5, <1>6, <1>7, <1>8

\* After the last statement all were done.
LEMMA AllDone ==
  ASSUME NEW r \in 1..16, NEW before, NEW objects,
         Underway(r, Len(Revisions[r]) + 1, before, objects), NEW s \in ToSet(Revisions[r])
  PROVE  Done(s, before, objects)
<1>1. List(Revisions[r])
  BY AllAreLists
<1>2. ToSet(Revisions[r]) = {Revisions[r][k] : k \in 1..Len(Revisions[r])} /\ Len(Revisions[r]) \in Nat
  BY <1>1, Elements
<1>3. PICK j \in 1..Len(Revisions[r]) : s = Revisions[r][j]
  BY <1>2
<1>4. j \in 1..Len(Revisions[r]) + 1 - 1
  BY <1>2
<1>. QED
  BY <1>3, <1>4 DEF Underway

\* A table of the first revision was there before, or all of it was made.
LEMMA MadeOrFound ==
  ASSUME NEW before, NEW objects, NEW t, Done(MakesColumns(t), before, objects),
         Done(MakesIndexes(t), before, objects)
  PROVE  Table(t) \in before \/ Made(t) \subseteq objects
BY DEF Done, MakesColumns, MakesIndexes, Statement, Made

\* The first revision leaves what it should.
LEMMA BaselineEnds ==
  ASSUME NEW before, NEW objects, Applied(0, before),
         Underway(1, Len(Revisions[1]) + 1, before, objects)
  PROVE  Applied(1, objects)
<1>1. objects \subseteq before \union Adds(1) /\ before \subseteq objects
  BY DEF Underway, Drops
<1>2. /\ before \subseteq HeadSchema
      /\ \A t \in EarlyTables : Table(t) \in before => Indexes(t) \in before
      /\ \A t \in Late : Table(t) \in before => Made(t) \subseteq before
  BY DEF Applied
<1>3. \A s \in ToSet(Revisions[1]) : Done(s, before, objects)
  BY AllDone
<1>4. ASSUME NEW t \in EarlyTables \union Late PROVE Table(t) \in before \/ Made(t) \subseteq objects
  <2>1. Making(t) \subseteq ToSet(Revisions[1])
    BY BaselineStatements, Groups, RevisionNames
  <2>2. MakesColumns(t) \in ToSet(Revisions[1]) /\ MakesIndexes(t) \in ToSet(Revisions[1])
    BY <2>1 DEF Making
  <2>. QED
    BY <1>3, <2>2, MadeOrFound
<1>5. \A t \in Late : Made(t) \subseteq objects
  BY <1>1, <1>2, <1>4
<1>6. \A t \in EarlyTables : Table(t) \in objects /\ Indexes(t) \in objects
  <2>1. \A t : Table(t) \in Made(t) /\ Indexes(t) \in Made(t)
    BY TableParts DEF Made
  <2>. QED
    BY <1>1, <1>2, <1>4, <2>1
<1>7. ASSUME NEW s \in ToSet(Baseline), s.kind = "add", s.lookup = "now"
      PROVE  s.objects \subseteq objects
  <2>1. s \in ToSet(Revisions[1])
    BY RevisionNames
  <2>2. s.unless = s.objects
    BY <1>7, <2>1, BaselineCases
  <2>. QED
    BY <1>3, <1>7, <2>1, <2>2 DEF Done
<1>8. Baselined \subseteq objects
  BY <1>6, <1>7 DEF Baselined
<1>9. objects \subseteq HeadSchema
  BY <1>1, <1>2, AddsAreDeclared
<1>. QED
  BY <1>5, <1>8, <1>9 DEF Applied

\* Every later revision adds what it should and keeps what the others added.
LEMMA LaterEnds ==
  ASSUME NEW r \in 2..16, NEW before, NEW objects, Applied(r - 1, before),
         Underway(r, Len(Revisions[r]) + 1, before, objects)
  PROVE  Applied(r, objects)
<1>1. r \in 1..16
  OBVIOUS
<1>2. objects \subseteq before \union Adds(r) /\ before \ Drops(r) \subseteq objects
  BY DEF Underway
<1>3. /\ before \subseteq HeadSchema /\ Baselined \subseteq before
      /\ \A t \in Late : Table(t) \in before => Made(t) \subseteq before
      /\ \A q \in 2..r - 1 : Adds(q) \subseteq before
  BY DEF Applied
<1>4. Drops(r) \subseteq Adds(r) /\ \A t \in Late : Drops(r) \intersect Made(t) = {}
  BY <1>1, DroppedIsAdded
<1>5. ASSUME NEW s \in ToSet(Revisions[r]), s.kind = "add" PROVE s.objects \subseteq objects
  <2>1. Done(s, before, objects)
    BY <1>1, AllDone
  <2>2. /\ s.objects \subseteq objects
           \/ (s.unless # {} /\ s.unless \subseteq IF s.lookup = "before" THEN before ELSE objects)
    BY <1>5, <2>1 DEF Done
  <2>3. \/ s.unless = {}
        \/ s.lookup = "now" /\ s.unless = s.objects
        \/ \E t \in MakesTables(r) : s \in Making(t)
        \/ r = 8 /\ s \in AddsKey
    BY <1>5, StatementsAreOrderly DEF Orderly
  <2>4. ASSUME s.unless = {} \/ (s.lookup = "now" /\ s.unless = s.objects)
        PROVE  s.objects \subseteq objects
    BY <2>2, <2>4
  <2>5. ASSUME NEW t \in MakesTables(r), s \in Making(t) PROVE s.objects \subseteq objects
    <3>1. s.unless = {Table(t)} /\ s.lookup = "before" /\ s.objects \subseteq Made(t)
      BY <2>5 DEF Making, MakesColumns, MakesIndexes, Statement, Made
    <3>2. t \in Late
      BY Groups
    <3>3. Table(t) \in before => Made(t) \subseteq objects
      BY <1>2, <1>3, <1>4, <3>2
    <3>. QED
      BY <2>2, <3>1, <3>3
  <2>6. ASSUME r = 8, s \in AddsKey PROVE s.objects \subseteq objects
    <3>1. "queue_tasks" \in MakesTables(4)
      BY DEF MakesTables
    <3>2. Made("queue_tasks") \subseteq Adds(4)
      BY <3>1, LateAreWhole
    <3>3. Adds(4) \subseteq before /\ Drops(8) = {}
      BY <1>3, <2>6 DEF Drops
    <3>4. /\ <<"queue_tasks", "execution_key">> \in Columns("queue_tasks")
          /\ <<"queue_tasks", "ix_execution_key">> \in IndexesOf("queue_tasks")
      BY DEF Columns, IndexesOf, At, ColumnsAdded, IndexesAdded, Parts
    <3>5. s.objects \subseteq Columns("queue_tasks") \union IndexesOf("queue_tasks")
      BY <2>6, <3>4 DEF AddsKey, ExecutionKey, Statement
    <3>. QED
      BY <1>2, <2>6, <3>2, <3>3, <3>5 DEF Made
  <2>. QED
    BY <2>3, <2>4, <2>5, <2>6
<1>6. Adds(r) \subseteq objects
  BY <1>5 DEF Adds
<1>7. before \subseteq objects
  BY <1>2, <1>4, <1>6
<1>8. objects \subseteq HeadSchema
  BY <1>1, <1>2, <1>3, AddsAreDeclared
<1>9. ASSUME NEW t \in Late, Table(t) \in objects PROVE Made(t) \subseteq objects
  <2>1. CASE Table(t) \in before
    BY <1>3, <1>7, <2>1
  <2>2. CASE Table(t) \in Adds(r)
    BY <1>6, <2>2, LateIsMade
  <2>. QED
    BY <1>2, <1>9, <2>1, <2>2
<1>10. \A q \in 2..r : Adds(q) \subseteq objects
  <2>1. \A q \in 2..r : q = r \/ q \in 2..r - 1
    OBVIOUS
  <2>. QED
    BY <1>3, <1>6, <1>7, <2>1
<1>. QED
  BY <1>3, <1>7, <1>8, <1>9, <1>10 DEF Applied

\* A revision ends.
LEMMA RevisionEnds ==
  ASSUME NEW r \in 1..16, NEW before, NEW objects, Applied(r - 1, before),
         Underway(r, Len(Revisions[r]) + 1, before, objects)
  PROVE  Applied(r, objects)
<1>1. CASE r = 1
  <2>1. Applied(0, before) /\ Underway(1, Len(Revisions[1]) + 1, before, objects)
    BY <1>1
  <2>. QED
    BY <1>1, <2>1, BaselineEnds
<1>2. CASE r \in 2..16
  BY <1>2, LaterEnds
<1>. QED
  BY <1>1, <1>2

-----------------------------------------------------------------------------
(* The schema's objects, with an upgrade under way or without.             *)

\* What an upgrade found, and how far it has come.
UpgradeContent(p) ==
  /\ processes[p].step \in 1..Len(Revisions[processes[p].revision]) + 1
  /\ Applied(processes[p].revision - 1, processes[p].before)
  /\ Underway(processes[p].revision, processes[p].step, processes[p].before, View(p).objects)
  /\ engine = "sqlite" => database.revision = processes[p].revision - 1
  /\ engine = "sqlite" /\ processes[p].step = 1 =>
       ~processes[p].open /\ database.objects = processes[p].before

\* As long as no upgrade was disturbed, the committed schema is what its
\* revision leaves, on SQLite when no upgrade is under way.
ContentInv ==
  ~disturbed =>
    /\ engine = "postgresql" \/ Upgrading = {} => Applied(database.revision, database.objects)
    /\ \A p \in Upgrading : UpgradeContent(p)

\* An upgrade that was not disturbed is alone, and at one of the revisions.
LEMMA AloneAt ==
  ASSUME MigrationInv, ~disturbed, NEW p \in Migrators, processes[p].at = "upgrade"
  PROVE  /\ Upgrading = {p} /\ processes[p].revision \in 1..16
         /\ engine \in {"sqlite", "postgresql"} /\ processes[p].open \in BOOLEAN
         /\ engine = "postgresql" => processes[p].open
         /\ DOMAIN processes = Migrators
         /\ DOMAIN processes[p] = {"at", "revision", "step", "before", "open"}
<1>1. MigrationTypeOK /\ UpgradesAlone /\ UpgradeIsAhead(p)
  BY DEF MigrationInv
<1>2. Upgrading = {p}
  BY <1>1 DEF UpgradesAlone, Upgrading
<1>3. processes[p].revision \in 1..16
  BY <1>1, RevisionNames DEF UpgradeIsAhead
<1>. QED
  BY <1>1, <1>2, <1>3 DEF MigrationTypeOK, UpgradeIsAhead

\* What a release left has the content of its revision.
LEMMA ContentInitially == MigrationInit => ContentInv
<1>. SUFFICES ASSUME MigrationInit PROVE ContentInv
  OBVIOUS
<1>1. PICK r \in {0, 1, 5}, old \in BOOLEAN, clash \in BOOLEAN :
        /\ r # 0 => old
        /\ database = [revision |-> r, objects |-> IF old THEN Released(r) ELSE {}, clash |-> clash]
  BY Zenon DEF MigrationInit
<1>2. database.revision = r /\ database.objects = IF old THEN Released(r) ELSE {}
  BY <1>1
<1>3. Applied(r, database.objects)
  <2>1. CASE old
    BY <1>2, <2>1, ReleasesAreApplied
  <2>2. CASE ~old
    BY <1>1, <1>2, <2>2, ReleasesAreApplied
  <2>. QED
    BY <2>1, <2>2
<1>4. Upgrading = {}
  BY DEF MigrationInit, Upgrading, Down
<1>. QED
  BY <1>2, <1>3, <1>4 DEF ContentInv

\* Starting an upgrade on what its revision before left.
LEMMA StartUpgradeContent ==
  ASSUME MigrationInv, ContentInv, NEW p \in Migrators, StartUpgrade(p) PROVE ContentInv'
<1>. SUFFICES ASSUME ~disturbed' PROVE ContentInv'
  BY DEF ContentInv
<1>1. /\ processes[p].at = "down" /\ database.revision < Newest
      /\ engine = "postgresql" => ~InTransaction
      /\ processes' = [processes EXCEPT ![p] =
           [at |-> "upgrade", revision |-> database.revision + 1, step |-> 1,
            before |-> database.objects, open |-> engine = "postgresql"]]
      /\ disturbed' = (disturbed \/ (engine = "sqlite" /\ Upgrading # {}))
      /\ UNCHANGED <<engine, database, work>>
  BY Zenon DEF StartUpgrade
<1>2. MigrationTypeOK /\ OneTransaction /\ \A q \in Migrators : UpgradeIsAhead(q)
  BY DEF MigrationInv
<1>3. ~disturbed /\ Upgrading = {}
  <2>1. ~disturbed /\ (engine = "sqlite" => Upgrading = {})
    BY <1>1
  <2>2. engine = "postgresql" => \A q \in Migrators : processes[q].at # "upgrade"
    BY <1>1, <1>2 DEF UpgradeIsAhead, InTransaction
  <2>. QED
    BY <1>2, <2>1, <2>2 DEF Upgrading, MigrationTypeOK
<1>4. Applied(database.revision, database.objects)
  BY <1>3 DEF ContentInv
<1>5. /\ processes'[p].at = "upgrade" /\ processes'[p].revision = database.revision + 1
      /\ processes'[p].step = 1 /\ processes'[p].before = database.objects
      /\ processes'[p].open = (engine = "postgresql")
      /\ \A q \in Migrators : q # p => processes'[q] = processes[q]
  BY <1>1, <1>2 DEF MigrationTypeOK
<1>6. Upgrading' = {p}
  BY <1>3, <1>5 DEF Upgrading
<1>7. database.revision + 1 \in 1..16 /\ database.revision \in Nat
  BY <1>1, <1>2, RevisionNames DEF MigrationTypeOK
<1>8. work = database
  <2>1. \A q \in Migrators : ~processes[q].open
    BY <1>2, <1>3 DEF OneTransaction, Upgrading
  <2>. QED
    BY <1>2, <2>1 DEF OneTransaction
<1>9. View(p)' = database
  BY <1>1, <1>8 DEF View
<1>10. List(Revisions[database.revision + 1])
  BY <1>7, AllAreLists
<1>11. 1 \in 1..Len(Revisions[database.revision + 1]) + 1
  BY <1>10, Elements
<1>12. Underway(database.revision + 1, 1, database.objects, database.objects)
  BY RevisionBegins
<1>13. engine = "sqlite" => ~processes'[p].open
  BY <1>5, Zenon
<1>14. UpgradeContent(p)'
  <2>1. processes'[p].step \in 1..Len(Revisions[processes'[p].revision]) + 1
    BY <1>5, <1>11
  <2>2. processes'[p].revision - 1 = database.revision
    BY <1>5, <1>7
  <2>3. Applied(processes'[p].revision - 1, processes'[p].before)
    BY <1>4, <1>5, <2>2
  <2>4. Underway(processes'[p].revision, processes'[p].step, processes'[p].before, View(p)'.objects)
    BY <1>5, <1>9, <1>12
  <2>. QED
    BY <1>1, <1>5, <1>13, <2>1, <2>2, <2>3, <2>4 DEF UpgradeContent
<1>. QED
  BY <1>1, <1>4, <1>6, <1>14 DEF ContentInv

\* Services do not touch the schema.
LEMMA ServingContent ==
  ASSUME MigrationInv, ContentInv, NEW p \in Migrators, StartServing(p) \/ StopServing(p)
  PROVE  ContentInv'
<1>1. /\ processes[p].at \in {"down", "serving"}
      /\ \/ processes' = [processes EXCEPT ![p].at = "serving"]
         \/ processes' = [processes EXCEPT ![p] = Down]
      /\ UNCHANGED <<engine, database, work, disturbed>>
  BY Zenon DEF StartServing, StopServing
<1>2. MigrationTypeOK
  BY DEF MigrationInv
<1>3. /\ processes'[p].at # "upgrade"
      /\ \A q \in Migrators : q # p => processes'[q] = processes[q]
  BY <1>1, <1>2 DEF MigrationTypeOK, Down
<1>4. Upgrading' = Upgrading
  BY <1>1, <1>3 DEF Upgrading
<1>5. ASSUME NEW q \in Upgrading, UpgradeContent(q) PROVE UpgradeContent(q)'
  <2>1. processes'[q] = processes[q]
    BY <1>1, <1>3 DEF Upgrading
  <2>2. View(q)' = View(q)
    BY <1>1, <2>1 DEF View
  <2>. QED
    BY <1>1, <1>5, <2>1, <2>2 DEF UpgradeContent
<1>. QED
  BY <1>1, <1>4, <1>5 DEF ContentInv

\* One statement of an upgrade.
LEMMA ExecuteContent ==
  ASSUME MigrationInv, ContentInv, NEW p \in Migrators, Execute(p) PROVE ContentInv'
<1>. DEFINE run == processes[p]
            s == Revisions[run.revision][run.step]
            present == IF s.lookup = "before" THEN run.before ELSE View(p).objects
            skip == s.unless # {} /\ s.unless \subseteq present
            open == run.open \/ s.kind = "fill"
            written == IF skip THEN View(p) ELSE Effect(s, View(p))
<1>1. /\ run.at = "upgrade" /\ run.step <= Len(Revisions[run.revision])
      /\ (InTransaction => run.open)
      /\ WriteSchema(p, open, written)
      /\ processes' = [processes EXCEPT ![p].step = @ + 1, ![p].open = open]
      /\ UNCHANGED <<engine, disturbed>>
  BY Zenon DEF Execute
<1>. SUFFICES ASSUME ~disturbed PROVE ContentInv'
  BY <1>1 DEF ContentInv
<1>2. /\ Upgrading = {p} /\ run.revision \in 1..16 /\ engine \in {"sqlite", "postgresql"}
      /\ run.open \in BOOLEAN /\ (engine = "postgresql" => run.open)
      /\ DOMAIN processes = Migrators /\ DOMAIN run = {"at", "revision", "step", "before", "open"}
  BY <1>1, AloneAt
<1>3. UpgradeContent(p) /\ (engine = "postgresql" => Applied(database.revision, database.objects))
  BY <1>2 DEF ContentInv
<1>4. written.objects = After(s, run.before, View(p).objects) /\ written.revision = View(p).revision
  <2>1. DOMAIN View(p) = {"revision", "objects", "clash"}
    BY <1>1, WriterSees
  <2>2. CASE skip
    <3>1. written = View(p)
      BY <2>2
    <3>2. After(s, run.before, View(p).objects) = View(p).objects
      BY <2>2 DEF After
    <3>. QED
      BY <3>1, <3>2
  <2>3. CASE ~skip
    <3>. DEFINE db == View(p)
    <3>. HIDE DEF db
    <3>1. written = Effect(s, db)
      BY <2>3 DEF db
    <3>2. DOMAIN db = {"revision", "objects", "clash"}
      BY <2>1 DEF db
    <3>3. /\ s.kind = "add" => Effect(s, db).objects = db.objects \union s.objects
          /\ s.kind = "drop" => Effect(s, db).objects = db.objects \ s.objects
          /\ s.kind \notin {"add", "drop"} => Effect(s, db) = db
          /\ Effect(s, db).revision = db.revision
      BY <3>2 DEF Effect
    <3>4. After(s, run.before, db.objects) =
            IF s.kind = "add" THEN db.objects \union s.objects
            ELSE IF s.kind = "drop" THEN db.objects \ s.objects ELSE db.objects
      BY <2>3 DEF After, db
    <3>. HIDE DEF s, written
    <3>5. written.objects = After(s, run.before, db.objects)
      BY <3>1, <3>3, <3>4
    <3>. QED
      BY <3>1, <3>3, <3>5 DEF db
  <2>. QED
    BY <2>2, <2>3
<1>5. open \in BOOLEAN /\ (run.open => open)
  <2>1. open \in BOOLEAN
    BY <1>2, Zenon
  <2>. QED
    BY <2>1
<1>6. View(p) = IF run.open THEN work ELSE database
  BY <1>1, WriterSees
<1>. HIDE DEF s, present, skip, written
<1>7. IF open THEN work' = written /\ database' = database ELSE database' = written /\ work' = written
  BY <1>1, Zenon DEF WriteSchema
<1>. HIDE DEF open
<1>8. /\ processes'[p].at = "upgrade" /\ processes'[p].revision = run.revision
      /\ processes'[p].step = run.step + 1 /\ processes'[p].before = run.before
      /\ processes'[p].open = open
      /\ \A q \in Migrators : q # p => processes'[q] = processes[q]
  BY <1>1, <1>2
<1>9. Upgrading' = {p}
  BY <1>2, <1>8 DEF Upgrading
<1>10. View(p)' = written
  BY <1>7, <1>8 DEF View
<1>11. database'.revision = database.revision
  BY <1>4, <1>5, <1>6, <1>7
<1>12. engine = "postgresql" => database' = database
  BY <1>2, <1>5, <1>7
<1>13. Len(Revisions[run.revision]) \in Nat
  <2>1. List(Revisions[run.revision])
    BY <1>2, AllAreLists
  <2>. QED
    BY <2>1, Elements
<1>14. run.step \in 1..Len(Revisions[run.revision])
  BY <1>1, <1>3, <1>13 DEF UpgradeContent
<1>15. Underway(run.revision, run.step + 1, run.before, written.objects)
  <2>1. Underway(run.revision, run.step, run.before, View(p).objects)
    BY <1>3 DEF UpgradeContent
  <2>2. Underway(run.revision, run.step + 1, run.before,
                 After(Revisions[run.revision][run.step], run.before, View(p).objects))
    BY <1>2, <1>14, <2>1, RevisionGoesOn
  <2>. QED
    BY <1>4, <2>2 DEF s
<1>16. run.step + 1 \in 1..Len(Revisions[run.revision]) + 1 /\ run.step + 1 # 1
  BY <1>13, <1>14
<1>17. Applied(run.revision - 1, run.before)
       /\ (engine = "sqlite" => database.revision = run.revision - 1)
  BY <1>3 DEF UpgradeContent
<1>. HIDE DEF run
<1>18. UpgradeContent(p)'
  BY <1>1, <1>8, <1>10, <1>11, <1>15, <1>16, <1>17 DEF UpgradeContent
<1>. QED
  BY <1>1, <1>3, <1>9, <1>12, <1>18 DEF ContentInv

\* The end of a revision.
LEMMA FinishContent ==
  ASSUME MigrationInv, ContentInv, NEW p \in Migrators, FinishRevision(p) PROVE ContentInv'
<1>. DEFINE run == processes[p]
            written == [View(p) EXCEPT !.revision = run.revision]
            last == run.revision = Newest
            open == engine = "postgresql" /\ ~last
            next == IF ~last THEN [run EXCEPT !.revision = @ + 1, !.step = 1,
                                              !.before = written.objects, !.open = open]
                    ELSE IF p \in Services THEN [Down EXCEPT !.at = "serving"] ELSE Down
<1>1. /\ run.at = "upgrade" /\ (InTransaction => run.open)
      /\ run.step = Len(Revisions[run.revision]) + 1
      /\ WriteSchema(p, open, written)
      /\ processes' = [processes EXCEPT ![p] = next]
      /\ UNCHANGED <<engine, disturbed>>
  BY Zenon DEF FinishRevision
<1>. SUFFICES ASSUME ~disturbed PROVE ContentInv'
  BY <1>1 DEF ContentInv
<1>2. /\ Upgrading = {p} /\ run.revision \in 1..16 /\ engine \in {"sqlite", "postgresql"}
      /\ DOMAIN processes = Migrators /\ DOMAIN run = {"at", "revision", "step", "before", "open"}
  BY <1>1, AloneAt
<1>3. UpgradeContent(p) /\ (engine = "postgresql" => Applied(database.revision, database.objects))
  BY <1>2 DEF ContentInv
<1>4. written.objects = View(p).objects /\ written.revision = run.revision
  <2>1. DOMAIN View(p) = {"revision", "objects", "clash"}
    BY <1>1, WriterSees
  <2>. QED
    BY <2>1
<1>5. Applied(run.revision, written.objects)
  <2>1. /\ Applied(run.revision - 1, run.before)
        /\ Underway(run.revision, Len(Revisions[run.revision]) + 1, run.before, View(p).objects)
    BY <1>1, <1>3 DEF UpgradeContent
  <2>. QED
    BY <1>2, <1>4, <2>1, RevisionEnds
<1>6. IF open THEN work' = written /\ database' = database ELSE database' = written /\ work' = written
  BY <1>1, Zenon DEF WriteSchema
<1>7. processes'[p] = next /\ \A q \in Migrators : q # p => processes'[q] = processes[q]
  BY <1>1, <1>2
<1>8. CASE last
  <2>1. ~open
    BY <1>8
  <2>2. next.at # "upgrade"
    BY <1>8 DEF Down
  <2>. HIDE DEF next, written
  <2>3. Upgrading' = {}
    BY <1>2, <1>7, <2>2 DEF Upgrading
  <2>4. database' = written
    BY <1>6, <2>1
  <2>. QED
    BY <1>4, <1>5, <2>3, <2>4 DEF ContentInv
<1>9. CASE ~last
  <2>1. next = [run EXCEPT !.revision = @ + 1, !.step = 1, !.before = written.objects, !.open = open]
    BY <1>9
  <2>2. open = (engine = "postgresql")
    BY <1>9
  <2>. HIDE DEF open, written, next
  <2>3. /\ next.at = "upgrade" /\ next.revision = run.revision + 1 /\ next.step = 1
        /\ next.before = written.objects /\ next.open = open
    BY <1>1, <1>2, <2>1
  <2>4. Upgrading' = {p}
    BY <1>2, <1>7, <2>3 DEF Upgrading
  <2>5. View(p)' = written
    BY <1>6, <1>7, <2>3 DEF View
  <2>6. /\ engine = "postgresql" => database' = database
        /\ engine = "sqlite" => database' = written /\ ~next.open
    BY <1>6, <2>2, <2>3
  <2>7. run.revision + 1 \in 1..16
    BY <1>2, <1>9, RevisionNames
  <2>8. 1 \in 1..Len(Revisions[run.revision + 1]) + 1
    <3>1. List(Revisions[run.revision + 1])
      BY <2>7, AllAreLists
    <3>. QED
      BY <3>1, Elements
  <2>9. Underway(run.revision + 1, 1, written.objects, written.objects)
    BY RevisionBegins
  <2>10. UpgradeContent(p)'
    <3>1. processes'[p].step \in 1..Len(Revisions[processes'[p].revision]) + 1
      BY <1>7, <2>3, <2>8
    <3>2. processes'[p].revision - 1 = run.revision
      BY <1>2, <1>7, <2>3
    <3>3. Applied(processes'[p].revision - 1, processes'[p].before)
      BY <1>5, <1>7, <2>3, <3>2
    <3>4. Underway(processes'[p].revision, processes'[p].step, processes'[p].before, View(p)'.objects)
      BY <1>7, <2>3, <2>5, <2>9
    <3>. QED
      BY <1>1, <1>4, <1>7, <2>3, <2>6, <3>1, <3>2, <3>3, <3>4 DEF UpgradeContent
  <2>. QED
    BY <1>1, <1>2, <1>3, <2>4, <2>6, <2>10 DEF ContentInv
<1>. QED
  BY <1>8, <1>9

\* An upgrade that breaks off without a trace leaves what it found.
LEMMA BreakOffContent ==
  ASSUME MigrationInv, ContentInv, NEW p \in Migrators, BreakOff(p) PROVE ContentInv'
<1>1. /\ processes[p].at = "upgrade"
      /\ processes' = [processes EXCEPT ![p] = Down]
      /\ disturbed' = (disturbed \/ (engine = "sqlite" /\ processes[p].step > 1))
      /\ UNCHANGED <<engine, database>>
  BY Zenon DEF BreakOff
<1>. SUFFICES ASSUME ~disturbed' PROVE ContentInv'
  BY DEF ContentInv
<1>2. ~disturbed /\ (engine = "sqlite" => ~(processes[p].step > 1))
  BY <1>1
<1>3. /\ Upgrading = {p} /\ processes[p].revision \in 1..16 /\ engine \in {"sqlite", "postgresql"}
      /\ DOMAIN processes = Migrators
  BY <1>1, <1>2, AloneAt
<1>4. UpgradeContent(p) /\ (engine = "postgresql" => Applied(database.revision, database.objects))
  BY <1>2, <1>3 DEF ContentInv
<1>5. Upgrading' = {}
  BY <1>1, <1>3 DEF Upgrading, Down
<1>6. engine = "sqlite" => Applied(database.revision, database.objects)
  <2>. SUFFICES ASSUME engine = "sqlite" PROVE Applied(database.revision, database.objects)
    OBVIOUS
  <2>1. processes[p].step = 1
    <3>1. Len(Revisions[processes[p].revision]) \in Nat
      <4>1. List(Revisions[processes[p].revision])
        BY <1>3, AllAreLists
      <4>. QED
        BY <4>1, Elements
    <3>2. processes[p].step \in 1..Len(Revisions[processes[p].revision]) + 1
      BY <1>4 DEF UpgradeContent
    <3>. QED
      BY <1>2, <3>1, <3>2
  <2>. QED
    BY <1>4, <2>1 DEF UpgradeContent
<1>. QED
  BY <1>1, <1>3, <1>4, <1>5, <1>6 DEF ContentInv

\* Every step keeps the content.
LEMMA ContentStep == MigrationInv /\ ContentInv /\ [MigrationNext]_migrationVars => ContentInv'
<1>1. ASSUME MigrationInv, ContentInv, NEW p \in Migrators,
             StartUpgrade(p) \/ StartServing(p) \/ StopServing(p)
             \/ Execute(p) \/ FinishRevision(p) \/ BreakOff(p)
      PROVE  ContentInv'
  BY <1>1, StartUpgradeContent, ServingContent, ExecuteContent, FinishContent, BreakOffContent
<1>2. ASSUME ContentInv, UNCHANGED migrationVars PROVE ContentInv'
  BY <1>2 DEF migrationVars, ContentInv, UpgradeContent, Upgrading, View
<1>. QED
  BY <1>1, <1>2 DEF MigrationNext

\* An undisturbed schema is what its revision leaves, at every moment.
THEOREM ContentInvariance == MigrationSpec => []ContentInv
BY ContentInitially, ContentStep, MigrationInvariance, PTL DEF MigrationSpec

-----------------------------------------------------------------------------
(* After the last revision.                                                *)

\* A table of the first revision or a late one is whole after the last
\* revision, with what later revisions added to it.
LEMMA OldTablesAreWhole ==
  ASSUME NEW objects, Applied(16, objects), NEW t \in EarlyTables \union Late
  PROVE  Columns(t) \union IndexesOf(t) \subseteq objects
<1>1. Baselined \subseteq objects /\ \A q \in 2..16 : Adds(q) \subseteq objects
  BY DEF Applied
<1>2. CASE t \in Late
  <2>1. PICK r \in {2, 3, 4, 5, 7} : t \in MakesTables(r)
    BY <1>2, Groups
  <2>2. r \in 2..16
    OBVIOUS
  <2>3. Made(t) \subseteq Adds(r)
    BY <2>1, <2>2, LateAreWhole
  <2>. QED
    BY <1>1, <2>2, <2>3 DEF Made
<1>3. CASE t \in EarlyTables
  <2>1. Table(t) \in objects /\ Indexes(t) \in objects
    BY <1>1, <1>3 DEF Baselined
  <2>2. \A u, parts : Adding(u, parts) \subseteq ToSet(Baseline)
                        => \A part \in parts : <<u, part>> \in objects
    <3>. SUFFICES ASSUME NEW u, NEW parts, Adding(u, parts) \subseteq ToSet(Baseline),
                         NEW part \in parts
                  PROVE  <<u, part>> \in objects
      OBVIOUS
    <3>1. AddingOne(<<u, part>>) \in ToSet(Baseline)
      BY DEF Adding
    <3>2. /\ AddingOne(<<u, part>>).kind = "add" /\ AddingOne(<<u, part>>).lookup = "now"
          /\ AddingOne(<<u, part>>).objects = {<<u, part>>}
      BY DEF AddingOne, Statement
    <3>3. <<u, part>> \in Baselined
      BY <3>1, <3>2 DEF Baselined
    <3>. QED
      BY <1>1, <3>3
  <2>3. \A r \in 2..16 : \A u, parts : Adding(u, parts) \subseteq ToSet(Revisions[r])
                                         => \A part \in parts : <<u, part>> \in objects
    <3>. SUFFICES ASSUME NEW r \in 2..16, NEW u, NEW parts,
                         Adding(u, parts) \subseteq ToSet(Revisions[r]), NEW part \in parts
                  PROVE  <<u, part>> \in objects
      OBVIOUS
    <3>1. AddingOne(<<u, part>>) \in ToSet(Revisions[r])
      BY DEF Adding
    <3>2. AddingOne(<<u, part>>).kind = "add" /\ AddingOne(<<u, part>>).objects = {<<u, part>>}
      BY DEF AddingOne, Statement
    <3>3. {<<u, part>>} \subseteq Adds(r)
      BY <3>1, <3>2, AddsContain
    <3>. QED
      BY <1>1, <3>3
  <2>4. /\ Adding("organizations", {"tenant_key"}) \subseteq ToSet(Baseline)
        /\ Adding("repositories", {"mirror_path", "last_mirrored_at"}) \subseteq ToSet(Baseline)
        /\ Adding("scan_jobs", {"target_ref", "scope_json"}) \subseteq ToSet(Baseline)
        /\ Adding("findings", {"triage_owner", "triage_notes", "remediation_due_date"})
             \subseteq ToSet(Baseline)
        /\ Adding("evidence", {"ref_name"}) \subseteq ToSet(Baseline)
        /\ Adding("relationships", {"metadata_json"}) \subseteq ToSet(Baseline)
        /\ Adding("tool_runs", {"artifact_type", "artifact_path"}) \subseteq ToSet(Baseline)
    BY BaselineStatements DEF BaselineColumns
  <2>5. /\ Adding("evidence", {"metadata_json", "observation_fingerprint",
                               "ix_observation_fingerprint"}) \subseteq ToSet(Revisions[6])
        /\ Adding("findings", LifecycleParts) \subseteq ToSet(Revisions[7])
        /\ Adding("scheduled_scans", {"queue_execution_key"}) \subseteq ToSet(Revisions[8])
    BY EvidenceRevision, LifecycleRevision, SecurityRevision
  <2>6. /\ \A part \in {"metadata_json", "observation_fingerprint", "ix_observation_fingerprint"} :
             <<"evidence", part>> \in objects
        /\ \A part \in LifecycleParts : <<"findings", part>> \in objects
        /\ \A part \in {"queue_execution_key"} : <<"scheduled_scans", part>> \in objects
    <3>1. 6 \in 2..16 /\ 7 \in 2..16 /\ 8 \in 2..16
      OBVIOUS
    <3>. QED
      BY <2>3, <2>5, <3>1
  <2>7. /\ \A part \in {"tenant_key"} : <<"organizations", part>> \in objects
        /\ \A part \in {"mirror_path", "last_mirrored_at"} : <<"repositories", part>> \in objects
        /\ \A part \in {"target_ref", "scope_json"} : <<"scan_jobs", part>> \in objects
        /\ \A part \in {"triage_owner", "triage_notes", "remediation_due_date"} :
             <<"findings", part>> \in objects
        /\ \A part \in {"ref_name"} : <<"evidence", part>> \in objects
        /\ \A part \in {"metadata_json"} : <<"relationships", part>> \in objects
        /\ \A part \in {"artifact_type", "artifact_path"} : <<"tool_runs", part>> \in objects
    BY <2>2, <2>4
  <2>8. ASSUME t \in DOMAIN ColumnsAdded, NEW part \in ColumnsAdded[t] PROVE <<t, part>> \in objects
    <3>1. t \in {"organizations", "repositories", "scan_jobs", "findings", "evidence",
                 "relationships", "tool_runs", "scheduled_scans"}
      BY <1>3, <2>8, PartsAdded, EarlyAndLate
    <3>2. /\ ColumnsAdded["organizations"] = {"tenant_key"}
          /\ ColumnsAdded["repositories"] = {"mirror_path", "last_mirrored_at"}
          /\ ColumnsAdded["scan_jobs"] = {"target_ref", "scope_json"}
          /\ ColumnsAdded["findings"] \subseteq
               {"triage_owner", "triage_notes", "remediation_due_date"} \union LifecycleParts
          /\ ColumnsAdded["evidence"] = {"ref_name", "metadata_json", "observation_fingerprint"}
          /\ ColumnsAdded["relationships"] = {"metadata_json"}
          /\ ColumnsAdded["tool_runs"] = {"artifact_type", "artifact_path"}
          /\ ColumnsAdded["scheduled_scans"] = {"queue_execution_key"}
      BY DEF ColumnsAdded, LifecycleParts
    <3>. QED
      BY <2>6, <2>7, <3>1, <3>2
  <2>9. ASSUME t \in DOMAIN IndexesAdded, NEW part \in IndexesAdded[t] PROVE <<t, part>> \in objects
    <3>1. t \in {"findings", "evidence"}
      BY <1>3, <2>9, PartsAdded, EarlyAndLate
    <3>2. /\ IndexesAdded["findings"] \subseteq LifecycleParts
          /\ IndexesAdded["evidence"] = {"ix_observation_fingerprint"}
      BY DEF IndexesAdded, LifecycleParts
    <3>. QED
      BY <2>6, <3>1, <3>2
  <2>10. Columns(t) \subseteq objects
    BY <2>1, <2>8, TableParts DEF Parts
  <2>11. IndexesOf(t) \subseteq objects
    BY <2>1, <2>9, TableParts DEF Parts
  <2>. QED
    BY <2>10, <2>11
<1>. QED
  BY <1>2, <1>3

\* A new table is made with its indexes, if it has any.
LEMMA NewTablesAreWhole ==
  ASSUME NEW objects, Applied(16, objects), NEW r \in {12, 14, 15}, NEW t \in NewTables(r)
  PROVE  Columns(t) \union IndexesOf(t) \subseteq objects
<1>1. Adds(r) \subseteq objects
  BY DEF Applied
<1>2. Creating(t) \subseteq ToSet(Revisions[r])
  BY SecretRevision, ControlPlaneRevision, AssetRevision
<1>3. /\ MakesTable(t) \in ToSet(Revisions[r]) /\ MakesItsIndexes(t) \in ToSet(Revisions[r])
      /\ MakesTable(t).kind = "add" /\ MakesTable(t).objects = {Table(t)}
      /\ MakesItsIndexes(t).kind = "add" /\ MakesItsIndexes(t).objects = {Indexes(t)}
  BY <1>2 DEF Creating, MakesTable, MakesItsIndexes, Statement
<1>4. Table(t) \in objects /\ Indexes(t) \in objects
  BY <1>1, <1>3, AddsContain
<1>5. t \notin DOMAIN ColumnsAdded /\ t \notin DOMAIN IndexesAdded
  BY Groups, PartsAdded, EarlyAndLate
<1>. QED
  BY <1>4, <1>5, TableParts

\* After the last revision the database has what the models declare.
LEMMA NewestIsHead == ASSUME NEW objects, Applied(16, objects) PROVE objects = HeadSchema
<1>1. objects \subseteq HeadSchema /\ Adds(14) \subseteq objects /\ Adds(16) \subseteq objects
  BY DEF Applied
<1>2. \A i \in 1..10 : DomainStatements[i] \in ToSet(Revisions[16])
  BY DomainElements
<1>3. ASSUME NEW x, Adds1(x) \in ToSet(Revisions[16]) PROVE x \subseteq objects
  <2>1. Adds1(x).kind = "add" /\ Adds1(x).objects = x
    BY DEF Adds1, Statement
  <2>2. x \subseteq Adds(16)
    BY <1>3, <2>1, AddsContain
  <2>. QED
    BY <1>1, <2>2
<1>4. /\ Adds1({Table("domain_identities")}) \in ToSet(Revisions[16])
      /\ Adds1(Parts("domains", {"identity_id"})) \in ToSet(Revisions[16])
      /\ Adds1(Parts("domains", {"tenant_key"})) \in ToSet(Revisions[16])
      /\ Adds1(Parts("domains", {"fk_identity", "uq_tenant_identity"})) \in ToSet(Revisions[16])
      /\ Adds1(Parts("domains", {"ix_tenant_key"})) \in ToSet(Revisions[16])
      /\ Adds1(Parts("domains", {"uq_legacy_identity"})) \in ToSet(Revisions[16])
  <2>1. /\ DomainStatements[2] = Adds1({Table("domain_identities")})
        /\ DomainStatements[3] = Adds1(Parts("domains", {"identity_id"}))
        /\ DomainStatements[4] = Adds1(Parts("domains", {"tenant_key"}))
        /\ DomainStatements[7] = Adds1(Parts("domains", {"fk_identity", "uq_tenant_identity"}))
        /\ DomainStatements[9] = Adds1(Parts("domains", {"ix_tenant_key"}))
        /\ DomainStatements[10] = Adds1(Parts("domains", {"uq_legacy_identity"}))
    BY DEF DomainStatements
  <2>2. /\ 2 \in 1..10 /\ 3 \in 1..10 /\ 4 \in 1..10 /\ 7 \in 1..10 /\ 9 \in 1..10 /\ 10 \in 1..10
    OBVIOUS
  <2>. QED
    BY <1>2, <2>1, <2>2
<1>5. Parts("domains", DomainParts) \subseteq objects
  <2>1. /\ Parts("domains", {"identity_id"}) \subseteq objects
        /\ Parts("domains", {"tenant_key"}) \subseteq objects
        /\ Parts("domains", {"fk_identity", "uq_tenant_identity"}) \subseteq objects
        /\ Parts("domains", {"ix_tenant_key"}) \subseteq objects
        /\ Parts("domains", {"uq_legacy_identity"}) \subseteq objects
    BY <1>3, <1>4
  <2>2. ASSUME NEW part \in DomainParts PROVE <<"domains", part>> \in objects
    BY <2>1 DEF DomainParts, Parts
  <2>. QED
    BY <2>2 DEF Parts
<1>6. ASSUME NEW t \in DOMAIN References
      PROVE  Columns(t) \union (IF t \in Unindexed THEN {} ELSE IndexesOf(t)) \subseteq objects
  <2>1. CASE t \in EarlyTables \union Late
    BY <2>1, OldTablesAreWhole
  <2>2. CASE t \in NewTables(12) \union NewTables(14) \union NewTables(15)
    BY <2>2, NewTablesAreWhole
  <2>3. CASE t \in Unindexed
    <3>1. t \in {"domain_identities", "local_ai_configurations"}
      BY <2>3 DEF Unindexed
    <3>2. Columns(t) = {Table(t)}
      BY <3>1, TableParts, PartsAdded
    <3>3. Table("domain_identities") \in objects
      BY <1>3, <1>4
    <3>4. Table("local_ai_configurations") \in objects
      <4>1. MakesTable("local_ai_configurations") \in ToSet(Revisions[14])
        BY ControlPlaneRevision
      <4>2. /\ MakesTable("local_ai_configurations").kind = "add"
            /\ MakesTable("local_ai_configurations").objects = {Table("local_ai_configurations")}
        BY DEF MakesTable, Statement
      <4>3. {Table("local_ai_configurations")} \subseteq Adds(14)
        BY <4>1, <4>2, AddsContain
      <4>. QED
        BY <1>1, <4>3
    <3>. QED
      BY <2>3, <3>1, <3>2, <3>3, <3>4
  <2>. QED
    BY <2>1, <2>2, <2>3, TableNames
<1>7. HeadSchema \subseteq objects
  BY <1>5, <1>6 DEF HeadSchema
<1>. QED
  BY <1>1, <1>7

\* A running service never meets a schema that lacks what the models declare
\* or has more (prepare_database), wherever the upgrade started from and
\* whatever cut it off, for any number of services and upgrades; on SQLite as
\* long as no upgrade was cut off amid a revision or met another one.
THEOREM ServedSchemasAreWhole == MigrationSpec => []ServedSchemaIsWhole
<1>1. ContentInv /\ ServicesMeetNoUpgrade => ServedSchemaIsWhole
  <2>. SUFFICES ASSUME ContentInv, ServicesMeetNoUpgrade, ~disturbed,
                       NEW s \in Services, processes[s].at = "serving"
                PROVE  database.objects = HeadSchema
    BY DEF ServedSchemaIsWhole
  <2>1. database.revision = 16 /\ Upgrading = {}
    BY RevisionNames DEF ServicesMeetNoUpgrade
  <2>2. Applied(16, database.objects)
    BY <2>1 DEF ContentInv
  <2>. QED
    BY <2>2, NewestIsHead
<1>. QED
  BY <1>1, ContentInvariance, ServicesMeetTheNewest, PTL
=============================================================================
