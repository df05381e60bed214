--------------------------- MODULE SchemaUpgrade ---------------------------
(***************************************************************************)
(* DatabaseManager::initialize and DatabaseSchema::initialize: a database  *)
(* of any version is taken to the current one, by migrations in one        *)
(* transaction, except that tables others refer to are rebuilt with the    *)
(* foreign keys off, which SQLite permits between transactions only. A     *)
(* statement or a commit may fail, and the program may end at any point;   *)
(* the next start goes on from what was committed.                         *)
(*                                                                         *)
(* Of the rows, those of build_allocation are followed, because version 23 *)
(* repairs them: the records that one Build has reserved, each with the    *)
(* requirement it is reserved for, or Nobody in rows older than version 22.*)
(***************************************************************************)
EXTENDS SchemaHistory, FiniteSets, FiniteSetsExt

CONSTANTS Requirements, Spares,    \* rows of build_requirement; is_spare
          Records,                 \* rows of inventory_record
          NeedOf,                  \* effective part and color of a requirement
          PartOf,                  \* part and color of a record
          Nobody

ASSUME UpgradeAssumption ==
  /\ IsFiniteSet(Requirements) /\ Spares \subseteq Requirements /\ Nobody \notin Requirements

VARIABLES database, \* what is committed
          work,     \* what the connection sees
          inTx,     \* a transaction is open
          fk,       \* PRAGMA foreign_keys
          pc        \* "down", "upgrading", "ready" or "refused"

upgradeVars == <<database, work, inTx, fk, pc>>

Rows == [of : Requirements \cup {Nobody}, record : Records]

Matching(r) == {q \in Requirements \ Spares : NeedOf[q] = PartOf[r.record]}

(* Mutant: superseded rows are not removed.                                *)
NoneSuperseded(rows) == {}
(* Old rows whose only match has a newer row for the same record.          *)
Superseded(rows) ==
  {r \in rows : r.of = Nobody /\ \E q \in Requirements : Matching(r) = {q} /\ [r EXCEPT !.of = q] \in rows}

(* An old row with exactly one match is given to it, others are kept.      *)
Linked(r) ==
  IF r.of = Nobody /\ Cardinality(Matching(r)) = 1 THEN [r EXCEPT !.of = CHOOSE q \in Matching(r) : TRUE] ELSE r

(* Version 22 starts with rows of Nobody, version 23 repairs them.         *)
MigratedRows(v, rows) ==
  CASE v = 21 -> {[r EXCEPT !.of = Nobody] : r \in rows}
    [] v = 22 -> {Linked(r) : r \in rows \ Superseded(rows)}
    [] OTHER -> rows

(* UNIQUE(build_requirement_id, inventory_record_id)                       *)
NoTwoLinked(v, rows) ==
  v = 22 => Cardinality(MigratedRows(v, rows)) = Cardinality(rows \ Superseded(rows))

Statements(d) ==
  IF d.version = 10 /\ BuildAccepts(d.shape, "Cancelled") THEN <<>> ELSE Migration[d.version]

(* Mutant: the version is not advanced.                                    *)
MigratedInPlace(d) ==
  [version |-> d.version,
   shape   |-> Runs(d.shape, FALSE, Statements(d)).shape,
   rows    |-> MigratedRows(d.version, d.rows)]
(* One migration, and the version it sets.                                 *)
Migrated(d) ==
  [version |-> d.version + 1,
   shape   |-> Runs(d.shape, FALSE, Statements(d)).shape,
   rows    |-> MigratedRows(d.version, d.rows)]

(* It is done in a transaction of its own, for the sake of foreign_keys.   *)
Apart(d) == d.version \in {15, 26} \/ (d.version = 10 /\ ~BuildAccepts(d.shape, "Cancelled"))

(* PRAGMA foreign_keys does nothing inside a transaction.                  *)
ForeignKeys(open, on) == IF open THEN fk ELSE on

CanMigrate(d, enforced) ==
  /\ Runs(d.shape, enforced, Statements(d)).ok
  /\ NoTwoLinked(d.version, d.rows)
-----------------------------------------------------------------------------
(* The connection is opened, foreign keys are enforced, and the version is *)
(* read, from a table that is made outside of the transaction.             *)
Initialize ==
  /\ pc \in {"down", "refused"}
  /\ database' = [database EXCEPT !.shape = @ \cup TableOf("schema_version")]
  /\ work' = database'
  /\ inTx' = FALSE /\ fk' = TRUE /\ pc' = "upgrading"

(* A rebuild, before the transaction or between two: it switches foreign   *)
(* keys off and on again, and commits the version together with the table. *)
RebuildApart ==
  /\ pc = "upgrading" /\ ~inTx /\ work.version \in {10, 15, 26}
  /\ CanMigrate(work, ForeignKeys(inTx, FALSE))
  /\ database' = Migrated(work) /\ work' = database'
  /\ UNCHANGED <<inTx, fk, pc>>

(* After the commit foreign_keys cannot be switched on, or the check of    *)
(* the references fails: the database is given up, the version stays.      *)
RebuildUnchecked ==
  /\ pc = "upgrading" /\ ~inTx /\ work.version \in {10, 15, 26}
  /\ Apart(work) /\ CanMigrate(work, ForeignKeys(inTx, FALSE))
  /\ database' = Migrated(work) /\ work' = database'
  /\ fk' \in BOOLEAN
  /\ pc' = "down"
  /\ UNCHANGED inTx

Begin ==
  /\ pc = "upgrading" /\ ~inTx /\ work.version \notin {10, 15, 26}
  /\ inTx' = TRUE
  /\ UNCHANGED <<database, work, fk, pc>>

Migrate ==
  /\ pc = "upgrading" /\ inTx
  /\ work.version < CurrentSchemaVersion /\ ~Apart(work)
  /\ CanMigrate(work, fk)
  /\ work' = Migrated(work)
  /\ UNCHANGED <<database, inTx, fk, pc>>

(* What precedes a rebuild is committed before it.                         *)
CommitBeforeRebuild ==
  /\ pc = "upgrading" /\ inTx /\ work.version \in {15, 26}
  /\ database' = work
  /\ inTx' = FALSE
  /\ UNCHANGED <<work, fk, pc>>

(* The storage location types are seeded at every start.                   *)
Finish ==
  /\ pc = "upgrading" /\ inTx /\ work.version = CurrentSchemaVersion
  /\ database' = [work EXCEPT !.shape = Runs(@, fk, seedStorageLocationTypes).shape]
  /\ work' = database'
  /\ inTx' = FALSE /\ pc' = "ready"
  /\ UNCHANGED fk

(* The database is refused, and the transaction rolled back: its version   *)
(* is not known, a statement cannot succeed, or a transaction would have   *)
(* to be begun inside another.                                             *)
Refused ==
  \/ inTx /\ work.version > CurrentSchemaVersion
  \/ work.version < CurrentSchemaVersion
       /\ IF inTx THEN work.version \notin {15, 26} /\ (Apart(work) \/ ~CanMigrate(work, fk))
          ELSE work.version \in {10, 15, 26} /\ ~CanMigrate(work, ForeignKeys(inTx, FALSE))

RollBack ==
  /\ work' = database /\ inTx' = FALSE
  /\ UNCHANGED <<database, fk>>

Refuse == pc = "upgrading" /\ Refused /\ RollBack /\ pc' = "refused"

(* A statement or a commit fails and the transaction is rolled back, or    *)
(* the program ends.                                                       *)
Interrupt == pc \in {"upgrading", "ready"} /\ RollBack /\ pc' = "down"
-----------------------------------------------------------------------------
(* What this code's migrations make of a new database, version by version. *)
ShapeOf[n \in 0..CurrentSchemaVersion] ==
  IF n = 0 THEN {}
  ELSE Migrated([version |-> n - 1, shape |-> ShapeOf[n - 1], rows |-> {}]).shape

(* Versions whose build table, as every release that stopped there made    *)
(* it, does not accept Cancelled.                                          *)
PlainBuilds == 6..10

(* What earlier releases did not put into a database of version n.         *)
Older(n) ==
  UNION {IF n \in PlainBuilds THEN {<<"build", "accepts", "Cancelled">>} ELSE {},
         IF n \in 15..28 THEN {<<"manufacturer", "column", "origin">>} ELSE {},
         IF n \in 2..34 THEN {<<"storage_location_type", "row", "Box">>} ELSE {},
         IF n \in 2..20 THEN {<<"storage_location_type", "row", "Bag">>} ELSE {}}

(* Rows a database of version n may hold.                                  *)
RowsAt(n) ==
  {rows \in SUBSET Rows :
     /\ n < 6 => rows = {}
     /\ n < 22 => \A r \in rows : r.of = Nobody
     /\ n > 22 => \A r \in rows : r.of = Nobody => Cardinality(Matching(r)) # 1
     /\ \A r \in rows : r.of = Nobody \/ r.of \in Matching(r)}

UpgradeInit ==
  /\ \E n \in 0..(CurrentSchemaVersion + 1) :
       \E old \in IF n \in PlainBuilds THEN {Older(n)} ELSE {{}, Older(n)}, rows \in RowsAt(n) :
         database = [version |-> n,
                 shape |-> IF n > CurrentSchemaVersion THEN {} ELSE ShapeOf[n] \ old,
                 rows |-> rows]
  /\ work = database /\ inTx = FALSE /\ fk = FALSE /\ pc = "down"

UpgradeNext ==
  \/ Initialize \/ RebuildApart \/ RebuildUnchecked \/ Begin \/ Migrate
  \/ CommitBeforeRebuild \/ Finish \/ Refuse \/ Interrupt

UpgradeSpec == UpgradeInit /\ [][UpgradeNext]_upgradeVars

(* The program is started again, and goes on.                              *)
Fairness ==
  /\ WF_upgradeVars(Initialize) /\ WF_upgradeVars(Begin) /\ WF_upgradeVars(RebuildApart) /\ WF_upgradeVars(Migrate)
  /\ WF_upgradeVars(CommitBeforeRebuild) /\ WF_upgradeVars(Finish) /\ WF_upgradeVars(Refuse)

FairSpec == UpgradeSpec /\ Fairness
-----------------------------------------------------------------------------
(* What a database keeps through every upgrade.                            *)
Lasting(d) == {x \in d.shape : x[2] \in {"table", "column", "row", "accepts"}}

(* Whatever was interrupted, a database has the shape its version names,   *)
(* except for what earlier releases left out, so that the next start finds *)
(* what its migrations expect.                                             *)
VersionNamesTheShape ==
  database.version \in 0..CurrentSchemaVersion =>
    LET full == ShapeOf[database.version] \cup TableOf("schema_version")
    IN  /\ database.shape \subseteq full
        /\ full \ database.shape \subseteq Older(database.version) \cup TableOf("schema_version")

(* A program that runs has the current schema, the same from whatever      *)
(* version and release the database came and however often its upgrade was *)
(* interrupted, enforces foreign keys, and has no reservation left without *)
(* its requirement that could have been given to exactly one.              *)
ReadyIsCurrent ==
  pc = "ready" =>
    /\ fk /\ ~inTx /\ work = database
    /\ database.version = CurrentSchemaVersion
    /\ database.shape = ShapeOf[CurrentSchemaVersion] \cup TableOf("schema_version")
    /\ \A r \in database.rows : r.of = Nobody => Cardinality(Matching(r)) # 1

(* "preserving existing identities and history": no commit loses a table,  *)
(* a column, a seeded row or an accepted value; every reserved record      *)
(* stays reserved, for the requirement it was reserved for if one is       *)
(* named, and otherwise for Nobody or the only one it matches; a database  *)
(* of a newer version keeps its version.                                   *)
NothingLost ==
  [][/\ Lasting(database) \subseteq Lasting(database')
     /\ database.version <= database'.version
     /\ database.version > CurrentSchemaVersion => database'.version = database.version /\ database'.rows = database.rows
     /\ \A r \in database.rows :
          IF r.of # Nobody THEN r \in database'.rows
          ELSE \E s \in database'.rows : s.record = r.record /\ (s = r \/ Matching(r) = {s.of})
     /\ \A s \in database'.rows : \E r \in database.rows : s.record = r.record]_database

(* "Existing Version 10 databases are handled before the normal migration  *)
(* transaction": only a database of a newer version is refused for what it *)
(* is, rather than for an error that a repetition may not meet.            *)
OnlyNewerRefused == pc = "refused" => database.version > CurrentSchemaVersion

(* Older databases than version 10 that have Builds cannot be upgraded:    *)
(* they come to version 10 inside the transaction, where the rebuild of    *)
(* their build table cannot begin its own (OnlyNewerRefused).              *)
RefusedForEver(d) == d.version \in 6..9 /\ ~BuildAccepts(d.shape, "Cancelled")

(* "sequential, transactional migrations": once nothing interrupts it any  *)
(* more, the upgrade of a database completes, whatever its version and the *)
(* releases that made it, unless the code refuses it for ever.             *)
UpgradeCompletes ==
  \/ database.version > CurrentSchemaVersion \/ RefusedForEver(database)
  \/ []<><<Interrupt \/ RebuildUnchecked>>_upgradeVars
  \/ <>(pc = "ready")
=============================================================================
