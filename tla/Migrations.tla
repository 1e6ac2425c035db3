----------------------------- MODULE Migrations -----------------------------
(***************************************************************************)
(* Migrating the database (adapters/outbound/database/migrations.py,       *)
(* migrations/env.py, the lifespan of main.py): every worker process       *)
(* inspects the database when it starts, stamps it when it looks like the  *)
(* pre-Alembic schema, upgrades it to the head and only then serves, while *)
(* others do the same and an operator may step a revision down.            *)
(*                                                                         *)
(* Inspection reads outside of any transaction.  A stamp and an upgrade    *)
(* are one transaction each (env.py has one begin_transaction around all   *)
(* revisions, PostgreSQL has transactional DDL): each reads the version    *)
(* table when it begins, waits for whoever holds the objects it is to      *)
(* create, and then goes through as a whole or fails as a whole.           *)
(***************************************************************************)
EXTENDS SchemaRevisions, SchemaMetadata

CONSTANTS
    Workers,         \* the processes that migrate when they start
    MaxCrashes,      \* how many of them may die
    MaxDowngrades    \* how often an operator runs make db-downgrade

ASSUME BoundsAssumption == MaxCrashes \in Nat /\ MaxDowngrades \in Nat

VARIABLES
    schema,      \* the tables, as a set of objects
    versions,    \* the rows of alembic_version, or NoTable
    kept,        \* where the values of each column of the baseline are now
    worker,      \* for each worker where it is, and the versions it read
    crashes, downgrades

database == <<schema, versions, kept>>
bounds == <<crashes, downgrades>>
vars == <<database, worker, bounds>>

NoTable == {0}

LegacyColumns ==
    UNION {{<<t, c>> : c \in LegacyBaselineColumns[t]} : t \in DOMAIN LegacyBaselineColumns}

PC == {"down", "columns", "stamp", "stamping", "upgrade", "upgrading", "migrated",
       "serving", "refused"}

Task == [pc : PC, saw : {NoTable} \cup SUBSET Revisions]

(* Where revision r keeps what the baseline has in a column. *)
ColumnAt(c, r) ==
    IF r >= 2 /\ c = <<"items", "status">> THEN <<"items", "analysis_status">> ELSE c

(* The columns where a value of the baseline can be, and nowhere. *)
BaselineColumns == {o \in Schema1 : Len(o) = 2}
Places == BaselineColumns \cup {<<"items", "analysis_status">>, Nowhere}

Empty == [c \in LegacyColumns |-> Nowhere]
Filled(r) == [c \in LegacyColumns |-> ColumnAt(c, r)]

(***************************************************************************)
(* The databases a worker may find: an empty one, one of the old           *)
(* create_all() startup hook (or of a still older one, with a column       *)
(* less), or one at a revision, with rows or without.                      *)
(***************************************************************************)
Older == Schema1 \ {<<"items", "confidence">>}

(* What the proofs use of the scripts, computed by TLC from the modules
   above: the newest schema is that of the mapped classes; an upgrade from
   the base or from the baseline goes through on the schema it was written
   for and on no other, and so does a downgrade to the base; and the older
   schema lacks the column.                                                *)
ASSUME UpgradesAssumption ==
    /\ Schema3 = Metadata /\ Schema3 # Failed
    /\ Schema2 \subseteq Metadata \cup Schema1
    /\ \A s \in {Schema0, Schema1, Schema2, Older} : ~ Metadata \subseteq s
    /\ \A r \in 0..2 : UpgradedFrom(SchemaAt(r), r) = Schema3
    /\ \A s \in {Schema1, Schema2, Schema3, Older} : UpgradedFrom(s, 0) = Failed
    /\ \A s \in {Schema0, Schema2, Schema3} : UpgradedFrom(s, 1) = Failed
    /\ \A o \in Older : ~ (Len(o) = 2 /\ o[1] = "items" /\ o[2] = "confidence")

ASSUME DowngradesAssumption ==
    /\ \A r \in Revisions : DowngradedFrom(SchemaAt(r), r) = SchemaAt(r - 1)
    /\ \A s \in {Schema0, Schema2, Schema3} : DowngradedFrom(s, 1) = Failed

(* And where the scripts take the values of the baseline. *)
ASSUME ValuesAssumption ==
    /\ LegacyColumns = BaselineColumns
    /\ \A p \in Places \ {Nowhere} :
          /\ \A script \in {Upgrade0002, Upgrade0003, Downgrade0003} :
                Carried(script, p) \in Places \ {Nowhere}
          /\ Carried(Downgrade0002, p) \in BaselineColumns
    /\ \A p \in BaselineColumns : Carried(Downgrade0001, p) = Nowhere
    /\ \A script \in {Upgrade0002, Upgrade0003, Downgrade0001, Downgrade0002, Downgrade0003} :
          Carried(script, Nowhere) = Nowhere

Init ==
    /\ \/ schema = Schema0 /\ versions = NoTable /\ kept = Empty
       \/ /\ schema \in {Schema1, Older} /\ versions = NoTable
          /\ kept \in {Empty, [c \in LegacyColumns |-> IF c \in schema THEN c ELSE Nowhere]}
       \/ \E r \in Revisions :
            schema = SchemaAt(r) /\ versions = {r} /\ kept \in {Empty, Filled(r)}
    /\ worker = [w \in Workers |-> [pc |-> "down", saw |-> {}]]
    /\ crashes = 0 /\ downgrades = 0

Goto(w, pc) == worker' = [worker EXCEPT ![w] = [pc |-> pc, saw |-> {}]]

ReadVersions(w, pc) == worker' = [worker EXCEPT ![w] = [pc |-> pc, saw |-> versions]]

(***************************************************************************)
(* _stamp_matching_legacy_baseline.                                        *)
(***************************************************************************)
Tables == {o[1] : o \in {p \in schema : Len(p) = 1}}
ColumnsOf(t) == {o[2] : o \in {p \in schema : Len(p) = 2 /\ p[1] = t}}

MatchesLegacyBaseline ==
    /\ Tables = DOMAIN LegacyBaselineColumns
    /\ \A t \in Tables : ColumnsOf(t) = LegacyBaselineColumns[t]

(* get_table_names: an empty or a tracked database, and one with other
   tables, is left to the upgrade.                                         *)
Inspect(w) ==
    /\ worker[w].pc = "down"
    /\ IF versions = NoTable /\ Tables = DOMAIN LegacyBaselineColumns
       THEN Goto(w, "columns") ELSE Goto(w, "upgrade")
    /\ UNCHANGED <<database, bounds>>

(* Mutant of InspectColumns: the two answers are swapped. *)
InspectColumnsSwapped(w) ==
    /\ worker[w].pc = "columns"
    /\ IF ~ DOMAIN LegacyBaselineColumns \subseteq Tables THEN Goto(w, "refused")
       ELSE IF \A t \in DOMAIN LegacyBaselineColumns :
                    ColumnsOf(t) = LegacyBaselineColumns[t]
            THEN Goto(w, "upgrade") ELSE Goto(w, "stamp")
    /\ UNCHANGED <<database, bounds>>

(* get_columns of the four tables; a table that has gone meanwhile raises. *)
InspectColumns(w) ==
    /\ worker[w].pc = "columns"
    /\ IF ~ DOMAIN LegacyBaselineColumns \subseteq Tables THEN Goto(w, "refused")
       ELSE IF \A t \in DOMAIN LegacyBaselineColumns :
                    ColumnsOf(t) = LegacyBaselineColumns[t]
            THEN Goto(w, "stamp") ELSE Goto(w, "upgrade")
    /\ UNCHANGED <<database, bounds>>

(* command.stamp begins: it reads the version table. *)
StampRead(w) ==
    /\ worker[w].pc = "stamp"
    /\ ReadVersions(w, "stamping")
    /\ UNCHANGED <<database, bounds>>

(* Mutant of StampWrite: it adds its row and leaves the one it read. *)
StampWriteAdds(w) ==
    /\ worker[w].pc = "stamping"
    /\ versions' = versions \cup {1}
    /\ Goto(w, "upgrade")
    /\ UNCHANGED <<schema, kept, bounds>>

(* A version table created since it read that there is none: whether CREATE
   TABLE collides with it or finds it there and goes on is a matter of when. *)
Collides(w) == worker[w].saw = NoTable /\ versions # NoTable

(* The stamp writes 0001: it finds the row it wants; or inserts it, beside any
   other in a table created since; or moves the row it read, wherever that
   was, which must still be there.                                          *)
StampWrite(w) ==
    LET saw == worker[w].saw
        writes == 1 \notin versions /\ (saw = NoTable \/ saw \subseteq versions)
    IN /\ worker[w].pc = "stamping"
       /\ \/ 1 \in saw /\ Goto(w, "upgrade") /\ UNCHANGED versions
          \/ /\ 1 \notin saw /\ writes
             /\ Goto(w, "upgrade") /\ versions' = (versions \ saw) \cup {1}
          \/ /\ 1 \notin saw /\ (~ writes \/ Collides(w))
             /\ Goto(w, "refused") /\ UNCHANGED versions
       /\ UNCHANGED <<schema, kept, bounds>>

(***************************************************************************)
(* command.upgrade to the head.                                            *)
(***************************************************************************)

(* It reads the version table: at the head there is nothing to do, and two
   versions that follow one another are an error.                          *)
UpgradeRead(w) ==
    /\ worker[w].pc = "upgrade"
    /\ CASE versions = {HeadRevision} -> Goto(w, "migrated")
         [] versions # NoTable /\ Cardinality(versions) > 1 -> Goto(w, "refused")
         [] OTHER -> ReadVersions(w, "upgrading")
    /\ UNCHANGED <<database, bounds>>

RevisionOf(saw) == IF saw \in {NoTable, {}} THEN 0 ELSE CHOOSE r \in Revisions : r \in saw

(* Where the upgrade leaves the values. *)
UpgradedValues(r) ==
    [c \in LegacyColumns |->
        CASE r < 2 -> Carried(Upgrade0003, Carried(Upgrade0002, kept[c]))
          [] r = 2 -> Carried(Upgrade0003, kept[c])]

(* Mutant of UpgradeWrite: what fails is taken for done. *)
UpgradeWriteIgnoresErrors(w) ==
    LET saw == worker[w].saw
        r == RevisionOf(saw)
    IN /\ worker[w].pc = "upgrading"
       /\ \E result \in {UpgradedFrom(schema, r)} :
            IF result # Failed
            THEN /\ schema' = result
                 /\ versions' = (versions \ saw) \cup {HeadRevision}
                 /\ kept' = UpgradedValues(r)
            ELSE UNCHANGED database
       /\ Goto(w, "migrated")
       /\ UNCHANGED bounds

(* Mutant of UpgradeWrite: every revision a transaction of its own, and a
   process that dies after the first.                                      *)
UpgradeWriteOneByOne(w) ==
    LET saw == worker[w].saw
        r == RevisionOf(saw)
    IN /\ worker[w].pc = "upgrading"
       /\ \E result \in {Execute(schema, UpgradeScript[r + 1])} :
            IF result # Failed /\ (IF r = 0 THEN versions = saw ELSE r \in versions)
            THEN /\ schema' = result
                 /\ versions' = (versions \ saw) \cup {r + 1}
                 /\ kept' = [c \in LegacyColumns |->
                                Carried(UpgradeScript[r + 1], kept[c])]
                 /\ Goto(w, "upgrade")
            ELSE /\ Goto(w, "refused")
                 /\ UNCHANGED database
       /\ UNCHANGED bounds

(* All revisions after the one it read, each statement of which must be
   executable, and the version row must still be the one it read; a table
   created since is as good as none if it is empty.                        *)
UpgradeWrite(w) ==
    LET saw == worker[w].saw
        r == RevisionOf(saw)
        unchanged == IF r = 0 THEN versions \in {saw, {}} ELSE r \in versions
    IN /\ worker[w].pc = "upgrading"
       /\ \E result \in {UpgradedFrom(schema, r)} :
            \/ /\ result # Failed /\ unchanged
               /\ schema' = result
               /\ versions' = (versions \ saw) \cup {HeadRevision}
               /\ kept' = UpgradedValues(r)
               /\ Goto(w, "migrated")
            \/ /\ result = Failed \/ ~ unchanged \/ Collides(w)
               /\ Goto(w, "refused")
               /\ UNCHANGED database
       /\ UNCHANGED bounds

(***************************************************************************)
(* The rest of a worker's life: the lifespan goes on to serve, requests    *)
(* store rows if the schema is what they expect, and the process ends.     *)
(***************************************************************************)
Serve(w) ==
    /\ worker[w].pc = "migrated"
    /\ Goto(w, "serving")
    /\ UNCHANGED <<database, bounds>>

Store(w) ==
    /\ worker[w].pc = "serving"
    /\ Metadata \subseteq schema
    /\ kept' = Filled(HeadRevision)
    /\ UNCHANGED <<schema, versions, worker, bounds>>

Stop(w) ==
    /\ worker[w].pc \in {"serving", "refused"}
    /\ Goto(w, "down")
    /\ UNCHANGED <<database, bounds>>

(* Whatever transaction is open is rolled back. *)
Crash(w) ==
    /\ worker[w].pc \notin {"down", "serving", "refused"}
    /\ crashes < MaxCrashes
    /\ crashes' = crashes + 1
    /\ Goto(w, "down")
    /\ UNCHANGED <<database, downgrades>>

(* make db-downgrade, alembic downgrade -1: one transaction too. *)
Downgrade ==
    /\ downgrades < MaxDowngrades
    /\ \E r \in Revisions :
        /\ versions = {r}
        /\ schema' \in {DowngradedFrom(schema, r)} \ {Failed}
        /\ versions' = {r - 1} \ {0}
        /\ kept' = [c \in LegacyColumns |-> Carried(DowngradeScript[r], kept[c])]
    /\ downgrades' = downgrades + 1
    /\ UNCHANGED <<worker, crashes>>

Migrate(w) ==
    \/ Inspect(w) \/ InspectColumns(w) \/ StampRead(w) \/ StampWrite(w)
    \/ UpgradeRead(w) \/ UpgradeWrite(w) \/ Serve(w)

Next ==
    \/ \E w \in Workers : Migrate(w) \/ Store(w) \/ Stop(w) \/ Crash(w)
    \/ Downgrade

Spec == Init /\ [][Next]_vars

(* A process that has been started goes on. *)
FairSpec == Spec /\ \A w \in Workers : WF_vars(Migrate(w))

-----------------------------------------------------------------------------
TypeOK ==
    /\ schema \in SUBSET (Metadata \cup Schema1)
    /\ versions \in {NoTable} \cup SUBSET Revisions
    /\ kept \in [LegacyColumns -> Places]
    /\ worker \in [Workers -> Task]
    /\ crashes \in 0..MaxCrashes /\ downgrades \in 0..MaxDowngrades

(* A database whose version is the head has exactly the tables, columns and
   foreign keys of the mapped classes, whoever stamped, upgraded, failed or
   downgraded it in whatever order: no worker can take it for ready while
   it is not.  (That the version is never lower than the schema does not
   hold, see OnlyLegacyIsStamped.)                                         *)
HeadIsMetadata == HeadRevision \in versions => schema = Metadata

(* As long as no operator downgrades, a worker that has come through its
   own upgrade, or found nothing to do, has the schema it is written for,
   and keeps it whatever workers that start later do to the database.      *)
ServedSchemaStands ==
    downgrades = 0 =>
        \A w \in Workers : worker[w].pc \in {"migrated", "serving"} => schema = Metadata

(* The migrations implement SchemaHistory: no failed or interrupted upgrade
   leaves a part of it behind, values survive every way up and down above
   the base, and a database at no revision is never touched.               *)
History == INSTANCE SchemaHistory
    WITH At <- <<Schema0, Schema1, Schema2, Schema3>>,
         Columns <- LegacyColumns,
         stored <- {c \in LegacyColumns : kept[c] # Nowhere}

ImplementsHistory == History!Spec

(* Workers that start together never all fail: on a database at one of the
   revisions, stamped or not, some worker comes to serve, unless a process
   dies or an operator downgrades.                                         *)
SomeWorkerServes ==
    schema \in {Schema0, Schema1, Schema2, Schema3} =>
        <>(\/ crashes > 0 \/ downgrades > 0
           \/ \E w \in Workers : worker[w].pc = "serving")

(* migrations/README.md: upgrade_database() "stamps 0001 automatically only
   when all four legacy tables match exactly".  Not so: they matched when
   they were inspected, and the stamp moves the version back from whatever
   another worker has upgraded the database to since.                      *)
OnlyLegacyIsStamped ==
    [][ \A w \in Workers :
          StampWrite(w) /\ versions' # versions => MatchesLegacyBaseline ]_vars
=============================================================================
