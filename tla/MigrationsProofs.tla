-------------------------- MODULE MigrationsProofs --------------------------
(***************************************************************************)
(* Proofs about Migrations, for any number of workers, crashes and         *)
(* downgrades.  What the scripts do to the five schemas is taken from the  *)
(* named assumptions of Migrations, which TLC computes; what is proved is  *)
(* that no order of inspections, stamps, upgrades, failures and            *)
(* downgrades brings a version and a schema together that do not fit.      *)
(***************************************************************************)
EXTENDS Migrations, FiniteSetTheorems, TLAPS

(* Which schema a version can stand for.  Version 1 can stand for any but
   an older one: a late stamp moves the version back.                      *)
VersionFits ==
    /\ versions = NoTable => schema \in {Schema0, Schema1, Older}
    /\ versions = {} => schema = Schema0
    /\ 1 \in versions => schema \in {Schema0, Schema1, Schema2, Schema3}
    /\ 2 \in versions => schema = Schema2
    /\ 3 \in versions => schema = Schema3

(* A worker about to stamp an untracked database has the baseline before
   it, and nothing that read a version table sees the database without.    *)
StampFits ==
    \A w \in Workers :
        /\ worker[w].pc \in {"stamp", "stamping"} /\ versions = NoTable => schema = Schema1
        /\ worker[w].pc \in {"stamping", "upgrading"} /\ worker[w].saw # NoTable =>
               versions # NoTable
        /\ worker[w].pc = "upgrading" => worker[w].saw \in {NoTable, {}, {1}, {2}}

(* At the baseline no value is in a column that only later revisions have. *)
ValuesFit == schema = Schema1 => \A c \in LegacyColumns : kept[c] \in BaselineColumns \cup {Nowhere}

NewestServed ==
    downgrades = 0 =>
        \A w \in Workers : worker[w].pc \in {"migrated", "serving"} => schema = Schema3

IInv ==
    /\ TypeOK
    /\ schema \in {Schema0, Schema1, Schema2, Schema3, Older}
    /\ VersionFits
    /\ StampFits
    /\ ValuesFit
    /\ NewestServed

-----------------------------------------------------------------------------
(* The facts about the concrete schemas that the steps use. *)

LEMMA SchemaAtFacts ==
    /\ SchemaAt(0) = Schema0 /\ SchemaAt(1) = Schema1
    /\ SchemaAt(2) = Schema2 /\ SchemaAt(3) = Schema3
BY DEF SchemaAt

(* The scripts of an upgrade, from each version a worker can have read. *)
LEMMA UpgradeFacts ==
    ASSUME NEW s \in {Schema0, Schema1, Schema2, Schema3, Older}
    PROVE  /\ UpgradedFrom(s, 0) \in {Failed, Schema3}
           /\ UpgradedFrom(s, 0) # Failed => s = Schema0
           /\ s \in {Schema0, Schema1, Schema2, Schema3} =>
                 /\ UpgradedFrom(s, 1) \in {Failed, Schema3}
                 /\ UpgradedFrom(s, 1) # Failed => s = Schema1
           /\ UpgradedFrom(Schema2, 2) = Schema3
<1>1. /\ UpgradedFrom(Schema0, 0) = Schema3 /\ UpgradedFrom(Schema1, 1) = Schema3
      /\ UpgradedFrom(Schema2, 2) = Schema3
  BY UpgradesAssumption, SchemaAtFacts
<1>2. \A t \in {Schema1, Schema2, Schema3, Older} : UpgradedFrom(t, 0) = Failed
  BY UpgradesAssumption
<1>3. \A t \in {Schema0, Schema2, Schema3} : UpgradedFrom(t, 1) = Failed
  BY UpgradesAssumption
<1> QED BY <1>1, <1>2, <1>3, Zenon

LEMMA DowngradeFacts ==
    /\ DowngradedFrom(Schema3, 3) = Schema2
    /\ DowngradedFrom(Schema2, 2) = Schema1
    /\ DowngradedFrom(Schema1, 1) = Schema0
    /\ \A s \in {Schema0, Schema2, Schema3} : DowngradedFrom(s, 1) = Failed
<1>1. \A r \in 1..3 : DowngradedFrom(SchemaAt(r), r) = SchemaAt(r - 1)
  BY DowngradesAssumption DEF Revisions
<1>2. /\ DowngradedFrom(SchemaAt(3), 3) = SchemaAt(2)
      /\ DowngradedFrom(SchemaAt(2), 2) = SchemaAt(1)
      /\ DowngradedFrom(SchemaAt(1), 1) = SchemaAt(0)
  BY <1>1
<1> QED BY <1>2, SchemaAtFacts, DowngradesAssumption

(* The schemas are different where the steps tell them apart. *)
LEMMA DifferentSchemas ==
    /\ Schema3 = Metadata
    /\ Schema3 \notin {Schema0, Schema1, Schema2, Older}
    /\ Schema1 # Schema2
<1>1. Schema1 # Schema2
  <2>1. UpgradedFrom(Schema1, 1) = Schema3
    BY UpgradesAssumption, SchemaAtFacts
  <2>2. UpgradedFrom(Schema2, 1) = Failed /\ Schema3 # Failed
    BY UpgradesAssumption
  <2> QED BY <2>1, <2>2
<1>2. /\ Schema3 = Metadata
      /\ \A s \in {Schema0, Schema1, Schema2, Older} : ~ Metadata \subseteq s
  BY UpgradesAssumption
<1>3. Metadata \subseteq Metadata
  OBVIOUS
<1> QED BY <1>1, <1>2, <1>3, Zenon

(* Only the baseline itself looks like it, of what is found untracked. *)
LEMMA BaselineAlone ==
    ASSUME schema \in {Schema0, Schema1, Older},
           \A t \in DOMAIN LegacyBaselineColumns : ColumnsOf(t) = LegacyBaselineColumns[t]
    PROVE  schema = Schema1
<1>1. "items" \in DOMAIN LegacyBaselineColumns
  BY DEF LegacyBaselineColumns
<1>2. "confidence" \in LegacyBaselineColumns["items"]
  BY DEF LegacyBaselineColumns
<1>3. "confidence" \in ColumnsOf("items")
  BY <1>1, <1>2
<1>4. PICK o \in schema : Len(o) = 2 /\ o[1] = "items" /\ o[2] = "confidence"
  BY <1>3 DEF ColumnsOf
<1>5. o \notin Older
  BY <1>4, UpgradesAssumption
<1>6. o \notin Schema0
  BY DEF Schema0
<1> QED BY <1>4, <1>5, <1>6

(* A schema that has what the server needs is the newest one. *)
LEMMA NewestAlone ==
    ASSUME NEW s \in {Schema0, Schema1, Schema2, Schema3, Older}, Metadata \subseteq s
    PROVE  s = Schema3
BY UpgradesAssumption

(* All the schemas are made of objects that the type invariant knows. *)
LEMMA SchemasInMetadata ==
    \A s \in {Schema0, Schema1, Schema2, Schema3, Older} : s \subseteq Metadata \cup Schema1
BY UpgradesAssumption DEF Schema0, Older

(* At most one version that is not the head. *)
LEMMA FewVersions ==
    ASSUME NEW V \in SUBSET (1..3), ~ Cardinality(V) > 1, V # {3}
    PROVE  V \in {{}, {1}, {2}}
<1>1. IsFiniteSet(V)
  <2>1. IsFiniteSet(1..3)
    <3>1. 1 \in Int /\ 3 \in Int
      OBVIOUS
    <3> QED BY <3>1, FS_Interval
  <2> QED BY <2>1, FS_Subset
<1>2. ASSUME NEW a \in V, NEW b \in V, a # b PROVE FALSE
  <2>1. Cardinality({a, b}) = 2
    <3>1. IsFiniteSet({a}) /\ Cardinality({a}) = 1
      BY FS_Singleton
    <3>2. Cardinality({a} \cup {b}) = Cardinality({a}) + 1
      BY <3>1, FS_AddElement, <1>2
    <3> QED BY <3>1, <3>2
  <2>2. Cardinality({a, b}) <= Cardinality(V)
    BY <1>1, FS_Subset
  <2>3. Cardinality(V) \in Nat
    BY <1>1, FS_CardinalityType
  <2> QED BY <2>1, <2>2, <2>3
<1>3. V = {} \/ \E r \in 1..3 : V = {r}
  BY <1>2
<1> QED BY <1>3

(* What the upgrade does to the place of a value. *)
LEMMA UpgradedPlaces ==
    ASSUME NEW r \in 0..2, TypeOK, NEW c \in LegacyColumns
    PROVE  /\ UpgradedValues(r)[c] \in Places
           /\ UpgradedValues(r)[c] = Nowhere <=> kept[c] = Nowhere
<1> DEFINE two == Carried(Upgrade0002, kept[c])
<1>1. kept[c] \in Places
  BY DEF TypeOK
<1>2. /\ two \in Places
      /\ two = Nowhere <=> kept[c] = Nowhere
  BY <1>1, ValuesAssumption DEF Places
<1>3. /\ Carried(Upgrade0003, two) \in Places
      /\ Carried(Upgrade0003, two) = Nowhere <=> two = Nowhere
  BY <1>2, ValuesAssumption DEF Places
<1>4. /\ Carried(Upgrade0003, kept[c]) \in Places
      /\ Carried(Upgrade0003, kept[c]) = Nowhere <=> kept[c] = Nowhere
  BY <1>1, ValuesAssumption DEF Places
<1>5. CASE r < 2
  <2>1. UpgradedValues(r)[c] = Carried(Upgrade0003, two)
    BY <1>5 DEF UpgradedValues
  <2> QED BY <2>1, <1>2, <1>3
<1>6. CASE r = 2
  <2>1. UpgradedValues(r)[c] = Carried(Upgrade0003, kept[c])
    BY <1>6 DEF UpgradedValues
  <2> QED BY <2>1, <1>4
<1> QED BY <1>5, <1>6

LEMMA UpgradedType ==
    ASSUME NEW r \in 0..2, TypeOK
    PROVE  UpgradedValues(r) \in [LegacyColumns -> Places]
<1> DEFINE place(c) == CASE r < 2 -> Carried(Upgrade0003, Carried(Upgrade0002, kept[c]))
                         [] r = 2 -> Carried(Upgrade0003, kept[c])
<1>1. UpgradedValues(r) = [c \in LegacyColumns |-> place(c)]
  BY DEF UpgradedValues
<1>2. \A c \in LegacyColumns : place(c) \in Places
  <2> SUFFICES ASSUME NEW c \in LegacyColumns PROVE place(c) \in Places
    OBVIOUS
  <2>1. UpgradedValues(r)[c] = place(c)
    BY <1>1
  <2> HIDE DEF place
  <2> QED BY <2>1, UpgradedPlaces
<1> HIDE DEF place
<1> QED BY <1>1, <1>2

-----------------------------------------------------------------------------
(* What a worker that only moves on leaves intact. *)

LEMMA VersionsAreSets ==
    ASSUME TypeOK
    PROVE  /\ versions # NoTable => versions \subseteq 1..3
           /\ NoTable # {} /\ 1 \notin NoTable /\ 2 \notin NoTable /\ 3 \notin NoTable
           /\ \A r \in 1..3 : NoTable # {r}
BY DEF TypeOK, NoTable, Revisions

LEMMA TaskType ==
    ASSUME TypeOK, NEW w \in Workers
    PROVE  worker[w] \in Task /\ worker[w].saw \in {NoTable} \cup SUBSET Revisions
BY DEF TypeOK, Task

(* A step of one worker that changes neither the schema, nor the versions,
   nor the values preserves all but what is said of the worker itself.     *)
LEMMA MoveOn ==
    ASSUME IInv, NEW w \in Workers, NEW task \in Task,
           worker' = [worker EXCEPT ![w] = task],
           UNCHANGED database,
           crashes' \in 0..MaxCrashes, UNCHANGED downgrades,
           task.pc \in {"stamp", "stamping"} /\ versions = NoTable => schema = Schema1,
           task.pc \in {"stamping", "upgrading"} /\ task.saw # NoTable => versions # NoTable,
           task.pc = "upgrading" => task.saw \in {NoTable, {}, {1}, {2}},
           task.pc \in {"migrated", "serving"} /\ downgrades = 0 => schema = Schema3
    PROVE  IInv'
<1>1. \A v \in Workers : worker'[v] = IF v = w THEN task ELSE worker[v]
  BY DEF IInv, TypeOK
<1>2. TypeOK'
  BY DEF IInv, TypeOK, database
<1>3. VersionFits' /\ ValuesFit'
  BY DEF IInv, VersionFits, ValuesFit, database
<1>4. StampFits'
  <2> SUFFICES ASSUME NEW v \in Workers
               PROVE /\ worker'[v].pc \in {"stamp", "stamping"} /\ versions' = NoTable =>
                            schema' = Schema1
                     /\ worker'[v].pc \in {"stamping", "upgrading"}
                            /\ worker'[v].saw # NoTable => versions' # NoTable
                     /\ worker'[v].pc = "upgrading" =>
                            worker'[v].saw \in {NoTable, {}, {1}, {2}}
    BY DEF StampFits
  <2>1. CASE v = w
    BY <2>1, <1>1 DEF database
  <2>2. CASE v # w
    BY <2>2, <1>1 DEF IInv, StampFits, database
  <2> QED BY <2>1, <2>2
<1>5. NewestServed'
  BY <1>1 DEF IInv, NewestServed, database
<1> QED BY <1>2, <1>3, <1>4, <1>5 DEF IInv, database

-----------------------------------------------------------------------------
LEMMA InitIInv == Init => IInv
<1> SUFFICES ASSUME Init PROVE IInv
  OBVIOUS
<1> USE SchemaAtFacts
<1>1. worker = [w \in Workers |-> [pc |-> "down", saw |-> {}]]
      /\ crashes = 0 /\ downgrades = 0
  BY DEF Init
<1>2. /\ worker \in [Workers -> Task]
      /\ crashes \in 0..MaxCrashes /\ downgrades \in 0..MaxDowngrades
  BY <1>1, BoundsAssumption DEF Task, PC
<1>3. \A c \in LegacyColumns : c \in BaselineColumns
  BY ValuesAssumption
<1>4. Empty \in [LegacyColumns -> Places] /\ \A c \in LegacyColumns : Empty[c] = Nowhere
  BY DEF Empty, Places
<1>5. ASSUME NEW r \in Revisions
      PROVE  /\ Filled(r) \in [LegacyColumns -> Places]
             /\ r = 1 => \A c \in LegacyColumns : Filled(r)[c] \in BaselineColumns
  BY <1>3 DEF Filled, ColumnAt, Places, Revisions
<1>6. NewestServed /\ StampFits
  BY <1>1 DEF NewestServed, StampFits
<1>7. CASE schema = Schema0 /\ versions = NoTable /\ kept = Empty
  <2>1. TypeOK
    BY <1>2, <1>4, <1>7 DEF TypeOK, Schema0
  <2>2. VersionFits /\ ValuesFit
    BY <1>7, <1>4 DEF VersionFits, ValuesFit, NoTable
  <2> QED BY <2>1, <2>2, <1>6, <1>7 DEF IInv
<1>8. CASE /\ schema \in {Schema1, Older} /\ versions = NoTable
           /\ kept \in {Empty, [c \in LegacyColumns |-> IF c \in schema THEN c ELSE Nowhere]}
  <2>1. kept \in [LegacyColumns -> Places]
        /\ \A c \in LegacyColumns : kept[c] \in BaselineColumns \cup {Nowhere}
    BY <1>8, <1>3, <1>4 DEF Places
  <2>2. TypeOK
    BY <1>2, <2>1, <1>8 DEF TypeOK, Older
  <2>3. VersionFits /\ ValuesFit
    BY <1>8, <2>1 DEF VersionFits, ValuesFit, NoTable
  <2> QED BY <2>2, <2>3, <1>6, <1>8 DEF IInv
<1>9. ASSUME NEW r \in Revisions,
             schema = SchemaAt(r), versions = {r}, kept \in {Empty, Filled(r)}
      PROVE  IInv
  <2>1. r \in 1..3
    BY DEF Revisions
  <2>2. schema \in {Schema1, Schema2, Schema3}
    BY <1>9, <2>1
  <2>3. schema \in SUBSET (Metadata \cup Schema1)
    BY <2>2, SchemasInMetadata
  <2>4. TypeOK
    BY <1>2, <1>4, <1>5, <1>9, <2>3 DEF TypeOK
  <2>5. VersionFits
    BY <1>9, <2>1 DEF VersionFits, NoTable
  <2>6. r # 1 => schema # Schema1
    BY <1>9, <2>1, DifferentSchemas
  <2>7. ValuesFit
    BY <2>6, <1>4, <1>5, <1>9 DEF ValuesFit
  <2> QED BY <2>2, <2>4, <2>5, <2>7, <1>6 DEF IInv
<1> QED BY <1>7, <1>8, <1>9 DEF Init

LEMMA InspectStep == ASSUME IInv, NEW w \in Workers, Inspect(w) PROVE IInv'
<1> PICK pc \in {"columns", "upgrade"} : worker' = [worker EXCEPT ![w] = [pc |-> pc, saw |-> {}]]
  BY DEF Inspect, Goto
<1>1. [pc |-> pc, saw |-> {}] \in Task
  BY DEF Task, PC
<1> QED BY <1>1, MoveOn DEF Inspect, bounds, IInv, TypeOK

LEMMA InspectColumnsStep == ASSUME IInv, NEW w \in Workers, InspectColumns(w) PROVE IInv'
<1>1. UNCHANGED <<database, bounds>> /\ worker[w].pc = "columns"
  BY DEF InspectColumns
<1> PICK pc \in {"refused", "stamp", "upgrade"} :
        /\ worker' = [worker EXCEPT ![w] = [pc |-> pc, saw |-> {}]]
        /\ pc = "stamp" =>
              /\ DOMAIN LegacyBaselineColumns \subseteq Tables
              /\ \A t \in DOMAIN LegacyBaselineColumns : ColumnsOf(t) = LegacyBaselineColumns[t]
  BY DEF InspectColumns, Goto
<1>2. [pc |-> pc, saw |-> {}] \in Task
  BY DEF Task, PC
<1>3. pc = "stamp" /\ versions = NoTable => schema = Schema1
  <2>1. versions = NoTable => schema \in {Schema0, Schema1, Older}
    BY DEF IInv, VersionFits
  <2> QED BY <2>1, BaselineAlone
<1> QED BY <1>1, <1>2, <1>3, MoveOn DEF bounds, IInv, TypeOK

LEMMA StampReadStep == ASSUME IInv, NEW w \in Workers, StampRead(w) PROVE IInv'
<1>1. UNCHANGED <<database, bounds>> /\ worker[w].pc = "stamp"
  BY DEF StampRead
<1>2. worker' = [worker EXCEPT ![w] = [pc |-> "stamping", saw |-> versions]]
  BY DEF StampRead, ReadVersions
<1>3. [pc |-> "stamping", saw |-> versions] \in Task
  BY DEF IInv, TypeOK, Task, PC
<1>4. versions = NoTable => schema = Schema1
  BY <1>1 DEF IInv, StampFits
<1> QED BY <1>1, <1>2, <1>3, <1>4, MoveOn DEF bounds, IInv, TypeOK

LEMMA UpgradeReadStep == ASSUME IInv, NEW w \in Workers, UpgradeRead(w) PROVE IInv'
<1>1. UNCHANGED <<database, bounds>> /\ worker[w].pc = "upgrade"
  BY DEF UpgradeRead
<1>2. CASE versions = {HeadRevision} /\ Goto(w, "migrated")
  <2>1. schema = Schema3
    BY <1>2 DEF IInv, VersionFits, HeadRevision
  <2>2. [pc |-> "migrated", saw |-> {}] \in Task
    BY DEF Task, PC
  <2> QED BY <1>1, <1>2, <2>1, <2>2, MoveOn DEF Goto, bounds, IInv, TypeOK
<1>3. CASE Goto(w, "refused")
  <2>1. [pc |-> "refused", saw |-> {}] \in Task
    BY DEF Task, PC
  <2> QED BY <1>1, <1>3, <2>1, MoveOn DEF Goto, bounds, IInv, TypeOK
<1>4. CASE /\ ReadVersions(w, "upgrading") /\ versions # {HeadRevision}
           /\ ~ (versions # NoTable /\ Cardinality(versions) > 1)
  <2>1. [pc |-> "upgrading", saw |-> versions] \in Task
    BY DEF IInv, TypeOK, Task, PC
  <2>2. versions \in {NoTable, {}, {1}, {2}}
    BY <1>4, FewVersions DEF IInv, TypeOK, HeadRevision, Revisions
  <2> QED BY <1>1, <1>4, <2>1, <2>2, MoveOn DEF ReadVersions, bounds, IInv, TypeOK
<1> QED BY <1>2, <1>3, <1>4 DEF UpgradeRead

LEMMA StampWriteStep == ASSUME IInv, NEW w \in Workers, StampWrite(w) PROVE IInv'
<1> USE VersionsAreSets DEF IInv
<1>1. UNCHANGED <<schema, kept, bounds>> /\ worker[w].pc = "stamping"
  BY DEF StampWrite
<1>2. CASE UNCHANGED versions /\ (Goto(w, "upgrade") \/ Goto(w, "refused"))
  <2>1. /\ [pc |-> "upgrade", saw |-> {}] \in Task
        /\ [pc |-> "refused", saw |-> {}] \in Task
    BY DEF Task, PC
  <2> QED BY <1>1, <1>2, <2>1, MoveOn DEF Goto, database, bounds, TypeOK
<1>3. CASE /\ Goto(w, "upgrade") /\ versions' = (versions \ worker[w].saw) \cup {1}
           /\ 1 \notin versions
           /\ worker[w].saw = NoTable \/ worker[w].saw \subseteq versions
  <2>1. schema \in {Schema0, Schema1, Schema2, Schema3}
    <3>1. CASE versions = NoTable
      BY <3>1, <1>1 DEF StampFits
    <3>2. CASE versions # NoTable
      BY <3>2, <1>3 DEF VersionFits
    <3> QED BY <3>1, <3>2
  <2>2. versions' \subseteq 1..3 /\ (2 \in versions' => 2 \in versions)
                                /\ (3 \in versions' => 3 \in versions)
    <3>1. CASE worker[w].saw = NoTable
      BY <3>1, <1>3 DEF NoTable
    <3>2. CASE worker[w].saw # NoTable
      BY <3>2, <1>1, <1>3 DEF StampFits
    <3> QED BY <3>1, <3>2
  <2>3. versions' # NoTable /\ versions' # {}
    BY <1>3, <2>2 DEF NoTable
  <2>4. worker' \in [Workers -> Task] /\ UNCHANGED <<schema, kept, crashes, downgrades>>
    BY <1>1, <1>3 DEF Goto, Task, PC, TypeOK, bounds
  <2>5. TypeOK'
    BY <2>2, <2>4 DEF TypeOK, Revisions
  <2>6. VersionFits' /\ ValuesFit'
    BY <2>1, <2>2, <2>3, <2>4 DEF VersionFits, ValuesFit
  <2>7. \A v \in Workers : worker'[v] = IF v = w THEN [pc |-> "upgrade", saw |-> {}]
                                               ELSE worker[v]
    BY <1>3 DEF Goto, TypeOK
  <2>8. StampFits'
    BY <2>3, <2>7 DEF StampFits
  <2>9. NewestServed'
    BY <2>4, <2>7 DEF NewestServed
  <2> QED BY <2>4, <2>5, <2>6, <2>8, <2>9
<1> QED BY <1>2, <1>3 DEF StampWrite

(* A successful upgrade starts from the schema that its version stands for. *)
LEMMA UpgradeSucceeds ==
    ASSUME IInv, NEW w \in Workers, worker[w].pc = "upgrading",
           NEW saw, saw = worker[w].saw, NEW r, r = RevisionOf(saw),
           UpgradedFrom(schema, r) # Failed,
           IF r = 0 THEN versions \in {saw, {}} ELSE r \in versions
    PROVE  /\ r \in 0..2
           /\ schema = SchemaAt(r) /\ UpgradedFrom(schema, r) = Schema3
           /\ (versions \ saw) \cup {HeadRevision} \subseteq {1, 3}
<1> USE VersionsAreSets DEF IInv, HeadRevision
<1>1. saw \in {NoTable, {}, {1}, {2}}
  BY DEF StampFits
<1>2. CASE saw \in {NoTable, {}}
  <2>1. r = 0 /\ versions \in {saw, {}}
    BY <1>2 DEF RevisionOf
  <2>2. schema = Schema0 /\ UpgradedFrom(schema, 0) = Schema3
    BY <2>1, <1>2, UpgradeFacts
  <2> QED BY <2>1, <2>2, SchemaAtFacts
<1>3. CASE saw = {1}
  <2>1. r = 1 /\ 1 \in versions
    BY <1>3 DEF RevisionOf, Revisions
  <2>2. schema \in {Schema0, Schema1, Schema2, Schema3} 
    BY <2>1, DifferentSchemas DEF VersionFits
  <2>3. schema = Schema1 /\ UpgradedFrom(schema, 1) = Schema3
    BY <2>1, <2>2, UpgradeFacts
  <2>4. 2 \notin versions /\ 3 \notin versions /\ versions \subseteq 1..3
    BY <2>1, <2>3, DifferentSchemas DEF VersionFits
  <2> QED BY <1>3, <2>1, <2>3, <2>4, SchemaAtFacts
<1>4. CASE saw = {2}
  <2>1. r = 2 /\ 2 \in versions
    BY <1>4 DEF RevisionOf, Revisions
  <2>2. schema = Schema2
    BY <2>1 DEF VersionFits
  <2>3. versions \subseteq 1..3
    BY <2>1
  <2> QED BY <1>4, <2>1, <2>2, <2>3, UpgradeFacts, SchemaAtFacts
<1> QED BY <1>1, <1>2, <1>3, <1>4

LEMMA UpgradeWriteStep == ASSUME IInv, NEW w \in Workers, UpgradeWrite(w) PROVE IInv'
<1> DEFINE saw == worker[w].saw
           r == RevisionOf(saw)
<1>1. worker[w].pc = "upgrading" /\ UNCHANGED bounds
  BY DEF UpgradeWrite
<1>2. CASE Goto(w, "refused") /\ UNCHANGED database
  <2>1. [pc |-> "refused", saw |-> {}] \in Task
    BY DEF Task, PC
  <2> QED BY <1>1, <1>2, <2>1, MoveOn DEF Goto, bounds, IInv, TypeOK
<1>3. CASE /\ UpgradedFrom(schema, r) # Failed
           /\ IF r = 0 THEN versions \in {saw, {}} ELSE r \in versions
           /\ schema' = UpgradedFrom(schema, r)
           /\ versions' = (versions \ saw) \cup {HeadRevision}
           /\ kept' = UpgradedValues(r) /\ Goto(w, "migrated")
  <2>1. r \in 0..2 /\ schema' = Schema3 /\ versions' \subseteq {1, 3} /\ 3 \in versions'
    BY <1>1, <1>3, UpgradeSucceeds DEF HeadRevision
  <2>2. worker' \in [Workers -> Task] /\ UNCHANGED <<crashes, downgrades>>
    BY <1>1, <1>3 DEF Goto, Task, PC, IInv, TypeOK, bounds
  <2>3. kept' \in [LegacyColumns -> Places]
    <3> HIDE DEF r
    <3> QED BY <1>3, <2>1, UpgradedType DEF IInv
  <2>4. TypeOK'
    BY <2>1, <2>2, <2>3, SchemasInMetadata DEF TypeOK, IInv, Revisions
  <2>5. versions' # NoTable /\ versions' # {}
    BY <2>1 DEF NoTable
  <2>6. VersionFits' /\ ValuesFit' /\ NewestServed'
    BY <2>1, <2>5, DifferentSchemas DEF VersionFits, ValuesFit, NewestServed
  <2>7. \A v \in Workers : worker'[v] = IF v = w THEN [pc |-> "migrated", saw |-> {}]
                                               ELSE worker[v]
    BY <1>3 DEF Goto, IInv, TypeOK
  <2>8. StampFits'
    BY <2>5, <2>7 DEF IInv, StampFits
  <2> QED BY <2>1, <2>4, <2>6, <2>8 DEF IInv
<1> QED BY <1>2, <1>3 DEF UpgradeWrite

LEMMA ServeStep == ASSUME IInv, NEW w \in Workers, Serve(w) PROVE IInv'
<1>1. [pc |-> "serving", saw |-> {}] \in Task
  BY DEF Task, PC
<1>2. downgrades = 0 => schema = Schema3
  BY DEF Serve, IInv, NewestServed
<1> QED BY <1>1, <1>2, MoveOn DEF Serve, Goto, bounds, IInv, TypeOK

LEMMA StoreStep == ASSUME IInv, NEW w \in Workers, Store(w) PROVE IInv'
<1>1. schema = Schema3 /\ UNCHANGED <<schema, versions, worker, bounds>>
      /\ kept' = Filled(HeadRevision)
  BY NewestAlone DEF Store, IInv
<1>2. kept' \in [LegacyColumns -> Places]
  BY <1>1, ValuesAssumption DEF Filled, ColumnAt, Places
<1>3. TypeOK'
  BY <1>1, <1>2 DEF IInv, TypeOK, bounds
<1>4. VersionFits' /\ StampFits' /\ ValuesFit' /\ NewestServed'
  BY <1>1, DifferentSchemas DEF IInv, VersionFits, StampFits, ValuesFit, NewestServed, bounds
<1> QED BY <1>1, <1>3, <1>4 DEF IInv

LEMMA StopStep == ASSUME IInv, NEW w \in Workers, Stop(w) PROVE IInv'
<1>1. [pc |-> "down", saw |-> {}] \in Task
  BY DEF Task, PC
<1> QED BY <1>1, MoveOn DEF Stop, Goto, bounds, IInv, TypeOK

LEMMA CrashStep == ASSUME IInv, NEW w \in Workers, Crash(w) PROVE IInv'
<1>1. [pc |-> "down", saw |-> {}] \in Task
  BY DEF Task, PC
<1>2. crashes' \in 0..MaxCrashes
  BY BoundsAssumption DEF Crash, IInv, TypeOK
<1> QED BY <1>1, <1>2, MoveOn DEF Crash, Goto, IInv, TypeOK

(* What a step down does, from each version that it finds alone. *)
LEMMA Downgraded ==
    ASSUME IInv, NEW r \in Revisions, versions = {r},
           DowngradedFrom(schema, r) # Failed
    PROVE  schema = SchemaAt(r) /\ DowngradedFrom(schema, r) = SchemaAt(r - 1)
<1> USE DowngradeFacts, SchemaAtFacts DEF IInv, VersionFits
<1>1. CASE r = 1
  <2>1. schema \in {Schema0, Schema1, Schema2, Schema3}
    BY <1>1
  <2>2. schema = Schema1
    BY <1>1, <2>1
  <2> QED BY <1>1, <2>2
<1>2. CASE r = 2
  BY <1>2
<1>3. CASE r = 3
  BY <1>3
<1> QED BY <1>1, <1>2, <1>3 DEF Revisions

LEMMA DowngradedPlaces ==
    ASSUME IInv, NEW r \in Revisions, schema = SchemaAt(r), NEW c \in LegacyColumns
    PROVE  /\ Carried(DowngradeScript[r], kept[c]) \in Places
           /\ r = 1 => Carried(DowngradeScript[r], kept[c]) = Nowhere
           /\ r = 2 => Carried(DowngradeScript[r], kept[c]) \in BaselineColumns \cup {Nowhere}
           /\ r # 1 => (Carried(DowngradeScript[r], kept[c]) = Nowhere <=> kept[c] = Nowhere)
<1>1. kept[c] \in Places
  BY DEF IInv, TypeOK
<1>2. CASE r = 1
  <2>1. kept[c] \in BaselineColumns \cup {Nowhere}
    BY <1>2, SchemaAtFacts DEF IInv, ValuesFit
  <2>2. DowngradeScript[r] = Downgrade0001
    BY <1>2 DEF DowngradeScript
  <2>3. Carried(Downgrade0001, kept[c]) = Nowhere
    BY <2>1, ValuesAssumption
  <2> QED BY <1>2, <2>2, <2>3 DEF Places
<1>3. CASE r = 2
  <2>1. DowngradeScript[r] = Downgrade0002
    BY <1>3 DEF DowngradeScript
  <2>2. Nowhere \notin BaselineColumns
    BY DEF BaselineColumns, Nowhere
  <2>3. /\ kept[c] # Nowhere => Carried(Downgrade0002, kept[c]) \in BaselineColumns
        /\ kept[c] = Nowhere => Carried(Downgrade0002, kept[c]) = Nowhere
    BY <1>1, ValuesAssumption
  <2> QED BY <1>3, <2>1, <2>2, <2>3 DEF Places
<1>4. CASE r = 3
  <2>1. DowngradeScript[r] = Downgrade0003
    BY <1>4 DEF DowngradeScript
  <2>2. /\ kept[c] # Nowhere => Carried(Downgrade0003, kept[c]) \in Places \ {Nowhere}
        /\ kept[c] = Nowhere => Carried(Downgrade0003, kept[c]) = Nowhere
    BY <1>1, ValuesAssumption
  <2> QED BY <1>4, <2>1, <2>2 DEF Places
<1> QED BY <1>2, <1>3, <1>4 DEF Revisions

(* The parts of a downgrade, with its revision. *)
LEMMA DowngradeParts ==
    ASSUME IInv, Downgrade
    PROVE  \E r \in Revisions :
              /\ schema = SchemaAt(r) /\ schema' = SchemaAt(r - 1)
              /\ versions' = {r - 1} \ {0}
              /\ kept' = [c \in LegacyColumns |-> Carried(DowngradeScript[r], kept[c])]
<1> PICK r \in Revisions :
        /\ versions = {r}
        /\ schema' \in {DowngradedFrom(schema, r)} \ {Failed}
        /\ versions' = {r - 1} \ {0}
        /\ kept' = [c \in LegacyColumns |-> Carried(DowngradeScript[r], kept[c])]
  BY DEF Downgrade
<1>1. schema = SchemaAt(r) /\ schema' = SchemaAt(r - 1)
  BY Downgraded
<1> QED BY <1>1

LEMMA DowngradeStep == ASSUME IInv, Downgrade PROVE IInv'
<1>0. /\ downgrades' = downgrades + 1 /\ downgrades < MaxDowngrades
      /\ UNCHANGED <<worker, crashes>>
  BY DEF Downgrade
<1> PICK r \in Revisions :
        /\ schema = SchemaAt(r) /\ schema' = SchemaAt(r - 1)
        /\ versions' = {r - 1} \ {0}
        /\ kept' = [c \in LegacyColumns |-> Carried(DowngradeScript[r], kept[c])]
  BY DowngradeParts
<1>1. r \in 1..3
  BY DEF Revisions
<1>2. kept' \in [LegacyColumns -> Places]
      /\ (r \in {1, 2} => \A c \in LegacyColumns : kept'[c] \in BaselineColumns \cup {Nowhere})
  BY <1>1, DowngradedPlaces
<1>3. schema' \in {Schema0, Schema1, Schema2}
  BY <1>1, SchemaAtFacts
<1>4. downgrades' \in 0..MaxDowngrades /\ downgrades' # 0
  BY <1>0, BoundsAssumption DEF IInv, TypeOK
<1>5. TypeOK'
  BY <1>0, <1>1, <1>2, <1>3, <1>4, SchemasInMetadata DEF IInv, TypeOK, Revisions
<1>6. versions' # NoTable
  BY <1>1 DEF NoTable
<1>7. VersionFits'
  BY <1>1, <1>6, SchemaAtFacts DEF VersionFits
<1>8. ValuesFit'
  BY <1>1, <1>2, SchemaAtFacts, DifferentSchemas DEF ValuesFit
<1>9. StampFits' /\ NewestServed'
  BY <1>0, <1>4, <1>6 DEF IInv, StampFits, NewestServed
<1> QED BY <1>3, <1>5, <1>7, <1>8, <1>9 DEF IInv

LEMMA NextStep == IInv /\ [Next]_vars => IInv'
<1> SUFFICES ASSUME IInv, [Next]_vars PROVE IInv'
  OBVIOUS
<1>1. ASSUME NEW w \in Workers, Migrate(w) PROVE IInv'
  BY <1>1, InspectStep, InspectColumnsStep, StampReadStep, StampWriteStep, UpgradeReadStep,
     UpgradeWriteStep, ServeStep DEF Migrate
<1>2. ASSUME NEW w \in Workers, Store(w) \/ Stop(w) \/ Crash(w) PROVE IInv'
  BY <1>2, StoreStep, StopStep, CrashStep
<1>3. CASE Downgrade
  BY <1>3, DowngradeStep
<1>4. CASE UNCHANGED vars
  BY <1>4 DEF vars, database, bounds, IInv, TypeOK, VersionFits, StampFits, ValuesFit,
     NewestServed
<1> QED BY <1>1, <1>2, <1>3, <1>4 DEF Next

LEMMA Inductive == Spec => []IInv
BY InitIInv, NextStep, PTL DEF Spec

-----------------------------------------------------------------------------
(* The schema is always made of known objects, the version table holds
   revisions only, and every value is in a known place.                    *)
THEOREM Typing == Spec => []TypeOK
<1>1. IInv => TypeOK
  BY DEF IInv
<1> QED BY <1>1, Inductive, PTL

(* Whoever stamps, upgrades, fails, dies or downgrades, and in whatever
   order, a database that says it is at the head is that of the mapped
   classes.                                                                *)
THEOREM HeadIsHead == Spec => []HeadIsMetadata
<1>1. IInv => HeadIsMetadata
  BY DifferentSchemas DEF IInv, VersionFits, HeadIsMetadata, HeadRevision
<1> QED BY <1>1, Inductive, PTL

(* A worker that serves keeps the schema it was started on, however many
   others start after it.                                                  *)
THEOREM ServedStands == Spec => []ServedSchemaStands
<1>1. IInv => ServedSchemaStands
  BY DifferentSchemas DEF IInv, NewestServed, ServedSchemaStands
<1> QED BY <1>1, Inductive, PTL

-----------------------------------------------------------------------------
(* The columns whose values are there. *)
Stored == {c \in LegacyColumns : kept[c] # Nowhere}

LEMMA HistoryAt ==
    /\ Len(<<Schema0, Schema1, Schema2, Schema3>>) = 4
    /\ \A r \in 0..3 : <<Schema0, Schema1, Schema2, Schema3>>[r + 1] = SchemaAt(r)
    /\ History!Newest = Schema3
<1>1. History!Newest = <<Schema0, Schema1, Schema2, Schema3>>[Len(<<Schema0, Schema1, Schema2, Schema3>>)]
  BY DEF History!Newest
<1> QED BY <1>1 DEF SchemaAt

LEMMA UpgradeIsRaise ==
    ASSUME IInv, NEW w \in Workers, UpgradeWrite(w), ~ UNCHANGED database
    PROVE  History!Raise
<1> DEFINE saw == worker[w].saw
           r == RevisionOf(saw)
<1>1. /\ worker[w].pc = "upgrading"
      /\ UpgradedFrom(schema, r) # Failed
      /\ IF r = 0 THEN versions \in {saw, {}} ELSE r \in versions
      /\ schema' = UpgradedFrom(schema, r)
      /\ kept' = UpgradedValues(r)
  BY DEF UpgradeWrite
<1>2. r \in 0..2 /\ schema = SchemaAt(r) /\ schema' = Schema3
  BY <1>1, UpgradeSucceeds
<1> HIDE DEF r
<1>3. \A c \in LegacyColumns : kept'[c] = Nowhere <=> kept[c] = Nowhere
  BY <1>1, <1>2, UpgradedPlaces DEF IInv
<1>4. Stored' = Stored
  BY <1>3 DEF Stored
<1>5. \E i \in 1..4 : schema = <<Schema0, Schema1, Schema2, Schema3>>[i]
  BY <1>2, HistoryAt
<1>6. DOMAIN <<Schema0, Schema1, Schema2, Schema3>> = 1..4
  OBVIOUS
<1> QED BY <1>2, <1>4, <1>5, <1>6, HistoryAt DEF History!Raise, Stored

LEMMA DowngradeIsLower == ASSUME IInv, Downgrade PROVE History!Lower
<1> PICK r \in Revisions :
        /\ schema = SchemaAt(r) /\ schema' = SchemaAt(r - 1)
        /\ kept' = [c \in LegacyColumns |-> Carried(DowngradeScript[r], kept[c])]
  BY DowngradeParts
<1>1. r \in 1..3
  BY DEF Revisions
<1>2. r = 1 => Stored' = {}
  BY DowngradedPlaces DEF Stored
<1>3. r # 1 => Stored' = Stored
  BY DowngradedPlaces DEF Stored
<1>4. /\ schema = <<Schema0, Schema1, Schema2, Schema3>>[r + 1]
      /\ schema' = <<Schema0, Schema1, Schema2, Schema3>>[(r + 1) - 1]
  <2>1. r \in 0..3 /\ r - 1 \in 0..3 /\ (r - 1) + 1 = (r + 1) - 1
    BY <1>1
  <2> QED BY <2>1, HistoryAt
<1>5. r + 1 \in 2..4 /\ (r + 1 = 2 <=> r = 1)
  BY <1>1
<1>6. Stored' = IF r + 1 = 2 THEN {} ELSE Stored
  BY <1>2, <1>3, <1>5
<1> QED BY <1>4, <1>5, <1>6, HistoryAt DEF History!Lower, Stored

LEMMA StoreIsStore == ASSUME IInv, NEW w \in Workers, Store(w) PROVE History!Store
<1>1. schema = Schema3 /\ UNCHANGED schema /\ kept' = Filled(HeadRevision)
  BY NewestAlone DEF Store, IInv
<1>2. \A c \in LegacyColumns : kept'[c] # Nowhere
  <2>1. Nowhere \notin BaselineColumns
    BY DEF BaselineColumns, Nowhere
  <2>2. <<"items", "analysis_status">> # Nowhere
    BY DEF Nowhere
  <2> QED BY <1>1, <2>1, <2>2, ValuesAssumption DEF Filled, ColumnAt
<1>3. Stored' = LegacyColumns
  BY <1>2 DEF Stored
<1> QED BY <1>1, <1>3, HistoryAt DEF History!Store, Stored

LEMMA StepIsHistory ==
    ASSUME IInv, [Next]_vars
    PROVE  [History!Next]_(History!historyVars)
<1>1. ASSUME UNCHANGED <<schema, kept>> PROVE UNCHANGED History!historyVars
  BY <1>1 DEF History!historyVars
<1>2. ASSUME NEW w \in Workers, Migrate(w)
      PROVE  History!Raise \/ UNCHANGED <<schema, kept>>
  <2>1. CASE UpgradeWrite(w)
    BY <2>1, UpgradeIsRaise DEF database
  <2>2. CASE ~ UpgradeWrite(w)
    BY <2>2, <1>2 DEF Migrate, Inspect, InspectColumns, StampRead, StampWrite, UpgradeRead,
       Serve, database
  <2> QED BY <2>1, <2>2
<1>3. ASSUME NEW w \in Workers, Stop(w) \/ Crash(w) PROVE UNCHANGED <<schema, kept>>
  BY <1>3 DEF Stop, Crash, database
<1>4. CASE UNCHANGED vars
  BY <1>4, <1>1 DEF vars, database
<1> QED BY <1>1, <1>2, <1>3, <1>4, DowngradeIsLower, StoreIsStore DEF Next, History!Next

(* No failed or interrupted upgrade leaves a part of it behind, and no
   value of the baseline is lost above the base: every step of the workers
   is one of SchemaHistory or none.                                        *)
THEOREM HistoryImplemented == Spec => ImplementsHistory
<1>1. Init => History!Init
  BY DEF History!Init
<1> QED BY <1>1, InitIInv, NextStep, StepIsHistory, PTL DEF Spec, ImplementsHistory, History!Spec
=============================================================================
