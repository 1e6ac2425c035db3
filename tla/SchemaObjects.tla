--------------------------- MODULE SchemaObjects ---------------------------
(***************************************************************************)
(* What a database schema is made of, and what PostgreSQL does with the    *)
(* statements of the migrations.  A schema is a set of objects:            *)
(*                                                                         *)
(*   <<table>>                          a table                            *)
(*   <<table, column>>                  a column                           *)
(*   <<table, column, parent, action>>  a foreign key with its ON DELETE   *)
(*                                      action ("" when it has none)       *)
(*                                                                         *)
(* Types, indexes, defaults, unique and check constraints are left out.    *)
(***************************************************************************)
EXTENDS Naturals, Sequences, FiniteSets

(* The objects of a table with these columns and these foreign keys, each
   <<column, parent, action>>.                                             *)
Objects(table, columns, keys) ==
    {<<table>>} \cup {<<table, c>> : c \in columns}
                \cup {<<table, k[1], k[2], k[3]>> : k \in keys}

ForeignKeys(schema) == {o \in schema : Len(o) = 4}

(* One statement, or the statements on one table: the objects it creates,
   those it removes, and the columns among the latter that it renames.     *)
Create(table, columns, keys) ==
    [adds |-> Objects(table, columns, keys), drops |-> {}, renames |-> {}]

Alter(removed, added, renamed) ==
    [adds |-> added \cup {r[2] : r \in renamed},
     drops |-> removed \cup {r[1] : r \in renamed}, renames |-> renamed]

Undo(statement) ==
    [adds |-> statement.drops, drops |-> statement.adds,
     renames |-> {<<r[2], r[1]>> : r \in statement.renames}]

(* The schema after the first k statements of a script.  No script creates
   and removes the same object, so their order does not matter here.       *)
After(schema, script, k) ==
    (schema \ UNION {script[i].drops : i \in 1..k})
        \cup UNION {script[i].adds : i \in 1..k}

(* PostgreSQL executes a statement if what it removes is there, what it
   creates is not, the tables that its foreign keys refer to exist, and no
   foreign key that remains refers to a table it drops.                    *)
Applicable(schema, statement) ==
    /\ statement.drops \subseteq schema
    /\ statement.adds \cap schema = {}
    /\ \A k \in ForeignKeys(statement.adds) : <<k[3]>> \in schema \cup statement.adds
    /\ \A o \in statement.drops : Len(o) = 1 =>
          \A k \in ForeignKeys(schema \ statement.drops) : k[3] # o[1]

Executable(schema, script) ==
    \A k \in DOMAIN script :
        \E s \in {After(schema, script, k - 1)} : Applicable(s, script[k])

(* A script that fails at any statement is rolled back as a whole. *)
Failed == {<<>>}

Execute(schema, script) ==
    IF schema # Failed /\ Executable(schema, script)
    THEN After(schema, script, Len(script)) ELSE Failed

(* Where a value stored in a column is after a script: under the new name,
   nowhere, or where it was.                                               *)
Nowhere == <<>>

Carried(script, column) ==
    LET renames == UNION {script[i].renames : i \in DOMAIN script}
        drops == UNION {script[i].drops : i \in DOMAIN script}
    IN CASE \E r \in renames : r[1] = column ->
                (CHOOSE r \in renames : r[1] = column)[2]
         [] column \in drops /\ ~ \E r \in renames : r[1] = column -> Nowhere
         [] OTHER -> column
=============================================================================
