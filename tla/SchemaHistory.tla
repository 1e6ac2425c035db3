--------------------------- MODULE SchemaHistory ---------------------------
(***************************************************************************)
(* What the migrations promise whoever uses the database, without saying   *)
(* who migrates it or how: the schema only ever moves between the          *)
(* revisions, up to the newest in one step or down by one, and the values  *)
(* stored in the columns of the baseline stay until the tables themselves  *)
(* are given up.  A database that is at none of the revisions stays as it  *)
(* is.                                                                     *)
(***************************************************************************)
EXTENDS Naturals, Sequences

CONSTANTS
    At,        \* the schemas of the revisions, from the base to the newest
    Columns    \* the columns of the baseline

VARIABLES
    schema,
    stored     \* the columns of the baseline whose values are there

historyVars == <<schema, stored>>

Newest == At[Len(At)]

Init == stored \in SUBSET Columns

Raise ==
    /\ \E i \in DOMAIN At : schema = At[i]
    /\ schema' = Newest
    /\ UNCHANGED stored

Lower ==
    \E i \in 2..Len(At) :
        /\ schema = At[i]
        /\ schema' = At[i - 1]
        /\ stored' = IF i = 2 THEN {} ELSE stored

Store ==
    /\ schema = Newest
    /\ stored' = Columns
    /\ UNCHANGED schema

Next == Raise \/ Lower \/ Store

Spec == Init /\ [][Next]_historyVars
=============================================================================
