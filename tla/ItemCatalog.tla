----------------------------- MODULE ItemCatalog -----------------------------
(***************************************************************************)
(* What the items promise whoever reads the table and the image            *)
(* directories, without the requests that change them: ItemLifecycle       *)
(* implements this, and Outfits builds on it.                              *)
(*                                                                         *)
(* Every item has at most one verdict of its analysis.  Its row shows      *)
(* either the verdict or, before it is saved and again if a PATCH with an  *)
(* old copy undoes the save, "processing".  Its directory is removed only  *)
(* once the row is gone for good or the verdict is "failed".               *)
(***************************************************************************)
CONSTANTS Item, Closet, None

VARIABLES
    born,       \* the items that have been uploaded
    rows,       \* what the row of each item shows, or None
    verdict,    \* the outcome of each item's analysis, "processing" until then
    files       \* the items whose directory exists

catalogVars == <<born, rows, verdict, files>>

Status == {"processing", "ready", "failed"}
Entry == [closet : Closet, status : Status]

ASSUME NoneIsNoEntry == None \notin Entry

Init ==
    /\ born = {}
    /\ rows = [i \in Item |-> None]
    /\ verdict = [i \in Item |-> "processing"]
    /\ files = {}

Create(i, c) ==
    /\ i \notin born
    /\ born' = born \cup {i}
    /\ rows' = [rows EXCEPT ![i] = [closet |-> c, status |-> "processing"]]
    /\ UNCHANGED <<verdict, files>>

(* The image may be stored after the row has gone: that directory stays. *)
Store(i) ==
    /\ i \in born
    /\ verdict[i] = "processing"
    /\ files' = files \cup {i}
    /\ UNCHANGED <<born, rows, verdict>>

Decide(i) ==
    /\ i \in files
    /\ verdict[i] = "processing"
    /\ \E status \in {"ready", "failed"} : verdict' = [verdict EXCEPT ![i] = status]
    /\ UNCHANGED <<born, rows, files>>

Show(i) ==
    /\ rows[i] # None
    /\ \E status \in {"processing", verdict[i]} : rows' = [rows EXCEPT ![i].status = status]
    /\ UNCHANGED <<born, verdict, files>>

Remove(i) ==
    /\ rows[i] # None
    /\ rows' = [rows EXCEPT ![i] = None]
    /\ UNCHANGED <<born, verdict, files>>

Clean(i) ==
    /\ verdict[i] # "processing"
    /\ rows[i] = None \/ verdict[i] = "failed"
    /\ files' = files \ {i}
    /\ UNCHANGED <<born, rows, verdict>>

Change(i) ==
    \/ \E c \in Closet : Create(i, c)
    \/ Store(i) \/ Decide(i) \/ Show(i) \/ Remove(i) \/ Clean(i)

Next == \E i \in Item : Change(i)

Spec == Init /\ [][Next]_catalogVars
=============================================================================
