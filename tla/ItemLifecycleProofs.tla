------------------------- MODULE ItemLifecycleProofs -------------------------
(* Proofs about ItemLifecycle. *)
EXTENDS ItemLifecycle, TLAPS

-----------------------------------------------------------------------------
(* What the helpers of the actions do to req.  Becomes is the effect of a    *)
(* step of a request in flight, Begins that of an accepted request, and       *)
(* Refused that of one that is turned away.                                   *)

Others(r) == \A q \in Request \ {r} : req'[q] = req[q]

Becomes(r, pc, snap, loaded, answer) ==
    /\ req' \in [Request -> Call]
    /\ Others(r)
    /\ req'[r].pc = pc
    /\ req'[r].op = req[r].op
    /\ req'[r].user = req[r].user
    /\ req'[r].item = req[r].item
    /\ req'[r].snap = snap
    /\ req'[r].loaded = loaded
    /\ req'[r].answer = answer

Begins(r, op, u, i, row, pc) ==
    /\ req' \in [Request -> Call]
    /\ Others(r)
    /\ req'[r].pc = pc
    /\ req'[r].op = op
    /\ req'[r].user = u
    /\ req'[r].item = i
    /\ req'[r].snap = row
    /\ req'[r].loaded = None
    /\ req'[r].answer = "ok"

Refused(r, op) ==
    /\ req' \in [Request -> Call]
    /\ Others(r)
    /\ req'[r].pc = "done"
    /\ req'[r].op = op
    /\ req'[r].item = None
    /\ req'[r].snap = None
    /\ req'[r].loaded = None
    /\ req'[r].answer = "not_found"

LEMMA StartBegins ==
    ASSUME TypeOK, NEW r \in Request, NEW op \in Op, NEW u \in User, NEW i \in Item,
           NEW row \in Row, NEW pc \in PC, Start(r, op, u, i, row, pc)
    PROVE  Begins(r, op, u, i, row, pc)
BY DEF TypeOK, Start, Begins, Others, Call, Answer

LEMMA RefuseRefuses ==
    ASSUME TypeOK, NEW r \in Request, NEW op \in Op, NEW u \in User, Refuse(r, op, u)
    PROVE  Refused(r, op)
BY DEF TypeOK, Refuse, NoCall, Refused, Others, Call, Answer, PC

LEMMA FinishBecomes ==
    ASSUME TypeOK, NEW r \in Request, NEW answer \in Answer, Finish(r, answer)
    PROVE  Becomes(r, "done", req[r].snap, None, answer)
BY DEF TypeOK, Finish, Becomes, Others, Call, PC

LEMMA GotoBecomes ==
    ASSUME TypeOK, NEW r \in Request, NEW pc \in PC, Goto(r, pc)
    PROVE  Becomes(r, pc, req[r].snap, req[r].loaded, req[r].answer)
BY DEF TypeOK, Goto, Becomes, Others, Call

(* The rows a save leaves are rows. *)
LEMMA MergedType ==
    ASSUME NEW row \in Row, NEW item \in Row, NEW loaded \in Row
    PROVE  Merged(row, item, loaded) \in Row
BY DEF Merged, Row

LEMMA NewRowType ==
    ASSUME NEW c \in Closet
    PROVE  NewRow(c) \in Row
BY DEF NewRow, Row, Status, Value

-----------------------------------------------------------------------------
(* Every step keeps the types.  Each lemma also restates its action through *)
(* Begins, Refused and Becomes, which is all the later proofs use of it.     *)

LEMMA AddItemEffect ==
    ASSUME TypeOK, NEW r \in Request, NEW i \in Item, NEW u \in User, NEW c \in Closet,
           AddItem(r, i, u, c)
    PROVE  /\ TypeOK'
           /\ files' = files
           /\ req[r].pc = "idle"
           /\ \/ /\ Fresh(i) /\ Owner[c] = u
                 /\ rows' = [rows EXCEPT ![i] = NewRow(c)]
                 /\ Begins(r, "upload", u, i, NewRow(c), "store")
              \/ rows' = rows /\ Refused(r, "upload")
<1>1. NewRow(c) \in Row
  BY NewRowType
<1>2. "upload" \in Op /\ "store" \in PC
  BY DEF Op, PC
<1>3. CASE Owner[c] = u
  <2>1. Begins(r, "upload", u, i, NewRow(c), "store")
    BY <1>1, <1>2, <1>3, StartBegins DEF AddItem
  <2> QED BY <1>1, <1>3, <2>1 DEF AddItem, Begins, TypeOK
<1>4. CASE Owner[c] # u
  <2>1. Refused(r, "upload")
    BY <1>2, <1>4, RefuseRefuses DEF AddItem
  <2> QED BY <1>4, <2>1 DEF AddItem, Refused, TypeOK
<1> QED BY <1>3, <1>4

Edited(row, r, fields) ==
    [row EXCEPT !.attrs = [a \in Attr |-> IF a \in fields THEN r ELSE @[a]]]

LEMMA EditedType ==
    ASSUME NEW row \in Row, NEW r \in Request, NEW fields \in SUBSET Attr
    PROVE  /\ Edited(row, r, fields) \in Row
           /\ Edited(row, r, fields).status = row.status
           /\ Edited(row, r, fields).image_key = row.image_key
           /\ Edited(row, r, fields).closet = row.closet
BY DEF Edited, Row, Value

LEMMA UpdateItemEffect ==
    ASSUME TypeOK, NEW r \in Request, NEW i \in Item, NEW u \in User,
           NEW fields \in SUBSET Attr, UpdateItem(r, i, u, fields)
    PROVE  /\ TypeOK'
           /\ UNCHANGED <<rows, files>>
           /\ req[r].pc = "idle"
           /\ \/ Visible(i, u) /\ Begins(r, "patch", u, i, Edited(rows[i], r, fields), "save")
              \/ Refused(r, "patch")
<1>1. "patch" \in Op /\ "save" \in PC
  BY DEF Op, PC
<1>2. CASE Visible(i, u)
  <2>1. rows[i] \in Row
    BY <1>2 DEF Visible, TypeOK
  <2>2. Edited(rows[i], r, fields) \in Row
    BY <2>1, EditedType
  <2>3. Start(r, "patch", u, i, Edited(rows[i], r, fields), "save")
    BY <1>2 DEF UpdateItem, Edited
  <2>4. Begins(r, "patch", u, i, Edited(rows[i], r, fields), "save")
    BY <1>1, <2>2, <2>3, StartBegins
  <2> QED BY <1>2, <2>4 DEF UpdateItem, Begins, TypeOK
<1>3. CASE ~Visible(i, u)
  <2>1. Refused(r, "patch")
    BY <1>1, <1>3, RefuseRefuses DEF UpdateItem
  <2> QED BY <2>1 DEF UpdateItem, Refused, TypeOK
<1> QED BY <1>2, <1>3

LEMMA DeleteItemEffect ==
    ASSUME TypeOK, NEW r \in Request, NEW i \in Item, NEW u \in User, DeleteItem(r, i, u)
    PROVE  /\ TypeOK'
           /\ UNCHANGED <<rows, files>>
           /\ req[r].pc = "idle"
           /\ \/ Visible(i, u) /\ Begins(r, "delete", u, i, rows[i], "drop")
              \/ Refused(r, "delete")
<1>1. "delete" \in Op /\ "drop" \in PC
  BY DEF Op, PC
<1>2. CASE Visible(i, u)
  <2>1. rows[i] \in Row
    BY <1>2 DEF Visible, TypeOK
  <2>2. Begins(r, "delete", u, i, rows[i], "drop")
    BY <1>1, <1>2, <2>1, StartBegins DEF DeleteItem
  <2> QED BY <1>2, <2>2 DEF DeleteItem, Begins, TypeOK
<1>3. CASE ~Visible(i, u)
  <2>1. Refused(r, "delete")
    BY <1>1, <1>3, RefuseRefuses DEF DeleteItem
  <2> QED BY <2>1 DEF DeleteItem, Refused, TypeOK
<1> QED BY <1>2, <1>3

LEMMA GetItemImageEffect ==
    ASSUME TypeOK, NEW r \in Request, NEW i \in Item, NEW u \in User, GetItemImage(r, i, u)
    PROVE  /\ TypeOK'
           /\ UNCHANGED <<rows, files>>
           /\ req[r].pc = "idle"
           /\ \/ Visible(i, u) /\ Begins(r, "image", u, i, rows[i], "check")
              \/ Refused(r, "image")
<1>1. "image" \in Op /\ "check" \in PC
  BY DEF Op, PC
<1>2. CASE Visible(i, u) /\ rows[i].image_key
  <2>1. rows[i] \in Row
    BY <1>2 DEF Visible, TypeOK
  <2>2. Begins(r, "image", u, i, rows[i], "check")
    BY <1>1, <1>2, <2>1, StartBegins DEF GetItemImage
  <2> QED BY <1>2, <2>2 DEF GetItemImage, Begins, TypeOK
<1>3. CASE ~(Visible(i, u) /\ rows[i].image_key)
  <2>1. Refused(r, "image")
    BY <1>1, <1>3, RefuseRefuses DEF GetItemImage
  <2> QED BY <2>1 DEF GetItemImage, Refused, TypeOK
<1> QED BY <1>2, <1>3

-----------------------------------------------------------------------------
(* The steps of a request in flight *)

LEMMA InFlightCopy ==
    ASSUME TypeOK, ControlInv, NEW r \in Request, InFlight(r)
    PROVE  /\ req[r].item \in Item
           /\ req[r].snap \in Row
           /\ req[r].pc = "commit" => req[r].loaded \in Row
           /\ req[r].pc # "commit" => req[r].loaded = None
           /\ req[r].answer \in Answer
BY DEF TypeOK, ControlInv, Call

LEMMA StorageSaveEffect ==
    ASSUME TypeOK, ControlInv, NEW r \in Request, StorageSave(r)
    PROVE  /\ TypeOK'
           /\ rows' = rows
           /\ files' = files \cup {req[r].item}
           /\ req[r].pc = "store"
           /\ \E snap \in Row :
                /\ snap.image_key
                /\ snap.status = req[r].snap.status
                /\ snap.closet = req[r].snap.closet
                /\ Becomes(r, "analyze", snap, None, req[r].answer)
<1>1. InFlight(r)
  BY DEF StorageSave, InFlight
<1> DEFINE snap == [req[r].snap EXCEPT !.image_key = TRUE]
<1>2. /\ snap \in Row /\ snap.image_key /\ snap.status = req[r].snap.status
      /\ snap.closet = req[r].snap.closet
  BY <1>1, InFlightCopy DEF Row
<1>3. req' = [req EXCEPT ![r] = [@ EXCEPT !.pc = "analyze", !.snap = snap]]
  BY DEF StorageSave
<1> HIDE DEF snap
<1>4. Becomes(r, "analyze", snap, None, req[r].answer)
  <2>1. req[r].loaded = None
    BY <1>1, InFlightCopy DEF StorageSave
  <2> DEFINE call == [req[r] EXCEPT !.pc = "analyze", !.snap = snap]
  <2>2. req[r] \in Call /\ req \in [Request -> Call]
    BY DEF TypeOK
  <2>3. call \in Call
    BY <1>2, <2>2 DEF Call, PC
  <2>4. req' = [req EXCEPT ![r] = call]
    BY <1>3
  <2> QED BY <2>1, <2>2, <2>3, <2>4 DEF Becomes, Others, Call
<1>5. TypeOK'
  BY <1>1, <1>4, InFlightCopy DEF StorageSave, Becomes, TypeOK
<1> QED BY <1>2, <1>4, <1>5 DEF StorageSave

LEMMA StorageSaveFailsEffect ==
    ASSUME TypeOK, ControlInv, NEW r \in Request, StorageSaveFails(r)
    PROVE  /\ TypeOK'
           /\ rows' = rows
           /\ files' \in {files, files \cup {req[r].item}}
           /\ req[r].pc = "store"
           /\ Becomes(r, "done", req[r].snap, None, "error")
<1>1. InFlight(r)
  BY DEF StorageSaveFails, InFlight
<1>2. Becomes(r, "done", req[r].snap, None, "error")
  BY FinishBecomes DEF StorageSaveFails, Answer
<1> QED BY <1>1, <1>2, InFlightCopy DEF StorageSaveFails, Becomes, TypeOK

LEMMA AnalyzeEffect ==
    ASSUME TypeOK, ControlInv, NEW r \in Request, Analyze(r)
    PROVE  /\ TypeOK'
           /\ UNCHANGED <<rows, files>>
           /\ req[r].pc = "analyze"
           /\ \E snap \in Row :
                /\ snap.status \in {"ready", "failed"}
                /\ snap.image_key = req[r].snap.image_key
                /\ snap.closet = req[r].snap.closet
                /\ Becomes(r, "save", snap, None, req[r].answer)
<1>1. InFlight(r)
  BY DEF Analyze, InFlight
<1>2. PICK status \in {"ready", "failed"} :
        req' = [req EXCEPT ![r].pc = "save", ![r].snap.status = status,
                           ![r].snap.attrs = [a \in Attr |-> "analysed"]]
  BY DEF Analyze
<1> DEFINE snap == [req[r].snap EXCEPT !.status = status,
                                       !.attrs = [a \in Attr |-> "analysed"]]
<1>3. /\ snap \in Row /\ snap.status = status
      /\ snap.image_key = req[r].snap.image_key /\ snap.closet = req[r].snap.closet
  BY <1>1, InFlightCopy DEF Row, Status, Value
<1>4. req' = [req EXCEPT ![r] = [@ EXCEPT !.pc = "save", !.snap = snap]]
  BY <1>2
<1> HIDE DEF snap
<1>5. Becomes(r, "save", snap, None, req[r].answer)
  <2>1. req[r].loaded = None
    BY <1>1, InFlightCopy DEF Analyze
  <2> DEFINE call == [req[r] EXCEPT !.pc = "save", !.snap = snap]
  <2>2. req[r] \in Call /\ req \in [Request -> Call]
    BY DEF TypeOK
  <2>3. call \in Call
    BY <1>3, <2>2 DEF Call, PC
  <2>4. req' = [req EXCEPT ![r] = call]
    BY <1>4
  <2> QED BY <2>1, <2>2, <2>3, <2>4 DEF Becomes, Others, Call
<1>6. TypeOK'
  BY <1>5 DEF Analyze, Becomes, TypeOK
<1> QED BY <1>3, <1>5, <1>6 DEF Analyze

LEMMA AnalyzeInvalidEffect ==
    ASSUME TypeOK, ControlInv, NEW r \in Request, AnalyzeInvalid(r)
    PROVE  /\ TypeOK'
           /\ UNCHANGED <<rows, files>>
           /\ req[r].pc = "analyze"
           /\ \E snap \in Row :
                /\ snap.status = "failed"
                /\ snap.image_key = req[r].snap.image_key
                /\ snap.closet = req[r].snap.closet
                /\ Becomes(r, "save", snap, None, "invalid")
<1>1. InFlight(r)
  BY DEF AnalyzeInvalid, InFlight
<1> DEFINE snap == [req[r].snap EXCEPT !.status = "failed"]
<1>2. /\ snap \in Row /\ snap.status = "failed"
      /\ snap.image_key = req[r].snap.image_key /\ snap.closet = req[r].snap.closet
  BY <1>1, InFlightCopy DEF Row, Status
<1>3. req' = [req EXCEPT ![r] = [@ EXCEPT !.pc = "save", !.snap = snap, !.answer = "invalid"]]
  BY DEF AnalyzeInvalid
<1> HIDE DEF snap
<1>4. Becomes(r, "save", snap, None, "invalid")
  <2>1. req[r].loaded = None
    BY <1>1, InFlightCopy DEF AnalyzeInvalid
  <2> DEFINE call == [req[r] EXCEPT !.pc = "save", !.snap = snap, !.answer = "invalid"]
  <2>2. req[r] \in Call /\ req \in [Request -> Call]
    BY DEF TypeOK
  <2>3. call \in Call
    BY <1>2, <2>2 DEF Call, PC, Answer
  <2>4. req' = [req EXCEPT ![r] = call]
    BY <1>3
  <2> QED BY <2>1, <2>2, <2>3, <2>4 DEF Becomes, Others, Call
<1>5. TypeOK'
  BY <1>4 DEF AnalyzeInvalid, Becomes, TypeOK
<1> QED BY <1>2, <1>4, <1>5 DEF AnalyzeInvalid

LEMMA AnalyzeRaisesEffect ==
    ASSUME TypeOK, NEW r \in Request, AnalyzeRaises(r)
    PROVE  /\ TypeOK'
           /\ UNCHANGED <<rows, files>>
           /\ req[r].pc = "analyze"
           /\ Becomes(r, "done", req[r].snap, None, "error")
<1>1. Becomes(r, "done", req[r].snap, None, "error")
  BY FinishBecomes DEF AnalyzeRaises, Answer
<1> QED BY <1>1 DEF AnalyzeRaises, Becomes, TypeOK

LEMMA SaveItemGetEffect ==
    ASSUME TypeOK, ControlInv, NEW r \in Request, SaveItemGet(r)
    PROVE  /\ TypeOK'
           /\ UNCHANGED <<rows, files>>
           /\ req[r].pc = "save"
           /\ \/ Becomes(r, "done", req[r].snap, None, "error")
              \/ /\ rows[req[r].item] # None
                 /\ Becomes(r, "commit", req[r].snap, rows[req[r].item], req[r].answer)
<1>1. InFlight(r)
  BY DEF SaveItemGet, InFlight
<1>2. CASE rows[req[r].item] = None
  <2>1. Becomes(r, "done", req[r].snap, None, "error")
    BY <1>2, FinishBecomes DEF SaveItemGet, Answer
  <2> QED BY <2>1 DEF SaveItemGet, Becomes, TypeOK
<1>3. CASE rows[req[r].item] # None
  <2>1. Becomes(r, "commit", req[r].snap, rows[req[r].item], req[r].answer)
    BY <1>1, <1>3, InFlightCopy DEF SaveItemGet, Becomes, Others, TypeOK, Call, PC
  <2> QED BY <1>3, <2>1 DEF SaveItemGet, Becomes, TypeOK
<1> QED BY <1>2, <1>3

LEMMA SaveItemCommitEffect ==
    ASSUME TypeOK, ControlInv, NEW r \in Request, SaveItemCommit(r)
    PROVE  /\ TypeOK'
           /\ files' = files
           /\ req[r].pc = "commit"
           /\ \/ rows' = rows /\ Becomes(r, "done", req[r].snap, None, "error")
              \/ /\ rows[req[r].item] # None
                 /\ rows' = [rows EXCEPT ![req[r].item] =
                               Merged(rows[req[r].item], req[r].snap, req[r].loaded)]
                 /\ Becomes(r, IF req[r].answer = "invalid" /\ req[r].snap.image_key
                               THEN "unlink" ELSE "done",
                            req[r].snap, None, req[r].answer)
<1>1. InFlight(r)
  BY DEF SaveItemCommit, InFlight
<1>2. CASE rows[req[r].item] = None
  <2>1. Becomes(r, "done", req[r].snap, None, "error")
    BY <1>2, FinishBecomes DEF SaveItemCommit, Answer
  <2> QED BY <1>2, <2>1 DEF SaveItemCommit, Becomes, TypeOK
<1>3. CASE rows[req[r].item] # None
  <2> DEFINE pc == IF req[r].answer = "invalid" /\ req[r].snap.image_key
                   THEN "unlink" ELSE "done"
             row == Merged(rows[req[r].item], req[r].snap, req[r].loaded)
  <2>1. row \in Row
    BY <1>1, <1>3, InFlightCopy, MergedType DEF TypeOK, SaveItemCommit
  <2>2. req[r].pc = "commit" /\ files' = files /\ rows' = [rows EXCEPT ![req[r].item] = row]
    BY <1>3 DEF SaveItemCommit
  <2>3. req' = [req EXCEPT ![r] = [@ EXCEPT !.pc = pc, !.loaded = None]]
    BY <1>3 DEF SaveItemCommit
  <2>4. pc \in PC
    BY DEF PC
  <2> HIDE DEF pc, row
  <2>5. Becomes(r, pc, req[r].snap, None, req[r].answer)
    BY <2>3, <2>4 DEF Becomes, Others, TypeOK, Call
  <2> QED BY <1>3, <2>1, <2>2, <2>5 DEF Becomes, TypeOK, pc, row
<1> QED BY <1>2, <1>3

LEMMA DirectoryExistsEffect ==
    ASSUME TypeOK, ControlInv, NEW r \in Request, DirectoryExists(r)
    PROVE  /\ TypeOK'
           /\ UNCHANGED <<rows, files>>
           /\ req[r].pc = "unlink"
           /\ \/ Becomes(r, "rmtree", req[r].snap, None, req[r].answer)
              \/ /\ req[r].item \notin files
                 /\ Becomes(r, "done", req[r].snap, None, req[r].answer)
<1>1. InFlight(r) /\ req[r].pc = "unlink"
  BY DEF DirectoryExists, InFlight
<1>2. req[r].loaded = None
  BY <1>1, InFlightCopy
<1>3. CASE req[r].item \in files
  <2>1. Becomes(r, "rmtree", req[r].snap, None, req[r].answer)
    BY <1>2, <1>3, GotoBecomes DEF DirectoryExists, PC
  <2> QED BY <1>1, <2>1 DEF DirectoryExists, Becomes, TypeOK
<1>4. CASE req[r].item \notin files
  <2>1. Becomes(r, "done", req[r].snap, None, req[r].answer)
    BY <1>2, <1>4, GotoBecomes DEF DirectoryExists, PC
  <2> QED BY <1>1, <1>4, <2>1 DEF DirectoryExists, Becomes, TypeOK
<1> QED BY <1>3, <1>4

LEMMA RemoveTreeEffect ==
    ASSUME TypeOK, ControlInv, NEW r \in Request, RemoveTree(r)
    PROVE  /\ TypeOK'
           /\ rows' = rows
           /\ req[r].pc = "rmtree"
           /\ files' = files \ {req[r].item}
           /\ \/ Becomes(r, "done", req[r].snap, None, req[r].answer)
              \/ Becomes(r, "done", req[r].snap, None, "error")
<1>1. InFlight(r)
  BY DEF RemoveTree, InFlight
<1>2. CASE req[r].item \in files
  <2>1. Becomes(r, "done", req[r].snap, None, req[r].answer)
    BY <1>1, <1>2, InFlightCopy, FinishBecomes DEF RemoveTree
  <2> QED BY <1>2, <2>1 DEF RemoveTree, Becomes, TypeOK
<1>3. CASE req[r].item \notin files
  <2>1. Becomes(r, "done", req[r].snap, None, "error")
    BY <1>3, FinishBecomes DEF RemoveTree, Answer
  <2> QED BY <1>3, <2>1 DEF RemoveTree, Becomes, TypeOK
<1> QED BY <1>2, <1>3

LEMMA DeleteRowEffect ==
    ASSUME TypeOK, ControlInv, NEW r \in Request, DeleteRow(r)
    PROVE  /\ TypeOK'
           /\ files' = files
           /\ req[r].pc = "drop"
           /\ rows' = [rows EXCEPT ![req[r].item] = None]
           /\ \/ rows[req[r].item] = None /\ Becomes(r, "done", req[r].snap, None, "not_found")
              \/ /\ rows[req[r].item] # None
                 /\ Becomes(r, IF req[r].snap.image_key THEN "unlink" ELSE "done",
                            req[r].snap, None, req[r].answer)
<1>1. InFlight(r) /\ req[r].pc = "drop"
  BY DEF DeleteRow, InFlight
<1>2. req[r].loaded = None
  BY <1>1, InFlightCopy
<1>3. CASE rows[req[r].item] = None
  <2>1. Becomes(r, "done", req[r].snap, None, "not_found")
    BY <1>3, FinishBecomes DEF DeleteRow, Answer
  <2> QED BY <1>1, <1>3, <2>1, InFlightCopy DEF DeleteRow, Becomes, TypeOK
<1>4. CASE rows[req[r].item] # None
  <2>1. Becomes(r, IF req[r].snap.image_key THEN "unlink" ELSE "done",
                req[r].snap, None, req[r].answer)
    BY <1>2, <1>4, GotoBecomes DEF DeleteRow, PC
  <2> QED BY <1>1, <1>4, <2>1, InFlightCopy DEF DeleteRow, Becomes, TypeOK
<1> QED BY <1>3, <1>4

LEMMA IsFileEffect ==
    ASSUME TypeOK, ControlInv, NEW r \in Request, IsFile(r)
    PROVE  /\ TypeOK'
           /\ UNCHANGED <<rows, files>>
           /\ req[r].pc = "check"
           /\ \/ Becomes(r, "serve", req[r].snap, None, req[r].answer)
              \/ /\ req[r].item \notin files
                 /\ Becomes(r, "done", req[r].snap, None, "not_found")
<1>1. InFlight(r) /\ req[r].pc = "check"
  BY DEF IsFile, InFlight
<1>2. CASE req[r].item \in files
  <2>1. Becomes(r, "serve", req[r].snap, None, req[r].answer)
    BY <1>1, <1>2, InFlightCopy, GotoBecomes DEF IsFile, PC
  <2> QED BY <1>1, <2>1 DEF IsFile, Becomes, TypeOK
<1>3. CASE req[r].item \notin files
  <2>1. Becomes(r, "done", req[r].snap, None, "not_found")
    BY <1>3, FinishBecomes DEF IsFile, Answer
  <2> QED BY <1>1, <1>3, <2>1 DEF IsFile, Becomes, TypeOK
<1> QED BY <1>2, <1>3

LEMMA SendFileEffect ==
    ASSUME TypeOK, NEW r \in Request, SendFile(r)
    PROVE  /\ TypeOK'
           /\ UNCHANGED <<rows, files>>
           /\ req[r].pc = "serve"
           /\ \/ /\ req[r].item \notin files
                 /\ Becomes(r, "done", req[r].snap, None, "error")
              \/ Becomes(r, "done", req[r].snap, None, "ok")
<1>1. CASE req[r].item \notin files
  <2>1. Becomes(r, "done", req[r].snap, None, "error")
    BY <1>1, FinishBecomes DEF SendFile, Answer
  <2> QED BY <1>1, <2>1 DEF SendFile, Becomes, TypeOK
<1>2. CASE req[r].item \in files
  <2>1. Becomes(r, "done", req[r].snap, None, "ok")
    BY <1>2, FinishBecomes DEF SendFile, Answer
  <2> QED BY <2>1 DEF SendFile, Becomes, TypeOK
<1> QED BY <1>1, <1>2

LEMMA CrashEffect ==
    ASSUME TypeOK, NEW r \in Request, Crash(r)
    PROVE  /\ TypeOK'
           /\ UNCHANGED <<rows, files>>
           /\ InFlight(r)
           /\ Becomes(r, "done", req[r].snap, None, "crashed")
<1>1. Becomes(r, "done", req[r].snap, None, "crashed")
  BY FinishBecomes DEF Crash, Answer
<1> QED BY <1>1 DEF Crash, Becomes, TypeOK

LEMMA NotNone ==
    /\ \A row \in Row : row # None
    /\ \A i \in Item : i # None
BY NoneAssumption

-----------------------------------------------------------------------------
(* The control flow *)

LEMMA ControlBegins ==
    ASSUME ControlInv, NEW r \in Request, NEW op, NEW u, NEW i \in Item, NEW row \in Row,
           NEW pc, pc \notin {"idle", "done", "commit"}, Fits(pc, op),
           Begins(r, op, u, i, row, pc)
    PROVE  ControlInv'
<1>1. ASSUME NEW q \in Request
      PROVE  ControlInv!(q)'
  <2>1. CASE q = r
    BY <2>1, NotNone DEF Begins, InFlight
  <2>2. CASE q # r
    BY <2>2 DEF Begins, Others, ControlInv, InFlight
  <2> QED BY <2>1, <2>2
<1> QED BY <1>1 DEF ControlInv

LEMMA ControlRefused ==
    ASSUME ControlInv, NEW r \in Request, NEW op, Refused(r, op)
    PROVE  ControlInv'
<1>1. ASSUME NEW q \in Request
      PROVE  ControlInv!(q)'
  <2>1. CASE q = r
    BY <2>1 DEF Refused, InFlight, Fits
  <2>2. CASE q # r
    BY <2>2 DEF Refused, Others, ControlInv, InFlight
  <2> QED BY <2>1, <2>2
<1> QED BY <1>1 DEF ControlInv

LEMMA ControlBecomes ==
    ASSUME ControlInv, NEW r \in Request, NEW pc, NEW snap, NEW loaded, NEW answer,
           InFlight(r), pc # "idle", Fits(pc, req[r].op), snap # None,
           pc = "commit" <=> loaded # None,
           answer = "invalid" => req[r].op = "upload",
           Becomes(r, pc, snap, loaded, answer)
    PROVE  ControlInv'
<1>1. ASSUME NEW q \in Request
      PROVE  ControlInv!(q)'
  <2>1. CASE q = r
    BY <2>1 DEF Becomes, ControlInv, InFlight
  <2>2. CASE q # r
    BY <2>2 DEF Becomes, Others, ControlInv, InFlight
  <2> QED BY <2>1, <2>2
<1> QED BY <1>1 DEF ControlInv

(* The types and the control flow are inductive by themselves. *)
LEMMA ControlStep ==
    ASSUME TypeOK, ControlInv,
           NEW r \in Request, Receive(r) \/ Work(r) \/ Crash(r)
    PROVE  TypeOK' /\ ControlInv'
<1>1. ASSUME NEW i \in Item, NEW u \in User, NEW c \in Closet, AddItem(r, i, u, c)
      PROVE  TypeOK' /\ ControlInv'
  BY <1>1, AddItemEffect, NewRowType, ControlBegins, ControlRefused DEF Fits
<1>2. ASSUME NEW i \in Item, NEW u \in User, NEW fields \in SUBSET Attr,
             UpdateItem(r, i, u, fields)
      PROVE  TypeOK' /\ ControlInv'
  <2>1. CASE Visible(i, u) /\ Begins(r, "patch", u, i, Edited(rows[i], r, fields), "save")
    <3>1. rows[i] \in Row
      BY <2>1 DEF Visible, TypeOK
    <3> QED BY <1>2, <2>1, <3>1, UpdateItemEffect, EditedType, ControlBegins DEF Fits
  <2>2. CASE Refused(r, "patch")
    BY <1>2, <2>2, UpdateItemEffect, ControlRefused
  <2> QED BY <1>2, <2>1, <2>2, UpdateItemEffect
<1>3. ASSUME NEW i \in Item, NEW u \in User, DeleteItem(r, i, u)
      PROVE  TypeOK' /\ ControlInv'
  <2>1. Visible(i, u) => rows[i] \in Row
    BY DEF Visible, TypeOK
  <2> QED BY <1>3, <2>1, DeleteItemEffect, ControlBegins, ControlRefused DEF Fits
<1>4. ASSUME NEW i \in Item, NEW u \in User, GetItemImage(r, i, u)
      PROVE  TypeOK' /\ ControlInv'
  <2>1. Visible(i, u) => rows[i] \in Row
    BY DEF Visible, TypeOK
  <2> QED BY <1>4, <2>1, GetItemImageEffect, ControlBegins, ControlRefused DEF Fits
<1>5. CASE StorageSave(r)
  <2>1. PICK snap \in Row : Becomes(r, "analyze", snap, None, req[r].answer)
    BY <1>5, StorageSaveEffect
  <2>2. ControlInv'
    BY <1>5, <2>1, StorageSaveEffect, NotNone, ControlBecomes DEF ControlInv, InFlight, Fits
  <2> QED BY <1>5, <2>2, StorageSaveEffect
<1>6. CASE StorageSaveFails(r)
  BY <1>6, StorageSaveFailsEffect, InFlightCopy, NotNone, ControlBecomes DEF ControlInv, InFlight, Fits
<1>7. CASE Analyze(r)
  <2>1. PICK snap \in Row : Becomes(r, "save", snap, None, req[r].answer)
    BY <1>7, AnalyzeEffect
  <2>2. ControlInv'
    BY <1>7, <2>1, AnalyzeEffect, NotNone, ControlBecomes DEF ControlInv, InFlight, Fits
  <2> QED BY <1>7, <2>2, AnalyzeEffect
<1>8. CASE AnalyzeInvalid(r)
  <2>1. PICK snap \in Row : Becomes(r, "save", snap, None, "invalid")
    BY <1>8, AnalyzeInvalidEffect
  <2>2. ControlInv'
    BY <1>8, <2>1, AnalyzeInvalidEffect, NotNone, ControlBecomes DEF ControlInv, InFlight, Fits
  <2> QED BY <1>8, <2>2, AnalyzeInvalidEffect
<1>9. CASE AnalyzeRaises(r)
  BY <1>9, AnalyzeRaisesEffect, InFlightCopy, NotNone, ControlBecomes DEF ControlInv, InFlight, Fits
<1>10. CASE SaveItemGet(r)
  BY <1>10, SaveItemGetEffect, InFlightCopy, NotNone, ControlBecomes DEF ControlInv, InFlight, Fits
<1>11. CASE SaveItemCommit(r)
  <2>1. req[r].pc = "commit" /\ TypeOK'
    BY <1>11, SaveItemCommitEffect
  <2>2. /\ InFlight(r) /\ req[r].snap # None
        /\ req[r].op \in {"upload", "patch"}
    BY <2>1, InFlightCopy, NotNone DEF ControlInv, InFlight, Fits
  <2>3. PICK pc \in {"unlink", "done"}, answer \in Answer :
          Becomes(r, pc, req[r].snap, None, answer) /\ (pc = "unlink" \/ answer = "invalid" => req[r].op = "upload")
    BY <1>11, <2>2, SaveItemCommitEffect, InFlightCopy DEF Answer, ControlInv
  <2> QED BY <2>1, <2>2, <2>3, ControlBecomes DEF Fits
<1>12. CASE DirectoryExists(r)
  BY <1>12, DirectoryExistsEffect, InFlightCopy, NotNone, ControlBecomes DEF ControlInv, InFlight, Fits
<1>13. CASE RemoveTree(r)
  BY <1>13, RemoveTreeEffect, InFlightCopy, NotNone, ControlBecomes DEF ControlInv, InFlight, Fits
<1>14. CASE DeleteRow(r)
  BY <1>14, DeleteRowEffect, InFlightCopy, NotNone, ControlBecomes DEF ControlInv, InFlight, Fits
<1>15. CASE IsFile(r)
  BY <1>15, IsFileEffect, InFlightCopy, NotNone, ControlBecomes DEF ControlInv, InFlight, Fits
<1>16. CASE SendFile(r)
  BY <1>16, SendFileEffect, InFlightCopy, NotNone, ControlBecomes DEF ControlInv, InFlight, Fits
<1>17. CASE Crash(r)
  BY <1>17, CrashEffect, InFlightCopy, NotNone, ControlBecomes DEF ControlInv, InFlight, Fits
<1> QED
  BY <1>1, <1>2, <1>3, <1>4, <1>5, <1>6, <1>7, <1>8, <1>9, <1>10, <1>11, <1>12, <1>13, <1>14, <1>15, <1>16, <1>17 DEF Receive, Work

-----------------------------------------------------------------------------
(* The three ways a request is received, and what every later step shares *)

Uploads(r) ==
    \E i \in Item, u \in User, c \in Closet :
        /\ Fresh(i)
        /\ Owner[c] = u
        /\ rows' = [rows EXCEPT ![i] = NewRow(c)]
        /\ files' = files
        /\ Begins(r, "upload", u, i, NewRow(c), "store")

Copies(r) ==
    \E i \in Item, u \in User, op \in {"patch", "delete", "image"}, row \in Row,
       pc \in {"save", "drop", "check"} :
        /\ Visible(i, u)
        /\ row.closet = rows[i].closet
        /\ row.status = rows[i].status
        /\ row.image_key = rows[i].image_key
        /\ UNCHANGED <<rows, files>>
        /\ Begins(r, op, u, i, row, pc)

Refuses(r) ==
    /\ UNCHANGED <<rows, files>>
    /\ \E op \in Op : Refused(r, op)

LEMMA ReceiveShape ==
    ASSUME TypeOK, NEW r \in Request, Receive(r)
    PROVE  req[r].pc = "idle" /\ (Uploads(r) \/ Copies(r) \/ Refuses(r))
<1>1. ASSUME NEW i \in Item, NEW u \in User, NEW c \in Closet, AddItem(r, i, u, c)
      PROVE  req[r].pc = "idle" /\ (Uploads(r) \/ Refuses(r))
  BY <1>1, AddItemEffect DEF Uploads, Refuses, Op
<1>2. ASSUME NEW i \in Item, NEW u \in User, NEW fields \in SUBSET Attr,
             UpdateItem(r, i, u, fields)
      PROVE  req[r].pc = "idle" /\ (Copies(r) \/ Refuses(r))
  <2>1. CASE Visible(i, u) /\ Begins(r, "patch", u, i, Edited(rows[i], r, fields), "save")
    <3>1. rows[i] \in Row
      BY <2>1 DEF Visible, TypeOK
    <3> QED BY <1>2, <2>1, <3>1, UpdateItemEffect, EditedType DEF Copies
  <2>2. CASE Refused(r, "patch")
    BY <1>2, <2>2, UpdateItemEffect DEF Refuses, Op
  <2> QED BY <1>2, <2>1, <2>2, UpdateItemEffect
<1>3. ASSUME NEW i \in Item, NEW u \in User, DeleteItem(r, i, u)
      PROVE  req[r].pc = "idle" /\ (Copies(r) \/ Refuses(r))
  <2>1. CASE Visible(i, u) /\ Begins(r, "delete", u, i, rows[i], "drop")
    <3>1. rows[i] \in Row
      BY <2>1 DEF Visible, TypeOK
    <3> QED BY <1>3, <2>1, <3>1, DeleteItemEffect DEF Copies
  <2>2. CASE Refused(r, "delete")
    BY <1>3, <2>2, DeleteItemEffect DEF Refuses, Op
  <2> QED BY <1>3, <2>1, <2>2, DeleteItemEffect
<1>4. ASSUME NEW i \in Item, NEW u \in User, GetItemImage(r, i, u)
      PROVE  req[r].pc = "idle" /\ (Copies(r) \/ Refuses(r))
  <2>1. CASE Visible(i, u) /\ Begins(r, "image", u, i, rows[i], "check")
    <3>1. rows[i] \in Row
      BY <2>1 DEF Visible, TypeOK
    <3> QED BY <1>4, <2>1, <3>1, GetItemImageEffect DEF Copies
  <2>2. CASE Refused(r, "image")
    BY <1>4, <2>2, GetItemImageEffect DEF Refuses, Op
  <2> QED BY <1>4, <2>1, <2>2, GetItemImageEffect
<1> QED BY <1>1, <1>2, <1>3, <1>4 DEF Receive

(* A step of a request in flight touches its own item only, creates no row, *)
(* and keeps the item, operation, user and closet of the call.              *)
Works(r) ==
    /\ InFlight(r)
    /\ \E pc \in PC, snap \in Row, loaded \in Row \cup {None}, answer \in Answer :
          /\ pc # "idle"
          /\ snap.closet = req[r].snap.closet
          /\ loaded \in {None, rows[req[r].item]}
          /\ Becomes(r, pc, snap, loaded, answer)
    /\ \A i \in Item : i # req[r].item => rows'[i] = rows[i] /\ (i \in files' <=> i \in files)
    /\ rows'[req[r].item] # None => rows[req[r].item] # None

LEMMA WorkShape ==
    ASSUME TypeOK, ControlInv, NEW r \in Request, Work(r) \/ Crash(r)
    PROVE  Works(r)
<1>1. CASE StorageSave(r)
  <2>1. InFlight(r)
    BY <1>1, StorageSaveEffect DEF InFlight
  <2> QED BY <1>1, <2>1, StorageSaveEffect, InFlightCopy DEF Works, PC, Answer, TypeOK
<1>2. CASE StorageSaveFails(r)
  <2>1. InFlight(r)
    BY <1>2, StorageSaveFailsEffect DEF InFlight
  <2> QED BY <1>2, <2>1, StorageSaveFailsEffect, InFlightCopy DEF Works, PC, Answer, TypeOK
<1>3. CASE Analyze(r)
  <2>1. InFlight(r)
    BY <1>3, AnalyzeEffect DEF InFlight
  <2> QED BY <1>3, <2>1, AnalyzeEffect, InFlightCopy DEF Works, PC, Answer, TypeOK
<1>4. CASE AnalyzeInvalid(r)
  <2>1. InFlight(r)
    BY <1>4, AnalyzeInvalidEffect DEF InFlight
  <2> QED BY <1>4, <2>1, AnalyzeInvalidEffect, InFlightCopy DEF Works, PC, Answer, TypeOK
<1>5. CASE AnalyzeRaises(r)
  <2>1. InFlight(r)
    BY <1>5, AnalyzeRaisesEffect DEF InFlight
  <2> QED BY <1>5, <2>1, AnalyzeRaisesEffect, InFlightCopy DEF Works, PC, Answer, TypeOK
<1>6. CASE SaveItemGet(r)
  <2>1. InFlight(r)
    BY <1>6, SaveItemGetEffect DEF InFlight
  <2> QED BY <1>6, <2>1, SaveItemGetEffect, InFlightCopy DEF Works, PC, Answer, TypeOK
<1>7. CASE SaveItemCommit(r)
  <2>1. InFlight(r)
    BY <1>7, SaveItemCommitEffect DEF InFlight
  <2> QED BY <1>7, <2>1, SaveItemCommitEffect, InFlightCopy DEF Works, PC, Answer, TypeOK
<1>8. CASE DirectoryExists(r)
  <2>1. InFlight(r)
    BY <1>8, DirectoryExistsEffect DEF InFlight
  <2> QED BY <1>8, <2>1, DirectoryExistsEffect, InFlightCopy DEF Works, PC, Answer, TypeOK
<1>9. CASE RemoveTree(r)
  <2>1. InFlight(r)
    BY <1>9, RemoveTreeEffect DEF InFlight
  <2> QED BY <1>9, <2>1, RemoveTreeEffect, InFlightCopy DEF Works, PC, Answer, TypeOK
<1>10. CASE DeleteRow(r)
  <2>1. InFlight(r)
    BY <1>10, DeleteRowEffect DEF InFlight
  <2> QED BY <1>10, <2>1, DeleteRowEffect, InFlightCopy DEF Works, PC, Answer, TypeOK
<1>11. CASE IsFile(r)
  <2>1. InFlight(r)
    BY <1>11, IsFileEffect DEF InFlight
  <2> QED BY <1>11, <2>1, IsFileEffect, InFlightCopy DEF Works, PC, Answer, TypeOK
<1>12. CASE SendFile(r)
  <2>1. InFlight(r)
    BY <1>12, SendFileEffect DEF InFlight
  <2> QED BY <1>12, <2>1, SendFileEffect, InFlightCopy DEF Works, PC, Answer, TypeOK
<1>13. CASE Crash(r)
  <2>1. InFlight(r)
    BY <1>13, CrashEffect DEF InFlight
  <2> QED BY <1>13, <2>1, CrashEffect, InFlightCopy DEF Works, PC, Answer, TypeOK
<1> QED BY <1>1, <1>2, <1>3, <1>4, <1>5, <1>6, <1>7, <1>8, <1>9, <1>10, <1>11, <1>12, <1>13 DEF Work

-----------------------------------------------------------------------------
(* Births, closets and deletions *)

LEMMA BirthStep ==
    ASSUME TypeOK, ControlInv, BirthInv,
           NEW r \in Request, Receive(r) \/ Work(r) \/ Crash(r)
    PROVE  BirthInv'
<1>1. CASE Uploads(r) /\ req[r].pc = "idle"
  <2>1. PICK i \in Item, row \in Row :
          /\ Fresh(i)
          /\ rows' = [rows EXCEPT ![i] = row]
          /\ files' = files
          /\ req'[r].item = i /\ req'[r].op = "upload"
          /\ Others(r)
    BY <1>1, NewRowType DEF Uploads, Begins
  <2>2. req[r].item = None
    BY <1>1 DEF ControlInv
  <2>3. \A j \in Item : j # i => (Fresh(j)' <=> Fresh(j))
    BY <2>1, <2>2, NotNone DEF Fresh, Others
  <2>4. ~Fresh(i)' /\ Uploader(r, i)'
    BY <2>1 DEF Fresh, Uploader
  <2>5. ASSUME NEW u \in Request, NEW j \in Item, u # r
        PROVE  Uploader(u, j)' <=> Uploader(u, j)
    BY <2>1, <2>5 DEF Uploader, Others
  <2>6. \A u \in Request : ~Uploader(u, i) /\ \A j \in Item : ~Uploader(r, j)
    BY <2>1, <2>2, NotNone DEF Uploader, Fresh
  <2>7. \A j \in Item : Uploader(r, j)' => j = i
    BY <2>1 DEF Uploader
  <2>8. \A j \in Item : j # i => rows'[j] = rows[j]
    BY <2>1 DEF TypeOK
  <2>9. \A j \in Item : Fresh(j)' => rows'[j] = None /\ j \notin files'
    BY <2>1, <2>3, <2>4, <2>8 DEF BirthInv
  <2>10. \A j \in Item : ~Fresh(j)' => \E u \in Request : Uploader(u, j)'
    BY <2>3, <2>4, <2>5, <2>6 DEF BirthInv
  <2>11. \A u, v \in Request, j \in Item : Uploader(u, j)' /\ Uploader(v, j)' => u = v
    BY <2>5, <2>6, <2>7 DEF BirthInv
  <2> QED BY <2>9, <2>10, <2>11 DEF BirthInv
<1>2. ASSUME UNCHANGED <<rows, files>>, req[r].pc = "idle", Others(r),
             NEW i \in Item \cup {None}, req'[r].item = i, i # None => ~Fresh(i),
             req'[r].op # "upload" \/ i = None
      PROVE  BirthInv'
  <2>1. req[r].item = None
    BY <1>2 DEF ControlInv
  <2>2. \A j \in Item : Fresh(j)' <=> Fresh(j)
    BY <1>2, <2>1, NotNone DEF Fresh, Others
  <2>3. \A u \in Request, j \in Item : Uploader(u, j)' <=> Uploader(u, j)
    BY <1>2, <2>1, NotNone DEF Uploader, Others
  <2> QED BY <1>2, <2>2, <2>3 DEF BirthInv
<1>3. CASE Copies(r) /\ req[r].pc = "idle"
  <2>1. PICK i \in Item, u \in User : /\ Visible(i, u) /\ UNCHANGED <<rows, files>>
                                    /\ req'[r].item = i /\ req'[r].op # "upload"
                                    /\ Others(r)
    BY <1>3 DEF Copies, Begins
  <2>2. ~Fresh(i)
    BY <2>1 DEF Visible, BirthInv
  <2> QED BY <1>2, <1>3, <2>1, <2>2
<1>4. CASE Refuses(r) /\ req[r].pc = "idle"
  BY <1>2, <1>4 DEF Refuses, Refused
<1>5. CASE Works(r)
  <2>1. /\ Others(r) /\ req'[r].item = req[r].item /\ req'[r].op = req[r].op
        /\ InFlight(r) /\ req[r].item \in Item
    BY <1>5, InFlightCopy DEF Works, Becomes
  <2>2. \A j \in Item : Fresh(j)' <=> Fresh(j)
    BY <2>1 DEF Fresh, Others
  <2>3. \A u \in Request, j \in Item : Uploader(u, j)' <=> Uploader(u, j)
    BY <2>1 DEF Uploader, Others
  <2>4. ~Fresh(req[r].item)
    BY DEF Fresh
  <2>5. \A j \in Item : Fresh(j) => rows'[j] = rows[j] /\ (j \in files' <=> j \in files)
    BY <1>5, <2>4 DEF Works
  <2> QED BY <2>2, <2>3, <2>5 DEF BirthInv
<1> QED BY <1>1, <1>3, <1>4, <1>5, ReceiveShape, WorkShape

(* A save writes back the closet its copy was read with. *)
LEMMA CommitCloset ==
    ASSUME TypeOK, ControlInv, ClosetInv, NEW r \in Request, Work(r) \/ Crash(r)
    PROVE  rows'[req[r].item] # None => rows'[req[r].item].closet = rows[req[r].item].closet
<1>1. CASE SaveItemCommit(r) /\ rows' # rows
  <2>1. /\ req[r].pc = "commit"
        /\ rows[req[r].item] # None
        /\ rows' = [rows EXCEPT ![req[r].item] =
                      Merged(rows[req[r].item], req[r].snap, req[r].loaded)]
    BY <1>1, SaveItemCommitEffect
  <2>2. InFlight(r)
    BY <2>1 DEF InFlight
  <2>3. /\ req[r].item \in Item /\ req[r].loaded \in Row
    BY <2>1, <2>2, InFlightCopy
  <2>4. rows'[req[r].item] = Merged(rows[req[r].item], req[r].snap, req[r].loaded)
    BY <2>1, <2>3 DEF TypeOK
  <2>5. req[r].loaded.closet = req[r].snap.closet
    BY <2>3, NotNone DEF ClosetInv
  <2> QED BY <2>4, <2>5 DEF Merged
<1>2. CASE DeleteRow(r)
  <2>1. /\ req[r].pc = "drop" /\ rows' = [rows EXCEPT ![req[r].item] = None]
    BY <1>2, DeleteRowEffect
  <2>2. req[r].item \in Item
    BY <2>1, InFlightCopy DEF InFlight
  <2> QED BY <2>1, <2>2 DEF TypeOK
<1>3. CASE rows' = rows
  BY <1>3
<1> QED
  BY <1>1, <1>2, <1>3 DEF Work, Crash, StorageSave, StorageSaveFails, Analyze, AnalyzeInvalid,
     AnalyzeRaises, SaveItemGet, DirectoryExists, RemoveTree, IsFile, SendFile

LEMMA ClosetStep ==
    ASSUME TypeOK, ControlInv, BirthInv, ClosetInv,
           NEW r \in Request, Receive(r) \/ Work(r) \/ Crash(r)
    PROVE  ClosetInv'
<1>1. CASE Uploads(r) /\ req[r].pc = "idle"
  <2>1. PICK i \in Item, u \in User, c \in Closet :
          /\ Fresh(i) /\ Owner[c] = u
          /\ rows' = [rows EXCEPT ![i] = NewRow(c)]
          /\ Begins(r, "upload", u, i, NewRow(c), "store")
    BY <1>1 DEF Uploads
  <2>2. ASSUME NEW q \in Request PROVE ClosetInv!(q)'
    <3>1. CASE q = r
      BY <2>1, <3>1 DEF Begins, NewRow, TypeOK
    <3>2. CASE q # r
      <4>1. req'[q] = req[q] /\ req[q].item # i
        BY <2>1, <3>2 DEF Begins, Others, Fresh
      <4>2. req[q].item # None => rows'[req[q].item] = rows[req[q].item]
        BY <2>1, <4>1 DEF TypeOK, Call
      <4> QED BY <4>1, <4>2 DEF ClosetInv
    <3> QED BY <3>1, <3>2
  <2> QED BY <2>2 DEF ClosetInv
<1>2. CASE Copies(r)
  <2>1. PICK i \in Item, u \in User, op \in {"patch", "delete", "image"}, row \in Row,
             pc \in {"save", "drop", "check"} :
          /\ Visible(i, u) /\ row.closet = rows[i].closet
          /\ rows' = rows
          /\ Begins(r, op, u, i, row, pc)
    BY <1>2 DEF Copies
  <2> QED BY <2>1 DEF Begins, Others, Visible, ClosetInv
<1>3. CASE Refuses(r)
  BY <1>3 DEF Refuses, Refused, Others, ClosetInv
<1>4. CASE Works(r) /\ (Work(r) \/ Crash(r))
  <2>1. PICK pc \in PC, snap \in Row, loaded \in Row \cup {None}, answer \in Answer :
          /\ snap.closet = req[r].snap.closet
          /\ loaded \in {None, rows[req[r].item]}
          /\ Becomes(r, pc, snap, loaded, answer)
    BY <1>4 DEF Works
  <2>2. /\ req[r].item \in Item
        /\ rows'[req[r].item] # None =>
             /\ rows[req[r].item] # None
             /\ rows'[req[r].item].closet = rows[req[r].item].closet
    BY <1>4, InFlightCopy, CommitCloset DEF Works
  <2>3. \A i \in Item : rows'[i] # None =>
          rows[i] # None /\ rows'[i].closet = rows[i].closet
    BY <1>4, <2>2 DEF Works
  <2>4. ASSUME NEW q \in Request PROVE ClosetInv!(q)'
    <3>1. CASE q = r
      BY <2>1, <2>2, <2>3, <3>1, NotNone DEF Becomes, ClosetInv
    <3>2. CASE q # r
      <4>1. req'[q] = req[q] /\ req[q].item \in Item \cup {None}
        BY <2>1, <3>2 DEF Becomes, Others, TypeOK, Call
      <4> QED BY <4>1, <2>3 DEF ClosetInv
    <3> QED BY <3>1, <3>2
  <2> QED BY <2>4 DEF ClosetInv
<1> QED BY <1>1, <1>2, <1>3, <1>4, ReceiveShape, WorkShape

-----------------------------------------------------------------------------
(* Statuses and image keys *)

(* The two facts a commit rests on: the written copy and the loaded row have  *)
(* the same status and key, or one of them is still processing.               *)
LEMMA CommitCopies ==
    ASSUME IInv, NEW r \in Request, req[r].pc = "commit"
    PROVE  /\ req[r].item \in Item /\ req[r].snap \in Row /\ req[r].loaded \in Row
           /\ Paired(req[r].snap)
           /\ Paired(req[r].loaded)
           /\ \/ req[r].snap.status = req[r].loaded.status
              \/ req[r].snap.status = "processing"
              \/ req[r].loaded.status = "processing"
<1>1. /\ InFlight(r) /\ req[r].op \in {"upload", "patch"}
      /\ req[r].item \in Item /\ req[r].snap \in Row /\ req[r].loaded \in Row
      /\ req[r].item # None /\ req[r].loaded # None
  <2>1. InFlight(r)
    BY DEF InFlight
  <2> QED BY <2>1, InFlightCopy, NotNone DEF IInv, ControlInv, Fits
<1>2. Paired(req[r].snap) /\ Paired(req[r].loaded)
  BY <1>1 DEF IInv, PairInv, PairOf, Paired
<1>3. PICK u \in Request : Uploader(u, req[r].item)
  BY <1>1 DEF IInv, BirthInv, Fresh
<1>4. \/ req[r].snap.status = req[r].loaded.status
      \/ req[r].snap.status = "processing"
      \/ req[r].loaded.status = "processing"
  BY <1>1, <1>3 DEF IInv, VerdictInv, VerdictOf
<1> QED BY <1>1, <1>2, <1>4

LEMMA MergedPaired ==
    ASSUME NEW row \in Row, NEW item \in Row, NEW loaded \in Row,
           Paired(row), Paired(item), Paired(loaded),
           \/ item.status = loaded.status
           \/ item.status = "processing"
           \/ loaded.status = "processing"
    PROVE  /\ Paired(Merged(row, item, loaded))
           /\ Merged(row, item, loaded).status \in {row.status, item.status}
           /\ item.status # loaded.status => Merged(row, item, loaded).status = item.status
BY DEF Paired, Merged, Row

LEMMA KeyStep ==
    ASSUME IInv, NEW r \in Request, Receive(r) \/ Work(r) \/ Crash(r)
    PROVE  KeyFollowsStatus'
<1> TypeOK /\ ControlInv /\ KeyFollowsStatus
  BY DEF IInv, PairInv
<1>1. CASE Receive(r)
  <2>1. CASE Uploads(r)
    BY <2>1 DEF Uploads, NewRow, KeyFollowsStatus, TypeOK
  <2>2. CASE rows' = rows
    BY <2>2 DEF KeyFollowsStatus
  <2> QED BY <1>1, <2>1, <2>2, ReceiveShape DEF Copies, Refuses
<1>2. CASE SaveItemCommit(r) /\ rows' # rows
  <2>1. /\ req[r].pc = "commit"
        /\ rows[req[r].item] # None
        /\ rows' = [rows EXCEPT ![req[r].item] =
                      Merged(rows[req[r].item], req[r].snap, req[r].loaded)]
    BY <1>2, SaveItemCommitEffect
  <2>2. Paired(rows[req[r].item]) /\ rows[req[r].item] \in Row
    BY <2>1, CommitCopies DEF KeyFollowsStatus, Paired, TypeOK
  <2>3. Paired(Merged(rows[req[r].item], req[r].snap, req[r].loaded))
    BY <2>1, <2>2, CommitCopies, MergedPaired
  <2> QED BY <2>1, <2>3 DEF KeyFollowsStatus, Paired, TypeOK
<1>3. CASE DeleteRow(r)
  BY <1>3, DeleteRowEffect DEF KeyFollowsStatus, TypeOK
<1>4. CASE rows' = rows
  BY <1>4 DEF KeyFollowsStatus
<1> QED
  BY <1>1, <1>2, <1>3, <1>4 DEF Work, Crash, StorageSave, StorageSaveFails, Analyze,
     AnalyzeInvalid, AnalyzeRaises, SaveItemGet, DirectoryExists, RemoveTree, IsFile, SendFile

LEMMA PairStep ==
    ASSUME IInv, NEW r \in Request, Receive(r) \/ Work(r) \/ Crash(r)
    PROVE  PairInv'
<1> TypeOK /\ ControlInv /\ KeyFollowsStatus /\ PairOf(r)
  BY DEF IInv, PairInv
<1>1. Others(r) /\ PairOf(r)' => PairInv'
  BY KeyStep DEF IInv, PairInv, PairOf, Others
<1>2. CASE Receive(r)
  <2>1. CASE Uploads(r)
    BY <1>1, <2>1 DEF Uploads, Begins, NewRow, PairOf
  <2>2. CASE Copies(r)
    BY <1>1, <2>2 DEF Copies, Begins, Visible, PairOf, Paired, KeyFollowsStatus
  <2>3. CASE Refuses(r)
    BY <1>1, <2>3 DEF Refuses, Refused, PairOf
  <2> QED BY <1>2, <2>1, <2>2, <2>3, ReceiveShape
<1>3. CASE StorageSave(r)
  BY <1>1, <1>3, StorageSaveEffect DEF Becomes, PairOf, Paired, InFlight, ControlInv, Fits
<1>4. CASE StorageSaveFails(r)
  BY <1>1, <1>4, StorageSaveFailsEffect DEF Becomes, PairOf, Paired, InFlight, ControlInv, Fits
<1>5. CASE Analyze(r)
  BY <1>1, <1>5, AnalyzeEffect DEF Becomes, PairOf, Paired, InFlight, ControlInv, Fits
<1>6. CASE AnalyzeInvalid(r)
  BY <1>1, <1>6, AnalyzeInvalidEffect DEF Becomes, PairOf, Paired, InFlight, ControlInv, Fits
<1>7. CASE AnalyzeRaises(r)
  BY <1>1, <1>7, AnalyzeRaisesEffect DEF Becomes, PairOf, Paired, InFlight, ControlInv, Fits
<1>8. CASE SaveItemGet(r)
  <2>1. req[r].item \in Item /\ req[r].item # None
    BY <1>8, InFlightCopy, NotNone DEF SaveItemGet, InFlight
  <2> QED BY <1>1, <1>8, <2>1, SaveItemGetEffect DEF Becomes, PairOf, Paired, KeyFollowsStatus
<1>9. CASE SaveItemCommit(r)
  BY <1>1, <1>9, SaveItemCommitEffect DEF Becomes, PairOf, Paired, InFlight, ControlInv, Fits
<1>10. CASE DirectoryExists(r)
  BY <1>1, <1>10, DirectoryExistsEffect DEF Becomes, PairOf, Paired, InFlight, ControlInv, Fits
<1>11. CASE RemoveTree(r)
  BY <1>1, <1>11, RemoveTreeEffect DEF Becomes, PairOf, Paired, InFlight, ControlInv, Fits
<1>12. CASE DeleteRow(r)
  BY <1>1, <1>12, DeleteRowEffect DEF Becomes, PairOf, Paired, InFlight, ControlInv, Fits
<1>13. CASE IsFile(r)
  BY <1>1, <1>13, IsFileEffect DEF Becomes, PairOf, Paired, InFlight, ControlInv, Fits
<1>14. CASE SendFile(r)
  BY <1>1, <1>14, SendFileEffect DEF Becomes, PairOf, Paired, InFlight, ControlInv, Fits
<1>15. CASE Crash(r)
  BY <1>1, <1>15, CrashEffect DEF Becomes, PairOf, Paired, InFlight, ControlInv, Fits
<1> QED BY <1>2, <1>3, <1>4, <1>5, <1>6, <1>7, <1>8, <1>9, <1>10, <1>11, <1>12, <1>13, <1>14, <1>15 DEF Work

(* Steps that change no status and load nothing keep the verdicts. *)
LEMMA VerdictKept ==
    ASSUME IInv, NEW r \in Request, InFlight(r), NEW pc, NEW snap, NEW answer,
           Becomes(r, pc, snap, None, answer),
           snap.status = req[r].snap.status,
           Saved(r) => pc \in {"unlink", "rmtree", "done"},
           \A i \in Item : rows'[i] \in {rows[i], None}
    PROVE  VerdictInv'
<1>1. ASSUME NEW u \in Request, NEW i \in Item, Uploader(u, i)'
      PROVE  VerdictOf(u, i)'
  <2>1. Uploader(u, i) /\ VerdictOf(u, i)
    BY <1>1 DEF Uploader, Becomes, Others, IInv, VerdictInv
  <2>2. Saved(u) => Saved(u)'
    BY DEF Saved, Becomes, Others
  <2>3. req'[u].snap.status = req[u].snap.status
    BY DEF Becomes, Others
  <2>4. rows'[i] \in {rows[i], None}
    OBVIOUS
  <2>5. ASSUME NEW q \in Request
        PROVE  /\ req'[q].item = req[q].item
               /\ req'[q].snap.status = req[q].snap.status
               /\ req'[q].loaded \in {req[q].loaded, None}
    BY DEF Becomes, Others
  <2> QED BY <2>1, <2>2, <2>3, <2>4, <2>5 DEF VerdictOf
<1> QED BY <1>1 DEF VerdictInv

(* Nobody else has settled an item whose upload has not saved yet. *)
LEMMA UnsavedVerdict ==
    ASSUME IInv, NEW r \in Request, req[r].op = "upload", InFlight(r), ~Saved(r)
    PROVE  /\ req[r].item \in Item
           /\ rows[req[r].item] # None => rows[req[r].item].status = "processing"
           /\ \A q \in Request \ {r} : req[q].item = req[r].item =>
                /\ req[q].snap.status = "processing"
                /\ req[q].loaded # None => req[q].loaded.status = "processing"
           /\ \A u \in Request : Uploader(u, req[r].item) => u = r
<1>1. req[r].item \in Item /\ Uploader(r, req[r].item)
  BY InFlightCopy DEF IInv, Uploader
<1> QED BY <1>1 DEF IInv, BirthInv, VerdictInv, VerdictOf

LEMMA VerdictReceive ==
    ASSUME IInv, NEW r \in Request, Receive(r)
    PROVE  VerdictInv'
<1> TypeOK
  BY DEF IInv
<1>0. req[r].item = None
  BY ReceiveShape DEF IInv, ControlInv
<1>1. CASE Uploads(r)
  <2>1. PICK j \in Item, v \in User, c \in Closet :
          /\ Fresh(j)
          /\ rows' = [rows EXCEPT ![j] = NewRow(c)]
          /\ Begins(r, "upload", v, j, NewRow(c), "store")
    BY <1>1 DEF Uploads
  <2>2. ASSUME NEW u \in Request, NEW i \in Item, Uploader(u, i)'
        PROVE  VerdictOf(u, i)'
    <3>1. CASE i = j
      <4>1. u = r /\ \A q \in Request \ {r} : req'[q].item # i
        BY <2>1, <2>2, <3>1 DEF Uploader, Begins, Others, Fresh
      <4>2. rows'[i].status = "processing" /\ req'[r].loaded = None
        BY <2>1, <3>1 DEF Begins, TypeOK, NewRow
      <4> QED BY <4>1, <4>2 DEF VerdictOf
    <3>2. CASE i # j
      <4>1. u # r /\ Uploader(u, i) /\ req'[u] = req[u] /\ rows'[i] = rows[i]
        BY <2>1, <2>2, <3>2 DEF Uploader, Begins, Others, TypeOK
      <4>2. VerdictOf(u, i)
        BY <4>1 DEF IInv, VerdictInv
      <4>3. \A q \in Request : req'[q].item = i => req'[q] = req[q]
        BY <2>1, <3>2 DEF Begins, Others
      <4> QED BY <4>1, <4>2, <4>3 DEF VerdictOf, Saved
    <3> QED BY <3>1, <3>2
  <2> QED BY <2>2 DEF VerdictInv
<1>2. CASE Copies(r)
  <2>1. PICK j \in Item, v \in User, op \in {"patch", "delete", "image"}, row \in Row,
             pc \in {"save", "drop", "check"} :
          /\ Visible(j, v)
          /\ row.status = rows[j].status
          /\ UNCHANGED rows
          /\ Begins(r, op, v, j, row, pc)
    BY <1>2 DEF Copies
  <2>2. ASSUME NEW u \in Request, NEW i \in Item, Uploader(u, i)'
        PROVE  VerdictOf(u, i)'
    <3>1. u # r /\ Uploader(u, i) /\ req'[u] = req[u] /\ rows'[i] = rows[i]
      BY <2>1, <2>2 DEF Uploader, Begins, Others
    <3>2. VerdictOf(u, i)
      BY <3>1 DEF IInv, VerdictInv
    <3>3. req'[r].item = i => /\ rows[i] # None
                             /\ req'[r].snap.status = rows[i].status
                             /\ req'[r].loaded = None
      BY <2>1 DEF Begins, Visible
    <3>4. \A q \in Request \ {r} : req'[q] = req[q]
      BY <2>1 DEF Begins, Others
    <3> QED BY <3>1, <3>2, <3>3, <3>4 DEF VerdictOf, Saved
  <2> QED BY <2>2 DEF VerdictInv
<1>3. CASE Refuses(r)
  <2>1. Others(r) /\ req'[r].item = None /\ rows' = rows
    BY <1>3 DEF Refuses, Refused
  <2>2. ASSUME NEW u \in Request, NEW i \in Item, Uploader(u, i)'
        PROVE  VerdictOf(u, i)'
    <3>1. u # r /\ Uploader(u, i) /\ req'[u] = req[u]
      BY <2>1, <2>2, NotNone DEF Uploader, Others
    <3>2. VerdictOf(u, i) /\ \A q \in Request : req'[q].item = i => req'[q] = req[q]
      BY <2>1, <3>1, NotNone DEF IInv, VerdictInv, Others
    <3> QED BY <2>1, <3>1, <3>2 DEF VerdictOf, Saved
  <2> QED BY <2>2 DEF VerdictInv
<1> QED BY <1>1, <1>2, <1>3, ReceiveShape

LEMMA VerdictAnalyze ==
    ASSUME IInv, NEW r \in Request, Analyze(r) \/ AnalyzeInvalid(r)
    PROVE  VerdictInv'
<1> TypeOK /\ ControlInv
  BY DEF IInv
<1>1. /\ req[r].pc = "analyze" /\ req[r].op = "upload" /\ InFlight(r) /\ ~Saved(r)
      /\ rows' = rows
      /\ \E snap, answer : Becomes(r, "save", snap, None, answer)
  BY AnalyzeEffect, AnalyzeInvalidEffect DEF InFlight, Saved, ControlInv, Fits
<1>2. ASSUME NEW u \in Request, NEW i \in Item, Uploader(u, i)'
      PROVE  VerdictOf(u, i)'
  <2>1. Uploader(u, i) /\ VerdictOf(u, i)
    BY <1>1, <1>2 DEF Uploader, Becomes, Others, IInv, VerdictInv
  <2>2. CASE u = r
    <3>1. req[r].item = i
      BY <2>1, <2>2 DEF Uploader
    <3>2. \A q \in Request \ {r} : req'[q] = req[q]
      BY <1>1 DEF Becomes, Others
    <3>3. req'[r].loaded = None
      BY <1>1 DEF Becomes
    <3> QED BY <1>1, <2>2, <3>1, <3>2, <3>3, UnsavedVerdict DEF VerdictOf
  <2>3. CASE u # r
    <3>1. req[r].item # i
      BY <1>1, <2>1, <2>3, UnsavedVerdict
    <3>2. \A q \in Request : req'[q].item = i => req'[q] = req[q]
      BY <1>1, <3>1 DEF Becomes, Others
    <3>3. req'[u] = req[u]
      BY <1>1, <2>3 DEF Becomes, Others
    <3> QED BY <1>1, <2>1, <3>2, <3>3 DEF VerdictOf, Saved
  <2> QED BY <2>2, <2>3
<1> QED BY <1>2 DEF VerdictInv

LEMMA VerdictGet ==
    ASSUME IInv, NEW r \in Request, SaveItemGet(r)
    PROVE  VerdictInv'
<1> TypeOK /\ ControlInv
  BY DEF IInv
<1>1. InFlight(r) /\ ~Saved(r) /\ rows' = rows
  BY SaveItemGetEffect DEF InFlight, Saved
<1>2. CASE Becomes(r, "done", req[r].snap, None, "error")
  BY <1>1, <1>2, VerdictKept
<1>3. CASE /\ rows[req[r].item] # None
           /\ Becomes(r, "commit", req[r].snap, rows[req[r].item], req[r].answer)
  <2>1. ASSUME NEW u \in Request, NEW i \in Item, Uploader(u, i)'
        PROVE  VerdictOf(u, i)'
    <3>1. Uploader(u, i) /\ VerdictOf(u, i)
      BY <1>3, <2>1 DEF Uploader, Becomes, Others, IInv, VerdictInv
    <3>2. /\ req'[r].item = req[r].item
          /\ req'[r].snap = req[r].snap
          /\ req'[r].loaded = rows[req[r].item]
          /\ \A q \in Request \ {r} : req'[q] = req[q]
      BY <1>3 DEF Becomes, Others
    <3>3. Saved(u) => Saved(u)' /\ u # r
      BY <1>1, <3>2 DEF Saved
    <3>4. req'[u].snap = req[u].snap
      BY <3>2
    <3>5. u = r => rows[i] # None /\ rows[i].status = "processing" /\ req[r].item = i
      BY <1>1, <1>3, <3>1 DEF Uploader, VerdictOf
    <3> QED BY <1>1, <3>1, <3>2, <3>3, <3>4, <3>5 DEF VerdictOf
  <2> QED BY <2>1 DEF VerdictInv
<1> QED BY <1>2, <1>3, SaveItemGetEffect

LEMMA VerdictCommit ==
    ASSUME IInv, NEW r \in Request, SaveItemCommit(r)
    PROVE  VerdictInv'
<1> TypeOK /\ ControlInv
  BY DEF IInv
<1>1. InFlight(r) /\ ~Saved(r) /\ req[r].pc = "commit"
  BY SaveItemCommitEffect DEF InFlight, Saved
<1>2. CASE rows' = rows /\ Becomes(r, "done", req[r].snap, None, "error")
  BY <1>1, <1>2, VerdictKept
<1>3. CASE /\ rows[req[r].item] # None
           /\ rows' = [rows EXCEPT ![req[r].item] =
                         Merged(rows[req[r].item], req[r].snap, req[r].loaded)]
           /\ Becomes(r, IF req[r].answer = "invalid" /\ req[r].snap.image_key
                         THEN "unlink" ELSE "done",
                      req[r].snap, None, req[r].answer)
  <2> DEFINE row == rows[req[r].item]
             merged == Merged(row, req[r].snap, req[r].loaded)
  <2>1. row \in Row /\ Paired(row)
    BY <1>1, <1>3, CommitCopies DEF TypeOK, IInv, PairInv, KeyFollowsStatus, Paired
  <2>2. merged.status \in {row.status, req[r].snap.status}
    BY <1>1, <2>1, CommitCopies, MergedPaired
  <2> HIDE DEF merged
  <2>3. rows'[req[r].item] = merged /\ \A i \in Item : i # req[r].item => rows'[i] = rows[i]
    BY <1>1, <1>3, CommitCopies DEF TypeOK, merged
  <2>4. /\ req'[r].item = req[r].item
        /\ req'[r].snap = req[r].snap
        /\ req'[r].loaded = None
        /\ Saved(r)'
        /\ \A q \in Request \ {r} : req'[q] = req[q]
    BY <1>3 DEF Becomes, Others, Saved
  <2>5. ASSUME NEW u \in Request, NEW i \in Item, Uploader(u, i)'
        PROVE  VerdictOf(u, i)'
    <3>1. Uploader(u, i) /\ VerdictOf(u, i)
      BY <1>3, <2>5 DEF Uploader, Becomes, Others, IInv, VerdictInv
    <3>2. Saved(u) => Saved(u)'
      BY <2>4 DEF Saved
    <3>3. req'[u].snap = req[u].snap
      BY <2>4
    <3>4. /\ rows'[i] # None => rows[i] # None
          /\ rows'[i] # None /\ rows'[i].status # "processing" =>
               Saved(u)' /\ rows'[i].status = req[u].snap.status
      <4>1. CASE i # req[r].item
        BY <2>3, <3>1, <3>2, <4>1 DEF VerdictOf
      <4>2. CASE i = req[r].item /\ u = r
        <5>1. row.status = "processing"
          BY <1>1, <1>3, <3>1, <4>2 DEF VerdictOf
        <5> QED BY <1>3, <2>2, <2>3, <2>4, <4>2, <5>1
      <4>3. CASE i = req[r].item /\ u # r
        BY <1>3, <2>2, <2>3, <3>1, <3>2, <4>3 DEF VerdictOf
      <4> QED BY <4>1, <4>2, <4>3
    <3> QED BY <2>4, <3>1, <3>2, <3>3, <3>4 DEF VerdictOf
  <2> QED BY <2>5 DEF VerdictInv
<1> QED BY <1>2, <1>3, SaveItemCommitEffect

LEMMA VerdictStep ==
    ASSUME IInv, NEW r \in Request, Receive(r) \/ Work(r) \/ Crash(r)
    PROVE  VerdictInv'
<1> TypeOK /\ ControlInv
  BY DEF IInv
<1>1. CASE StorageSave(r)
  <2>1. InFlight(r) /\ ~Saved(r) /\ rows' = rows
    BY <1>1, StorageSaveEffect DEF InFlight, Saved
  <2> QED BY <1>1, <2>1, StorageSaveEffect, VerdictKept
<1>2. CASE \/ StorageSaveFails(r) \/ AnalyzeRaises(r) \/ DirectoryExists(r)
           \/ RemoveTree(r) \/ IsFile(r) \/ SendFile(r) \/ Crash(r)
  <2>1. rows' = rows /\ InFlight(r)
    BY <1>2 DEF StorageSaveFails, AnalyzeRaises, DirectoryExists, RemoveTree, IsFile, SendFile,
                Crash, InFlight
  <2>2. \E pc, answer : /\ Becomes(r, pc, req[r].snap, None, answer)
                        /\ Saved(r) => pc \in {"unlink", "rmtree", "done"}
    BY <1>2, StorageSaveFailsEffect, AnalyzeRaisesEffect, DirectoryExistsEffect,
       RemoveTreeEffect, IsFileEffect, SendFileEffect, CrashEffect DEF Saved
  <2> QED BY <2>1, <2>2, VerdictKept
<1>3. CASE DeleteRow(r)
  <2>1. /\ InFlight(r) /\ ~Saved(r)
        /\ rows' = [rows EXCEPT ![req[r].item] = None]
        /\ \E pc, answer : Becomes(r, pc, req[r].snap, None, answer)
    BY <1>3, DeleteRowEffect DEF InFlight, Saved
  <2>2. \A i \in Item : rows'[i] \in {rows[i], None}
    BY <2>1 DEF TypeOK
  <2> QED BY <2>1, <2>2, VerdictKept
<1> QED
  BY <1>1, <1>2, <1>3, VerdictReceive, VerdictAnalyze, VerdictGet, VerdictCommit DEF Work

-----------------------------------------------------------------------------
(* Deletions and directories *)

(* No step brings a row back: only an upload makes one, for a fresh id. *)
LEMMA RowsVanish ==
    ASSUME IInv, NEW r \in Request, Receive(r) \/ Work(r) \/ Crash(r),
           NEW i \in Item, ~Fresh(i)
    PROVE  rows'[i] # None => rows[i] # None
<1> TypeOK /\ ControlInv
  BY DEF IInv
<1>1. CASE Receive(r)
  BY <1>1, ReceiveShape DEF Uploads, Copies, Refuses, TypeOK
<1>2. CASE Work(r) \/ Crash(r)
  BY <1>2, WorkShape DEF Works
<1> QED BY <1>1, <1>2

LEMMA GoneStep ==
    ASSUME IInv, NEW r \in Request, Receive(r) \/ Work(r) \/ Crash(r)
    PROVE  GoneInv'
<1> TypeOK /\ ControlInv
  BY DEF IInv
<1>1. Others(r)
  BY ReceiveShape, WorkShape DEF Uploads, Copies, Refuses, Begins, Refused, Works, Becomes
<1>2. ASSUME NEW q \in Request, Deleting(q), req'[q].item = req[q].item
      PROVE  rows'[req'[q].item] = None
  <2>1. req[q].item \in Item
    BY <1>2, InFlightCopy DEF Deleting, Answered, InFlight, IInv, ControlInv, TypeOK, Call, Fits
  <2> QED BY <1>2, <2>1, RowsVanish DEF Fresh, IInv, GoneInv
<1>3. CASE Receive(r)
  <2>1. ~Deleting(r)'
    BY <1>3, ReceiveShape
       DEF Uploads, Copies, Refuses, Begins, Refused, Deleting, Answered
  <2> QED BY <1>1, <1>2, <2>1 DEF GoneInv, Deleting, Answered, Others
<1>4. CASE DeleteRow(r)
  <2>1. /\ req'[r].item = req[r].item /\ req[r].item \in Item
        /\ rows' = [rows EXCEPT ![req[r].item] = None]
    BY <1>4, DeleteRowEffect, InFlightCopy DEF Becomes, InFlight
  <2>2. rows'[req'[r].item] = None
    BY <2>1 DEF TypeOK
  <2> QED BY <1>1, <1>2, <2>2 DEF GoneInv, Deleting, Answered, Others
<1>5. CASE (Work(r) \/ Crash(r)) /\ ~DeleteRow(r)
  <2>1. /\ req'[r].item = req[r].item
        /\ Deleting(r)' => Deleting(r)
    BY <1>5, StorageSaveEffect, StorageSaveFailsEffect, AnalyzeEffect, AnalyzeInvalidEffect,
       AnalyzeRaisesEffect, SaveItemGetEffect, SaveItemCommitEffect, DirectoryExistsEffect,
       RemoveTreeEffect, IsFileEffect, SendFileEffect, CrashEffect
       DEF Work, Becomes, Deleting, Answered, ControlInv, Fits
  <2> QED BY <1>1, <1>2, <2>1 DEF GoneInv, Deleting, Answered, Others
<1> QED BY <1>3, <1>4, <1>5

(* A directory is only removed when its row is gone, or when the upload has *)
(* failed, so that no copy of the item can be ready.                        *)
LEMMA RemovalSafe ==
    ASSUME IInv, NEW r \in Request, RemoveTree(r)
    PROVE  \/ rows[req[r].item] = None
           \/ /\ rows[req[r].item].status # "ready"
              /\ \A q \in Request : req[q].item = req[r].item =>
                   /\ req[q].snap.status # "ready"
                   /\ req[q].op = "upload" => q = r
<1>1. /\ req[r].pc = "rmtree" /\ InFlight(r) /\ req[r].op \in {"upload", "delete"}
      /\ req[r].item \in Item /\ req[r].item # None
  BY RemoveTreeEffect, InFlightCopy, NotNone DEF InFlight, IInv, ControlInv, Fits
<1>2. CASE req[r].op = "delete"
  BY <1>1, <1>2 DEF IInv, GoneInv, Deleting
<1>3. CASE req[r].op = "upload"
  <2>1. Uploader(r, req[r].item) /\ req[r].snap.status = "failed"
    BY <1>1, <1>3 DEF Uploader, IInv, PairInv, PairOf
  <2>2. VerdictOf(r, req[r].item)
    BY <1>1, <2>1 DEF IInv, VerdictInv
  <2>3. \A q \in Request : Uploader(q, req[r].item) => q = r
    BY <1>1, <2>1 DEF IInv, BirthInv
  <2> QED BY <2>1, <2>2, <2>3 DEF VerdictOf, Uploader
<1> QED BY <1>1, <1>2, <1>3

FilesOf(r) ==
    \A i \in Item : req[r].item = i /\ rows[i] # None =>
        /\ req[r].snap.status = "ready" => i \in files
        /\ req[r].op = "upload" /\ req[r].pc \in {"analyze", "save", "commit"} => i \in files

LEMMA FilesStep ==
    ASSUME IInv, NEW r \in Request, Receive(r) \/ Work(r) \/ Crash(r)
    PROVE  FilesInv'
<1> TypeOK /\ ControlInv /\ \A q \in Request : FilesOf(q)
  BY DEF IInv, FilesInv, FilesOf
<1>1. SUFFICES \A q \in Request : FilesOf(q)'
  BY DEF FilesInv, FilesOf
<1>2. Others(r)
  BY ReceiveShape, WorkShape DEF Uploads, Copies, Refuses, Begins, Refused, Works, Becomes
<1>3. ASSUME files \subseteq files', NEW q \in Request, req'[q] = req[q]
      PROVE  FilesOf(q)'
  BY <1>3, RowsVanish DEF FilesOf, Fresh
<1>4. CASE Receive(r)
  <2>1. files' = files
    BY <1>4, ReceiveShape DEF Uploads, Copies, Refuses
  <2>2. FilesOf(r)'
    <3>1. CASE Uploads(r)
      BY <3>1 DEF Uploads, Begins, NewRow, FilesOf
    <3>2. CASE Copies(r)
      BY <3>2 DEF Copies, Begins, Visible, FilesOf, IInv, ReadyHasImage
    <3>3. CASE Refuses(r)
      BY <3>3, NotNone DEF Refuses, Refused, FilesOf
    <3> QED BY <1>4, <3>1, <3>2, <3>3, ReceiveShape
  <2> QED BY <1>2, <1>3, <2>1, <2>2 DEF Others
<1>5. CASE RemoveTree(r)
  <2>1. /\ files' = files \ {req[r].item} /\ rows' = rows
        /\ req'[r].item = req[r].item /\ req'[r].snap = req[r].snap /\ req'[r].pc = "done"
    BY <1>5, RemoveTreeEffect DEF Becomes
  <2>2. ASSUME NEW q \in Request, q # r PROVE FilesOf(q)'
    <3>1. FilesOf(q) /\ req'[q] = req[q]
      BY <1>2, <2>2 DEF Others
    <3> QED BY <1>5, <2>1, <2>2, <3>1, RemovalSafe DEF FilesOf
  <2>3. FilesOf(r)'
    BY <1>5, <2>1, RemovalSafe DEF FilesOf
  <2> QED BY <2>2, <2>3
<1>6. CASE (Work(r) \/ Crash(r)) /\ ~RemoveTree(r)
  <2>1. files \subseteq files'
    BY <1>6 DEF Work, Crash, StorageSave, StorageSaveFails, Analyze, AnalyzeInvalid,
       AnalyzeRaises, SaveItemGet, SaveItemCommit, DirectoryExists, DeleteRow, IsFile, SendFile
  <2>2. /\ req'[r].item = req[r].item /\ req'[r].op = req[r].op
        /\ rows'[req[r].item] # None => rows[req[r].item] # None
    BY <1>6, WorkShape DEF Works, Becomes
  <2>3. FilesOf(r)'
    <3>1. CASE StorageSave(r)
      <4>1. req[r].item \in files' /\ req'[r].item = req[r].item
        BY <3>1, StorageSaveEffect DEF Becomes
      <4> QED BY <4>1 DEF FilesOf
    <3>2. CASE Analyze(r) \/ AnalyzeInvalid(r)
      <4>1. req[r].op = "upload" /\ req[r].pc = "analyze"
        BY <3>2 DEF Analyze, AnalyzeInvalid, ControlInv, Fits
      <4> QED BY <2>1, <2>2, <4>1 DEF FilesOf
    <3>3. CASE ~StorageSave(r) /\ ~Analyze(r) /\ ~AnalyzeInvalid(r)
      <4>1. /\ req'[r].snap = req[r].snap
            /\ req'[r].pc \in {"save", "commit"} => req[r].pc \in {"save", "commit"}
            /\ req'[r].pc # "analyze"
        BY <1>6, <3>3, StorageSaveFailsEffect, AnalyzeRaisesEffect, SaveItemGetEffect,
           SaveItemCommitEffect, DirectoryExistsEffect, DeleteRowEffect, IsFileEffect,
           SendFileEffect, CrashEffect DEF Work, Becomes
      <4> QED BY <2>1, <2>2, <4>1 DEF FilesOf
    <3> QED BY <3>1, <3>2, <3>3
  <2> QED BY <1>2, <1>3, <2>1, <2>3 DEF Others
<1> QED BY <1>4, <1>5, <1>6

LEMMA ReadyStep ==
    ASSUME IInv, NEW r \in Request, Receive(r) \/ Work(r) \/ Crash(r)
    PROVE  ReadyHasImage'
<1> TypeOK /\ ControlInv /\ ReadyHasImage
  BY DEF IInv
<1>1. SUFFICES ASSUME NEW i \in Item, rows'[i] # None, rows'[i].status = "ready"
               PROVE  i \in files'
  BY KeyStep DEF ReadyHasImage, KeyFollowsStatus
<1>2. CASE RemoveTree(r)
  BY <1>1, <1>2, RemoveTreeEffect, RemovalSafe DEF ReadyHasImage
<1>3. CASE ~RemoveTree(r)
  <2>1. files \subseteq files'
    <3>1. CASE Receive(r)
      BY <3>1, ReceiveShape DEF Uploads, Copies, Refuses
    <3>2. CASE Work(r) \/ Crash(r)
      BY <1>3, <3>2 DEF Work, Crash, StorageSave, StorageSaveFails, Analyze, AnalyzeInvalid,
         AnalyzeRaises, SaveItemGet, SaveItemCommit, DirectoryExists, DeleteRow, IsFile, SendFile
    <3> QED BY <3>1, <3>2
  <2>2. CASE rows'[i] = rows[i]
    BY <1>1, <2>1, <2>2 DEF ReadyHasImage
  <2>3. CASE Receive(r) /\ rows'[i] # rows[i]
    <3>1. Uploads(r)
      BY <2>3, ReceiveShape DEF Copies, Refuses
    <3> QED BY <1>1, <2>3, <3>1 DEF Uploads, NewRow, TypeOK
  <2>4. CASE (Work(r) \/ Crash(r)) /\ rows'[i] # rows[i]
    <3>1. i = req[r].item /\ rows[i] # None
      BY <1>1, <2>4, WorkShape DEF Works
    <3>2. ~DeleteRow(r)
      BY <1>1, <3>1, DeleteRowEffect DEF TypeOK
    <3>3. SaveItemCommit(r)
      BY <2>4, <3>2 DEF Work, Crash, StorageSave, StorageSaveFails, Analyze, AnalyzeInvalid,
         AnalyzeRaises, SaveItemGet, DirectoryExists, RemoveTree, IsFile, SendFile
    <3>4. /\ req[r].pc = "commit"
          /\ rows'[i] = Merged(rows[i], req[r].snap, req[r].loaded)
      BY <2>4, <3>1, <3>3, SaveItemCommitEffect DEF TypeOK
    <3>5. rows[i] \in Row /\ Paired(rows[i])
      BY <3>1 DEF TypeOK, IInv, PairInv, KeyFollowsStatus, Paired
    <3>6. rows'[i].status \in {rows[i].status, req[r].snap.status}
      BY <3>4, <3>5, CommitCopies, MergedPaired
    <3> QED BY <1>1, <2>1, <3>1, <3>6 DEF ReadyHasImage, IInv, FilesInv
  <2> QED BY <2>2, <2>3, <2>4
<1> QED BY <1>2, <1>3

-----------------------------------------------------------------------------
(* The theorems *)

LEMMA InitIInv == Init => IInv
<1> SUFFICES ASSUME Init PROVE IInv
  OBVIOUS
<1>1. NoCall \in Call
  BY DEF NoCall, Call, PC, Op, Answer
<1>2. TypeOK
  BY <1>1 DEF Init, TypeOK
<1>3. \A r \in Request : req[r] = NoCall
  BY DEF Init
<1>4. \A r \in Request : /\ req[r].pc = "idle" /\ req[r].op = "none" /\ req[r].item = None
                         /\ req[r].snap = None /\ req[r].loaded = None
                         /\ req[r].answer = "none"
  BY <1>3 DEF NoCall
<1>5. \A i \in Item : rows[i] = None /\ i \notin files /\ Fresh(i)
  BY <1>4, NotNone DEF Init, Fresh
<1>6. ControlInv
  BY <1>4 DEF ControlInv, Fits, InFlight
<1>7. BirthInv
  BY <1>4, <1>5 DEF BirthInv, Uploader
<1>8. ClosetInv /\ PairInv /\ GoneInv
  BY <1>4, <1>5 DEF ClosetInv, PairInv, PairOf, KeyFollowsStatus, GoneInv, Deleting, Answered
<1>9. VerdictInv /\ FilesInv /\ ReadyHasImage
  BY <1>4, <1>5 DEF VerdictInv, Uploader, FilesInv, ReadyHasImage
<1> QED BY <1>2, <1>6, <1>7, <1>8, <1>9 DEF IInv

LEMMA NextIInv == IInv /\ [Next]_vars => IInv'
<1> SUFFICES ASSUME IInv, [Next]_vars PROVE IInv'
  OBVIOUS
<1>1. CASE Next
  <2>1. PICK r \in Request : Receive(r) \/ Work(r) \/ Crash(r)
    BY <1>1 DEF Next
  <2>2. TypeOK' /\ ControlInv' /\ BirthInv' /\ ClosetInv'
    BY <2>1, ControlStep, BirthStep, ClosetStep DEF IInv
  <2>3. PairInv' /\ VerdictInv' /\ GoneInv' /\ FilesInv' /\ ReadyHasImage'
    BY <2>1, PairStep, VerdictStep, GoneStep, FilesStep, ReadyStep
  <2> QED BY <2>2, <2>3 DEF IInv
<1>2. CASE UNCHANGED vars
  BY <1>2 DEF vars, IInv, TypeOK, ControlInv, InFlight, BirthInv, Fresh, Uploader, ClosetInv,
     PairInv, KeyFollowsStatus, PairOf, VerdictInv, VerdictOf, Saved, GoneInv, Deleting,
     Answered, FilesInv, ReadyHasImage
<1> QED BY <1>1, <1>2

(* The strengthened invariant holds in every reachable state. *)
THEOREM Invariance == Spec => []IInv
BY InitIInv, NextIInv, PTL DEF Spec

(* Rows, directories and requests keep their types. *)
THEOREM TypeCorrect == Spec => []TypeOK
<1>1. IInv => TypeOK
  BY DEF IInv
<1> QED BY Invariance, <1>1, PTL

(* A ready item always has its image_key and its directory. *)
THEOREM ReadyItemsHaveImages == Spec => []ReadyHasImage
<1>1. IInv => ReadyHasImage
  BY DEF IInv
<1> QED BY Invariance, <1>1, PTL

(* Column-wise saves never separate the image_key of a row from its status. *)
THEOREM KeysFollowStatuses == Spec => []KeyFollowsStatus
<1>1. IInv => KeyFollowsStatus
  BY DEF IInv, PairInv
<1> QED BY Invariance, <1>1, PTL

(* Whoever works on an item owns the closet its row is in. *)
THEOREM Ownership == Spec => []OwnedThroughout
<1>1. IInv => OwnedThroughout
  BY DEF IInv, ControlInv, ClosetInv, OwnedThroughout
<1> QED BY Invariance, <1>1, PTL

(* No save and no race brings a deleted item back. *)
THEOREM NoResurrection == Spec => DeletedStaysDeleted
<1>1. IInv /\ [Next]_vars =>
        [\A i \in Item : rows[i] = None /\ ~Fresh(i) => rows'[i] = None]_vars
  <2> SUFFICES ASSUME IInv, Next, NEW i \in Item, rows[i] = None, ~Fresh(i)
               PROVE  rows'[i] = None
    OBVIOUS
  <2> QED BY RowsVanish DEF Next
<1> QED BY Invariance, <1>1, PTL DEF Spec, DeletedStaysDeleted

-----------------------------------------------------------------------------
(* What clients were answered *)

LEMMA StepOthers ==
    ASSUME IInv, NEW r \in Request, Receive(r) \/ Work(r) \/ Crash(r)
    PROVE  Others(r)
BY ReceiveShape, WorkShape
   DEF IInv, Uploads, Copies, Refuses, Begins, Refused, Works, Becomes

(* Of the deletions of one item only one finds the row. *)
THEOREM OneDeletionSucceeds == Spec => []DeleteAnsweredOnce
<1>1. Init => DeleteAnsweredOnce
  BY DEF Init, NoCall, DeleteAnsweredOnce, Deleting, Answered
<1>2. IInv /\ DeleteAnsweredOnce /\ [Next]_vars => DeleteAnsweredOnce'
  <2> SUFFICES ASSUME IInv, DeleteAnsweredOnce, [Next]_vars
               PROVE  DeleteAnsweredOnce'
    OBVIOUS
  <2>1. CASE UNCHANGED vars
    BY <2>1 DEF vars, DeleteAnsweredOnce, Deleting, Answered
  <2>2. CASE Next
    <3>1. PICK r \in Request : Receive(r) \/ Work(r) \/ Crash(r)
      BY <2>2 DEF Next
    <3>2. Others(r)
      BY <3>1, StepOthers
    <3>3. CASE DeleteRow(r)
      <4>1. /\ req'[r].item = req[r].item
            /\ Deleting(r)' => rows[req[r].item] # None
        BY <3>3, DeleteRowEffect DEF IInv, Becomes, Deleting, Answered
      <4>2. \A q \in Request \ {r} : (Deleting(q)' <=> Deleting(q)) /\ req'[q] = req[q]
        BY <3>2 DEF Others, Deleting, Answered
      <4> QED BY <4>1, <4>2 DEF DeleteAnsweredOnce, IInv, GoneInv
    <3>4. CASE ~DeleteRow(r)
      <4>1. Deleting(r)' => Deleting(r) /\ req'[r].item = req[r].item
        <5>1. CASE Receive(r)
          BY <5>1, ReceiveShape
             DEF IInv, Uploads, Copies, Refuses, Begins, Refused, Deleting, Answered
        <5>2. CASE Work(r) \/ Crash(r)
          BY <3>4, <5>2, StorageSaveEffect, StorageSaveFailsEffect, AnalyzeEffect,
             AnalyzeInvalidEffect, AnalyzeRaisesEffect, SaveItemGetEffect, SaveItemCommitEffect,
             DirectoryExistsEffect, RemoveTreeEffect, IsFileEffect, SendFileEffect, CrashEffect
             DEF IInv, Work, Becomes, Deleting, Answered, ControlInv, Fits
        <5> QED BY <3>1, <5>1, <5>2
      <4>2. \A q \in Request \ {r} : (Deleting(q)' <=> Deleting(q)) /\ req'[q] = req[q]
        BY <3>2 DEF Others, Deleting, Answered
      <4> QED BY <4>1, <4>2 DEF DeleteAnsweredOnce
    <3> QED BY <3>3, <3>4
  <2> QED BY <2>1, <2>2
<1> QED BY Invariance, <1>1, <1>2, PTL DEF Spec

(* The image request of a ready item fails only if the item was deleted. *)
THEOREM ReadyImagesServed == Spec => []ReadyImageServed
<1>1. Init => ReadyImageServed
  BY DEF Init, NoCall, ReadyImageServed
<1>2. IInv /\ ReadyImageServed /\ [Next]_vars => ReadyImageServed'
  <2> SUFFICES ASSUME IInv, ReadyImageServed, [Next]_vars
               PROVE  ReadyImageServed'
    OBVIOUS
  <2>1. CASE UNCHANGED vars
    BY <2>1 DEF vars, ReadyImageServed
  <2>2. CASE Next
    <3>1. PICK r \in Request : Receive(r) \/ Work(r) \/ Crash(r)
      BY <2>2 DEF Next
    <3>2. ASSUME NEW q \in Request, req'[q] = req[q], req[q].item # None,
                 rows[req[q].item] = None
          PROVE  rows'[req[q].item] = None
      BY <3>1, <3>2, RowsVanish DEF Fresh, IInv, TypeOK, Call
    <3>3. Others(r)
      BY <3>1, StepOthers
    <3>4. ASSUME /\ req'[r].op = "image" /\ req'[r].item # None /\ req'[r].pc = "done"
                 /\ req'[r].answer \in {"not_found", "error"}
                 /\ req'[r].snap.status = "ready"
          PROVE  rows'[req'[r].item] = None
      <4>1. CASE Receive(r)
        BY <3>4, <4>1, ReceiveShape DEF IInv, Uploads, Copies, Refuses, Begins, Refused
      <4>2. CASE IsFile(r) \/ SendFile(r)
        <5>1. /\ rows' = rows /\ req[r].item \notin files
              /\ req'[r].item = req[r].item /\ req'[r].snap = req[r].snap
              /\ req[r].pc \in {"check", "serve"}
          BY <3>4, <4>2, IsFileEffect, SendFileEffect DEF IInv, Becomes
        <5>2. req[r].item \in Item
          BY <5>1, InFlightCopy DEF IInv, InFlight
        <5> QED BY <3>4, <5>1, <5>2 DEF IInv, FilesInv
      <4>3. CASE (Work(r) \/ Crash(r)) /\ ~IsFile(r) /\ ~SendFile(r)
        BY <3>4, <4>3, StorageSaveEffect, StorageSaveFailsEffect, AnalyzeEffect,
           AnalyzeInvalidEffect, AnalyzeRaisesEffect, SaveItemGetEffect, SaveItemCommitEffect,
           DirectoryExistsEffect, RemoveTreeEffect, DeleteRowEffect, CrashEffect
           DEF IInv, Work, Becomes, ControlInv, Fits
      <4> QED BY <3>1, <4>1, <4>2, <4>3
    <3> QED BY <3>2, <3>3, <3>4 DEF ReadyImageServed, Others
  <2> QED BY <2>1, <2>2
<1> QED BY Invariance, <1>1, <1>2, PTL DEF Spec

(* A settled item that no stale PATCH threatens stays settled. *)
THEOREM SettledItemsStay == Spec => SettledStays
<1>1. IInv /\ [Next]_vars =>
        [\A i \in Item : Settled(i) => Settled(i)' \/ rows'[i] = None]_vars
  <2> SUFFICES ASSUME IInv, Next, NEW i \in Item, Settled(i), rows'[i] # None
               PROVE  Settled(i)'
    OBVIOUS
  <2>1. PICK r \in Request : Receive(r) \/ Work(r) \/ Crash(r)
    BY DEF Next
  <2>2. Others(r)
    BY <2>1, StepOthers
  <2>3. TypeOK /\ ControlInv
    BY DEF IInv
  <2>4. rows'[i].status # "processing"
    <3>1. CASE rows'[i] = rows[i]
      BY <3>1 DEF Settled
    <3>2. CASE rows'[i] # rows[i]
      <4>1. ~Receive(r)
        BY <2>3, <3>2, ReceiveShape DEF Uploads, Copies, Refuses, Settled, IInv, BirthInv, TypeOK
      <4>2. i = req[r].item /\ rows[i] # None
        BY <2>1, <2>3, <3>2, <4>1, WorkShape DEF Works
      <4>3. ~DeleteRow(r)
        BY <2>3, <4>2, DeleteRowEffect DEF TypeOK
      <4>4. SaveItemCommit(r)
        BY <2>1, <3>2, <4>1, <4>3 DEF Work, Crash, StorageSave, StorageSaveFails, Analyze,
           AnalyzeInvalid, AnalyzeRaises, SaveItemGet, DirectoryExists, RemoveTree, IsFile,
           SendFile
      <4>5. /\ req[r].pc = "commit" /\ InFlight(r) /\ req[r].op \in {"upload", "patch"}
            /\ rows'[i] = Merged(rows[i], req[r].snap, req[r].loaded)
        BY <2>3, <3>2, <4>2, <4>4, SaveItemCommitEffect DEF TypeOK, InFlight, ControlInv, Fits
      <4>6. rows[i] \in Row /\ Paired(rows[i])
        BY <4>2 DEF TypeOK, IInv, PairInv, KeyFollowsStatus, Paired
      <4>7. rows'[i].status \in {rows[i].status, req[r].snap.status}
        BY <4>5, <4>6, CommitCopies, MergedPaired
      <4>8. req[r].snap.status # "processing"
        <5>1. CASE req[r].op = "patch"
          BY <4>2, <4>5, <5>1 DEF Settled, StalePatch
        <5>2. CASE req[r].op = "upload"
          BY <4>5, <5>2, CommitCopies, NotNone DEF IInv, PairInv, PairOf
        <5> QED BY <4>5, <5>1, <5>2
      <4> QED BY <4>7, <4>8 DEF Settled
    <3> QED BY <3>1, <3>2
  <2>5. ASSUME NEW q \in Request PROVE ~StalePatch(q, i)'
    <3>1. CASE q # r
      BY <2>2, <3>1 DEF Others, Settled, StalePatch, InFlight
    <3>2. CASE q = r /\ Receive(r)
      BY <2>3, <3>2, ReceiveShape, NotNone
         DEF Uploads, Copies, Refuses, Begins, Refused, StalePatch, Settled, Visible
    <3>3. CASE q = r /\ (Work(r) \/ Crash(r))
      <4>1. CASE Analyze(r) \/ AnalyzeInvalid(r) \/ StorageSave(r)
        <5>1. req'[r].op = "upload"
          BY <2>3, <4>1, AnalyzeEffect, AnalyzeInvalidEffect, StorageSaveEffect
             DEF Becomes, ControlInv, Fits
        <5> QED BY <3>3, <5>1 DEF StalePatch
      <4>2. CASE ~Analyze(r) /\ ~AnalyzeInvalid(r) /\ ~StorageSave(r)
        <5>1. /\ req'[r].snap = req[r].snap /\ req'[r].op = req[r].op
              /\ req'[r].item = req[r].item /\ InFlight(r)
          BY <2>3, <3>3, <4>2, StorageSaveFailsEffect, AnalyzeRaisesEffect, SaveItemGetEffect,
             SaveItemCommitEffect, DirectoryExistsEffect, RemoveTreeEffect, DeleteRowEffect,
             IsFileEffect, SendFileEffect, CrashEffect DEF Work, Becomes, InFlight
        <5> QED BY <3>3, <5>1 DEF StalePatch, Settled
      <4> QED BY <4>1, <4>2
    <3> QED BY <2>1, <3>1, <3>2, <3>3
  <2> QED BY <2>4, <2>5 DEF Settled
<1> QED BY Invariance, <1>1, PTL DEF Spec, SettledStays
=============================================================================
