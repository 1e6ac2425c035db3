---------------------------- MODULE ItemLifecycle ----------------------------
(***************************************************************************)
(* The life of a wardrobe item: ClosetService.add_item, update_item,       *)
(* delete_item and get_item_image_path over the items table and the image  *)
(* directory of each item.                                                 *)
(*                                                                         *)
(* The endpoints are synchronous functions that FastAPI runs in a thread   *)
(* pool, and every repository call opens a session of its own, so requests *)
(* interleave between any two repository or storage calls.  save_item is   *)
(* a SELECT followed, at commit, by an UPDATE of the columns that differ   *)
(* from what the SELECT returned: those are two steps here (SaveItemGet,   *)
(* SaveItemCommit).                                                        *)
(***************************************************************************)
EXTENDS Naturals, FiniteSets

CONSTANTS
    Item,       \* item ids; each is the uuid4 of at most one upload
    Request,    \* HTTP requests; each is made at most once
    User,
    Closet,
    Owner,      \* the user of each closet: no code path changes it
    Attr,       \* the columns a PATCH may set and the analysis fills in
    Faults,     \* which of AllFaults the environment may inject
    None        \* Python's None: no row, no item, no user

AllFaults == {"store", "analyze", "crash"}

Status == {"processing", "ready", "failed"}

(* The value of an attribute is who wrote it: the defaults of a new row, *)
(* the analysis, or the PATCH request that set it.                       *)
Value == {"default", "analysed"} \cup Request

Row == [closet : Closet, status : Status, image_key : BOOLEAN,
        attrs : [Attr -> Value]]

(* What is seen of a row from outside: see Shown below. *)
Entry == [closet : Closet, status : Status]

ASSUME OwnerAssumption == Owner \in [Closet -> User]
ASSUME FaultsAssumption == Faults \subseteq AllFaults
ASSUME NoneAssumption == None \notin Row \cup Entry \cup Item \cup User
ASSUME RequestAssumption == Request \cap {"default", "analysed"} = {}

VARIABLES
    rows,       \* the items table: the row of each item, or None
    files,      \* the items whose directory exists under the upload root
    req         \* what each request is doing

vars == <<rows, files, req>>

PC == {"idle", "store", "analyze", "save", "commit", "unlink", "rmtree",
       "drop", "check", "serve", "done"}
Op == {"none", "upload", "patch", "delete", "image"}
Answer == {"none", "ok", "invalid", "not_found", "error", "crashed"}

(* snap is the FashionItem the handler works on, loaded the row its save_item *)
(* session read, answer what it will reply if nothing goes wrong.             *)
Call == [pc : PC, op : Op, user : User \cup {None}, item : Item \cup {None},
         snap : Row \cup {None}, loaded : Row \cup {None}, answer : Answer]

TypeOK ==
    /\ rows \in [Item -> Row \cup {None}]
    /\ files \subseteq Item
    /\ req \in [Request -> Call]

NoCall == [pc |-> "idle", op |-> "none", user |-> None, item |-> None,
           snap |-> None, loaded |-> None, answer |-> "none"]

Init ==
    /\ rows = [i \in Item |-> None]
    /\ files = {}
    /\ req = [r \in Request |-> NoCall]

-----------------------------------------------------------------------------
(* Helpers *)

Fresh(i) == \A r \in Request : req[r].item # i

(* Mutant of Visible: the owner of the closet is not compared. *)
VisibleToAll(i, u) == rows[i] # None /\ u \in User

(* get_item and _owned_closet: the row exists and its closet is the caller's *)
Visible(i, u) == rows[i] # None /\ Owner[rows[i].closet] = u

(* Mutant of NewRow: a status that the enumeration does not have. *)
NewRowUploaded(c) == [closet |-> c, status |-> "uploaded", image_key |-> FALSE,
                      attrs |-> [a \in Attr |-> "default"]]

NewRow(c) == [closet |-> c, status |-> "processing", image_key |-> FALSE,
              attrs |-> [a \in Attr |-> "default"]]

Start(r, op, u, i, item, pc) ==
    req' = [req EXCEPT ![r] =
              [pc |-> pc, op |-> op, user |-> u, item |-> i, snap |-> item,
               loaded |-> None, answer |-> "ok"]]

(* NotFoundError before anything was touched: 404 *)
Refuse(r, op, u) ==
    req' = [req EXCEPT ![r] = [NoCall EXCEPT !.pc = "done", !.op = op, !.user = u,
                                             !.answer = "not_found"]]

Goto(r, pc) == req' = [req EXCEPT ![r].pc = pc]

Finish(r, answer) ==
    req' = [req EXCEPT ![r].pc = "done", ![r].answer = answer, ![r].loaded = None]

(* What the UPDATE of a flush leaves in the row: the columns in which the *)
(* saved item differs from the loaded row are written, the others kept.   *)
Merged(row, item, loaded) ==
    [closet |-> IF item.closet # loaded.closet THEN item.closet ELSE row.closet,
     status |-> IF item.status # loaded.status THEN item.status ELSE row.status,
     image_key |-> IF item.image_key # loaded.image_key THEN item.image_key
                                                        ELSE row.image_key,
     attrs |-> [a \in Attr |-> IF item.attrs[a] # loaded.attrs[a]
                               THEN item.attrs[a] ELSE row.attrs[a]]]

-----------------------------------------------------------------------------
(* add_item *)

(* The closet is checked and the placeholder row is committed. *)
AddItem(r, i, u, c) ==
    /\ req[r].pc = "idle"
    /\ Fresh(i)
    /\ \/ /\ Owner[c] = u
          /\ rows' = [rows EXCEPT ![i] = NewRow(c)]
          /\ Start(r, "upload", u, i, NewRow(c), "store")
       \/ /\ Owner[c] # u
          /\ Refuse(r, "upload", u)
          /\ UNCHANGED rows
    /\ UNCHANGED files

(* Mutant of StorageSave: the key of the stored image is not kept. *)
StorageSaveForgetsKey(r) ==
    /\ req[r].pc = "store"
    /\ files' = files \cup {req[r].item}
    /\ Goto(r, "analyze")
    /\ UNCHANGED rows

StorageSave(r) ==
    /\ req[r].pc = "store"
    /\ files' = files \cup {req[r].item}
    /\ req' = [req EXCEPT ![r].pc = "analyze", ![r].snap.image_key = TRUE]
    /\ UNCHANGED rows

(* mkdir, open or the copy raises: the directory may be left behind, and *)
(* nothing catches the error.                                            *)
StorageSaveFails(r) ==
    /\ "store" \in Faults
    /\ req[r].pc = "store"
    /\ files' \in {files, files \cup {req[r].item}}
    /\ Finish(r, "error")
    /\ UNCHANGED rows

(* The analysis fills in the item; a result with an analysis_warning is failed. *)
Analyze(r) ==
    /\ req[r].pc = "analyze"
    /\ \E status \in {"ready", "failed"} :
          req' = [req EXCEPT ![r].pc = "save", ![r].snap.status = status,
                             ![r].snap.attrs = [a \in Attr |-> "analysed"]]
    /\ UNCHANGED <<rows, files>>

(* Mutant of AnalyzeInvalid: the failure is answered and not saved. *)
AnalyzeInvalidUnsaved(r) ==
    /\ req[r].pc = "analyze"
    /\ Finish(r, "invalid")
    /\ UNCHANGED <<rows, files>>

(* InvalidImageError from the analyzer: the row is saved as failed, then the *)
(* directory removed, then 422 answered.                                     *)
AnalyzeInvalid(r) ==
    /\ req[r].pc = "analyze"
    /\ req' = [req EXCEPT ![r].pc = "save", ![r].snap.status = "failed",
                          ![r].answer = "invalid"]
    /\ UNCHANGED <<rows, files>>

(* Any other exception of the analyzer leaves add_item as it is. *)
AnalyzeRaises(r) ==
    /\ "analyze" \in Faults
    /\ req[r].pc = "analyze"
    /\ Finish(r, "error")
    /\ UNCHANGED <<rows, files>>

-----------------------------------------------------------------------------
(* save_item *)

(* session.get: ValueError when the row is gone *)
SaveItemGet(r) ==
    /\ req[r].pc = "save"
    /\ \/ /\ rows[req[r].item] = None
          /\ Finish(r, "error")
       \/ /\ rows[req[r].item] # None
          /\ req' = [req EXCEPT ![r].pc = "commit", ![r].loaded = rows[req[r].item]]
    /\ UNCHANGED <<rows, files>>

(* Mutant of SaveItemCommit: a row that is gone is inserted again. *)
SaveItemCommitUpserts(r) ==
    /\ req[r].pc = "commit"
    /\ rows' = [rows EXCEPT ![req[r].item] = req[r].snap]
    /\ Finish(r, req[r].answer)
    /\ UNCHANGED files

(* The UPDATE at commit: StaleDataError when it matches no row.  updated_at *)
(* or the status always differs, so there is always an UPDATE.              *)
SaveItemCommit(r) ==
    LET i == req[r].item
        unlinks == req[r].answer = "invalid" /\ req[r].snap.image_key
    IN
    /\ req[r].pc = "commit"
    /\ \/ /\ rows[i] = None
          /\ Finish(r, "error")
          /\ UNCHANGED rows
       \/ /\ rows[i] # None
          /\ rows' = [rows EXCEPT ![i] = Merged(rows[i], req[r].snap, req[r].loaded)]
          /\ req' = [req EXCEPT ![r].pc = IF unlinks THEN "unlink" ELSE "done",
                                ![r].loaded = None]
    /\ UNCHANGED files

-----------------------------------------------------------------------------
(* LocalImageStorage.delete *)

DirectoryExists(r) ==
    /\ req[r].pc = "unlink"
    /\ Goto(r, IF req[r].item \in files THEN "rmtree" ELSE "done")
    /\ UNCHANGED <<rows, files>>

(* rmtree of a directory that another delete removed first raises. *)
RemoveTree(r) ==
    /\ req[r].pc = "rmtree"
    /\ \/ /\ req[r].item \in files
          /\ files' = files \ {req[r].item}
          /\ Finish(r, req[r].answer)
       \/ /\ req[r].item \notin files
          /\ Finish(r, "error")
          /\ UNCHANGED files
    /\ UNCHANGED rows

-----------------------------------------------------------------------------
(* update_item: get_item, then the fields of the body are set on the copy *)

(* Mutant of UpdateItem: the item is built anew, with the default status. *)
UpdateItemAnew(r, i, u, fields) ==
    /\ req[r].pc = "idle"
    /\ Visible(i, u)
    /\ Start(r, "patch", u, i, NewRow(rows[i].closet), "save")
    /\ UNCHANGED <<rows, files>>

UpdateItem(r, i, u, fields) ==
    /\ req[r].pc = "idle"
    /\ \/ /\ Visible(i, u)
          /\ Start(r, "patch", u, i,
                   [rows[i] EXCEPT !.attrs = [a \in Attr |-> IF a \in fields
                                                             THEN r ELSE @[a]]],
                   "save")
       \/ ~Visible(i, u) /\ Refuse(r, "patch", u)
    /\ UNCHANGED <<rows, files>>

-----------------------------------------------------------------------------
(* delete_item *)

DeleteItem(r, i, u) ==
    /\ req[r].pc = "idle"
    /\ \/ Visible(i, u) /\ Start(r, "delete", u, i, rows[i], "drop")
       \/ ~Visible(i, u) /\ Refuse(r, "delete", u)
    /\ UNCHANGED <<rows, files>>

(* Mutant of DeleteRow: the transaction is not committed. *)
DeleteRowUncommitted(r) ==
    /\ req[r].pc = "drop"
    /\ rows[req[r].item] # None
    /\ Goto(r, IF req[r].snap.image_key THEN "unlink" ELSE "done")
    /\ UNCHANGED <<rows, files>>

(* DELETE ... WHERE id: a rowcount of zero is a 404; otherwise the directory *)
(* is removed if the copy read before had an image_key.                      *)
DeleteRow(r) ==
    LET i == req[r].item IN
    /\ req[r].pc = "drop"
    /\ \/ /\ rows[i] = None
          /\ Finish(r, "not_found")
       \/ /\ rows[i] # None
          /\ Goto(r, IF req[r].snap.image_key THEN "unlink" ELSE "done")
    /\ rows' = [rows EXCEPT ![i] = None]
    /\ UNCHANGED files

-----------------------------------------------------------------------------
(* get_item_image_path, then the FileResponse that opens the file *)

GetItemImage(r, i, u) ==
    /\ req[r].pc = "idle"
    /\ \/ /\ Visible(i, u)
          /\ rows[i].image_key
          /\ Start(r, "image", u, i, rows[i], "check")
       \/ /\ ~(Visible(i, u) /\ rows[i].image_key)
          /\ Refuse(r, "image", u)
    /\ UNCHANGED <<rows, files>>

IsFile(r) ==
    /\ req[r].pc = "check"
    /\ \/ req[r].item \in files /\ Goto(r, "serve")
       \/ req[r].item \notin files /\ Finish(r, "not_found")
    /\ UNCHANGED <<rows, files>>

SendFile(r) ==
    /\ req[r].pc = "serve"
    /\ Finish(r, IF req[r].item \in files THEN "ok" ELSE "error")
    /\ UNCHANGED <<rows, files>>

-----------------------------------------------------------------------------

InFlight(r) == req[r].pc \notin {"idle", "done"}

(* The process dies, or the worker thread is killed, between two steps. *)
Crash(r) ==
    /\ "crash" \in Faults
    /\ InFlight(r)
    /\ Finish(r, "crashed")
    /\ UNCHANGED <<rows, files>>

Receive(r) ==
    \E i \in Item, u \in User :
       \/ \E c \in Closet : AddItem(r, i, u, c)
       \/ \E fields \in SUBSET Attr : UpdateItem(r, i, u, fields)
       \/ DeleteItem(r, i, u)
       \/ GetItemImage(r, i, u)

Work(r) ==
    \/ StorageSave(r) \/ StorageSaveFails(r)
    \/ Analyze(r) \/ AnalyzeInvalid(r) \/ AnalyzeRaises(r)
    \/ SaveItemGet(r) \/ SaveItemCommit(r)
    \/ DirectoryExists(r) \/ RemoveTree(r)
    \/ DeleteRow(r)
    \/ IsFile(r) \/ SendFile(r)

Next == \E r \in Request : Receive(r) \/ Work(r) \/ Crash(r)

Spec == Init /\ [][Next]_vars

(* A thread of the pool is scheduled as long as its request is in flight; *)
(* clients need not send anything.                                        *)
FairSpec == Spec /\ \A r \in Request : WF_vars(Work(r))

-----------------------------------------------------------------------------
(* Safety *)

(* A ready item has an image: its image_key is set and its directory is on  *)
(* disk, whatever stale copies PATCH requests write back and whichever      *)
(* deletions run.  add_item is the only writer of "ready", storage.delete   *)
(* the only remover.                                                        *)
ReadyHasImage ==
    \A i \in Item : rows[i] # None /\ rows[i].status = "ready" =>
        rows[i].image_key /\ i \in files

(* The status and the image_key of a row move together although a save only *)
(* writes the columns that differ: a row has an image_key exactly when it   *)
(* is no longer processing.                                                 *)
KeyFollowsStatus ==
    \A i \in Item : rows[i] # None =>
        (rows[i].image_key <=> rows[i].status # "processing")

(* A save writes the closet_id back too: whoever is still at work on an item *)
(* is the owner of the closet the row is in now, not only when it looked.    *)
OwnedThroughout ==
    \A r \in Request :
        InFlight(r) /\ rows[req[r].item] # None =>
            Owner[rows[req[r].item].closet] = req[r].user

Answered(r, op, answer) ==
    req[r].pc = "done" /\ req[r].op = op /\ req[r].answer = answer

(* Of all DELETE requests for one item at most one is answered 204, or is on *)
(* its way there past the row.                                               *)
Deleting(r) == \/ Answered(r, "delete", "ok")
               \/ req[r].op = "delete" /\ req[r].pc \in {"unlink", "rmtree"}
DeleteAnsweredOnce ==
    \A r, q \in Request :
        Deleting(r) /\ Deleting(q) /\ req[r].item = req[q].item => r = q

(* A DELETE answered 204 that knew the image, and an upload answered 422,    *)
(* leave no directory behind, then or later.                                 *)
RemovalLeavesNoFiles ==
    \A r \in Request :
        \/ Answered(r, "delete", "ok") /\ req[r].snap.image_key
        \/ Answered(r, "upload", "invalid")
        => req[r].item \notin files

(* The image request of a ready item fails, with 404 at is_file or with an   *)
(* error when the file is opened, only if the item has since been deleted.   *)
ReadyImageServed ==
    \A r \in Request :
        /\ req[r].op = "image"
        /\ req[r].item # None
        /\ req[r].pc = "done"
        /\ req[r].answer \in {"not_found", "error"}
        /\ req[r].snap.status = "ready"
        => rows[req[r].item] = None

(* A deleted item never comes back: save_item updates, it never inserts.     *)
DeletedStaysDeleted ==
    [][\A i \in Item : rows[i] = None /\ ~Fresh(i) => rows'[i] = None]_vars

(* The window in which an item can be stuck: once it is ready or failed and   *)
(* no PATCH that read it while processing is still in flight, it is never     *)
(* processing again.                                                          *)
StalePatch(r, i) == /\ InFlight(r)
                    /\ req[r].op = "patch"
                    /\ req[r].item = i
                    /\ req[r].snap.status = "processing"
Settled(i) == /\ rows[i] # None
              /\ rows[i].status # "processing"
              /\ \A r \in Request : ~StalePatch(r, i)
SettledStays ==
    [][\A i \in Item : Settled(i) => Settled(i)' \/ rows'[i] = None]_vars

-----------------------------------------------------------------------------
(* Liveness *)

Uploading(i) == \E r \in Request : InFlight(r) /\ req[r].op = "upload" /\ req[r].item = i

(* The upload that made the item gave up: another exception, or its death.     *)
Abandoned(i) ==
    \E r \in Request :
        req[r].op = "upload" /\ req[r].item = i /\ req[r].answer \in {"error", "crashed"}

(* An upload in flight makes its item ready or failed for good, or the item is   *)
(* deleted, unless the upload itself fails, or some PATCH copied the row while   *)
(* it was still processing.  The failures of others do not matter.              *)
UploadSettles ==
    \A i \in Item :
        [](\A r \in Request : ~StalePatch(r, i)) =>
            (Uploading(i) ~> (Abandoned(i) \/ [](rows[i] = None \/ rows[i].status # "processing")))

-----------------------------------------------------------------------------
(* What all this amounts to for a reader of the table and the directories: the *)
(* verdict is in the copy of the upload from the moment the analysis ends.     *)

Uploader(u, i) == req[u].op = "upload" /\ req[u].item = i

Shown(i) == IF rows[i] = None THEN None
            ELSE [closet |-> rows[i].closet, status |-> rows[i].status]

Verdict(i) == IF \E u \in Request : Uploader(u, i)
              THEN req[CHOOSE u \in Request : Uploader(u, i)].snap.status
              ELSE "processing"

Catalog == INSTANCE ItemCatalog WITH
    born <- {i \in Item : ~Fresh(i)},
    rows <- [i \in Item |-> Shown(i)],
    verdict <- [i \in Item |-> Verdict(i)],
    files <- files

(* Requests in flight, their stale copies, merged columns, failures and crashes *)
(* never show more than ItemCatalog allows.                                     *)
ImplementsCatalog == Catalog!Spec

-----------------------------------------------------------------------------
(* What the documents say and the code does not do *)

(* guide/DOMAIN.md: processing -> ready, processing -> failed and            *)
(* failed -> processing are the only changes of the analysis status.         *)
StatusDiagram == {<<"processing", "ready">>, <<"processing", "failed">>,
                  <<"failed", "processing">>}
StatusFollowsDiagram ==
    [][\A i \in Item :
         /\ rows[i] # None /\ rows'[i] # None
         /\ rows[i].status # rows'[i].status
         => <<rows[i].status, rows'[i].status>> \in StatusDiagram]_vars

(* guide/NON_FUNCTIONAL_REQUIREMENTS.md: what the user confirmed is not       *)
(* overwritten by the analysis.                                               *)
EditsOutliveAnalysis ==
    [][\A i \in Item, a \in Attr :
         /\ rows[i] # None /\ rows'[i] # None
         /\ rows[i].attrs[a] \in Request
         => rows'[i].attrs[a] # "analysed"]_vars

(* guide/ARCHITECTURE.md: an upload that fails in the database after the     *)
(* image was stored cleans the orphan up.                                    *)
OrphanCleanup ==
    \A r \in Request :
        Answered(r, "upload", "error") /\ rows[req[r].item] = None
        => req[r].item \notin files

-----------------------------------------------------------------------------
(* The inductive invariant: what the safety properties rest on *)

(* How far a call is fits what it is doing, and it has its copy of the item. *)
Fits(pc, op) ==
    /\ pc \in {"store", "analyze"} => op = "upload"
    /\ pc \in {"save", "commit"} => op \in {"upload", "patch"}
    /\ pc \in {"unlink", "rmtree"} => op \in {"upload", "delete"}
    /\ pc = "drop" => op = "delete"
    /\ pc \in {"check", "serve"} => op = "image"
ControlInv ==
    \A r \in Request :
        /\ Fits(req[r].pc, req[r].op)
        /\ req[r].pc = "idle" => req[r].item = None
        /\ InFlight(r) => req[r].item # None
        /\ req[r].item # None <=> req[r].snap # None
        /\ req[r].item = None => req[r].answer \in {"none", "not_found"}
        /\ req[r].pc = "commit" <=> req[r].loaded # None
        /\ req[r].answer = "invalid" => req[r].op = "upload"

(* An id that no request bears has no row and no directory; any other was *)
(* made by exactly one upload.                                            *)
BirthInv ==
    /\ \A i \in Item : Fresh(i) => rows[i] = None /\ i \notin files
    /\ \A i \in Item : ~Fresh(i) => \E u \in Request : Uploader(u, i)
    /\ \A u, v \in Request, i \in Item : Uploader(u, i) /\ Uploader(v, i) => u = v

(* Every copy of a row stays in the closet the caller owns. *)
ClosetInv ==
    \A r \in Request : req[r].item # None =>
        /\ Owner[req[r].snap.closet] = req[r].user
        /\ rows[req[r].item] # None => rows[req[r].item].closet = req[r].snap.closet
        /\ req[r].loaded # None => req[r].loaded.closet = req[r].snap.closet

(* Rows and copies have an image_key exactly when they are settled; only the *)
(* upload's own copy gets it earlier.                                        *)
Paired(row) == row.image_key <=> row.status # "processing"
PairOf(r) ==
    req[r].item # None =>
        /\ req[r].loaded # None => Paired(req[r].loaded)
        /\ req[r].op # "upload" => Paired(req[r].snap)
        /\ req[r].op = "upload" =>
             /\ req[r].pc \in {"store", "analyze"} => req[r].snap.status = "processing"
             /\ req[r].pc \in {"analyze", "save", "commit", "unlink", "rmtree"}
                  => req[r].snap.image_key
             /\ req[r].pc \in {"save", "commit"} => req[r].snap.status # "processing"
             /\ req[r].pc \in {"unlink", "rmtree"} => req[r].answer = "invalid"
             /\ req[r].answer = "invalid" => req[r].snap.status = "failed"
PairInv == KeyFollowsStatus /\ \A r \in Request : PairOf(r)

(* A status other than "processing", in the row or in somebody's copy, is the *)
(* verdict of the upload, and is there only once the upload has saved it.      *)
Saved(u) == req[u].pc \in {"unlink", "rmtree", "done"}
VerdictOf(u, i) ==
    /\ rows[i] # None /\ rows[i].status # "processing" =>
         Saved(u) /\ rows[i].status = req[u].snap.status
    /\ \A r \in Request \ {u} : req[r].item = i =>
         /\ req[r].snap.status # "processing" =>
              Saved(u) /\ req[r].snap.status = req[u].snap.status
         /\ req[r].loaded # None /\ req[r].loaded.status # "processing" =>
              Saved(u) /\ req[r].loaded.status = req[u].snap.status
    /\ req[u].loaded # None => req[u].loaded.status = "processing"
VerdictInv == \A u \in Request, i \in Item : Uploader(u, i) => VerdictOf(u, i)

(* Past its DELETE statement a deletion has no row left. *)
GoneInv == \A r \in Request : Deleting(r) => rows[req[r].item] = None

(* As long as its row is there, an item has its directory from the moment the *)
(* upload stored it, and keeps it if anybody believes it to be ready.          *)
FilesInv ==
    \A r \in Request, i \in Item : req[r].item = i /\ rows[i] # None =>
        /\ req[r].snap.status = "ready" => i \in files
        /\ req[r].op = "upload" /\ req[r].pc \in {"analyze", "save", "commit"} => i \in files

IInv == /\ TypeOK
        /\ ControlInv
        /\ BirthInv
        /\ ClosetInv
        /\ PairInv
        /\ VerdictInv
        /\ GoneInv
        /\ FilesInv
        /\ ReadyHasImage
=============================================================================
