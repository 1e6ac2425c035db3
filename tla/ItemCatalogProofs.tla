-------------------------- MODULE ItemCatalogProofs --------------------------
(* ItemLifecycle leaves no files behind that it promised to remove, and it *)
(* implements ItemCatalog.  So what OutfitsProofs shows of outfits over a   *)
(* catalog holds in Application, over the requests that change the items.   *)
EXTENDS Application, ItemLifecycleProofs, Sequences

(* The part of the invariant that only the removal of directories needs: a   *)
(* removal knows the image, and while the analysis runs the directory is     *)
(* there, even when the row has gone.                                        *)
RemovalOf(r) ==
    /\ req[r].pc \in {"unlink", "rmtree"} => req[r].snap.image_key
    /\ req[r].op = "upload" /\ req[r].pc = "analyze" => req[r].item \in files
    /\ \/ Answered(r, "delete", "ok") /\ req[r].snap.image_key
       \/ Answered(r, "upload", "invalid")
       => req[r].item \notin files
RemovalInv == \A r \in Request : RemovalOf(r)

-----------------------------------------------------------------------------
(* The verdict *)

(* The verdict of an item is in the copy of its only upload. *)
LEMMA VerdictIs ==
    ASSUME BirthInv, NEW i \in Item, NEW u \in Request, Uploader(u, i)
    PROVE  Verdict(i) = req[u].snap.status
BY DEF BirthInv, Verdict

LEMMA VerdictIsNext ==
    ASSUME BirthInv', NEW i \in Item, NEW u \in Request, Uploader(u, i)'
    PROVE  Verdict(i)' = req'[u].snap.status
BY DEF BirthInv, Verdict

(* Whoever bears an item, there is an upload of it. *)
LEMMA HasUploader ==
    ASSUME BirthInv, NEW i \in Item, ~Fresh(i)
    PROVE  \E u \in Request : Uploader(u, i)
BY DEF BirthInv

(* What a copy other than the upload's says is the verdict, or processing. *)
LEMMA CopyShowsVerdict ==
    ASSUME IInv, NEW r \in Request, NEW i \in Item, req[r].item = i,
           req[r].op # "upload", req[r].snap.status # "processing"
    PROVE  /\ Verdict(i) = req[r].snap.status
           /\ \A u \in Request : Uploader(u, i) => Saved(u)
<1>1. ASSUME NEW u \in Request, Uploader(u, i)
      PROVE  Saved(u) /\ Verdict(i) = req[r].snap.status
  <2>1. u # r /\ VerdictOf(u, i)
    BY <1>1 DEF Uploader, IInv, VerdictInv
  <2>2. Verdict(i) = req[u].snap.status
    BY <1>1, VerdictIs DEF IInv
  <2> QED BY <2>1, <2>2 DEF VerdictOf
<1>2. \E u \in Request : Uploader(u, i)
  BY HasUploader DEF IInv, Fresh
<1> QED BY <1>1, <1>2

(* What the table shows of an item is its verdict, or processing. *)
LEMMA RowShowsVerdict ==
    ASSUME IInv, NEW i \in Item, rows[i] # None
    PROVE  rows[i].status \in {"processing", Verdict(i)}
<1>1. PICK u \in Request : Uploader(u, i)
  BY HasUploader DEF IInv, BirthInv
<1>2. Verdict(i) = req[u].snap.status /\ VerdictOf(u, i)
  BY <1>1, VerdictIs DEF IInv, VerdictInv
<1> QED BY <1>2 DEF VerdictOf

LEMMA RowShowsVerdictNext ==
    ASSUME IInv', NEW i \in Item, rows'[i] # None
    PROVE  rows'[i].status \in {"processing", Verdict(i)'}
<1>1. PICK u \in Request : Uploader(u, i)'
  BY DEF IInv, BirthInv
<1>2. Verdict(i)' = req'[u].snap.status /\ VerdictOf(u, i)'
  BY <1>1, VerdictIsNext DEF IInv, VerdictInv
<1> QED BY <1>2 DEF VerdictOf

(* A directory is only removed after the verdict, and with its row unless the *)
(* verdict is failed.                                                         *)
LEMMA RemovalSettled ==
    ASSUME IInv, RemovalInv, NEW r \in Request, req[r].pc = "rmtree"
    PROVE  /\ req[r].item \in Item
           /\ Verdict(req[r].item) # "processing"
           /\ rows[req[r].item] = None \/ Verdict(req[r].item) = "failed"
           /\ \A u \in Request : Uploader(u, req[r].item) => req[u].pc # "analyze"
<1>1. /\ InFlight(r) /\ req[r].op \in {"upload", "delete"}
      /\ req[r].item \in Item /\ req[r].item # None /\ req[r].snap.image_key
  BY InFlightCopy, NotNone DEF InFlight, IInv, ControlInv, Fits, RemovalInv, RemovalOf
<1>2. CASE req[r].op = "delete"
  <2>1. req[r].snap.status # "processing" /\ rows[req[r].item] = None
    BY <1>1, <1>2 DEF IInv, PairInv, PairOf, Paired, GoneInv, Deleting
  <2> QED BY <1>1, <1>2, <2>1, CopyShowsVerdict DEF Saved
<1>3. CASE req[r].op = "upload"
  <2>1. Uploader(r, req[r].item) /\ req[r].snap.status = "failed"
    BY <1>1, <1>3 DEF Uploader, IInv, PairInv, PairOf
  <2>2. \A u \in Request : Uploader(u, req[r].item) => u = r
    BY <1>1, <2>1 DEF IInv, BirthInv
  <2> QED BY <1>1, <2>1, <2>2, VerdictIs DEF IInv
<1> QED BY <1>1, <1>2, <1>3

(* The image is stored before the verdict. *)
LEMMA StoreUnsettled ==
    ASSUME IInv, NEW r \in Request, req[r].pc = "store"
    PROVE  /\ req[r].item \in Item
           /\ ~Fresh(req[r].item)
           /\ Verdict(req[r].item) = "processing"
           /\ \A q \in Request \ {r} : req[q].item = req[r].item =>
                /\ req[q].op # "upload"
                /\ req[q].snap.status = "processing"
                /\ ~req[q].snap.image_key
<1>1. /\ InFlight(r) /\ req[r].op = "upload" /\ req[r].item \in Item /\ ~Saved(r)
      /\ req[r].item # None
  BY InFlightCopy, NotNone DEF InFlight, IInv, ControlInv, Fits, Saved
<1>2. Uploader(r, req[r].item) /\ req[r].snap.status = "processing"
  BY <1>1 DEF Uploader, IInv, PairInv, PairOf
<1>3. Verdict(req[r].item) = "processing"
  BY <1>1, <1>2, VerdictIs DEF IInv
<1>4. ASSUME NEW q \in Request \ {r}, req[q].item = req[r].item
      PROVE  /\ req[q].op # "upload"
             /\ req[q].snap.status = "processing"
             /\ ~req[q].snap.image_key
  <2>1. req[q].op # "upload" /\ req[q].snap.status = "processing"
    BY <1>1, <1>4, UnsavedVerdict DEF Uploader
  <2> QED BY <1>1, <1>4, <2>1 DEF IInv, PairInv, PairOf, Paired
<1> QED BY <1>1, <1>3, <1>4 DEF Fresh

-----------------------------------------------------------------------------
(* No files are left behind *)

LEMMA InitRemoval == Init => RemovalInv
BY DEF Init, NoCall, RemovalInv, RemovalOf, Answered

(* A request that does not move keeps its part: a directory comes only from  *)
(* an upload that has no verdict yet, and goes only with one.                *)
LEMMA RemovalOthers ==
    ASSUME IInv, RemovalInv, NEW r \in Request, Receive(r) \/ Work(r) \/ Crash(r),
           NEW q \in Request \ {r}
    PROVE  RemovalOf(q)'
<1> TypeOK /\ ControlInv /\ RemovalOf(q)
  BY DEF IInv, RemovalInv
<1>1. req'[q] = req[q]
  BY StepOthers DEF Others
<1>2. CASE StorageSave(r) \/ StorageSaveFails(r)
  <2>1. /\ req[r].pc = "store"
        /\ files \subseteq files' /\ files' \subseteq files \cup {req[r].item}
    BY <1>2, StorageSaveEffect, StorageSaveFailsEffect
  <2>2. /\ Answered(q, "delete", "ok") /\ req[q].snap.image_key => req[q].item # req[r].item
        /\ Answered(q, "upload", "invalid") => req[q].item # req[r].item
    BY <2>1, StoreUnsettled DEF Answered
  <2> QED BY <1>1, <2>1, <2>2 DEF RemovalOf, Answered
<1>3. CASE RemoveTree(r)
  <2>1. req[r].pc = "rmtree" /\ files' = files \ {req[r].item}
    BY <1>3, RemoveTreeEffect
  <2>2. req[q].op = "upload" /\ req[q].pc = "analyze" => req[q].item # req[r].item
    BY <2>1, RemovalSettled DEF Uploader
  <2> QED BY <1>1, <2>1, <2>2 DEF RemovalOf, Answered
<1>4. CASE files' = files
  BY <1>1, <1>4 DEF RemovalOf, Answered
<1> QED
  <2>1. CASE Receive(r)
    BY <1>4, <2>1, ReceiveShape DEF Uploads, Copies, Refuses
  <2>2. CASE Work(r) \/ Crash(r)
    BY <1>2, <1>3, <1>4, <2>2 DEF Work, Crash, Analyze, AnalyzeInvalid, AnalyzeRaises,
       SaveItemGet, SaveItemCommit, DirectoryExists, DeleteRow, IsFile, SendFile
  <2> QED BY <2>1, <2>2

LEMMA RemovalOwn ==
    ASSUME IInv, RemovalInv, NEW r \in Request, Receive(r) \/ Work(r) \/ Crash(r)
    PROVE  RemovalOf(r)'
<1> TypeOK /\ ControlInv /\ RemovalOf(r) /\ PairOf(r)
  BY DEF IInv, PairInv, RemovalInv
<1>1. CASE Receive(r)
  <2>1. CASE Uploads(r)
    BY <2>1 DEF Uploads, Begins, RemovalOf, Answered
  <2>2. CASE Copies(r)
    BY <2>2 DEF Copies, Begins, RemovalOf, Answered
  <2>3. CASE Refuses(r)
    BY <2>3 DEF Refuses, Refused, RemovalOf, Answered
  <2> QED BY <1>1, <2>1, <2>2, <2>3, ReceiveShape
<1>2. CASE StorageSave(r)
  <2>1. req'[r].pc = "analyze" /\ req'[r].item \in files'
    BY <1>2, StorageSaveEffect DEF Becomes
  <2> QED BY <2>1 DEF RemovalOf, Answered
<1>3. CASE Analyze(r) \/ AnalyzeInvalid(r) \/ SaveItemGet(r)
  <2>1. \/ req'[r].pc \in {"save", "commit"}
        \/ req'[r].pc = "done" /\ req'[r].answer = "error"
    BY <1>3, AnalyzeEffect, AnalyzeInvalidEffect, SaveItemGetEffect DEF Becomes
  <2> QED BY <2>1 DEF RemovalOf, Answered
<1>4. CASE StorageSaveFails(r) \/ AnalyzeRaises(r) \/ IsFile(r) \/ SendFile(r) \/ Crash(r)
  <2>1. \/ req'[r].pc = "serve"
        \/ req'[r].pc = "done" /\ req'[r].answer \in {"error", "crashed", "not_found"}
        \/ req'[r].pc = "done" /\ req'[r].op = "image"
    BY <1>4, StorageSaveFailsEffect, AnalyzeRaisesEffect, IsFileEffect, SendFileEffect,
       CrashEffect DEF Becomes, ControlInv, Fits
  <2> QED BY <2>1 DEF RemovalOf, Answered
<1>5. CASE SaveItemCommit(r)
  <2>1. req[r].op = "upload" => req[r].snap.image_key
    BY <1>5, SaveItemCommitEffect DEF PairOf, InFlight, ControlInv
  <2>2. req[r].op \in {"upload", "patch"} /\ (req[r].answer = "invalid" => req[r].op = "upload")
    BY <1>5, SaveItemCommitEffect DEF ControlInv, Fits
  <2> QED BY <1>5, <2>1, <2>2, SaveItemCommitEffect DEF Becomes, RemovalOf, Answered
<1>6. CASE DirectoryExists(r)
  BY <1>6, DirectoryExistsEffect DEF Becomes, RemovalOf, Answered
<1>7. CASE RemoveTree(r)
  BY <1>7, RemoveTreeEffect DEF Becomes, RemovalOf, Answered
<1>8. CASE DeleteRow(r)
  BY <1>8, DeleteRowEffect DEF Becomes, RemovalOf, Answered, ControlInv, Fits
<1> QED BY <1>1, <1>2, <1>3, <1>4, <1>5, <1>6, <1>7, <1>8 DEF Work

LEMMA NextRemoval == IInv /\ RemovalInv /\ [Next]_vars => RemovalInv'
<1> SUFFICES ASSUME IInv, RemovalInv, [Next]_vars PROVE RemovalInv'
  OBVIOUS
<1>1. CASE Next
  <2>1. PICK r \in Request : Receive(r) \/ Work(r) \/ Crash(r)
    BY <1>1 DEF Next
  <2>2. RemovalOf(r)' /\ \A q \in Request \ {r} : RemovalOf(q)'
    BY <2>1, RemovalOwn, RemovalOthers
  <2> QED BY <2>2 DEF RemovalInv
<1>2. CASE UNCHANGED vars
  BY <1>2 DEF vars, RemovalInv, RemovalOf, Answered
<1> QED BY <1>1, <1>2

(* A deletion that knew the image, or an upload refused as no image, leaves  *)
(* no directory behind: whatever runs beside it, then or later.              *)
THEOREM NothingLeftBehind == Spec => []RemovalLeavesNoFiles
<1>1. RemovalInv => RemovalLeavesNoFiles
  BY DEF RemovalInv, RemovalOf, RemovalLeavesNoFiles
<1> QED BY Invariance, InitRemoval, NextRemoval, <1>1, PTL DEF Spec

-----------------------------------------------------------------------------
(* The refinement: what a step changes of the catalog *)

LEMMA FreshVerdict ==
    ASSUME NEW i \in Item, Fresh(i)
    PROVE  Verdict(i) = "processing"
BY DEF Fresh, Uploader, Verdict

LEMMA FreshVerdictNext ==
    ASSUME NEW i \in Item, Fresh(i)'
    PROVE  Verdict(i)' = "processing"
BY DEF Fresh, Uploader, Verdict

KeepsBorn == \A i \in Item : Fresh(i)' <=> Fresh(i)
KeepsVerdict(i) == Verdict(i)' = Verdict(i)
KeepsShown(i) == Shown(i)' = Shown(i)

(* The verdict of an item is kept as long as its upload keeps it. *)
LEMMA VerdictStays ==
    ASSUME IInv, IInv', NEW r \in Request, Others(r),
           req'[r].item = req[r].item, req'[r].op = req[r].op
    PROVE  /\ KeepsBorn
           /\ \A i \in Item : i # req[r].item => KeepsVerdict(i)
           /\ \/ req[r].op # "upload"
              \/ req'[r].snap.status = req[r].snap.status
              => \A i \in Item : KeepsVerdict(i)
<1> BirthInv /\ BirthInv'
  BY DEF IInv
<1>1. KeepsBorn
  BY DEF KeepsBorn, Fresh, Others
<1>2. ASSUME NEW i \in Item,
             \/ i # req[r].item
             \/ req[r].op # "upload"
             \/ req'[r].snap.status = req[r].snap.status
      PROVE  KeepsVerdict(i)
  <2>1. CASE Fresh(i)
    BY <1>1, <2>1, FreshVerdict, FreshVerdictNext DEF KeepsBorn, KeepsVerdict
  <2>2. CASE ~Fresh(i)
    <3>1. PICK u \in Request : Uploader(u, i)
      BY <2>2, HasUploader
    <3>2. Uploader(u, i)'
      BY <3>1 DEF Uploader, Others
    <3>3. req'[u].snap.status = req[u].snap.status
      BY <1>2, <3>1 DEF Uploader, Others
    <3> QED BY <3>1, <3>2, <3>3, VerdictIs, VerdictIsNext DEF KeepsVerdict
  <2> QED BY <2>1, <2>2
<1> QED BY <1>1, <1>2

(* Requests that only read, or are turned away, show nothing new. *)
LEMMA ReadersShowNothing ==
    ASSUME IInv, IInv', NEW r \in Request, req[r].pc = "idle", Copies(r) \/ Refuses(r)
    PROVE  KeepsBorn /\ \A i \in Item : KeepsVerdict(i)
<1> BirthInv /\ BirthInv'
  BY DEF IInv
<1>1. req[r].item = None /\ Others(r)
  BY DEF IInv, ControlInv, Copies, Refuses, Begins, Refused
<1>2. \/ req'[r].item = None
      \/ /\ req'[r].item \in Item /\ req'[r].op # "upload"
         /\ ~Fresh(req'[r].item)
  BY DEF Copies, Refuses, Begins, Refused, Visible, IInv, BirthInv
<1>3. KeepsBorn
  BY <1>1, <1>2, NotNone DEF KeepsBorn, Fresh, Others
<1>4. ASSUME NEW i \in Item PROVE KeepsVerdict(i)
  <2>1. CASE Fresh(i)
    BY <1>3, <2>1, FreshVerdict, FreshVerdictNext DEF KeepsBorn, KeepsVerdict
  <2>2. CASE ~Fresh(i)
    <3>1. PICK u \in Request : Uploader(u, i)
      BY <2>2, HasUploader
    <3>2. u # r /\ req'[u] = req[u]
      BY <1>1, <3>1, NotNone DEF Uploader, Others
    <3>3. Uploader(u, i)'
      BY <3>1, <3>2 DEF Uploader
    <3> QED BY <3>1, <3>2, <3>3, VerdictIs, VerdictIsNext DEF KeepsVerdict
  <2> QED BY <2>1, <2>2
<1> QED BY <1>3, <1>4

CatalogKept ==
    /\ KeepsBorn
    /\ \A i \in Item : KeepsVerdict(i) /\ KeepsShown(i)
    /\ files' = files

LEMMA KeptStutters ==
    ASSUME CatalogKept
    PROVE  UNCHANGED Catalog!catalogVars
BY DEF CatalogKept, KeepsBorn, KeepsVerdict, KeepsShown, Catalog!catalogVars

-----------------------------------------------------------------------------
(* The refinement: one lemma for each action of the catalog *)

LEMMA UploadCreates ==
    ASSUME IInv, IInv', NEW r \in Request, req[r].pc = "idle", Uploads(r)
    PROVE  \E i \in Item : Catalog!Change(i)
<1> BirthInv /\ BirthInv' /\ TypeOK
  BY DEF IInv
<1>1. PICK i \in Item, u \in User, c \in Closet :
        /\ Fresh(i)
        /\ rows' = [rows EXCEPT ![i] = NewRow(c)]
        /\ files' = files
        /\ Begins(r, "upload", u, i, NewRow(c), "store")
  BY DEF Uploads
<1>2. /\ req[r].item = None /\ Others(r)
      /\ req'[r].item = i /\ req'[r].op = "upload" /\ req'[r].snap.status = "processing"
  BY <1>1 DEF IInv, ControlInv, Begins, NewRow
<1>3. /\ ~Fresh(i)'
      /\ \A j \in Item : j # i => (Fresh(j)' <=> Fresh(j))
  BY <1>2, NotNone DEF Fresh, Others
<1>4. Verdict(i)' = Verdict(i)
  <2>1. Uploader(r, i)'
    BY <1>2 DEF Uploader
  <2> QED BY <1>1, <1>2, <2>1, FreshVerdict, VerdictIsNext
<1>5. ASSUME NEW j \in Item, j # i PROVE Verdict(j)' = Verdict(j)
  <2>1. CASE Fresh(j)
    BY <1>3, <1>5, <2>1, FreshVerdict, FreshVerdictNext
  <2>2. CASE ~Fresh(j)
    <3>1. PICK v \in Request : Uploader(v, j)
      BY <2>2, HasUploader
    <3>2. req'[v] = req[v]
      BY <1>2, <3>1, NotNone DEF Uploader, Others
    <3>3. Uploader(v, j)'
      BY <3>1, <3>2 DEF Uploader
    <3> QED BY <3>1, <3>2, <3>3, VerdictIs, VerdictIsNext
  <2> QED BY <2>1, <2>2
<1>6. /\ Shown(i)' = [closet |-> c, status |-> "processing"]
      /\ \A j \in Item : j # i => Shown(j)' = Shown(j)
  BY <1>1, NewRowType, NotNone DEF Shown, NewRow, TypeOK
<1>7. Catalog!Create(i, c)
  BY <1>1, <1>3, <1>4, <1>5, <1>6 DEF Catalog!Create
<1> QED BY <1>7 DEF Catalog!Change

(* Adding an item's directory before its verdict is Store. *)
LEMMA StoreStores ==
    ASSUME KeepsBorn, \A j \in Item : KeepsVerdict(j) /\ KeepsShown(j),
           NEW i \in Item, ~Fresh(i), Verdict(i) = "processing", files' = files \cup {i}
    PROVE  Catalog!Change(i)
<1>1. Catalog!Store(i)
  BY DEF KeepsBorn, KeepsVerdict, KeepsShown, Catalog!Store
<1> QED BY <1>1 DEF Catalog!Change

LEMMA ShownNone ==
    ASSUME TypeOK, NEW i \in Item
    PROVE  Shown(i) = None <=> rows[i] = None
<1>1. rows[i] # None => [closet |-> rows[i].closet, status |-> rows[i].status] \in Entry
  BY DEF TypeOK, Row, Entry
<1> QED BY <1>1, NoneAssumption DEF Shown

(* The upload's copy getting a status is Decide. *)
LEMMA AnalysisDecides ==
    ASSUME KeepsBorn, \A j \in Item : KeepsShown(j), files' = files,
           NEW i \in Item, i \in files, Verdict(i) = "processing",
           Verdict(i)' \in {"ready", "failed"},
           \A j \in Item : j # i => KeepsVerdict(j)
    PROVE  Catalog!Change(i)
<1>1. Catalog!Decide(i)
  BY DEF KeepsBorn, KeepsVerdict, KeepsShown, Catalog!Decide
<1> QED BY <1>1 DEF Catalog!Change

(* A save leaves the verdict or "processing" in the row: Show. *)
LEMMA CommitShows ==
    ASSUME TypeOK, KeepsBorn, \A j \in Item : KeepsVerdict(j), files' = files,
           NEW i \in Item, rows[i] # None, rows'[i] # None,
           rows'[i].closet = rows[i].closet,
           rows'[i].status \in {"processing", Verdict(i)},
           \A j \in Item : j # i => KeepsShown(j)
    PROVE  Catalog!Change(i)
<1>1. /\ Shown(i) = [closet |-> rows[i].closet, status |-> rows[i].status]
      /\ Shown(i)' = [Shown(i) EXCEPT !.status = rows'[i].status]
  BY DEF Shown
<1>2. Shown(i) # None
  BY ShownNone
<1>3. Catalog!Show(i)
  BY <1>1, <1>2 DEF KeepsBorn, KeepsVerdict, KeepsShown, Catalog!Show
<1> QED BY <1>3 DEF Catalog!Change

(* A row that vanishes is Remove. *)
LEMMA DeletionRemoves ==
    ASSUME TypeOK, KeepsBorn, \A j \in Item : KeepsVerdict(j), files' = files,
           NEW i \in Item, rows[i] # None, rows'[i] = None,
           \A j \in Item : j # i => KeepsShown(j)
    PROVE  Catalog!Change(i)
<1>1. Shown(i) # None /\ Shown(i)' = None
  BY ShownNone DEF Shown
<1>2. Catalog!Remove(i)
  BY <1>1 DEF KeepsBorn, KeepsVerdict, KeepsShown, Catalog!Remove
<1> QED BY <1>2 DEF Catalog!Change

(* Removing the directory of a settled item is Clean. *)
LEMMA RemovalCleans ==
    ASSUME KeepsBorn, \A j \in Item : KeepsVerdict(j) /\ KeepsShown(j),
           NEW i \in Item, Verdict(i) # "processing",
           rows[i] = None \/ Verdict(i) = "failed", files' = files \ {i}
    PROVE  Catalog!Change(i)
<1>1. rows[i] = None => Shown(i) = None
  BY DEF Shown
<1>2. Catalog!Clean(i)
  BY <1>1 DEF KeepsBorn, KeepsVerdict, KeepsShown, Catalog!Clean
<1> QED BY <1>2 DEF Catalog!Change

-----------------------------------------------------------------------------
(* Every step is one of these or changes nothing that is seen *)

LEMMA ReceiveMaps ==
    ASSUME IInv, IInv', NEW r \in Request, Receive(r)
    PROVE  (\E i \in Item : Catalog!Change(i)) \/ UNCHANGED Catalog!catalogVars
<1>1. req[r].pc = "idle" /\ (Uploads(r) \/ Copies(r) \/ Refuses(r))
  BY ReceiveShape DEF IInv
<1>2. CASE Uploads(r)
  BY <1>1, <1>2, UploadCreates
<1>3. CASE Copies(r) \/ Refuses(r)
  <2>1. UNCHANGED <<rows, files>>
    BY <1>3 DEF Copies, Refuses
  <2>2. KeepsBorn /\ \A i \in Item : KeepsVerdict(i)
    BY <1>1, <1>3, ReadersShowNothing
  <2>3. CatalogKept
    BY <2>1, <2>2 DEF CatalogKept, KeepsShown, Shown
  <2> QED BY <2>3, KeptStutters
<1> QED BY <1>1, <1>2, <1>3

LEMMA WorkMaps ==
    ASSUME IInv, IInv', RemovalInv, NEW r \in Request, Work(r) \/ Crash(r)
    PROVE  (\E i \in Item : Catalog!Change(i)) \/ UNCHANGED Catalog!catalogVars
<1> TypeOK /\ ControlInv /\ ClosetInv
  BY DEF IInv
<1>0. PICK i \in Item : i = req[r].item
  BY WorkShape, InFlightCopy DEF Works
<1>1. /\ Works(r) /\ InFlight(r) /\ i = req[r].item /\ ~Fresh(i)
      /\ Others(r) /\ req'[r].item = i /\ req'[r].op = req[r].op
  BY <1>0, WorkShape DEF Works, Becomes, Fresh
<1>2. ASSUME req[r].op # "upload" \/ req'[r].snap.status = req[r].snap.status
      PROVE  KeepsBorn /\ \A j \in Item : KeepsVerdict(j)
  BY <1>1, <1>2, VerdictStays
<1>3. \A j \in Item : j # i => KeepsShown(j)
  BY <1>1 DEF Works, KeepsShown, Shown
<1>4. ASSUME rows' = rows PROVE \A j \in Item : KeepsShown(j)
  BY <1>4 DEF KeepsShown, Shown
<1>5. CASE StorageSave(r) \/ StorageSaveFails(r)
  <2>1. /\ req[r].pc = "store" /\ rows' = rows
        /\ files' \in {files, files \cup {i}}
        /\ req'[r].snap.status = req[r].snap.status
    BY <1>1, <1>5, StorageSaveEffect, StorageSaveFailsEffect DEF Becomes
  <2>2. Verdict(i) = "processing"
    BY <1>1, <2>1, StoreUnsettled
  <2>3. CASE files' = files
    BY <1>2, <1>4, <2>1, <2>3, KeptStutters DEF CatalogKept
  <2>4. CASE files' = files \cup {i}
    BY <1>1, <1>2, <1>4, <2>1, <2>2, <2>4, StoreStores
  <2> QED BY <2>1, <2>3, <2>4
<1>6. CASE Analyze(r) \/ AnalyzeInvalid(r)
  <2>1. /\ req[r].pc = "analyze" /\ UNCHANGED <<rows, files>>
        /\ req'[r].snap.status \in {"ready", "failed"}
    BY <1>6, AnalyzeEffect, AnalyzeInvalidEffect DEF Becomes
  <2>2. /\ Uploader(r, i) /\ Uploader(r, i)'
        /\ i \in files /\ req[r].snap.status = "processing"
    BY <1>1, <2>1, NotNone
       DEF Uploader, ControlInv, Fits, IInv, PairInv, PairOf, RemovalInv, RemovalOf
  <2>3. Verdict(i) = "processing" /\ Verdict(i)' \in {"ready", "failed"}
    BY <1>1, <2>1, <2>2, VerdictIs, VerdictIsNext DEF IInv
  <2>4. KeepsBorn /\ \A j \in Item : j # i => KeepsVerdict(j)
    BY <1>1, VerdictStays
  <2> QED BY <1>1, <1>4, <2>1, <2>2, <2>3, <2>4, AnalysisDecides
<1>7. CASE SaveItemCommit(r) /\ rows' # rows
  <2>1. /\ files' = files /\ rows[i] # None
        /\ rows' = [rows EXCEPT ![i] = Merged(rows[i], req[r].snap, req[r].loaded)]
        /\ req'[r].snap = req[r].snap
        /\ req[r].pc = "commit"
    BY <1>1, <1>7, SaveItemCommitEffect DEF Becomes
  <2>2. rows'[i] # None
    BY <1>1, <2>1, CommitCopies, MergedType, NotNone DEF TypeOK
  <2>3. rows'[i].closet = rows[i].closet
    BY <1>1, <2>2, CommitCloset
  <2>4. KeepsBorn /\ \A j \in Item : KeepsVerdict(j)
    BY <1>2, <2>1
  <2>5. rows'[i].status \in {"processing", Verdict(i)}
    <3>1. rows'[i].status \in {"processing", Verdict(i)'}
      BY <1>1, <2>2, RowShowsVerdictNext
    <3> QED BY <1>1, <2>4, <3>1 DEF KeepsVerdict
  <2> QED BY <1>1, <1>3, <2>1, <2>2, <2>3, <2>4, <2>5, CommitShows
<1>8. CASE DeleteRow(r)
  <2>1. /\ files' = files /\ req'[r].snap = req[r].snap
        /\ rows' = [rows EXCEPT ![i] = None]
    BY <1>1, <1>8, DeleteRowEffect DEF Becomes
  <2>2. rows'[i] = None
    BY <1>1, <2>1 DEF TypeOK
  <2>3. CASE rows[i] = None
    <3>1. KeepsShown(i)
      BY <2>2, <2>3 DEF KeepsShown, Shown
    <3> QED BY <1>2, <1>3, <2>1, <3>1, KeptStutters DEF CatalogKept
  <2>4. CASE rows[i] # None
    BY <1>1, <1>2, <1>3, <2>1, <2>2, <2>4, DeletionRemoves
  <2> QED BY <2>3, <2>4
<1>9. CASE RemoveTree(r)
  <2>1. /\ req[r].pc = "rmtree" /\ rows' = rows /\ files' = files \ {i}
        /\ req'[r].snap = req[r].snap
    BY <1>1, <1>9, RemoveTreeEffect DEF Becomes
  <2>2. Verdict(i) # "processing" /\ (rows[i] = None \/ Verdict(i) = "failed")
    BY <1>1, <2>1, RemovalSettled
  <2> QED BY <1>1, <1>2, <1>4, <2>1, <2>2, RemovalCleans
<1>10. CASE \/ AnalyzeRaises(r) \/ SaveItemGet(r) \/ DirectoryExists(r)
            \/ IsFile(r) \/ SendFile(r) \/ Crash(r)
            \/ SaveItemCommit(r) /\ rows' = rows
  <2>1. /\ rows' = rows /\ files' = files
        /\ req'[r].snap = req[r].snap
    BY <1>10, AnalyzeRaisesEffect, SaveItemGetEffect, DirectoryExistsEffect, IsFileEffect,
       SendFileEffect, CrashEffect, SaveItemCommitEffect DEF Becomes
  <2> QED BY <1>2, <1>4, <2>1, KeptStutters DEF CatalogKept
<1> QED BY <1>5, <1>6, <1>7, <1>8, <1>9, <1>10 DEF Work

LEMMA InitMaps == Init => Catalog!Init
<1> SUFFICES ASSUME Init PROVE Catalog!Init
  OBVIOUS
<1>1. \A i \in Item : Fresh(i) /\ Shown(i) = None
  BY NotNone DEF Init, NoCall, Fresh, Shown
<1>2. \A i \in Item : Verdict(i) = "processing"
  BY <1>1, FreshVerdict
<1> QED BY <1>1, <1>2 DEF Catalog!Init, Init

LEMMA NextMaps ==
    IInv /\ IInv' /\ RemovalInv /\ [Next]_vars => [Catalog!Next]_(Catalog!catalogVars)
<1> SUFFICES ASSUME IInv, IInv', RemovalInv, [Next]_vars
             PROVE  [Catalog!Next]_(Catalog!catalogVars)
  OBVIOUS
<1>1. CASE Next
  <2>1. PICK r \in Request : Receive(r) \/ Work(r) \/ Crash(r)
    BY <1>1 DEF Next
  <2>2. (\E i \in Item : Catalog!Change(i)) \/ UNCHANGED Catalog!catalogVars
    BY <2>1, ReceiveMaps, WorkMaps
  <2> QED BY <2>2 DEF Catalog!Next
<1>2. CASE UNCHANGED vars
  <2>1. CatalogKept
    BY <1>2 DEF vars, CatalogKept, KeepsBorn, KeepsVerdict, KeepsShown, Fresh, Verdict,
       Uploader, Shown
  <2> QED BY <2>1, KeptStutters
<1> QED BY <1>1, <1>2

(* Concurrent requests with their stale copies, merged columns, failures and  *)
(* crashes are, for a reader of the table and the directories, the catalog.   *)
THEOREM Refinement == Spec => ImplementsCatalog
BY Invariance, InitRemoval, NextRemoval, InitMaps, NextMaps, PTL
DEF Spec, ImplementsCatalog, Catalog!Spec
-----------------------------------------------------------------------------
(* Outfits over the items that change: the theorems of OutfitsProofs, with the
   rows as ItemLifecycle shows them.                                          *)

Outfitting == INSTANCE OutfitsProofs WITH
    born <- {i \in Item : ~Fresh(i)},
    rows <- [i \in Item |-> Shown(i)],
    verdict <- [i \in Item |-> Verdict(i)],
    Request <- OutfitRequest,
    Faults <- OutfitFaults,
    req <- outfitReq

(* OutfitsProofs rests on the assumptions of Outfits. *)
LEMMA OutfitAssumptions == Outfitting!NoneIsNoEntry /\ Outfitting!OutfitsAssumption
BY NoneAssumption, OwnerAssumption, ApplicationAssumption
DEF Outfitting!NoneIsNoEntry, Outfitting!OutfitsAssumption, Outfitting!Entry,
    Outfitting!Status, Entry, Status

(* The steps of Styling are those of Outfitting, and its catalog is Catalog. *)
LEMMA SameReceive == ASSUME NEW r PROVE Styling!Receive(r) <=> Outfitting!Receive(r)
BY DEF Styling!Receive, Styling!Recommend, Styling!GetOutfitImage, Styling!Enter,
    Styling!Outfit, Outfitting!Receive, Outfitting!Recommend, Outfitting!GetOutfitImage,
    Outfitting!Enter, Outfitting!Outfit

LEMMA SameWork == ASSUME NEW r PROVE Styling!Work(r) <=> Outfitting!Work(r)
<1>1. Styling!ListItems(r) <=> Outfitting!ListItems(r)
  BY DEF Styling!ListItems, Styling!Generate, Styling!Candidates, Styling!Ready,
    Styling!ReadyOrNot, Outfitting!ListItems, Outfitting!Generate, Outfitting!Candidates,
    Outfitting!Ready, Outfitting!ReadyOrNot
<1>2. Styling!FindSource(r) <=> Outfitting!FindSource(r)
  BY DEF Styling!FindSource, Styling!Finish, Outfitting!FindSource, Outfitting!Finish
<1>3. Styling!Compose(r) <=> Outfitting!Compose(r)
  BY DEF Styling!Compose, Styling!Finish, Styling!Current, Styling!ImageOf,
    Outfitting!Compose, Outfitting!Finish, Outfitting!Current, Outfitting!ImageOf
<1>4. Styling!Explain(r) <=> Outfitting!Explain(r)
  BY DEF Styling!Explain, Styling!Finish, Styling!Current, Styling!Generate,
    Outfitting!Explain, Outfitting!Finish, Outfitting!Current, Outfitting!Generate
<1> QED BY <1>1, <1>2, <1>3, <1>4 DEF Styling!Work, Outfitting!Work

LEMMA SameNext == Catalog!Next <=> Outfitting!Next
BY DEF Catalog!Next, Catalog!Change, Catalog!Create, Catalog!Store, Catalog!Decide,
    Catalog!Show, Catalog!Remove, Catalog!Clean, Outfitting!Next, Outfitting!Change,
    Outfitting!Create, Outfitting!Store, Outfitting!Decide, Outfitting!Show,
    Outfitting!Remove, Outfitting!Clean

LEMMA CatalogUnchanged ==
    ASSUME UNCHANGED vars
    PROVE  UNCHANGED Outfitting!catalogVars
BY DEF vars, Outfitting!catalogVars, Fresh, Shown, Verdict, Uploader

LEMMA OutfittingInit == InitApp => Outfitting!InitOutfits
<1> SUFFICES ASSUME InitApp PROVE Outfitting!InitOutfits
  OBVIOUS
<1>1. Outfitting!Init
  BY InitMaps DEF InitApp, Catalog!Init, Outfitting!Init
<1> QED BY <1>1 DEF InitApp, Outfitting!InitOutfits, Styling!NoCall, Outfitting!NoCall

LEMMA OutfittingStep ==
    IInv /\ IInv' /\ RemovalInv /\ [NextApp]_appVars =>
        [Outfitting!NextOutfits]_(Outfitting!vars)
<1> SUFFICES ASSUME IInv, IInv', RemovalInv, [NextApp]_appVars
             PROVE  [Outfitting!NextOutfits]_(Outfitting!vars)
  OBVIOUS
<1>1. CASE Next /\ UNCHANGED <<images, outfitReq>>
  <2>1. [Catalog!Next]_(Catalog!catalogVars)
    BY <1>1, NextMaps
  <2>2. CASE Catalog!Next
    BY <1>1, <2>2, SameNext DEF Outfitting!NextOutfits
  <2>3. CASE UNCHANGED Catalog!catalogVars
    BY <1>1, <2>3 DEF Catalog!catalogVars, Outfitting!catalogVars, Outfitting!vars
  <2> QED BY <2>1, <2>2, <2>3
<1>2. ASSUME NEW r \in OutfitRequest, Styling!Receive(r) \/ Styling!Work(r), UNCHANGED vars
      PROVE  Outfitting!NextOutfits
  BY <1>2, SameReceive, SameWork, CatalogUnchanged DEF Outfitting!NextOutfits
<1>3. CASE UNCHANGED appVars
  <2>1. UNCHANGED vars /\ UNCHANGED <<images, outfitReq>>
    BY <1>3 DEF appVars, vars
  <2> QED BY <2>1, CatalogUnchanged DEF Outfitting!vars
<1> QED BY <1>1, <1>2, <1>3 DEF NextApp

(* The items do not notice the outfits. *)
LEMMA AppItems == SpecApp => Spec
<1>1. InitApp => Init
  BY DEF InitApp
<1>2. [NextApp]_appVars => [Next]_vars
  BY DEF NextApp, appVars, vars
<1> QED BY <1>1, <1>2, PTL DEF SpecApp, Spec

LEMMA AppOutfits == SpecApp => Outfitting!SpecOutfits
BY Invariance, InitRemoval, NextRemoval, AppItems, OutfittingInit, OutfittingStep, PTL
DEF SpecApp, Spec, Outfitting!SpecOutfits

(* Whatever the item requests do, the outfit requests are those of Outfits over
   a catalog.                                                                 *)
THEOREM OutfitsImplemented == SpecApp => ImplementsOutfits
<1>1. Outfitting!InitOutfits => Styling!InitOutfits
  BY DEF Outfitting!InitOutfits, Outfitting!Init, Outfitting!NoCall,
    Styling!InitOutfits, Styling!Init, Styling!NoCall
<1>2. Outfitting!Next <=> Styling!Next
  BY DEF Outfitting!Next, Outfitting!Change, Outfitting!Create, Outfitting!Store,
    Outfitting!Decide, Outfitting!Show, Outfitting!Remove, Outfitting!Clean,
    Styling!Next, Styling!Change, Styling!Create, Styling!Store,
    Styling!Decide, Styling!Show, Styling!Remove, Styling!Clean
<1>3. Outfitting!catalogVars = Styling!catalogVars /\ Outfitting!vars = Styling!vars
  BY DEF Outfitting!catalogVars, Styling!catalogVars, Outfitting!vars, Styling!vars
<1>4. UNCHANGED Outfitting!catalogVars <=> UNCHANGED Styling!catalogVars
  BY DEF Outfitting!catalogVars, Styling!catalogVars
<1>5. UNCHANGED Outfitting!vars <=> UNCHANGED Styling!vars
  BY <1>4 DEF Outfitting!vars, Styling!vars
<1>6. [Outfitting!NextOutfits]_(Outfitting!vars) => [Styling!NextOutfits]_(Styling!vars)
  BY <1>2, <1>4, <1>5, SameReceive, SameWork DEF Outfitting!NextOutfits, Styling!NextOutfits
<1> QED BY <1>1, <1>6, AppOutfits, PTL
        DEF ImplementsOutfits, Outfitting!SpecOutfits, Styling!SpecOutfits

-----------------------------------------------------------------------------
(* Whose deletion it was *)

(* Every copy that anybody has of an item is in one closet. *)
InCloset(i, c) == \A r \in Request : req[r].item = i => req[r].snap.closet = c

(* A row goes only by a DELETE of it. *)
DeletedInv ==
    \A i \in Item : ~Fresh(i) /\ rows[i] = None =>
        \E d \in Request : req[d].op = "delete" /\ req[d].item = i

(* The items of a candidate are in the closet that was asked for. *)
TodoInv ==
    \A r \in OutfitRequest :
       \A k \in 1 .. Len(outfitReq[r].todo) :
          \A i \in outfitReq[r].todo[k] : InCloset(i, outfitReq[r].closet)

AppInv == IInv /\ Outfitting!IInv /\ DeletedInv /\ TodoInv

LEMMA ClosetStays ==
    ASSUME IInv, NEW r \in Request, Receive(r) \/ Work(r) \/ Crash(r),
           NEW i \in Item, ~Fresh(i), NEW c, InCloset(i, c)
    PROVE  InCloset(i, c)'
<1> TypeOK /\ ControlInv /\ i # None
  BY NotNone DEF IInv
<1>1. \A q \in Request \ {r} : req'[q] = req[q]
  BY StepOthers DEF Others
<1>2. CASE Works(r)
  BY <1>1, <1>2 DEF Works, Becomes, InCloset
<1>3. CASE Copies(r) /\ req'[r].item = i
  <2>1. rows[i] # None /\ req'[r].snap.closet = rows[i].closet
    BY <1>3 DEF Copies, Begins, Visible
  <2>2. PICK q \in Request : req[q].item = i
    BY DEF Fresh
  <2>3. rows[i].closet = c
    BY <2>1, <2>2 DEF IInv, ClosetInv, InCloset
  <2> QED BY <1>1, <2>1, <2>3 DEF InCloset
<1>4. CASE req'[r].item # i
  BY <1>1, <1>4 DEF InCloset
<1>5. CASE Uploads(r) \/ Refuses(r)
  BY <1>4, <1>5 DEF Uploads, Refuses, Begins, Refused
<1> QED BY <1>2, <1>3, <1>4, <1>5, ReceiveShape, WorkShape

LEMMA DeletedStep ==
    ASSUME IInv, DeletedInv, NEW r \in Request, Receive(r) \/ Work(r) \/ Crash(r)
    PROVE  DeletedInv'
<1> TypeOK /\ ControlInv
  BY DEF IInv
<1> SUFFICES ASSUME NEW i \in Item, ~Fresh(i)', rows'[i] = None
             PROVE  \E d \in Request : req'[d].op = "delete" /\ req'[d].item = i
  BY DEF DeletedInv
<1>1. /\ \A q \in Request \ {r} : req'[q] = req[q]
      /\ Works(r) => req'[r].op = req[r].op /\ req'[r].item = req[r].item
      /\ i # None
  BY StepOthers, NotNone DEF Others, Works, Becomes
<1>2. Receive(r) \/ Works(r)
  BY WorkShape
<1>3. CASE Fresh(i)
  <2>1. rows[i] = None
    BY <1>3 DEF IInv, BirthInv
  <2>2. req'[r].item = i
    BY <1>1, <1>3 DEF Fresh
  <2>3. Uploads(r)
    BY <1>1, <1>2, <1>3, <2>1, <2>2, ReceiveShape
    DEF Copies, Refuses, Begins, Refused, Visible, Fresh
  <2> QED BY <2>2, <2>3, NewRowType, NotNone DEF Uploads, Begins, TypeOK
<1>4. CASE ~Fresh(i) /\ rows[i] = None
  <2>1. PICK d \in Request : req[d].op = "delete" /\ req[d].item = i
    BY <1>4 DEF DeletedInv
  <2>2. d = r => Works(r)
    BY <1>1, <1>2, <2>1, ReceiveShape DEF ControlInv
  <2> QED BY <1>1, <2>1, <2>2
<1>5. CASE ~Fresh(i) /\ rows[i] # None
  <2>1. ~Receive(r)
    BY <1>5, ReceiveShape DEF Uploads, Copies, Refuses, TypeOK
  <2>2. CASE DeleteRow(r)
    <3>1. req[r].op = "delete" /\ req[r].item = i
      BY <1>5, <2>2, DeleteRowEffect DEF ControlInv, Fits, TypeOK
    <3> QED BY <1>1, <1>2, <2>1, <3>1
  <2>3. CASE SaveItemCommit(r)
    BY <1>5, <2>3, SaveItemCommitEffect, CommitCopies, MergedType, NotNone DEF TypeOK
  <2>4. CASE (Work(r) \/ Crash(r)) /\ ~DeleteRow(r) /\ ~SaveItemCommit(r)
    <3>1. rows' = rows
      BY <2>4, StorageSaveEffect, StorageSaveFailsEffect, AnalyzeEffect,
         AnalyzeInvalidEffect, AnalyzeRaisesEffect, SaveItemGetEffect,
         DirectoryExistsEffect, RemoveTreeEffect, IsFileEffect, SendFileEffect, CrashEffect
      DEF Work
    <3> QED BY <1>5, <3>1
  <2> QED BY <2>1, <2>2, <2>3, <2>4
<1> QED BY <1>3, <1>4, <1>5

(* An item that a request has listed is known, and is an item. *)
LEMMA TodoKnown ==
    ASSUME Outfitting!IInv, NEW r \in OutfitRequest,
           NEW k \in 1 .. Len(outfitReq[r].todo), NEW i \in outfitReq[r].todo[k]
    PROVE  i \in Item /\ ~Fresh(i)
<1>1. outfitReq[r].todo \in Seq(SUBSET Item)
  BY DEF Outfitting!IInv, Outfitting!TypeOK, Outfitting!Call, Outfitting!Outfit
<1>2. i \in Item
  BY <1>1
<1>3. Outfitting!Offered(outfitReq[r].todo, outfitReq[r].closet)
  BY DEF Outfitting!IInv, Outfitting!CallInv, Outfitting!CallOf
<1> QED BY <1>2, <1>3 DEF Outfitting!Offered, Outfitting!Listed

LEMMA TodoByItems ==
    ASSUME IInv, Outfitting!IInv, TodoInv, Next, UNCHANGED outfitReq
    PROVE  TodoInv'
<1> SUFFICES ASSUME NEW r \in OutfitRequest,
                    NEW k \in 1 .. Len(outfitReq[r].todo), NEW i \in outfitReq[r].todo[k]
             PROVE  InCloset(i, outfitReq[r].closet)'
  BY DEF TodoInv
<1>1. PICK q \in Request : Receive(q) \/ Work(q) \/ Crash(q)
  BY DEF Next
<1>2. i \in Item /\ ~Fresh(i) /\ InCloset(i, outfitReq[r].closet)
  BY TodoKnown DEF TodoInv
<1>3. ASSUME NEW c, InCloset(i, c) PROVE InCloset(i, c)'
  BY <1>1, <1>2, <1>3, ClosetStays
<1> QED BY <1>2, <1>3

LEMMA TodoByOutfits ==
    ASSUME IInv, Outfitting!IInv, TodoInv, NEW r \in OutfitRequest,
           Outfitting!Receive(r) \/ Outfitting!Work(r), UNCHANGED vars
    PROVE  TodoInv'
<1> SUFFICES ASSUME NEW q \in OutfitRequest,
                    NEW k \in 1 .. Len(outfitReq'[q].todo), NEW i \in outfitReq'[q].todo[k]
             PROVE  InCloset(i, outfitReq'[q].closet)
  BY DEF TodoInv, InCloset, vars
<1>1. Outfitting!ComesFrom(q)
  BY OutfitAssumptions, CatalogUnchanged, Outfitting!TodoStep
<1>2. UNCHANGED Outfitting!catalogVars
  BY CatalogUnchanged
<1>3. i \in Item
  <2>1. Outfitting!IInv'
    BY <1>2, OutfitAssumptions, Outfitting!NextIInv DEF Outfitting!NextOutfits
  <2>2. outfitReq'[q].todo \in Seq(SUBSET Item)
    BY <2>1 DEF Outfitting!IInv, Outfitting!TypeOK, Outfitting!Call, Outfitting!Outfit
  <2> QED BY <2>2
<1>4. CASE Shown(i) # None /\ Shown(i).closet = outfitReq'[q].closet
  <2>1. rows[i] # None /\ rows[i].closet = outfitReq'[q].closet
    BY <1>4 DEF Shown
  <2> QED BY <1>3, <2>1, NotNone DEF InCloset, IInv, ClosetInv
<1>5. CASE /\ outfitReq'[q].closet = outfitReq[q].closet
           /\ \E j \in 1 .. Len(outfitReq[q].todo) : i \in outfitReq[q].todo[j]
  BY <1>5 DEF TodoInv
<1> QED BY <1>1, <1>3, <1>4, <1>5 DEF Outfitting!ComesFrom

LEMMA InitAppInv == InitApp => AppInv
<1> SUFFICES ASSUME InitApp PROVE AppInv
  OBVIOUS
<1>1. Init /\ \A r \in OutfitRequest : outfitReq[r].todo = <<>>
  BY DEF InitApp, Styling!NoCall
<1>2. Outfitting!IInv
  BY OutfittingInit, OutfitAssumptions, Outfitting!InitIInv
<1>3. DeletedInv
  BY <1>1, NotNone DEF Init, NoCall, Fresh, DeletedInv
<1> QED BY <1>1, <1>2, <1>3, InitIInv DEF AppInv, TodoInv

LEMMA NextAppInv == AppInv /\ IInv' /\ RemovalInv /\ [NextApp]_appVars => AppInv'
<1> SUFFICES ASSUME AppInv, IInv', RemovalInv, [NextApp]_appVars PROVE AppInv'
  OBVIOUS
<1> USE DEF AppInv
<1>1. Outfitting!IInv'
  BY OutfittingStep, OutfitAssumptions, Outfitting!NextIInv
<1>2. CASE Next /\ UNCHANGED <<images, outfitReq>>
  BY <1>1, <1>2, TodoByItems, DeletedStep DEF Next
<1>3. ASSUME NEW r \in OutfitRequest, Styling!Receive(r) \/ Styling!Work(r), UNCHANGED vars
      PROVE  AppInv'
  <2>1. DeletedInv'
    BY <1>3 DEF vars, DeletedInv, Fresh
  <2> QED BY <1>1, <1>3, <2>1, SameReceive, SameWork, TodoByOutfits
<1>4. CASE UNCHANGED appVars
  BY <1>1, <1>4 DEF appVars, DeletedInv, TodoInv, InCloset, Fresh
<1> QED BY <1>2, <1>3, <1>4 DEF NextApp

(* A recommendation or a dashboard fails on its sources only by a deletion, and
   by one that its own user asked for.                                        *)
THEOREM FailuresAreOwnDeletions == SpecApp => []FailsByOwnDeletion
<1>1. AppInv => FailsByOwnDeletion
  <2> SUFFICES ASSUME AppInv, NEW r \in OutfitRequest,
                      outfitReq[r].pc = "done", outfitReq[r].todo # <<>>,
                      outfitReq[r].answer \in {"not_found", "error"}
               PROVE  \E i \in Styling!Current(r) : rows[i] = None /\ OwnDeletion(r, i)
    BY DEF FailsByOwnDeletion
  <2>1. /\ outfitReq[r].user = Owner[outfitReq[r].closet]
        /\ 1 \in 1 .. Len(outfitReq[r].todo)
        /\ \E i \in Outfitting!Current(r) :
             /\ i \in {j \in Item : ~Fresh(j)} /\ [j \in Item |-> Shown(j)][i] = None
             /\ i \in Item /\ i \in outfitReq[r].todo[1]
    BY OutfitAssumptions, Outfitting!FailureOf DEF AppInv
  <2>2. PICK i \in Item : /\ i \in Outfitting!Current(r) /\ ~Fresh(i) /\ Shown(i) = None
                         /\ i \in outfitReq[r].todo[1]
    BY <2>1
  <2>3. rows[i] = None
    BY <2>2, NoneAssumption DEF AppInv, IInv, TypeOK, Shown, Row, Entry
  <2>4. PICK d \in Request : req[d].op = "delete" /\ req[d].item = i
    BY <2>2, <2>3 DEF AppInv, DeletedInv
  <2>5. InCloset(i, outfitReq[r].closet)
    BY <2>1, <2>2 DEF AppInv, TodoInv
  <2>6. req[d].user = outfitReq[r].user
    BY <2>1, <2>4, <2>5, NotNone DEF AppInv, IInv, ClosetInv, InCloset
  <2>7. i \in Styling!Current(r)
    BY <2>2 DEF Outfitting!Current, Styling!Current
  <2> QED BY <2>3, <2>4, <2>6, <2>7 DEF OwnDeletion
<1> QED BY Invariance, InitRemoval, NextRemoval, AppItems, InitAppInv, NextAppInv, <1>1, PTL
        DEF SpecApp, Spec
=============================================================================
