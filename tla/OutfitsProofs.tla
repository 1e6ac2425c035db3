---------------------------- MODULE OutfitsProofs ----------------------------
(* Proofs about Outfits. *)
EXTENDS Outfits, TLAPS

-----------------------------------------------------------------------------
(* The inductive invariant *)

(* What the catalog guarantees in every state: an item that is not born shows *)
(* nothing, and a ready item that is still there has its directory.           *)
CatalogInv ==
    /\ files \subseteq born
    /\ \A i \in Item :
         /\ i \notin born => rows[i] = None /\ verdict[i] = "processing"
         /\ rows[i] # None => rows[i].status \in {"processing", verdict[i]}
         /\ rows[i] # None /\ verdict[i] = "ready" => i \in files

(* Once listed as ready in a closet, an item is ready for good and in that *)
(* closet, or gone.                                                        *)
Listed(i, c) ==
    /\ i \in born
    /\ verdict[i] = "ready"
    /\ rows[i] # None => rows[i].closet = c

Offered(todo, c) == \A k \in 1 .. Len(todo) : \A i \in todo[k] : Listed(i, c)

Composed(r, outfit) ==
    [user |-> req[r].user, closet |-> req[r].closet, outfit |-> outfit] \in images

CallOf(r) ==
    /\ req[r].pc \in {"sources", "compose", "explain"} => req[r].todo # <<>>
    /\ req[r].pc \notin {"idle", "done"} \/ req[r].todo # <<>> =>
         /\ req[r].op \in {"outfits", "dashboard"}
         /\ req[r].closet \in Closet
         /\ req[r].user = Owner[req[r].closet]
    /\ Offered(req[r].todo, req[r].closet)
    /\ req[r].todo # <<>> => req[r].left \subseteq Current(r)
    /\ req[r].op \in {"outfits", "dashboard"} =>
         \A outfit \in req[r].outfits : Composed(r, outfit)
    /\ req[r].pc = "explain" => Composed(r, Current(r))
    /\ req[r].pc = "done" /\ req[r].todo # <<>> /\ req[r].answer \in {"not_found", "error"}
         => \E i \in Current(r) : rows[i] = None
CallInv == \A r \in Request : CallOf(r)

ImagesInv ==
    \A image \in images :
        /\ Owner[image.closet] = image.user
        /\ \A i \in image.outfit : Listed(i, image.closet)

IInv == TypeOK /\ CatalogInv /\ CallInv /\ ImagesInv

-----------------------------------------------------------------------------
(* Steps of the catalog *)

(* An item that is born is never made anew, and its verdict is final. *)
LEMMA CatalogStep ==
    ASSUME TypeOK, CatalogInv, Next, UNCHANGED <<images, req>>
    PROVE  /\ TypeOK'
           /\ CatalogInv'
           /\ \A i \in Item, c \in Closet : Listed(i, c) => Listed(i, c)'
           /\ \A i \in born : rows[i] = None => rows'[i] = None
<1>1. PICK i \in Item : Change(i)
  BY DEF Next
<1>2. ASSUME NEW c \in Closet, Create(i, c)
      PROVE  /\ TypeOK' /\ CatalogInv'
             /\ \A j \in Item, d \in Closet : Listed(j, d) => Listed(j, d)'
             /\ \A j \in born : rows[j] = None => rows'[j] = None
  <2>1. [closet |-> c, status |-> "processing"] \in Entry
    BY DEF Entry, Status
  <2>2. TypeOK'
    BY <1>2, <2>1 DEF Create, TypeOK
  <2>3. CatalogInv'
    BY <1>2 DEF Create, TypeOK, CatalogInv
  <2> QED BY <1>2, <2>2, <2>3 DEF Create, TypeOK, Listed
<1>3. CASE Store(i)
  <2>1. CatalogInv'
    BY <1>3 DEF Store, CatalogInv
  <2> QED BY <1>3, <2>1 DEF Store, TypeOK, Listed
<1>4. CASE Decide(i)
  <2>1. TypeOK'
    BY <1>4 DEF Decide, TypeOK, Status
  <2>2. CatalogInv'
    BY <1>4 DEF Decide, TypeOK, CatalogInv
  <2> QED BY <1>4, <2>1, <2>2 DEF Decide, TypeOK, Listed
<1>5. CASE Show(i)
  <2>1. PICK status \in {"processing", verdict[i]} :
          rows' = [rows EXCEPT ![i] = [rows[i] EXCEPT !.status = status]]
    BY <1>5 DEF Show
  <2>2. /\ rows[i] \in Entry /\ status \in Status
        /\ UNCHANGED <<born, verdict, files>>
    BY <1>5, <2>1 DEF Show, TypeOK, Status
  <2>3. /\ [rows[i] EXCEPT !.status = status] \in Entry
        /\ [rows[i] EXCEPT !.status = status].status = status
        /\ [rows[i] EXCEPT !.status = status].closet = rows[i].closet
    BY <2>2 DEF Entry
  <2>4. /\ rows'[i] \in Entry /\ rows'[i].status = status /\ rows'[i].closet = rows[i].closet
        /\ \A j \in Item : j # i => rows'[j] = rows[j]
    BY <2>1, <2>3 DEF TypeOK
  <2>5. TypeOK'
    BY <2>1, <2>2, <2>3 DEF TypeOK
  <2>6. CatalogInv'
    BY <2>2, <2>4, <1>5 DEF CatalogInv, Show
  <2> QED BY <2>2, <2>4, <2>5, <2>6, <1>5 DEF Listed, TypeOK, Show
<1>6. CASE Remove(i)
  BY <1>6 DEF Remove, TypeOK, CatalogInv, Listed
<1>7. CASE Clean(i)
  BY <1>7 DEF Clean, TypeOK, CatalogInv, Listed
<1> QED BY <1>1, <1>2, <1>3, <1>4, <1>5, <1>6, <1>7 DEF Change

LEMMA CatalogKeepsIInv ==
    ASSUME IInv, Next, UNCHANGED <<images, req>>
    PROVE  IInv'
<1> TypeOK /\ CatalogInv /\ CallInv /\ ImagesInv
  BY DEF IInv
<1>1. /\ TypeOK' /\ CatalogInv'
      /\ \A i \in Item, c \in Closet : Listed(i, c) => Listed(i, c)'
      /\ \A i \in born : rows[i] = None => rows'[i] = None
  BY CatalogStep
<1>2. ASSUME NEW r \in Request PROVE CallOf(r)'
  <2>1. CallOf(r) /\ req[r] \in Call /\ req'[r] = req[r]
    BY DEF CallInv, TypeOK
  <2>2. \A k \in 1 .. Len(req[r].todo) : req[r].todo[k] \subseteq Item
    BY <2>1 DEF Call, Outfit
  <2>3. req[r].todo # <<>> => /\ 1 \in 1 .. Len(req[r].todo) /\ Current(r) = req[r].todo[1]
                             /\ req[r].closet \in Closet
    BY <2>1 DEF Call, Current, CallOf
  <2>4. Offered(req[r].todo, req[r].closet)'
    BY <1>1, <2>1, <2>2, <2>3 DEF CallOf, Offered, Call
  <2>5. \A i \in Current(r) : req[r].todo # <<>> => i \in born
    BY <2>1, <2>3 DEF CallOf, Offered, Listed
  <2> QED BY <1>1, <2>1, <2>4, <2>5 DEF CallOf, Composed, Current
<1>3. ImagesInv'
  BY <1>1 DEF ImagesInv, TypeOK, Image, Outfit
<1> QED BY <1>1, <1>2, <1>3 DEF IInv, CallInv

-----------------------------------------------------------------------------
(* Steps of a request: what each does to req *)

Others(r) == \A q \in Request \ {r} : req'[q] = req[q]

(* A step of a request that is under way *)
Becomes(r, pc, todo, left, outfits, answer) ==
    /\ req' \in [Request -> Call]
    /\ Others(r)
    /\ req'[r].pc = pc
    /\ req'[r].op = req[r].op
    /\ req'[r].user = req[r].user
    /\ req'[r].closet = req[r].closet
    /\ req'[r].todo = todo
    /\ req'[r].left = left
    /\ req'[r].outfits = outfits
    /\ req'[r].answer = answer

LEMMA EnterEffect ==
    ASSUME TypeOK, NEW r \in Request, NEW op \in Op, NEW u \in User, NEW c \in Closet,
           NEW outfits \in SUBSET Outfit, NEW pc \in PC, NEW answer \in Answer,
           Enter(r, op, u, c, outfits, pc, answer)
    PROVE  /\ req' \in [Request -> Call]
           /\ Others(r)
           /\ req'[r].pc = pc /\ req'[r].op = op
           /\ req'[r].user = u /\ req'[r].closet = c
           /\ req'[r].todo = <<>> /\ req'[r].left = {} /\ req'[r].outfits = outfits
           /\ req'[r].answer = answer
BY DEF TypeOK, Enter, Others, Call

LEMMA FinishBecomes ==
    ASSUME TypeOK, NEW r \in Request, NEW answer \in Answer, Finish(r, answer)
    PROVE  Becomes(r, "done", req[r].todo, req[r].left, req[r].outfits, answer)
BY DEF TypeOK, Finish, Becomes, Others, Call, PC

LEMMA GenerateBecomes ==
    ASSUME TypeOK, NEW r \in Request, NEW todo \in Seq(Outfit),
           NEW outfits \in SUBSET Outfit, Generate(r, todo, outfits)
    PROVE  /\ todo = <<>> => Becomes(r, "done", todo, {}, outfits, "ok")
           /\ todo # <<>> => Becomes(r, "sources", todo, Head(todo), outfits, "none")
<1>1. req[r] \in Call /\ req \in [Request -> Call]
  BY DEF TypeOK
<1>2. CASE todo = <<>>
  <2> DEFINE call == [req[r] EXCEPT !.todo = todo, !.outfits = outfits, !.left = {},
                                    !.pc = "done", !.answer = "ok"]
  <2>1. req' = [req EXCEPT ![r] = call]
    BY <1>2 DEF Generate
  <2>2. call \in Call
    BY <1>1 DEF Call, PC, Answer
  <2> QED BY <1>1, <1>2, <2>1, <2>2 DEF Becomes, Others, Call
<1>3. CASE todo # <<>>
  <2> DEFINE call == [req[r] EXCEPT !.todo = todo, !.outfits = outfits, !.left = Head(todo),
                                    !.pc = "sources", !.answer = "none"]
  <2>1. req' = [req EXCEPT ![r] = call]
    BY <1>3 DEF Generate
  <2>2. Head(todo) \in SUBSET Item
    BY <1>3 DEF Outfit
  <2>3. call \in Call
    BY <1>1, <2>2 DEF Call, PC, Answer
  <2> QED BY <1>1, <1>3, <2>1, <2>3 DEF Becomes, Others, Call
<1> QED BY <1>2, <1>3

-----------------------------------------------------------------------------
(* Steps of a request: the invariant *)

(* The other requests and the images only depend on the catalog, and images *)
(* are never removed.                                                       *)
LEMMA OthersKeep ==
    ASSUME IInv, NEW r \in Request, Others(r), req' \in [Request -> Call],
           UNCHANGED catalogVars, images \subseteq images', images' \subseteq Image,
           CallOf(r)',
           \A image \in images' \ images :
               /\ Owner[image.closet] = image.user
               /\ \A i \in image.outfit : Listed(i, image.closet)
    PROVE  IInv'
<1> TypeOK /\ CatalogInv /\ CallInv /\ ImagesInv
  BY DEF IInv
<1>1. TypeOK' /\ CatalogInv'
  BY DEF TypeOK, CatalogInv, catalogVars
<1>2. \A i, c : Listed(i, c)' <=> Listed(i, c)
  BY DEF Listed, catalogVars
<1>3. ASSUME NEW q \in Request, q # r PROVE CallOf(q)'
  <2>1. CallOf(q) /\ req'[q] = req[q] /\ rows' = rows
    BY <1>3 DEF CallInv, Others, catalogVars
  <2>2. Offered(req[q].todo, req[q].closet)'
    BY <1>2, <2>1 DEF CallOf, Offered
  <2> QED BY <2>1, <2>2 DEF CallOf, Composed, Current
<1>4. ImagesInv'
  BY <1>2 DEF ImagesInv
<1> QED BY <1>1, <1>3, <1>4 DEF IInv, CallInv

LEMMA RecommendKeeps ==
    ASSUME IInv, NEW r \in Request, NEW u \in User, NEW c \in Closet,
           Recommend(r, u, c), UNCHANGED catalogVars
    PROVE  IInv'
<1> TypeOK
  BY DEF IInv
<1>1. PICK op \in {"outfits", "dashboard"} :
        IF Owner[c] = u THEN Enter(r, op, u, c, {}, "list", "none")
                        ELSE Enter(r, op, u, c, {}, "done", "not_found")
  BY DEF Recommend
<1>2. PICK pc \in {"list", "done"} :
        /\ req' \in [Request -> Call]
        /\ Others(r)
        /\ req'[r].pc = pc /\ req'[r].op = op
        /\ req'[r].user = u /\ req'[r].closet = c
        /\ req'[r].todo = <<>> /\ req'[r].outfits = {}
        /\ pc = "list" => Owner[c] = u
  BY <1>1, EnterEffect DEF Op, PC, Answer
<1>3. CallOf(r)'
  BY <1>2 DEF CallOf, Offered
<1> QED BY <1>2, <1>3, OthersKeep DEF Recommend, TypeOK

LEMMA GetOutfitImageKeeps ==
    ASSUME IInv, NEW r \in Request, NEW u \in User, NEW c \in Closet,
           NEW outfit \in Outfit, GetOutfitImage(r, u, c, outfit), UNCHANGED catalogVars
    PROVE  IInv'
<1> TypeOK
  BY DEF IInv
<1>1. PICK answer \in Answer : Enter(r, "image", u, c, {outfit}, "done", answer)
  BY DEF GetOutfitImage, Answer
<1>2. /\ req' \in [Request -> Call]
      /\ Others(r)
      /\ req'[r].pc = "done" /\ req'[r].op = "image" /\ req'[r].todo = <<>>
  <2>1. "image" \in Op /\ "done" \in PC /\ {outfit} \in SUBSET Outfit
    BY DEF Op, PC
  <2> QED BY <1>1, <2>1, EnterEffect
<1>3. CallOf(r)'
  BY <1>2 DEF CallOf, Offered
<1> QED BY <1>2, <1>3, OthersKeep DEF GetOutfitImage, TypeOK

(* A list of candidates is a list of outfits of ready items of the closet. *)
LEMMA CandidatesOffered ==
    ASSUME TypeOK, CatalogInv, NEW c \in Closet, NEW limit \in Nat,
           NEW todo \in Candidates(Ready(c), limit)
    PROVE  todo \in Seq(Outfit) /\ Offered(todo, c)
<1>1. PICK n \in 0 .. limit : todo \in [1 .. n -> SUBSET Ready(c) \ {{}}]
  BY DEF Candidates
<1>2. Ready(c) \subseteq Item
  BY DEF Ready, ReadyOrNot
<1>3. n \in Nat /\ todo \in [1 .. n -> Outfit]
  BY <1>1, <1>2 DEF Outfit
<1>4. todo \in Seq(Outfit) /\ Len(todo) = n
  BY <1>3
<1>5. ASSUME NEW i \in Ready(c) PROVE Listed(i, c)
  BY <1>5 DEF Ready, ReadyOrNot, Listed, CatalogInv
<1>6. ASSUME NEW k \in 1 .. Len(todo), NEW i \in todo[k] PROVE i \in Ready(c)
  BY <1>1, <1>4, <1>6
<1> QED BY <1>4, <1>5, <1>6 DEF Offered

(* What a request under way is known to be *)
LEMMA UnderWay ==
    ASSUME IInv, NEW r \in Request, req[r].pc \notin {"idle", "done"}
    PROVE  /\ CallOf(r)
           /\ req[r].op \in {"outfits", "dashboard"}
           /\ req[r].closet \in Closet /\ req[r].user \in User
           /\ req[r].user = Owner[req[r].closet]
           /\ req[r].todo \in Seq(Outfit) /\ req[r].outfits \in SUBSET Outfit
           /\ Offered(req[r].todo, req[r].closet)
           /\ req[r].todo # <<>> =>
                /\ Current(r) \in Outfit
                /\ \A i \in Current(r) : Listed(i, req[r].closet)
<1>1. CallOf(r) /\ req[r] \in Call
  BY DEF IInv, CallInv, TypeOK
<1>2. /\ req[r].closet \in Closet /\ req[r].user = Owner[req[r].closet]
      /\ req[r].op \in {"outfits", "dashboard"}
      /\ Offered(req[r].todo, req[r].closet)
  BY <1>1 DEF CallOf
<1>3. req[r].todo \in Seq(Outfit) /\ req[r].outfits \in SUBSET Outfit
  BY <1>1 DEF Call
<1>4. req[r].todo # <<>> => /\ Current(r) = req[r].todo[1]
                           /\ Current(r) \in Outfit
                           /\ 1 \in 1 .. Len(req[r].todo)
  BY <1>3 DEF Current
<1>5. req[r].user \in User
  BY <1>2, OutfitsAssumption
<1> QED BY <1>1, <1>2, <1>3, <1>4, <1>5 DEF Offered

LEMMA ListItemsKeeps ==
    ASSUME IInv, NEW r \in Request, ListItems(r), UNCHANGED catalogVars
    PROVE  IInv'
<1> TypeOK /\ CatalogInv
  BY DEF IInv
<1> DEFINE c == req[r].closet
           limit == IF req[r].op = "dashboard" THEN 1 ELSE MaxOutfits
<1>1. PICK todo \in Candidates(Ready(c), limit) : Generate(r, todo, {})
  BY DEF ListItems
<1>2. req[r].pc = "list" /\ c \in Closet /\ limit \in Nat
  BY UnderWay, OutfitsAssumption DEF ListItems
<1>3. todo \in Seq(Outfit) /\ Offered(todo, c)
  BY <1>2, CandidatesOffered
<1>4. PICK pc \in {"done", "sources"}, left \in SUBSET Item, answer \in Answer :
        /\ Becomes(r, pc, todo, left, {}, answer)
        /\ todo # <<>> => pc = "sources" /\ left = Head(todo)
        /\ todo = <<>> => pc = "done"
  <2>1. todo # <<>> => Head(todo) \in SUBSET Item
    BY <1>3 DEF Outfit
  <2> QED BY <1>1, <1>3, <2>1, GenerateBecomes DEF Answer
<1>5. CallOf(r)'
  BY <1>2, <1>3, <1>4, UnderWay DEF Becomes, CallOf, Offered, Listed, catalogVars, Current
<1> QED BY <1>4, <1>5, OthersKeep DEF ListItems, TypeOK, Becomes

(* A request that fails on a source has an outfit one of whose items is gone. *)
LEMMA FailureKeeps ==
    ASSUME IInv, NEW r \in Request, req[r].pc \in {"sources", "compose"},
           NEW answer, Becomes(r, "done", req[r].todo, req[r].left, req[r].outfits, answer),
           UNCHANGED <<catalogVars, images>>, NEW i \in Current(r), rows[i] = None
    PROVE  CallOf(r)'
<1>1. /\ CallOf(r) /\ req[r].op \in {"outfits", "dashboard"}
      /\ req[r].closet \in Closet /\ req[r].user = Owner[req[r].closet]
      /\ req[r].todo # <<>>
  BY UnderWay DEF CallOf
<1>2. Current(r)' = Current(r) /\ rows' = rows
  BY DEF Becomes, Current, catalogVars
<1>3. Offered(req[r].todo, req[r].closet)'
  BY <1>1 DEF CallOf, Offered, Listed, Becomes, catalogVars
<1>4. \A outfit \in req'[r].outfits : Composed(r, outfit)'
  BY <1>1 DEF CallOf, Composed, Becomes
<1>5. req'[r].left \subseteq Current(r)'
  BY <1>1, <1>2 DEF CallOf, Becomes
<1>6. \E j \in Current(r)' : rows'[j] = None
  BY <1>2
<1> QED BY <1>1, <1>3, <1>4, <1>5, <1>6 DEF CallOf, Becomes, Offered, Listed

LEMMA FindSourceKeeps ==
    ASSUME IInv, NEW r \in Request, FindSource(r), UNCHANGED catalogVars
    PROVE  IInv'
<1> TypeOK /\ CatalogInv
  BY DEF IInv
<1>1. PICK i \in req[r].left :
        \/ /\ i \in files
           /\ req' = [req EXCEPT ![r].left = @ \ {i},
                                 ![r].pc = IF req[r].left = {i} THEN "compose" ELSE @]
        \/ i \notin files /\ Finish(r, "not_found")
  BY DEF FindSource
<1>2. /\ req[r].pc = "sources" /\ images' = images /\ req[r] \in Call
      /\ req[r].todo # <<>> /\ req[r].left \subseteq Current(r)
  BY UnderWay DEF FindSource, CallOf, TypeOK
<1>3. i \in Item /\ i \in Current(r) /\ Listed(i, req[r].closet)
  BY <1>2, UnderWay DEF Outfit
<1>4. CASE req' = [req EXCEPT ![r].left = @ \ {i},
                              ![r].pc = IF req[r].left = {i} THEN "compose" ELSE @]
  <2> DEFINE pc == IF req[r].left = {i} THEN "compose" ELSE req[r].pc
             call == [req[r] EXCEPT !.left = req[r].left \ {i}, !.pc = pc]
  <2>1. req' = [req EXCEPT ![r] = call]
    BY <1>4
  <2>2. pc \in {"sources", "compose"}
    BY <1>2
  <2> HIDE DEF pc
  <2>3. call \in Call
    BY <1>2, <2>2 DEF Call, PC
  <2>4. Becomes(r, pc, req[r].todo, req[r].left \ {i}, req[r].outfits, req[r].answer)
    BY <1>2, <2>1, <2>3 DEF Becomes, Others, Call, TypeOK
  <2>5. CallOf(r)'
    BY <1>2, <2>2, <2>4, UnderWay
       DEF Becomes, CallOf, Composed, Offered, Listed, catalogVars, Current
  <2> QED BY <1>2, <2>4, <2>5, OthersKeep DEF Becomes, TypeOK
<1>5. CASE i \notin files /\ Finish(r, "not_found")
  <2>1. Becomes(r, "done", req[r].todo, req[r].left, req[r].outfits, "not_found")
    BY <1>5, FinishBecomes DEF Answer
  <2>2. rows[i] = None
    BY <1>3, <1>5 DEF CatalogInv, Listed
  <2>3. CallOf(r)'
    BY <1>2, <1>3, <2>1, <2>2, FailureKeeps
  <2> QED BY <1>2, <2>1, <2>3, OthersKeep DEF Becomes, TypeOK
<1> QED BY <1>1, <1>4, <1>5

LEMMA ComposeKeeps ==
    ASSUME IInv, NEW r \in Request, Compose(r), UNCHANGED catalogVars
    PROVE  IInv'
<1> TypeOK /\ CatalogInv
  BY DEF IInv
<1>1. /\ req[r].pc = "compose" /\ req[r] \in Call
      /\ req[r].todo # <<>> /\ req[r].left \subseteq Current(r)
  BY UnderWay DEF Compose, CallOf, TypeOK
<1>2. CASE /\ images' = images \cup {ImageOf(r)}
           /\ req' = [req EXCEPT ![r].pc = "explain"]
  <2>1. Becomes(r, "explain", req[r].todo, req[r].left, req[r].outfits, req[r].answer)
    BY <1>1, <1>2 DEF Becomes, Others, Call, PC, TypeOK
  <2>2. /\ ImageOf(r) \in Image
        /\ Owner[ImageOf(r).closet] = ImageOf(r).user
        /\ \A i \in ImageOf(r).outfit : Listed(i, ImageOf(r).closet)
    BY <1>1, UnderWay DEF ImageOf, Image
  <2>3. CallOf(r)'
    BY <1>1, <1>2, <2>1, UnderWay
       DEF Becomes, CallOf, Composed, ImageOf, Offered, Listed, catalogVars, Current
  <2> QED BY <1>2, <2>1, <2>2, <2>3, OthersKeep DEF Becomes, TypeOK
<1>3. CASE ~(Current(r) \subseteq files) /\ Finish(r, "error") /\ images' = images
  <2>1. Becomes(r, "done", req[r].todo, req[r].left, req[r].outfits, "error")
    BY <1>3, FinishBecomes DEF Answer
  <2>2. PICK i \in Current(r) : i \notin files
    BY <1>3
  <2>3. rows[i] = None
    <3>1. i \in Item /\ Listed(i, req[r].closet)
      BY <1>1, UnderWay DEF Outfit
    <3> QED BY <2>2, <3>1 DEF CatalogInv, Listed
  <2>4. CallOf(r)'
    BY <1>1, <1>3, <2>1, <2>2, <2>3, FailureKeeps
  <2> QED BY <1>3, <2>1, <2>4, OthersKeep DEF Becomes, TypeOK
<1> QED BY <1>2, <1>3 DEF Compose

LEMMA ExplainKeeps ==
    ASSUME IInv, NEW r \in Request, Explain(r), UNCHANGED catalogVars
    PROVE  IInv'
<1> TypeOK /\ CatalogInv
  BY DEF IInv
<1> DEFINE todo == Tail(req[r].todo)
           outfits == req[r].outfits \cup {Current(r)}
<1>1. /\ req[r].pc = "explain" /\ req[r] \in Call /\ images' = images
      /\ req[r].todo # <<>> /\ req[r].left \subseteq Current(r)
      /\ Composed(r, Current(r))
      /\ \A outfit \in req[r].outfits : Composed(r, outfit)
  BY UnderWay DEF Explain, CallOf, TypeOK
<1>2. CASE Generate(r, todo, outfits)
  <2>1. /\ todo \in Seq(Outfit) /\ outfits \in SUBSET Outfit
        /\ Len(todo) = Len(req[r].todo) - 1
        /\ \A k \in 1 .. Len(todo) : todo[k] = req[r].todo[k + 1]
    BY <1>1, UnderWay
  <2>2. Offered(todo, req[r].closet)
    <3>1. Len(req[r].todo) \in Nat
      BY <1>1 DEF Call
    <3>2. \A k \in 1 .. Len(todo) : k + 1 \in 1 .. Len(req[r].todo)
      BY <2>1, <3>1
    <3> QED BY <1>1, <2>1, <3>2, UnderWay DEF Offered
  <2>3. PICK pc \in {"done", "sources"}, left \in SUBSET Item, answer \in Answer :
          /\ Becomes(r, pc, todo, left, outfits, answer)
          /\ todo # <<>> => pc = "sources" /\ left = Head(todo)
          /\ todo = <<>> => pc = "done"
    <3>1. todo # <<>> => Head(todo) \in SUBSET Item
      BY <2>1 DEF Outfit
    <3> HIDE DEF todo, outfits
    <3> QED BY <1>2, <2>1, <3>1, GenerateBecomes DEF Answer
  <2>4. \A outfit \in outfits : Composed(r, outfit)
    BY <1>1
  <2> HIDE DEF todo, outfits
  <2>5. CallOf(r)'
    BY <1>1, <2>2, <2>3, <2>4, UnderWay
       DEF Becomes, CallOf, Composed, Offered, Listed, catalogVars, Current
  <2> QED BY <1>1, <2>3, <2>5, OthersKeep DEF Becomes, TypeOK
<1>3. CASE Finish(r, "unexplained")
  <2>1. Becomes(r, "done", req[r].todo, req[r].left, req[r].outfits, "unexplained")
    BY <1>3, FinishBecomes DEF Answer
  <2>2. CallOf(r)'
    BY <1>1, <2>1, UnderWay
       DEF Becomes, CallOf, Composed, Offered, Listed, catalogVars, Current
  <2> QED BY <1>1, <2>1, <2>2, OthersKeep DEF Becomes, TypeOK
<1> QED BY <1>2, <1>3 DEF Explain

-----------------------------------------------------------------------------
(* Where the items of a candidate come from: the request has just listed them
   in its closet, or they are of a candidate that it had already.             *)
ComesFrom(q) ==
    \A k \in 1 .. Len(req'[q].todo) : \A i \in req'[q].todo[k] :
        \/ rows[i] # None /\ rows[i].closet = req'[q].closet
        \/ /\ req'[q].closet = req[q].closet
           /\ \E j \in 1 .. Len(req[q].todo) : i \in req[q].todo[j]

LEMMA KeepsTodo ==
    ASSUME NEW q \in Request, req'[q].todo = req[q].todo, req'[q].closet = req[q].closet
    PROVE  ComesFrom(q)
BY DEF ComesFrom

LEMMA TodoStep ==
    ASSUME IInv, NEW r \in Request, Receive(r) \/ Work(r), UNCHANGED catalogVars,
           NEW q \in Request
    PROVE  ComesFrom(q)
<1> TypeOK /\ CatalogInv
  BY DEF IInv
<1>1. CASE q # r
  <2>1. req'[q] = req[q]
    BY <1>1
    DEF Receive, Recommend, GetOutfitImage, Enter, Work, ListItems, FindSource, Compose,
        Explain, Generate, Finish, TypeOK
  <2> QED BY <2>1, KeepsTodo
<1>2. CASE q = r /\ Receive(r)
  <2>1. req'[r].todo = <<>>
    <3>1. ASSUME NEW op, NEW u, NEW c, NEW outfits, NEW pc, NEW answer,
                 Enter(r, op, u, c, outfits, pc, answer)
          PROVE  req'[r].todo = <<>>
      BY <3>1 DEF Enter, TypeOK
    <3> QED BY <1>2, <3>1 DEF Receive, Recommend, GetOutfitImage
  <2> QED BY <1>2, <2>1 DEF ComesFrom
<1>3. CASE q = r /\ ListItems(r)
  <2> DEFINE c == req[r].closet
             limit == IF req[r].op = "dashboard" THEN 1 ELSE MaxOutfits
  <2>1. PICK todo \in Candidates(Ready(c), limit) : Generate(r, todo, {})
    BY <1>3 DEF ListItems
  <2>2. c \in Closet /\ limit \in Nat
    BY <1>3, UnderWay, OutfitsAssumption DEF ListItems
  <2>3. PICK n \in 0 .. limit : todo \in [1 .. n -> SUBSET Ready(c) \ {{}}]
    BY <2>1 DEF Candidates
  <2>4. todo \in Seq(SUBSET Ready(c)) /\ Len(todo) = n
    BY <2>2, <2>3
  <2>5. req'[r].todo = todo /\ req'[r].closet = c
    BY <2>1 DEF Generate, TypeOK, Call
  <2>6. \A k \in 1 .. Len(todo) : todo[k] \subseteq Ready(c)
    BY <2>3, <2>4
  <2> QED BY <1>3, <2>5, <2>6 DEF ComesFrom, Ready, ReadyOrNot
<1>4. CASE q = r /\ (FindSource(r) \/ Compose(r) \/ \E answer : Finish(r, answer))
  <2>1. req'[r].todo = req[r].todo /\ req'[r].closet = req[r].closet
    <3>1. req \in [Request -> Call]
      BY DEF TypeOK
    <3>2. ASSUME NEW pc, NEW answer, NEW left,
                 \/ req' = [req EXCEPT ![r].pc = pc, ![r].answer = answer]
                 \/ req' = [req EXCEPT ![r].left = left, ![r].pc = pc]
                 \/ req' = [req EXCEPT ![r].pc = pc]
          PROVE  req'[r].todo = req[r].todo /\ req'[r].closet = req[r].closet
      BY <3>1, <3>2 DEF Call
    <3> QED BY <1>4, <3>2 DEF FindSource, Compose, Finish
  <2> QED BY <1>4, <2>1, KeepsTodo
<1>5. CASE q = r /\ req[r].pc = "explain" /\ \E outfits : Generate(r, Tail(req[r].todo), outfits)
  <2>1. /\ req'[r].todo = Tail(req[r].todo) /\ req'[r].closet = req[r].closet
        /\ req[r].todo \in Seq(Outfit) /\ req[r].todo # <<>>
    <3>1. req \in [Request -> Call] /\ req[r].todo \in Seq(Outfit) /\ req[r].todo # <<>>
      BY <1>5, UnderWay DEF TypeOK, CallOf
    <3>2. ASSUME NEW todo, NEW outfits, Generate(r, todo, outfits)
          PROVE  req'[r].todo = todo /\ req'[r].closet = req[r].closet
      BY <3>1, <3>2 DEF Generate, Call
    <3> QED BY <1>5, <3>1, <3>2
  <2>2. \A k \in 1 .. Len(req'[r].todo) :
          k + 1 \in 1 .. Len(req[r].todo) /\ req'[r].todo[k] = req[r].todo[k + 1]
    BY <2>1
  <2> QED BY <1>5, <2>1, <2>2 DEF ComesFrom
<1> QED BY <1>1, <1>2, <1>3, <1>4, <1>5 DEF Work, Explain

(* Of a request that failed on its sources: the item, and whose it was. *)
LEMMA FailureOf ==
    ASSUME IInv, NEW r \in Request, req[r].pc = "done", req[r].todo # <<>>,
           req[r].answer \in {"not_found", "error"}
    PROVE  /\ req[r].user = Owner[req[r].closet]
           /\ 1 \in 1 .. Len(req[r].todo)
           /\ \E i \in Current(r) :
                /\ i \in born /\ rows[i] = None /\ i \in Item
                /\ i \in req[r].todo[1]
<1>1. CallOf(r) /\ req[r].todo \in Seq(Outfit)
  BY DEF IInv, CallInv, TypeOK, Call
<1>2. 1 \in 1 .. Len(req[r].todo) /\ Current(r) = req[r].todo[1] /\ Current(r) \subseteq Item
  BY <1>1 DEF Current, Outfit
<1>3. PICK i \in Current(r) : rows[i] = None
  BY <1>1 DEF CallOf
<1>4. i \in born
  BY <1>1, <1>2, <1>3 DEF CallOf, Offered, Listed
<1> QED BY <1>1, <1>2, <1>3, <1>4 DEF CallOf

-----------------------------------------------------------------------------
(* The theorems *)

LEMMA InitIInv == InitOutfits => IInv
<1> SUFFICES ASSUME InitOutfits PROVE IInv
  OBVIOUS
<1>1. NoCall \in Call
  BY DEF NoCall, Call, PC, Op, Answer
<1>2. TypeOK
  BY <1>1 DEF InitOutfits, Init, TypeOK, Status
<1>3. CatalogInv /\ ImagesInv
  BY DEF InitOutfits, Init, CatalogInv, ImagesInv
<1>4. ASSUME NEW r \in Request PROVE CallOf(r)
  <2>1. req[r] = NoCall
    BY DEF InitOutfits
  <2> QED BY <2>1 DEF NoCall, CallOf, Offered
<1> QED BY <1>2, <1>3, <1>4 DEF IInv, CallInv

LEMMA NextIInv == IInv /\ [NextOutfits]_vars => IInv'
<1> SUFFICES ASSUME IInv, [NextOutfits]_vars PROVE IInv'
  OBVIOUS
<1>1. CASE Next /\ UNCHANGED <<images, req>>
  BY <1>1, CatalogKeepsIInv
<1>2. ASSUME NEW r \in Request, Receive(r), UNCHANGED catalogVars
      PROVE  IInv'
  BY <1>2, RecommendKeeps, GetOutfitImageKeeps DEF Receive
<1>3. ASSUME NEW r \in Request, Work(r), UNCHANGED catalogVars
      PROVE  IInv'
  BY <1>3, ListItemsKeeps, FindSourceKeeps, ComposeKeeps, ExplainKeeps DEF Work
<1>4. CASE UNCHANGED vars
  BY <1>4 DEF vars, catalogVars, IInv, TypeOK, CatalogInv, CallInv, CallOf, Offered, Listed,
     Composed, Current, ImagesInv
<1> QED BY <1>1, <1>2, <1>3, <1>4 DEF NextOutfits

(* The inductive invariant holds in every reachable state. *)
THEOREM Invariance == SpecOutfits => []IInv
BY InitIInv, NextIInv, PTL DEF SpecOutfits

(* The catalog, the images and the requests keep their types. *)
THEOREM TypeCorrect == SpecOutfits => []TypeOK
<1>1. IInv => TypeOK
  BY DEF IInv
<1> QED BY Invariance, <1>1, PTL

(* Recommendations and dashboards fail on their images only by a deletion. *)
THEOREM FailuresAreDeletions == SpecOutfits => []FailsByDeletion
<1>1. IInv => FailsByDeletion
  BY DEF IInv, CallInv, CallOf, FailsByDeletion
<1> QED BY Invariance, <1>1, PTL

(* The image of every outfit that was answered can be fetched. *)
THEOREM AnsweredOutfitsAreServed == SpecOutfits => []AnsweredOutfitsServed
<1>1. IInv => AnsweredOutfitsServed
  BY DEF IInv, CallInv, CallOf, Composed, AnsweredOutfitsServed
<1> QED BY Invariance, <1>1, PTL

(* No image shows an item of a closet of somebody else. *)
THEOREM ImagesAreOwn == SpecOutfits => []ImagesShowOwnItems
<1>1. IInv => ImagesShowOwnItems
  BY DEF IInv, ImagesInv, Listed, ImagesShowOwnItems
<1> QED BY Invariance, <1>1, PTL
=============================================================================
