------------------------------- MODULE Outfits -------------------------------
(***************************************************************************)
(* Outfit recommendations, the outfit of the dashboard and the images      *)
(* composed for them, over the items that ItemCatalog promises.            *)
(*                                                                         *)
(* A request lists the ready items of a closet in one transaction and then *)
(* works on that list: for each outfit the engine proposes it looks for    *)
(* the files of the items and composes them into the outfit's image.       *)
(* Items change and vanish meanwhile.                                      *)
(***************************************************************************)
EXTENDS ItemCatalog, Naturals, Sequences

CONSTANTS
    Request,    \* each is made at most once
    User,
    Owner,      \* the user of each closet
    MaxOutfits, \* bound of the limit a client may ask for
    Faults      \* {"explain"} if explanations may raise more than ProviderError

(* The id of an outfit is a hash of the user and its items: the items stand *)
(* for it, and the user is in the path of its image.                        *)
Outfit == SUBSET Item \ {{}}
Image == [user : User, closet : Closet, outfit : Outfit]

ASSUME OutfitsAssumption ==
    /\ Owner \in [Closet -> User]
    /\ MaxOutfits \in Nat \ {0}
    /\ Faults \subseteq {"explain"}
    /\ None \notin User \cup Closet

VARIABLES
    images,     \* the composed images under <root>/outfits
    req         \* what each request is doing

vars == <<catalogVars, images, req>>

PC == {"idle", "list", "sources", "compose", "explain", "done"}
Op == {"none", "outfits", "dashboard", "image"}

(* "unexplained" is a 500 as "error" is, raised later. *)
Answer == {"none", "ok", "not_found", "error", "unexplained"}

(* todo are the candidates still to be generated, left the items of the first *)
(* of them whose source is still to be found, outfits what was generated.     *)
Call == [pc : PC, op : Op, user : User \cup {None}, closet : Closet \cup {None},
         todo : Seq(Outfit), left : SUBSET Item, outfits : SUBSET Outfit,
         answer : Answer]

TypeOK ==
    /\ born \subseteq Item
    /\ rows \in [Item -> Entry \cup {None}]
    /\ verdict \in [Item -> Status]
    /\ files \subseteq Item
    /\ images \subseteq Image
    /\ req \in [Request -> Call]

NoCall == [pc |-> "idle", op |-> "none", user |-> None, closet |-> None,
           todo |-> <<>>, left |-> {}, outfits |-> {}, answer |-> "none"]

InitOutfits ==
    /\ Init
    /\ images = {}
    /\ req = [r \in Request |-> NoCall]

-----------------------------------------------------------------------------
(* Helpers *)

Enter(r, op, u, c, outfits, pc, answer) ==
    req' = [req EXCEPT ![r] = [pc |-> pc, op |-> op, user |-> u, closet |-> c,
                               todo |-> <<>>, left |-> {}, outfits |-> outfits,
                               answer |-> answer]]

Finish(r, answer) == req' = [req EXCEPT ![r].pc = "done", ![r].answer = answer]

(* Mutants of Ready: the status is not looked at, or the closet. *)
ReadyOrNot(c) == {i \in Item : rows[i] # None /\ rows[i].closet = c}
ReadyAnywhere(c) == {i \in Item : rows[i] # None /\ rows[i].status = "ready"}

(* list_items, and the filter on ItemStatus.READY *)
Ready(c) == {i \in ReadyOrNot(c) : rows[i].status = "ready"}

(* What the outfit engine may propose: distinct combinations of listed items. *)
Candidates(listed, limit) ==
    UNION {{todo \in [1 .. n -> SUBSET listed \ {{}}] :
              \A j, k \in 1 .. n : todo[j] = todo[k] => j = k} : n \in 0 .. limit}

Current(r) == Head(req[r].todo)

(* The rest of the candidates: the next of them, or the answer. *)
Generate(r, todo, outfits) ==
    req' = [req EXCEPT ![r].todo = todo,
                       ![r].outfits = outfits,
                       ![r].left = IF todo = <<>> THEN {} ELSE Head(todo),
                       ![r].pc = IF todo = <<>> THEN "done" ELSE "sources",
                       ![r].answer = IF todo = <<>> THEN "ok" ELSE "none"]

-----------------------------------------------------------------------------
(* outfit_recommendations, and dashboard, which calls it with a limit of one. *)
(* What the dashboard reads for itself before shares nothing with it.         *)

Recommend(r, u, c) ==
    /\ req[r].pc = "idle"
    /\ \E op \in {"outfits", "dashboard"} :
          IF Owner[c] = u THEN Enter(r, op, u, c, {}, "list", "none")
                          ELSE Enter(r, op, u, c, {}, "done", "not_found")
    /\ UNCHANGED images

ListItems(r) ==
    LET limit == IF req[r].op = "dashboard" THEN 1 ELSE MaxOutfits IN
    /\ req[r].pc = "list"
    /\ \E todo \in Candidates(Ready(req[r].closet), limit) : Generate(r, todo, {})
    /\ UNCHANGED images

(* _best_composite_source: without a file the whole request is a 404. *)
FindSource(r) ==
    /\ req[r].pc = "sources"
    /\ \E i \in req[r].left :
          \/ /\ i \in files
             /\ req' = [req EXCEPT ![r].left = @ \ {i},
                                   ![r].pc = IF req[r].left = {i} THEN "compose" ELSE @]
          \/ /\ i \notin files
             /\ Finish(r, "not_found")
    /\ UNCHANGED images

ImageOf(r) == [user |-> req[r].user, closet |-> req[r].closet, outfit |-> Current(r)]

(* Mutant of Compose: the path is found and nothing is written to it. *)
ComposeNothing(r) ==
    /\ req[r].pc = "compose"
    /\ req' = [req EXCEPT ![r].pc = "explain"]
    /\ UNCHANGED images

(* The composer opens every source: one that has gone since is an error. *)
Compose(r) ==
    /\ req[r].pc = "compose"
    /\ \/ /\ Current(r) \subseteq files
          /\ images' = images \cup {ImageOf(r)}
          /\ req' = [req EXCEPT ![r].pc = "explain"]
       \/ /\ ~(Current(r) \subseteq files)
          /\ Finish(r, "error")
          /\ UNCHANGED images

(* Mutant of Explain: the ProviderError is the answer. *)
ExplainRaises(r) ==
    /\ req[r].pc = "explain"
    /\ Finish(r, "provider_error")
    /\ UNCHANGED images

(* _outfit_copy: a ProviderError is answered with a stock phrase. *)
Explain(r) ==
    /\ req[r].pc = "explain"
    /\ \/ Generate(r, Tail(req[r].todo), req[r].outfits \cup {Current(r)})
       \/ "explain" \in Faults /\ Finish(r, "unexplained")
    /\ UNCHANGED images

-----------------------------------------------------------------------------
(* get_outfit_image_path and the response: nothing removes an image between. *)

GetOutfitImage(r, u, c, outfit) ==
    LET found == Owner[c] = u /\ [user |-> u, closet |-> c, outfit |-> outfit] \in images
    IN
    /\ req[r].pc = "idle"
    /\ Enter(r, "image", u, c, {outfit}, "done", IF found THEN "ok" ELSE "not_found")
    /\ UNCHANGED images

-----------------------------------------------------------------------------

Receive(r) ==
    \E u \in User, c \in Closet :
       \/ Recommend(r, u, c)
       \/ \E outfit \in Outfit : GetOutfitImage(r, u, c, outfit)

Work(r) == ListItems(r) \/ FindSource(r) \/ Compose(r) \/ Explain(r)

NextOutfits ==
    \/ Next /\ UNCHANGED <<images, req>>
    \/ \E r \in Request : (Receive(r) \/ Work(r)) /\ UNCHANGED catalogVars

SpecOutfits == InitOutfits /\ [][NextOutfits]_vars

(* Threads are scheduled as long as their request is in flight, and a deletion *)
(* that has removed a row goes on to remove the directory.                     *)
FairOutfits ==
    /\ SpecOutfits
    /\ \A r \in Request : WF_vars(Work(r) /\ UNCHANGED catalogVars)
    /\ \A i \in Item : WF_vars(Clean(i) /\ UNCHANGED <<images, req>>)

-----------------------------------------------------------------------------
(* Safety *)

(* A recommendation or a dashboard fails on its sources, with 404 or 500, only *)
(* because an item it was about to show has been deleted since it was listed.  *)
FailsByDeletion ==
    \A r \in Request :
        /\ req[r].pc = "done"
        /\ req[r].todo # <<>>
        /\ req[r].answer \in {"not_found", "error"}
        => \E i \in Current(r) : rows[i] = None

(* The image_url of every outfit in an answer works, for whoever was answered *)
(* and for as long as the server runs.                                        *)
AnsweredOutfitsServed ==
    \A r \in Request :
        req[r].op \in {"outfits", "dashboard"} /\ req[r].answer = "ok" =>
            \A outfit \in req[r].outfits :
                [user |-> req[r].user, closet |-> req[r].closet, outfit |-> outfit] \in images

(* Whoever can fetch an image owns what it shows: no image mixes in an item of *)
(* another closet, and it is stored where only the owner of the closet looks.  *)
ImagesShowOwnItems ==
    \A image \in images :
        /\ Owner[image.closet] = image.user
        /\ \A i \in image.outfit : rows[i] # None => rows[i].closet = image.closet

-----------------------------------------------------------------------------
(* What the documents say and the code does not do *)

Shows(i) == \E image \in images : i \in image.outfit

(* guide/DATABASE.md: a permanent deletion takes care of the image artifacts *)
(* and of what was derived from them.                                        *)
DeletionReachesOutfits ==
    \A i \in Item : (i \in born /\ rows[i] = None) ~> ~Shows(i)
=============================================================================
