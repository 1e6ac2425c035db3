----------------------------- MODULE Application -----------------------------
(***************************************************************************)
(* The requests on items and the requests on outfits in one server: those  *)
(* of ItemLifecycle and those of Outfits, interleaved over one table and   *)
(* one upload root.  Neither knows of the other's steps; what an outfit    *)
(* request reads is what ItemLifecycle shows.                              *)
(***************************************************************************)
EXTENDS ItemLifecycle

CONSTANTS
    OutfitRequest,  \* the recommendations, dashboards and downloads of outfits
    MaxOutfits,     \* bound of the limit a client may ask for
    OutfitFaults    \* which of the faults of Outfits the environment may inject

ASSUME ApplicationAssumption ==
    /\ MaxOutfits \in Nat \ {0}
    /\ OutfitFaults \subseteq {"explain"}
    /\ None \notin Closet

VARIABLES
    images,         \* the composed images under <root>/outfits
    outfitReq       \* what each outfit request is doing

appVars == <<rows, files, req, images, outfitReq>>

Styling == INSTANCE Outfits WITH
    born <- {i \in Item : ~Fresh(i)},
    rows <- [i \in Item |-> Shown(i)],
    verdict <- [i \in Item |-> Verdict(i)],
    Request <- OutfitRequest,
    Faults <- OutfitFaults,
    req <- outfitReq

InitApp ==
    /\ Init
    /\ images = {}
    /\ outfitReq = [r \in OutfitRequest |-> Styling!NoCall]

NextApp ==
    \/ Next /\ UNCHANGED <<images, outfitReq>>
    \/ \E r \in OutfitRequest : (Styling!Receive(r) \/ Styling!Work(r)) /\ UNCHANGED vars

SpecApp == InitApp /\ [][NextApp]_appVars

(* Fair to the requests on items, as ItemLifecycle is: those on outfits may even *)
(* starve.                                                                      *)
FairSpecApp ==
    /\ SpecApp
    /\ \A r \in Request : WF_vars(Work(r) /\ UNCHANGED <<images, outfitReq>>)

(* The catalog that the outfits were specified over is the one the item requests
   implement, step by step.                                                    *)
ImplementsOutfits == Styling!SpecOutfits

-----------------------------------------------------------------------------
(* Whoever asks for a recommendation or a dashboard is only ever failed on its
   sources by a deletion of their own: there is a DELETE of an item of the outfit
   at hand by the same user.                                                   *)
OwnDeletion(r, i) ==
    \E d \in Request :
        req[d].op = "delete" /\ req[d].item = i /\ req[d].user = outfitReq[r].user

FailsByOwnDeletion ==
    \A r \in OutfitRequest :
        /\ outfitReq[r].pc = "done"
        /\ outfitReq[r].todo # <<>>
        /\ outfitReq[r].answer \in {"not_found", "error"}
        => \E i \in Styling!Current(r) : rows[i] = None /\ OwnDeletion(r, i)
=============================================================================
