------------------------------ MODULE MCOutfits ------------------------------
(* Small instances of Outfits: two users with a closet each, or one. *)
EXTENDS Outfits, TLC

CONSTANTS alice, bob, closetA, closetB

MCUser == {alice, bob}
MCCloset == {closetA, closetB}
MCOwner == closetA :> alice @@ closetB :> bob
MCOwnerA == closetA :> alice

MCSymmetry == Permutations(Request) \cup Permutations(Item)
=============================================================================
