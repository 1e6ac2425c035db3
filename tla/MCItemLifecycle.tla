--------------------------- MODULE MCItemLifecycle ---------------------------
(* Small instances of ItemLifecycle: two users with a closet each. *)
EXTENDS ItemLifecycle, TLC

CONSTANTS alice, bob, closetA, closetB

MCUser == {alice, bob}
MCCloset == {closetA, closetB}
MCOwner == closetA :> alice @@ closetB :> bob

(* One closet for the runs about contention on one item. *)
MCOwnerA == closetA :> alice

MCRequestSymmetry == Permutations(Request)
=============================================================================
