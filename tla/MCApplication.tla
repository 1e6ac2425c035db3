---------------------------- MODULE MCApplication ----------------------------
(* A small instance of Application: two users with a closet each. *)
EXTENDS Application, TLC

CONSTANTS alice, bob, closetA, closetB

MCUser == {alice, bob}
MCCloset == {closetA, closetB}
MCOwner == closetA :> alice @@ closetB :> bob
=============================================================================
