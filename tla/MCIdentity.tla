------------------------------ MODULE MCIdentity ------------------------------
(* A small instance of Identity: one address in two spellings, and another. *)
EXTENDS Identity, TLC

CONSTANTS rawA, rawA2, rawB, emailA, emailB

MCRaw == {rawA, rawA2, rawB}
MCEmail == {emailA, emailB}
MCNormal == rawA :> emailA @@ rawA2 :> emailA @@ rawB :> emailB

MCSymmetry == Permutations(Request) \cup Permutations(Password)
=============================================================================
