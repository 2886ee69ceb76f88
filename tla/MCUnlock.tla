------------------------------- MODULE MCUnlock -------------------------------
(* Small instances of Unlock for TLC. *)
EXTENDS Unlock, TLC

CONSTANTS r1, r2, alice, bob, own, other

\* Requests and owners are interchangeable in every safety property.
Symmetry == Permutations(Requests) \cup Permutations(Owners)
=============================================================================
