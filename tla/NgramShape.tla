----------------------------- MODULE NgramShape ------------------------------
(* The length of an n-gram, which the shift and the hash share. *)
EXTENDS Naturals

CONSTANT NgramSize

ASSUME NgramAssumption == NgramSize \in Nat \ {0, 1}
=============================================================================
