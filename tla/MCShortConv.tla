---------------------------- MODULE MCShortConv -----------------------------
(***************************************************************************)
(* ShortConv on a small instance: one block, two inputs its owners may     *)
(* feed, beside the padding of a captured graph.  What the last owner of   *)
(* the block, the last chunk and the rejected candidates leave in the row. *)
(***************************************************************************)
EXTENDS ShortConv

CONSTANTS a1, a2

OneAlphabet == <<{a1, a2}>>
=============================================================================
