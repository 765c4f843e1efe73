-------------------------- MODULE EmbeddingLookup ---------------------------
(***************************************************************************)
(* What an embedding table spread over the hosts of several ranks promises:*)
(* every rank gets the row of every id it is asked for, in the order they  *)
(* are asked for.  The row of an id is named by the id.                    *)
(***************************************************************************)
EXTENDS Naturals, Sequences

CONSTANTS
  TpSizes,  \* the numbers of ranks there may be
  Id

VARIABLES
  asked,    \* the ids asked for so far
  answers   \* the rows each rank has got

vars == <<asked, answers>>

Init ==
  /\ asked = <<>>
  /\ \E n \in TpSizes : answers = [r \in 0 .. n - 1 |-> <<>>]

Ask ==
  /\ \E id \in Id : asked' = Append(asked, id)
  /\ UNCHANGED answers

\* The ranks run the same model: they get the next row together.
Answer ==
  /\ \A r \in DOMAIN answers : Len(answers[r]) < Len(asked)
  /\ answers' = [r \in DOMAIN answers |-> Append(answers[r], asked[Len(answers[r]) + 1])]
  /\ UNCHANGED asked

Next == Ask \/ Answer

Spec == Init /\ [][Next]_vars /\ WF_vars(Answer)
=============================================================================
