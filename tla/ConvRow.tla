------------------------------ MODULE ConvRow -------------------------------
(***************************************************************************)
(* One row of the short-convolution cache: the inputs it is read as, and   *)
(* what each path leaves in it.  `valid` tells the row of a request from   *)
(* the rows that pad the batch of a captured graph, which name             *)
(* NULL_BLOCK_ID.                                                          *)
(***************************************************************************)
EXTENDS ConvShape

CONSTANT NumSpec  \* num_speculative_tokens

ASSUME SpecAssumption == NumSpec \in Nat

\* state_capacity: the positions of a row.
Position == 0 .. ConvStateLen + NumSpec - 1

\* spec_query_len: the packing width of the speculative path.
SpecQueryLen == NumSpec + 1

\* torch.cat((state, packed)): the inputs the convolution slides over.
History(state, x, width) ==
  [i \in 0 .. ConvStateLen + width - 1 |->
     IF i < ConvStateLen THEN state[i]
     ELSE IF i - ConvStateLen < Len(x) THEN x[i - ConvStateLen + 1]
     ELSE Zero]

\* F.conv1d over a history, one output for each of the n inputs fed.
Conv1d(history, n) ==
  [i \in 1 .. n |-> [j \in Tap |-> history[i - 1 + j * Dilation]]]

\* Mutant: a request that starts reads what the last owner left.
StaleHistory(row, valid, has_initial, x) ==
  History([i \in 0 .. ConvStateLen - 1 |-> IF valid THEN row[i] ELSE Zero], x, Len(x))

\* Prefill and decode start from the window at the front of the row.
PlainHistory(row, valid, has_initial, x) ==
  History([i \in 0 .. ConvStateLen - 1 |->
             IF valid /\ has_initial THEN row[i] ELSE Zero],
          x, Len(x))

\* They leave the end of the history there; an empty chunk leaves the row.
PlainRow(row, valid, history, x) ==
  [p \in Position |->
     IF valid /\ x # << >> /\ p < ConvStateLen THEN history[Len(x) + p] ELSE row[p]]

\* Mutant: the offset counts the input that was sampled for certain.
RollbackTooFar(accepted) ==
  CASE accepted < 1 -> 0
    [] accepted >= SpecQueryLen -> SpecQueryLen - 1
    [] OTHER -> accepted

\* num_accepted_tokens - 1, clamped to the width of the packed rows.
RollbackOffset(accepted) ==
  CASE accepted < 1 -> 0
    [] accepted > SpecQueryLen -> SpecQueryLen - 1
    [] OTHER -> accepted - 1

\* The speculative path starts from the window behind the accepted inputs.
SpecHistory(row, valid, accepted, x) ==
  History([i \in 0 .. ConvStateLen - 1 |->
             IF valid THEN row[RollbackOffset(accepted) + i] ELSE Zero],
          x, SpecQueryLen)

\* Mutants: the rows of the padding are written; the last candidate is lost.
SpecRowOfPadding(row, valid, history, x) ==
  [p \in Position |->
     IF ConvStateLen > 0 /\ p < ConvStateLen + Len(x) - 1 THEN history[p + 1] ELSE row[p]]

SpecRowTooShort(row, valid, history, x) ==
  [p \in Position |->
     IF valid /\ ConvStateLen > 0 /\ p + 1 < ConvStateLen + Len(x) - 1
       THEN history[p + 1] ELSE row[p]]

\* It leaves every candidate input in the row behind the window.
SpecRow(row, valid, history, x) ==
  [p \in Position |->
     IF valid /\ ConvStateLen > 0 /\ p < ConvStateLen + Len(x) - 1
       THEN history[p + 1] ELSE row[p]]

=============================================================================
