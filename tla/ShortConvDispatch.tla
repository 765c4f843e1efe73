------------------------- MODULE ShortConvDispatch --------------------------
(***************************************************************************)
(* One call of _short_conv_dilated_dispatch on a flat batch: the tokens of *)
(* all the requests in one tensor, split between the speculative, decode   *)
(* and prefill paths, packed into rows, convolved, unpacked and merged     *)
(* back.  ShortConv takes this call as one step of its rows; here it is    *)
(* shown that the flat call is that step.                                  *)
(*                                                                         *)
(* The data never matters, only where it ends up: token t of the batch is  *)
(* <<"token", t>>, position p of the row of block b is <<"row", b, p>>.    *)
(* Tokens and the offsets of requests count from 0 as in the code; rows,   *)
(* and the elements of a list, count from 1.                               *)
(***************************************************************************)
EXTENDS ConvRow, FiniteSetsExt

CONSTANTS
  Bounds,         \* the bounds of the batches to try: requests, prefill chunk, paths
  MaxPadding      \* bound of the rows that pad a captured graph

ASSUME BatchAssumption ==
  /\ MaxPadding \in Nat
  /\ \A b \in Bounds : /\ b.requests \in Nat \ {0} /\ b.prefill_len \in Nat
                       /\ b.kinds \subseteq {"spec", "decode", "prefill"}

VARIABLES
  batch,            \* the requests, in the order of their tokens, and the padding
  pc,               \* the path that runs next
  conv_state,
  request,          \* the next prefill of the per-request loop
  spec_output, decode_output, prefill_output,
  output

vars == <<batch, pc, conv_state, request, spec_output, decode_output,
          prefill_output, output>>

Block == UNION {0 .. b.requests : b \in Bounds}
OldRow(b) == [p \in Position |-> <<"row", b, p>>]
ZeroOutput == [j \in Tap |-> Zero]
Uninitialized == <<"torch.empty">>

-----------------------------------------------------------------------------
(***************************************************************************)
(* PleShortConvAttentionMetadata, as the code reads it.                    *)
(***************************************************************************)
Request(b) ==
  {r \in
     [kind : {"spec"}, len : 1 .. SpecQueryLen, accepted : 1 .. SpecQueryLen, initial : {TRUE}]
     \union
     [kind : {"decode"}, len : {1}, accepted : {1}, initial : BOOLEAN]
     \union
     [kind : {"prefill"}, len : 0 .. b.prefill_len, accepted : {1}, initial : BOOLEAN]
   : r.kind \in b.kinds}

\* Decodes precede prefills.
Requests ==
  UNION UNION { { { r \in [1 .. n -> Request(b)] :
              \A i, j \in 1 .. n :
                i < j => ~(r[i].kind = "prefill" /\ r[j].kind = "decode") } :
          n \in 1 .. b.requests } : b \in Bounds }

\* A captured graph runs decodes only, or speculative requests only, and is
\* padded to its size.  The padding rows of the speculative path are empty,
\* and their tokens follow those of the requests.
Padding(rows) ==
  IF \A i \in DOMAIN rows : rows[i].kind = "spec" THEN 0 .. MaxPadding
  ELSE IF \A i \in DOMAIN rows : rows[i].kind = "decode" THEN 0 .. MaxPadding
  ELSE {0}

PaddingRow(kind) ==
  [kind |-> kind, len |-> IF kind = "decode" THEN 1 ELSE 0, accepted |-> 1,
   initial |-> FALSE, block |-> NULL_BLOCK_ID]

\* Requests own distinct blocks; which ones is all the same to the code.
OwnBlock(r, b) ==
  [kind |-> r.kind, len |-> r.len, accepted |-> r.accepted, initial |-> r.initial, block |-> b]

Rows ==
  [i \in DOMAIN batch.requests |-> OwnBlock(batch.requests[i], i)]
    \o [i \in 1 .. batch.padding |-> PaddingRow(batch.requests[1].kind)]

\* The numbers of a set in increasing order.
Sorted(S) == [i \in 1 .. Cardinality(S) |-> CHOOSE x \in S : Cardinality({y \in S : y <= x}) = i]

OfKind(kinds) == {i \in DOMAIN Rows : Rows[i].kind \in kinds}
RowsOf(kinds) == LET index == Sorted(OfKind(kinds)) IN [k \in DOMAIN index |-> Rows[index[k]]]
SpecRows == RowsOf({"spec"})
DecodeRows == RowsOf({"decode"})
PrefillRows == RowsOf({"prefill"})

\* query_start_loc: q[k] is the offset of the row after row k.
QueryStartLoc(rows) ==
  LET q[k \in 0 .. Len(rows)] == IF k = 0 THEN 0 ELSE q[k - 1] + rows[k].len IN q

NumTokens(rows) == QueryStartLoc(rows)[Len(rows)]

\* x[: num_actual_tokens], with the padding of the speculative path.
NumActualTokens ==
  NumTokens(Rows) + IF DecodeRows = << >> /\ PrefillRows = << >>
                      THEN batch.padding * SpecQueryLen ELSE 0
Tokens == [i \in 1 .. NumActualTokens |-> <<"token", i - 1>>]

\* spec_token_indx and non_spec_token_indx.
TokenIndex(kinds) ==
  LET q == QueryStartLoc(Rows) IN Sorted(UNION {q[k - 1] .. q[k] - 1 : k \in OfKind(kinds)})
SpecTokenIndex == TokenIndex({"spec"})
NonSpecTokenIndex == TokenIndex({"decode", "prefill"})

HasSpec == SpecRows # << >>
HasNonSpec == DecodeRows # << >> \/ PrefillRows # << >>

IndexSelect(tokens, index) == [i \in DOMAIN index |-> tokens[index[i] + 1]]

XSpec == IF HasNonSpec THEN IndexSelect(Tokens, SpecTokenIndex) ELSE Tokens
XNonSpec == IF HasSpec THEN IndexSelect(Tokens, NonSpecTokenIndex) ELSE Tokens
XDecode == SubSeq(XNonSpec, 1, NumTokens(DecodeRows))
XPrefill == SubSeq(XNonSpec, NumTokens(DecodeRows) + 1, Len(XNonSpec))

-----------------------------------------------------------------------------
(***************************************************************************)
(* Packing.                                                                *)
(***************************************************************************)

\* Mutant: empty rows are not counted.
SearchSortedNonEmpty(q, n, position) ==
  Cardinality({q[k] : k \in {i \in 1 .. n : q[i] <= position}} \ {0}) + 1

\* torch.searchsorted(q_starts[1:], position, right=True), counting rows from 1.
SearchSorted(q, n, position) == Cardinality({k \in 1 .. n : q[k] <= position}) + 1

\* packed[r][c]: the token scattered to column c of row r, or zero.
Pack(x, n, width, row, col) ==
  [r \in 1 .. n |-> [c \in 1 .. width |->
     LET P == {p \in 0 .. Len(x) - 1 : row[p] = r /\ col[p] = c - 1}
     IN IF P = {} THEN Zero ELSE x[Max(P) + 1]]]

\* conv_state.index_copy_: when a block is named twice, either row may win.
IndexCopy(state, rows, new) ==
  { [b \in Block |-> IF \E k \in DOMAIN rows : rows[k].block = b THEN new[last[b]] ELSE state[b]] :
    last \in { w \in [Block -> DOMAIN rows] :
                 \A b \in Block : (\E k \in DOMAIN rows : rows[k].block = b) => rows[w[b]].block = b } }

\* Mutant: the reserved block is taken for a request's.
IsNotNegative(r) == r.block >= 0

IsValid(r) == r.block # NULL_BLOCK_ID

\* The convolution of a packed row at the column of a token, counted from 0.
ConvAt(history, col) == [j \in Tap |-> history[col + j * Dilation]]

InitialWindow(r, use_initial) ==
  [i \in 0 .. ConvStateLen - 1 |-> IF use_initial THEN conv_state[r.block][i] ELSE Zero]

-----------------------------------------------------------------------------
(***************************************************************************)
(* _short_conv_dilated_spec_batched                                        *)
(***************************************************************************)
Clamp(v, low, high) == IF v < low THEN low ELSE IF v > high THEN high ELSE v

\* Padding tokens go to the dummy row behind the last request.
SpecPlace(rows, x) ==
  LET n == Len(rows)
      q == QueryStartLoc(rows)
      found(p) == SearchSorted(q, n, p)
      real == {p \in 0 .. Len(x) - 1 : p < q[n] /\ found(p) <= n}
      start(p) == q[Min({found(p), n}) - 1]
  IN [real |-> real,
      row |-> [p \in 0 .. Len(x) - 1 |-> IF p \in real THEN found(p) ELSE n + 1],
      col |-> [p \in 0 .. Len(x) - 1 |->
                 IF p \in real THEN Clamp(p - start(p), 0, SpecQueryLen - 1) ELSE 0]]

SpecHistories(rows, x) ==
  LET n == Len(rows)
      place == SpecPlace(rows, x)
      packed == Pack(x, n + 1, SpecQueryLen, place.row, place.col)
  IN [k \in 1 .. n + 1 |->
        History([i \in 0 .. ConvStateLen - 1 |->
                   IF k <= n /\ IsValid(rows[k])
                     THEN conv_state[rows[k].block][RollbackOffset(rows[k].accepted) + i]
                     ELSE Zero],
                packed[k], SpecQueryLen)]

RunSpec ==
  /\ pc = "spec" /\ HasSpec
  /\ LET rows == SpecRows
         place == SpecPlace(rows, XSpec)
         history == SpecHistories(rows, XSpec)
         new == [k \in DOMAIN rows |->
                   SpecRow(conv_state[rows[k].block], IsValid(rows[k]), history[k],
                           [i \in 1 .. rows[k].len |-> Zero])]
     IN /\ spec_output' = [i \in 1 .. Len(XSpec) |->
             IF i - 1 \in place.real
               THEN ConvAt(history[place.row[i - 1]], place.col[i - 1]) ELSE ZeroOutput]
        /\ conv_state' \in IndexCopy(conv_state, rows, new)
  /\ pc' = IF HasNonSpec THEN "decode" ELSE "merge"
  /\ UNCHANGED <<batch, request, decode_output, prefill_output, output>>

SkipSpec ==
  /\ pc = "spec" /\ ~HasSpec
  /\ pc' = "decode"
  /\ UNCHANGED <<batch, conv_state, request, spec_output, decode_output,
                 prefill_output, output>>

-----------------------------------------------------------------------------
(***************************************************************************)
(* _short_conv_dilated_decode_batched                                      *)
(***************************************************************************)
RunDecode ==
  /\ pc = "decode" /\ DecodeRows # << >>
  /\ \E masked \in BOOLEAN :
       LET rows == DecodeRows
           initial(k) == IsValid(rows[k]) /\ (masked => rows[k].initial)
           history == [k \in DOMAIN rows |->
                         History(InitialWindow(rows[k], initial(k)), <<XDecode[k]>>, 1)]
           new == [k \in DOMAIN rows |-> [p \in Position |->
                     IF IsValid(rows[k]) /\ p < ConvStateLen
                       THEN history[k][p + 1] ELSE conv_state[rows[k].block][p]]]
       IN /\ masked \/ \A k \in DOMAIN rows : IsValid(rows[k]) => rows[k].initial
          /\ decode_output' = [k \in DOMAIN rows |->
               IF IsValid(rows[k]) THEN ConvAt(history[k], 0) ELSE ZeroOutput]
          /\ conv_state' \in IndexCopy(conv_state, rows, new)
  /\ pc' = IF PrefillRows # << >> THEN "prefill" ELSE "merge"
  /\ UNCHANGED <<batch, request, spec_output, prefill_output, output>>

SkipDecode ==
  /\ pc = "decode" /\ DecodeRows = << >>
  /\ pc' = "prefill"
  /\ UNCHANGED <<batch, conv_state, request, spec_output, decode_output,
                 prefill_output, output>>

-----------------------------------------------------------------------------
(***************************************************************************)
(* _short_conv_dilated_prefill_core, for the rows given and their tokens.  *)
(***************************************************************************)
CoreHistories(rows, x, width) ==
  LET n == Len(rows)
      q == QueryStartLoc(rows)
      row == [p \in 0 .. Len(x) - 1 |-> SearchSorted(q, n, p)]
      col == [p \in 0 .. Len(x) - 1 |-> p - q[row[p] - 1]]
      packed == Pack(x, n, width, row, col)
  IN [k \in 1 .. n |->
        History(InitialWindow(rows[k], IsValid(rows[k]) /\ rows[k].initial), packed[k], width)]

CoreOutput(rows, x, width) ==
  LET n == Len(rows)
      q == QueryStartLoc(rows)
      history == CoreHistories(rows, x, width)
      row(p) == SearchSorted(q, n, p)
      col(p) == p - q[row(p) - 1]
  IN [i \in 1 .. Len(x) |->
        IF col(i - 1) < rows[row(i - 1)].len /\ IsValid(rows[row(i - 1)])
          THEN ConvAt(history[row(i - 1)], col(i - 1)) ELSE ZeroOutput]

\* Mutant: an empty chunk writes its row too.
CoreRowsOfEmptyChunks(rows, x, width) ==
  [k \in DOMAIN rows |-> [p \in Position |->
     IF IsValid(rows[k]) /\ p < ConvStateLen
       THEN CoreHistories(rows, x, width)[k][rows[k].len + p]
       ELSE conv_state[rows[k].block][p]]]

CoreRows(rows, x, width) ==
  [k \in DOMAIN rows |-> [p \in Position |->
     IF IsValid(rows[k]) /\ rows[k].len > 0 /\ p < ConvStateLen
       THEN CoreHistories(rows, x, width)[k][rows[k].len + p]
       ELSE conv_state[rows[k].block][p]]]

NumPrefillTokens == NumTokens(PrefillRows)
MaxPrefillQueryLen == Max({PrefillRows[k].len : k \in DOMAIN PrefillRows})

\* The padded tensor would hold over a quarter more than the real tokens.
OverBudget ==
  /\ Len(PrefillRows) > 1
  /\ Len(PrefillRows) * MaxPrefillQueryLen > NumPrefillTokens + NumPrefillTokens \div 4

\* _short_conv_dilated_prefill_batched, all the requests at once.
PrefillPacked ==
  /\ pc = "prefill" /\ NumPrefillTokens > 0 /\ ~OverBudget
  /\ prefill_output' = CoreOutput(PrefillRows, XPrefill, MaxPrefillQueryLen)
  /\ conv_state' \in IndexCopy(conv_state, PrefillRows,
                               CoreRows(PrefillRows, XPrefill, MaxPrefillQueryLen))
  /\ pc' = "merge"
  /\ UNCHANGED <<batch, request, spec_output, decode_output, output>>

\* Nothing to do for a batch of empty chunks.
PrefillEmpty ==
  /\ pc = "prefill" /\ NumPrefillTokens = 0
  /\ pc' = "merge"
  /\ UNCHANGED <<batch, conv_state, request, spec_output, decode_output,
                 prefill_output, output>>

\* _short_conv_dilated_prefill_per_request, one request of its loop.
PrefillOne ==
  /\ pc = "prefill" /\ NumPrefillTokens > 0 /\ OverBudget
  /\ LET r == PrefillRows[request]
         start == QueryStartLoc(PrefillRows)[request - 1]
         x == SubSeq(XPrefill, start + 1, start + r.len)
     IN IF r.len = 0
          THEN UNCHANGED <<prefill_output, conv_state>>
          ELSE /\ prefill_output' = [i \in 1 .. NumPrefillTokens |->
                    IF i \in start + 1 .. start + r.len
                      THEN CoreOutput(<<r>>, x, r.len)[i - start] ELSE prefill_output[i]]
               /\ conv_state' \in IndexCopy(conv_state, <<r>>, CoreRows(<<r>>, x, r.len))
  /\ IF request = Len(PrefillRows)
       THEN pc' = "merge" /\ request' = request
       ELSE pc' = pc /\ request' = request + 1
  /\ UNCHANGED <<batch, spec_output, decode_output, output>>

-----------------------------------------------------------------------------
\* Back to the order of the batch.
NonSpecOutput == decode_output \o prefill_output

Scatter(old, index, values) ==
  [t \in DOMAIN old |->
     IF \E i \in DOMAIN index : index[i] = t - 1
       THEN values[CHOOSE i \in DOMAIN index : index[i] = t - 1] ELSE old[t]]

Merge ==
  /\ pc = "merge"
  /\ output' =
       IF HasSpec /\ HasNonSpec
         THEN Scatter(Scatter([i \in 1 .. NumActualTokens |-> Uninitialized],
                              SpecTokenIndex, spec_output),
                      NonSpecTokenIndex, NonSpecOutput)
         ELSE IF HasSpec THEN spec_output ELSE NonSpecOutput
  /\ pc' = "done"
  /\ UNCHANGED <<batch, conv_state, request, spec_output, decode_output,
                 prefill_output>>

Return ==
  /\ pc = "done"
  /\ UNCHANGED vars

Init ==
  /\ \E rows \in Requests : \E n \in Padding(rows) : batch = [requests |-> rows, padding |-> n]
  /\ pc = "spec"
  /\ conv_state = [b \in Block |-> OldRow(b)]
  /\ request = 1
  /\ spec_output = << >>
  /\ decode_output = << >>
  /\ prefill_output = [i \in 1 .. NumPrefillTokens |-> Uninitialized]
  /\ output = << >>

Next ==
  \/ RunSpec \/ SkipSpec
  \/ RunDecode \/ SkipDecode
  \/ PrefillPacked \/ PrefillEmpty \/ PrefillOne
  \/ Merge \/ Return

Spec == Init /\ [][Next]_vars

-----------------------------------------------------------------------------
(***************************************************************************)
(* The rows of the batch taken one by one, as ShortConv takes them.        *)
(***************************************************************************)
RequestOffset(k) == QueryStartLoc(Rows)[k - 1]
ChunkOf(k) == SubSeq(Tokens, RequestOffset(k) + 1, RequestOffset(k) + Rows[k].len)

HistoryOf(k) ==
  LET r == Rows[k]
  IN IF r.kind = "spec" THEN SpecHistory(OldRow(r.block), TRUE, r.accepted, ChunkOf(k))
                        ELSE PlainHistory(OldRow(r.block), TRUE, r.initial, ChunkOf(k))
RowOf(k) ==
  LET r == Rows[k]
  IN IF r.kind = "spec" THEN SpecRow(OldRow(r.block), TRUE, HistoryOf(k), ChunkOf(k))
                        ELSE PlainRow(OldRow(r.block), TRUE, HistoryOf(k), ChunkOf(k))

\* However the tokens of a batch are split, packed, padded and merged, each
\* request gets back, at the places of its own tokens, the outputs it would
\* have got alone: no token is read or written in another request's place.
OutputIsPerRequest ==
  pc = "done" =>
    \A k \in DOMAIN batch.requests :
      SubSeq(output, RequestOffset(k) + 1, RequestOffset(k) + Rows[k].len)
        = Conv1d(HistoryOf(k), Rows[k].len)

\* The row of each request is the one it would have left alone, and no other
\* block of the cache changes, the reserved one included.
StateIsPerRequest ==
  pc = "done" =>
    /\ \A k \in DOMAIN batch.requests : conv_state[Rows[k].block] = RowOf(k)
    /\ \A b \in Block : (\A k \in DOMAIN batch.requests : Rows[k].block # b)
                          => conv_state[b] = OldRow(b)

\* The output has a row for every token of the padded batch, and those of the
\* padding are zeros, whatever block 0 holds.
PaddingIsZero ==
  pc = "done" =>
    /\ Len(output) = NumActualTokens
    /\ \A t \in NumTokens(batch.requests) + 1 .. NumActualTokens : output[t] = ZeroOutput
=============================================================================
