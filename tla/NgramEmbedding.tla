--------------------------- MODULE NgramEmbedding ---------------------------
(***************************************************************************)
(* Qwen4ExpNGramEmbedding.forward up to the hash: the tokens of a batch    *)
(* arrive flat, with the starts of the requests, and are packed in one row *)
(* per request behind the last tokens of its previous chunk; every row is  *)
(* shifted by 1, 2, ... within its end-of-sequence segments, and the       *)
(* shifted values of each token are read back.  The ids of a token are a   *)
(* function of these values, see NgramHash.                                *)
(*                                                                         *)
(* Positions, rows and columns count from 0, as in the code.               *)
(***************************************************************************)
EXTENDS NgramShape, Integers, Sequences

CONSTANTS
  Request, Token, Eos,
  MaxReqs,    \* the rows of padded_buffer, max_num_reqs
  MaxTokens,  \* the columns of padded_buffer, max_total_tokens
  MaxStream   \* bound of the model: the tokens of a request

ASSUME TokenAssumption == Eos \in Token
ASSUME WorkspaceAssumption == {MaxReqs, MaxTokens, MaxStream} \subseteq Nat

VARIABLES
  stream,  \* the tokens each request has fed (history)
  ngrams   \* the shifted values its tokens got (history)

vars == <<stream, ngrams>>

\* The histories have their types: an n-gram is exactly NgramSize tokens, for
\* whatever request, chunk and shift it was built.
TypeOK ==
  /\ stream \in [Request -> Seq(Token)]
  /\ ngrams \in [Request -> Seq([0 .. NgramSize - 1 -> Token])]
  /\ \A r \in Request : Len(stream[r]) <= MaxStream

-----------------------------------------------------------------------------
(***************************************************************************)
(* One call.  A batch has input_ids, query_start_loc, which requests its   *)
(* first rows are, and rows behind them that only pad a captured graph.    *)
(***************************************************************************)
NumReqs(b) == Len(b.reqs) + b.padding_rows
NumTokens(b) == Len(b.input_ids)

\* query_start_loc never decreases, and padding rows are empty.
QueryStartLocs(num_reqs, num_padding, num_tokens) ==
  {q \in [0 .. num_reqs -> 0 .. num_tokens] :
     /\ q[0] = 0
     /\ \A i \in 1 .. num_reqs : q[i - 1] <= q[i]
     /\ \A i \in num_reqs - num_padding .. num_reqs : q[i] = q[num_reqs]}

\* The chunk of row i.
Chunk(b, i) == SubSeq(b.input_ids, b.query_start_loc[i] + 1, b.query_start_loc[i + 1])

\* The runner keeps the last NgramSize - 1 tokens of a request.  Column c of
\* the context of a request that has none there is an end of sequence.
LastTokens(s) ==
  [c \in 0 .. NgramSize - 2 |->
     LET i == Len(s) + c + 2 - NgramSize IN IF i >= 1 THEN s[i] ELSE Eos]

\* What a padding row has there does not matter; Eos stands for it.
NgramContext(b, i) ==
  IF i < Len(b.reqs) THEN LastTokens(stream[b.reqs[i + 1]])
  ELSE [c \in 0 .. NgramSize - 2 |-> Eos]

\* torch.searchsorted(..., right=True)
SearchSorted(q, n, pos) ==
  CHOOSE i \in 0 .. n + 1 : /\ \A j \in 0 .. i - 1 : q[j] <= pos
                            /\ \A j \in i .. n : pos < q[j]

RequestIndex(b, pos) ==
  LET i == SearchSorted(b.query_start_loc, NumReqs(b), pos) - 1
  IN IF i > NumReqs(b) - 1 THEN NumReqs(b) - 1 ELSE i

Column(b, pos) ==
  LET c == pos - b.query_start_loc[RequestIndex(b, pos)]
  IN IF c < 0 THEN 0 ELSE IF c > MaxTokens - 1 THEN MaxTokens - 1 ELSE c

\* Row i of packed: Eos where no token was put.
PackedRow(b, i) ==
  [c \in 0 .. MaxTokens - 1 |->
     LET here == {pos \in 0 .. NumTokens(b) - 1 :
                    RequestIndex(b, pos) = i /\ Column(b, pos) = c}
     IN IF here = {} THEN Eos ELSE b.input_ids[(CHOOSE pos \in here : TRUE) + 1]]

\* Row i of context.
Context(b, i) ==
  LET before == NgramContext(b, i)
      packed == PackedRow(b, i)
  IN [c \in 0 .. NgramSize + MaxTokens - 2 |->
        IF c < NgramSize - 1 THEN before[c] ELSE packed[c - NgramSize + 1]]

\* Mutant: the last end of sequence up to and with column c.
PreviousEosInclusive(row, c) ==
  CHOOSE e \in -1 .. c : /\ e = -1 \/ row[e] = Eos
                         /\ \A d \in e + 1 .. c : row[d] # Eos

\* _shift_precompute: the last end of sequence before column c, or -1.
PreviousEos(row, c) ==
  CHOOSE e \in -1 .. c - 1 : /\ e = -1 \/ row[e] = Eos
                             /\ \A d \in e + 1 .. c - 1 : row[d] # Eos

PositionInSegment(row, c) == c - PreviousEos(row, c) - 1

\* _shift_apply
Shifted(row, c, shift) ==
  IF shift = 0 THEN row[c]
  ELSE IF c - shift >= 0 /\ PositionInSegment(row, c) >= shift THEN row[c - shift] ELSE Eos

\* Mutant: one shift too many.
NgramTooLong(b, pos) ==
  LET row == Context(b, RequestIndex(b, pos))
      c == Column(b, pos) + NgramSize - 1
  IN [shift \in 0 .. NgramSize |-> Shifted(row, c, shift)]

\* The shifted values of the token at a position, read at adjusted_columns.
NgramOf(b, pos) ==
  LET row == Context(b, RequestIndex(b, pos))
      c == Column(b, pos) + NgramSize - 1
  IN [shift \in 0 .. NgramSize - 1 |-> Shifted(row, c, shift)]

\* What the tokens of row i get.
RowNgrams(b, i) ==
  [k \in 1 .. b.query_start_loc[i + 1] - b.query_start_loc[i] |->
     NgramOf(b, b.query_start_loc[i] + k - 1)]

-----------------------------------------------------------------------------
\* Distinct requests, in any order.
Orders == UNION {{s \in [1 .. n -> Request] : \A i, j \in 1 .. n : s[i] = s[j] => i = j} :
                   n \in 0 .. MaxReqs}

\* The batches that fit the workspace.
Batches ==
  UNION {UNION {UNION {
    [reqs : {reqs}, padding_rows : {padding}, input_ids : [1 .. n -> Token],
     query_start_loc : QueryStartLocs(Len(reqs) + padding, padding, n)] :
      padding \in 0 .. MaxReqs - Len(reqs)} : reqs \in Orders} : n \in 0 .. MaxTokens}

RowOf(b, r) == IF \E i \in 1 .. Len(b.reqs) : b.reqs[i] = r
                 THEN (CHOOSE i \in 1 .. Len(b.reqs) : b.reqs[i] = r) - 1 ELSE -1

Init ==
  /\ stream = [r \in Request |-> <<>>]
  /\ ngrams = [r \in Request |-> <<>>]

Forward(b) ==
  /\ NumReqs(b) > 0
  /\ \A i \in 1 .. Len(b.reqs) :
       Len(stream[b.reqs[i]]) + Len(Chunk(b, i - 1)) <= MaxStream
  /\ stream' = [r \in Request |-> IF RowOf(b, r) = -1 THEN stream[r]
                                  ELSE stream[r] \o Chunk(b, RowOf(b, r))]
  /\ ngrams' = [r \in Request |-> IF RowOf(b, r) = -1 THEN ngrams[r]
                                  ELSE ngrams[r] \o RowNgrams(b, RowOf(b, r))]

\* The last tokens were drafts and are rejected, or the request ends: no
\* tensor of the layer remembers them.
Retract(r, n) ==
  /\ stream' = [stream EXCEPT ![r] = SubSeq(@, 1, n)]
  /\ ngrams' = [ngrams EXCEPT ![r] = SubSeq(@, 1, n)]

Next ==
  \/ \E b \in Batches : Forward(b)
  \/ \E r \in Request : \E n \in 0 .. Len(stream[r]) - 1 : Retract(r, n)

Spec == Init /\ [][Next]_vars

-----------------------------------------------------------------------------
Reference == INSTANCE NgramStream

\* However the tokens of the requests are cut in chunks, ordered in batches
\* and padded, each gets the n-gram it has in the whole stream of its request.
ImplementsNgramStream == Reference!Spec
=============================================================================
