---------------------------- MODULE NgramProofs -----------------------------
(***************************************************************************)
(* Proofs about the n-gram embedding.  NgramEmbedding: for any sizes of    *)
(* the workspace and any batches, packing, shifting and reading back gives *)
(* each token the n-gram it has in the stream of its request, so that the  *)
(* layer implements NgramStream.  NgramLayout and NgramHash: the heads     *)
(* have their own primes and rows, the hash does not wrap, and an id is a  *)
(* row of its head.                                                        *)
(***************************************************************************)
EXTENDS NgramEmbedding, NgramHash, SequenceTheorems, FiniteSetTheorems,
        WellFoundedInduction, TLAPS

-----------------------------------------------------------------------------
(***************************************************************************)
(* The least and the greatest of some numbers.                             *)
(***************************************************************************)
LEMMA Least ==
  ASSUME NEW T \in SUBSET Nat, T # {}
  PROVE  \E m \in T : \A k \in T : m <= k
<1> DEFINE R == {ss \in Nat \X Nat : ss[1] < ss[2]}
<1>1. IsWellFoundedOn(R, Nat)
  BY NatLessThanWellFounded, Zenon DEF OpToRel
<1> HIDE DEF R
<1>2. PICK m \in T : \A k \in T : ~(<<k, m>> \in R)
  BY <1>1, WFMin
<1>3. \A k \in T : ~(k < m)
  BY <1>2 DEF R
<1> QED BY <1>3

LEMMA Greatest ==
  ASSUME NEW n \in Int, NEW T \in SUBSET Int, T # {}, \A k \in T : k <= n
  PROVE  \E m \in T : \A k \in T : k <= m
<1> DEFINE below == {j \in Nat : n - j \in T}
<1>1. PICK k \in T : TRUE
  OBVIOUS
<1>2. n - k \in below
  BY <1>1
<1>3. PICK j \in below : \A i \in below : j <= i
  BY <1>2, Least
<1>4. ASSUME NEW i \in T PROVE i <= n - j
  <2>1. n - i \in below
    BY <1>4
  <2>2. j <= n - i
    BY <1>3, <2>1
  <2> QED BY <1>3, <2>2
<1>5. n - j \in T
  BY <1>3
<1> QED BY <1>4, <1>5

-----------------------------------------------------------------------------
(***************************************************************************)
(* Finding the row of a position.                                          *)
(***************************************************************************)
\* n + 1 boundaries, the first 0, that never decrease.
Boundaries(q, n) ==
  q \in [0 .. n -> Nat] /\ q[0] = 0 /\ \A i \in 1 .. n : q[i - 1] <= q[i]

LEMMA BoundariesIncrease ==
  ASSUME NEW n \in Nat, NEW q, Boundaries(q, n), NEW i \in 0 .. n, NEW j \in i .. n
  PROVE  q[i] <= q[j]
<1> USE DEF Boundaries
<1> SUFFICES ASSUME q[j] < q[i] PROVE FALSE
  OBVIOUS
<1> DEFINE lower == {k \in i .. n : q[k] < q[i]}
<1>1. lower \in SUBSET Nat /\ j \in lower
  OBVIOUS
<1>2. PICK k \in lower : \A l \in lower : k <= l
  BY <1>1, Least
<1>3. k # i
  BY <1>2
<1>4. k - 1 \in i .. n /\ q[k - 1] >= q[i]
  BY <1>2, <1>3
<1>5. q[k - 1] <= q[k]
  BY <1>3
<1> QED BY <1>2, <1>4, <1>5

LEMMA SearchSortedIs ==
  ASSUME NEW n \in Nat, NEW q, Boundaries(q, n), NEW pos \in Nat, NEW i \in 0 .. n + 1,
         \A j \in 0 .. i - 1 : q[j] <= pos, \A j \in i .. n : pos < q[j]
  PROVE  SearchSorted(q, n, pos) = i
<1> DEFINE P(k) == /\ \A j \in 0 .. k - 1 : q[j] <= pos
                   /\ \A j \in k .. n : pos < q[j]
<1>1. ASSUME NEW k \in 0 .. n + 1, P(k) PROVE k = i
  <2>1. CASE k < i
    <3>1. k \in 0 .. i - 1 /\ k \in k .. n
      BY <2>1
    <3>2. q[k] <= pos /\ pos < q[k]
      BY <1>1, <3>1
    <3> QED BY <3>1, <3>2 DEF Boundaries
  <2>2. CASE i < k
    <3>1. i \in 0 .. k - 1 /\ i \in i .. n
      BY <2>2
    <3>2. q[i] <= pos /\ pos < q[i]
      BY <1>1, <3>1
    <3> QED BY <3>1, <3>2 DEF Boundaries
  <2> QED BY <2>1, <2>2
<1>2. P(i)
  OBVIOUS
<1> QED BY <1>1, <1>2 DEF SearchSorted

\* A position is found, and the boundary before it is the last one that is
\* not behind it.
LEMMA SearchSortedFinds ==
  ASSUME NEW n \in Nat, NEW q, Boundaries(q, n), NEW pos \in Nat
  PROVE  LET i == SearchSorted(q, n, pos)
         IN i \in 1 .. n + 1 /\ q[i - 1] <= pos
<1> DEFINE behind == {i \in 0 .. n : pos < q[i]} \union {n + 1}
<1>1. behind \in SUBSET Nat /\ behind # {}
  OBVIOUS
<1>2. PICK i \in behind : \A j \in behind : i <= j
  BY <1>1, Least
<1>3. i \in 1 .. n + 1
  BY <1>2 DEF Boundaries
<1>4. ASSUME NEW j \in 0 .. i - 1 PROVE q[j] <= pos
  <2>1. j \in 0 .. n /\ j \notin behind
    BY <1>2, <1>3, <1>4
  <2> QED BY <2>1 DEF Boundaries
<1>5. ASSUME NEW j \in i .. n PROVE pos < q[j]
  <2>1. pos < q[i]
    BY <1>2, <1>5
  <2>2. q[i] <= q[j]
    BY <1>3, <1>5, BoundariesIncrease
  <2> QED BY <1>3, <2>1, <2>2 DEF Boundaries
<1>6. SearchSorted(q, n, pos) = i
  BY <1>3, <1>4, <1>5, SearchSortedIs
<1> QED BY <1>3, <1>4, <1>6
-----------------------------------------------------------------------------
(***************************************************************************)
(* A batch that fits the workspace.                                        *)
(***************************************************************************)
Fits(b) ==
  /\ b.reqs \in Seq(Request) /\ NumReqs(b) \in Nat /\ Len(b.reqs) <= NumReqs(b)
  /\ b.input_ids \in Seq(Token) /\ NumTokens(b) <= MaxTokens
  /\ Boundaries(b.query_start_loc, NumReqs(b))
  /\ \A i \in 0 .. NumReqs(b) : b.query_start_loc[i] <= NumTokens(b)

LEMMA BatchesFit ==
  ASSUME NEW b \in Batches PROVE Fits(b)
<1>0. PICK n \in 0 .. MaxTokens, reqs \in Orders : \E padding \in 0 .. MaxReqs - Len(reqs) :
        b \in [reqs : {reqs}, padding_rows : {padding}, input_ids : [1 .. n -> Token],
               query_start_loc : QueryStartLocs(Len(reqs) + padding, padding, n)]
  BY DEF Batches
<1>1. PICK padding \in 0 .. MaxReqs - Len(reqs) :
        b \in [reqs : {reqs}, padding_rows : {padding}, input_ids : [1 .. n -> Token],
               query_start_loc : QueryStartLocs(Len(reqs) + padding, padding, n)]
  BY <1>0
<1>2. n \in Nat /\ n <= MaxTokens
  BY WorkspaceAssumption
<1>3. PICK m \in 0 .. MaxReqs : reqs \in [1 .. m -> Request]
  BY DEF Orders
<1>4. reqs \in Seq(Request) /\ Len(reqs) \in Nat
  BY <1>3, SeqDef, LenProperties
<1>5. padding \in Nat
  BY <1>4, WorkspaceAssumption
<1>6. /\ b.reqs = reqs /\ b.padding_rows = padding /\ b.input_ids \in [1 .. n -> Token]
      /\ b.query_start_loc \in QueryStartLocs(Len(reqs) + padding, padding, n)
  BY <1>1
<1>7. b.input_ids \in Seq(Token) /\ NumTokens(b) = n
  BY <1>2, <1>6, SeqDef, LenProperties DEF NumTokens
<1>8. NumReqs(b) = Len(reqs) + padding
  BY <1>6 DEF NumReqs
<1>9. b.query_start_loc \in QueryStartLocs(NumReqs(b), padding, n)
  BY <1>6, <1>8
<1>10. NumReqs(b) \in Nat /\ Len(reqs) <= NumReqs(b)
  BY <1>4, <1>5, <1>8
<1>11. /\ Boundaries(b.query_start_loc, NumReqs(b))
       /\ \A i \in 0 .. NumReqs(b) : b.query_start_loc[i] <= n
  BY <1>2, <1>9, <1>10 DEF QueryStartLocs, Boundaries
<1> QED BY <1>2, <1>4, <1>6, <1>7, <1>10, <1>11 DEF Fits

LEMMA BatchSizes ==
  ASSUME NEW b, Fits(b)
  PROVE  /\ NumReqs(b) \in Nat /\ NumTokens(b) \in Nat /\ MaxTokens \in Nat
         /\ NumTokens(b) <= MaxTokens
         /\ \A i \in 0 .. NumReqs(b) :
              b.query_start_loc[i] \in Nat /\ b.query_start_loc[i] <= NumTokens(b)
<1>1. MaxTokens \in Nat
  BY WorkspaceAssumption
<1>2. NumTokens(b) \in Nat
  BY LenProperties DEF Fits, NumTokens
<1>3. \A i \in 0 .. NumReqs(b) : b.query_start_loc[i] \in Nat
  BY DEF Fits, Boundaries
<1> QED BY <1>1, <1>2, <1>3 DEF Fits

\* The tokens of row i are found in row i, each in its own column.
LEMMA RowIsFound ==
  ASSUME NEW b, Fits(b), NEW i \in 0 .. NumReqs(b) - 1, NEW pos \in Nat,
         b.query_start_loc[i] <= pos, pos < b.query_start_loc[i + 1]
  PROVE  RequestIndex(b, pos) = i /\ Column(b, pos) = pos - b.query_start_loc[i]
<1> DEFINE q == b.query_start_loc
           n == NumReqs(b)
<1>1. n \in Nat /\ Boundaries(q, n) /\ i \in 0 .. n /\ i + 1 \in 0 .. n
  BY BatchSizes DEF Fits
<1>2. /\ \A j \in 0 .. n : q[j] \in Nat
      /\ pos - q[i] \in 0 .. MaxTokens - 1 /\ MaxTokens \in Nat
  BY <1>1, BatchSizes
<1> HIDE DEF q, n
<1>3. ASSUME NEW j \in 0 .. i PROVE q[j] <= pos
  <2>1. j \in 0 .. n /\ i \in j .. n
    BY <1>1
  <2>2. q[j] <= q[i]
    BY <1>1, <2>1, BoundariesIncrease
  <2> QED BY <1>1, <1>2, <2>1, <2>2 DEF q
<1>4. ASSUME NEW j \in i + 1 .. n PROVE pos < q[j]
  <2>1. j \in 0 .. n /\ j \in i + 1 .. n
    BY <1>1
  <2>2. q[i + 1] <= q[j]
    BY <1>1, <2>1, BoundariesIncrease
  <2> QED BY <1>1, <1>2, <2>1, <2>2 DEF q
<1>5. SearchSorted(q, n, pos) = i + 1
  <2>1. i + 1 \in 0 .. n + 1 /\ 0 .. (i + 1) - 1 = 0 .. i
    BY <1>1
  <2> QED BY <1>1, <1>3, <1>4, <2>1, SearchSortedIs
<1>6. RequestIndex(b, pos) = i
  BY <1>1, <1>5 DEF RequestIndex, q, n
<1> QED BY <1>2, <1>6 DEF Column, q

\* What is put in row i lies behind its start: its own tokens, or, in the last
\* row, tokens that pad a captured graph.
LEMMA PackedBehindStart ==
  ASSUME NEW b, Fits(b), NumReqs(b) > 0, NEW pos \in 0 .. NumTokens(b) - 1
  PROVE  LET i == RequestIndex(b, pos)
         IN i \in 0 .. NumReqs(b) - 1 /\ Column(b, pos) = pos - b.query_start_loc[i]
<1> DEFINE q == b.query_start_loc
           n == NumReqs(b)
           k == SearchSorted(q, n, pos)
           i == RequestIndex(b, pos)
<1>1. n \in Nat /\ n > 0 /\ Boundaries(q, n) /\ pos \in Nat
  BY BatchSizes DEF Fits
<1>2. /\ \A j \in 0 .. n : q[j] \in Nat
      /\ pos < MaxTokens /\ MaxTokens \in Nat
  BY BatchSizes
<1>3. k \in 1 .. n + 1 /\ q[k - 1] <= pos
  BY <1>1, SearchSortedFinds
<1>4. i = IF k - 1 > n - 1 THEN n - 1 ELSE k - 1
  BY DEF RequestIndex
<1>5. Column(b, pos) = IF pos - q[i] < 0 THEN 0
                       ELSE IF pos - q[i] > MaxTokens - 1 THEN MaxTokens - 1 ELSE pos - q[i]
  BY DEF Column
<1> HIDE DEF k, i, q, n
<1>6. i \in 0 .. n - 1 /\ i \in 0 .. n /\ k - 1 \in i .. n /\ k - 1 \in 0 .. n
  BY <1>1, <1>3, <1>4
<1>7. q[i] <= q[k - 1]
  BY <1>1, <1>6, BoundariesIncrease
<1>8. q[i] \in Nat /\ q[k - 1] \in Nat
  BY <1>2, <1>6
<1>9. Column(b, pos) = pos - q[i]
  BY <1>1, <1>2, <1>3, <1>5, <1>7, <1>8
<1> QED BY <1>6, <1>9 DEF i, q, n

LEMMA ChunkIsPart ==
  ASSUME NEW b, Fits(b), NEW i \in 0 .. NumReqs(b) - 1
  PROVE  /\ Chunk(b, i) \in Seq(Token)
         /\ b.query_start_loc[i] \in Nat /\ b.query_start_loc[i + 1] \in Nat
         /\ Len(Chunk(b, i)) = b.query_start_loc[i + 1] - b.query_start_loc[i]
         /\ \A k \in 1 .. Len(Chunk(b, i)) : Chunk(b, i)[k] = b.input_ids[b.query_start_loc[i] + k]
<1> DEFINE m == b.query_start_loc[i] + 1
           n == b.query_start_loc[i + 1]
<1>1. NumReqs(b) \in Nat /\ i \in 0 .. NumReqs(b) /\ i + 1 \in 0 .. NumReqs(b)
  BY BatchSizes
<1>2. b.query_start_loc[i] \in Nat /\ n \in Nat /\ n <= NumTokens(b)
  BY <1>1, BatchSizes
<1>3. b.query_start_loc[i] <= n
  <2>1. i + 1 \in 1 .. NumReqs(b) /\ (i + 1) - 1 = i
    BY <1>1
  <2> QED BY <2>1 DEF Fits, Boundaries
<1>4. \A j \in m .. n : b.input_ids[j] \in Token
  BY <1>2, ElementOfSeq, BatchSizes DEF Fits, NumTokens
<1>5. Chunk(b, i) = SubSeq(b.input_ids, m, n)
  BY DEF Chunk
<1>6. m \in Int /\ n \in Int
  BY <1>2
<1>7. b.query_start_loc[i] \in Nat /\ b.query_start_loc[i] = m - 1
  BY <1>2
<1> HIDE DEF m, n
<1>8. /\ SubSeq(b.input_ids, m, n) \in Seq(Token)
      /\ Len(SubSeq(b.input_ids, m, n)) = IF m <= n THEN n - m + 1 ELSE 0
      /\ \A k \in 1 .. n - m + 1 : SubSeq(b.input_ids, m, n)[k] = b.input_ids[m + k - 1]
  BY <1>4, <1>6, SubSeqProperties
<1>9. Len(Chunk(b, i)) = n - m + 1
  BY <1>3, <1>5, <1>6, <1>7, <1>8
<1>10. \A k \in 1 .. n - m + 1 : m + k - 1 = b.query_start_loc[i] + k
  BY <1>6, <1>7
<1> QED BY <1>2, <1>5, <1>6, <1>7, <1>8, <1>9, <1>10 DEF n

LEMMA PackedRowIsChunk ==
  ASSUME NEW b, Fits(b), NEW i \in 0 .. NumReqs(b) - 1, NEW c \in 0 .. Len(Chunk(b, i)) - 1
  PROVE  c \in 0 .. MaxTokens - 1 /\ PackedRow(b, i)[c] = Chunk(b, i)[c + 1]
<1> DEFINE q == b.query_start_loc
           here == {pos \in 0 .. NumTokens(b) - 1 : RequestIndex(b, pos) = i /\ Column(b, pos) = c}
<1>1. NumReqs(b) \in Nat /\ NumReqs(b) > 0 /\ NumTokens(b) \in Nat
  BY BatchSizes
<1>2. /\ q[i] \in Nat /\ q[i + 1] \in Nat /\ q[i + 1] <= NumTokens(b)
      /\ c \in 0 .. q[i + 1] - q[i] - 1
  BY <1>1, BatchSizes, ChunkIsPart
<1>3. q[i] + c \in 0 .. NumTokens(b) - 1 /\ c \in 0 .. MaxTokens - 1
  <2>1. c \in Nat /\ c < q[i + 1] - q[i]
    BY <1>2
  <2>2. NumTokens(b) <= MaxTokens /\ MaxTokens \in Nat
    BY BatchSizes
  <2> HIDE DEF q
  <2> QED BY <1>1, <1>2, <2>1, <2>2, SMTT(40)
<1>4. q[i] + c \in here
  <2>1. q[i] <= q[i] + c /\ q[i] + c < q[i + 1] /\ q[i] + c \in Nat
    BY <1>2, SMTT(40)
  <2>2. RequestIndex(b, q[i] + c) = i /\ Column(b, q[i] + c) = (q[i] + c) - q[i]
    BY <2>1, RowIsFound
  <2> QED BY <1>2, <1>3, <2>2
<1>5. ASSUME NEW pos \in here PROVE pos = q[i] + c
  BY <1>1, <1>2, PackedBehindStart
<1>6. here = {q[i] + c}
  BY <1>4, <1>5
<1>7. PackedRow(b, i)[c] = b.input_ids[(CHOOSE pos \in here : TRUE) + 1]
  BY <1>3, <1>4 DEF PackedRow
<1>8. Chunk(b, i)[c + 1] = b.input_ids[q[i] + (c + 1)]
  <2>1. c + 1 \in 1 .. Len(Chunk(b, i))
    BY <1>2, ChunkIsPart
  <2> QED BY <2>1, ChunkIsPart
<1>9. q[i] + (c + 1) = q[i] + c + 1
  BY <1>2
<1> QED BY <1>3, <1>6, <1>7, <1>8, <1>9

-----------------------------------------------------------------------------
(***************************************************************************)
(* A row of the context is the end of the stream of its request.           *)
(***************************************************************************)
\* Before its first token a stream has ends of sequence.
StreamAt(t, i) == IF i >= 1 THEN t[i] ELSE Eos

LEMMA RowIsEndOfStream ==
  ASSUME NEW b, Fits(b), NEW i \in 0 .. Len(b.reqs) - 1,
         NEW s \in Seq(Token), NgramContext(b, i) = LastTokens(s),
         NEW c \in 0 .. NgramSize - 2 + Len(Chunk(b, i))
  PROVE  Context(b, i)[c] = StreamAt(s \o Chunk(b, i), Len(s) + c + 2 - NgramSize)
<1>1. i \in 0 .. NumReqs(b) - 1 /\ i < Len(b.reqs)
  BY BatchSizes, LenProperties DEF Fits
<1>2. Chunk(b, i) \in Seq(Token) /\ Len(Chunk(b, i)) \in Nat
  BY <1>1, ChunkIsPart, LenProperties
<1>3. Len(s) \in Nat /\ NgramSize \in Nat /\ NgramSize >= 2
  BY LenProperties, NgramAssumption
<1>4. CASE c < NgramSize - 1
  <2>1. Context(b, i)[c] = LastTokens(s)[c]
    <3>1. c \in 0 .. NgramSize + MaxTokens - 2
      BY <1>3, <1>4, BatchSizes
    <3> QED BY <1>4, <3>1 DEF Context
  <2>2. LastTokens(s)[c] = StreamAt(s, Len(s) + c + 2 - NgramSize)
    BY <1>3, <1>4 DEF LastTokens, StreamAt
  <2>3. Len(s) + c + 2 - NgramSize \in Int /\ Len(s) + c + 2 - NgramSize <= Len(s)
    BY <1>3, <1>4
  <2> QED BY <1>2, <1>3, <2>1, <2>2, <2>3, ConcatProperties DEF StreamAt
<1>5. CASE c >= NgramSize - 1
  <2>0. PICK k \in Int : k = c - NgramSize + 1
    BY <1>2, <1>3
  <2>1. k \in 0 .. Len(Chunk(b, i)) - 1 /\ k + 1 \in 1 .. Len(Chunk(b, i))
    BY <1>2, <1>3, <1>5, <2>0
  <2>2. k \in 0 .. MaxTokens - 1 /\ PackedRow(b, i)[k] = Chunk(b, i)[k + 1]
    BY <1>1, <2>1, PackedRowIsChunk
  <2>3. Context(b, i)[c] = PackedRow(b, i)[k]
    <3>1. c \in 0 .. NgramSize + MaxTokens - 2
      BY <1>3, <1>5, <2>0, <2>2, BatchSizes, SMTT(40)
    <3> QED BY <1>3, <1>5, <2>0, <3>1 DEF Context
  <2>6. Len(s) + c + 2 - NgramSize = Len(s) + (k + 1)
    BY <1>2, <1>3, <2>0
  <2>7. (s \o Chunk(b, i))[Len(s) + (k + 1)] = Chunk(b, i)[k + 1]
    <3>1. /\ Len(s) + (k + 1) \in 1 .. Len(s) + Len(Chunk(b, i))
          /\ ~(Len(s) + (k + 1) <= Len(s)) /\ (Len(s) + (k + 1)) - Len(s) = k + 1
      BY <1>2, <1>3, <2>1
    <3>2. \A j \in 1 .. Len(s) + Len(Chunk(b, i)) :
            (s \o Chunk(b, i))[j] = IF j <= Len(s) THEN s[j] ELSE Chunk(b, i)[j - Len(s)]
      BY <1>2, ConcatProperties
    <3> QED BY <3>1, <3>2
  <2>8. Len(s) + (k + 1) >= 1
    BY <1>3, <2>1
  <2> QED BY <2>2, <2>3, <2>6, <2>7, <2>8 DEF StreamAt
<1> QED BY <1>3, <1>4, <1>5

-----------------------------------------------------------------------------
(***************************************************************************)
(* Shifting within the segments of a row.                                  *)
(***************************************************************************)
LEMMA PreviousEosIs ==
  ASSUME NEW row, NEW c \in Nat
  PROVE  LET e == PreviousEos(row, c)
         IN /\ e \in -1 .. c - 1 /\ (e = -1 \/ row[e] = Eos)
            /\ \A d \in e + 1 .. c - 1 : row[d] # Eos
<1> DEFINE ends == {e \in -1 .. c - 1 : e = -1 \/ row[e] = Eos}
<1>1. ends \in SUBSET Int /\ -1 \in ends /\ \A e \in ends : e <= c - 1
  OBVIOUS
<1>2. PICK e \in ends : \A d \in ends : d <= e
  <2>1. ends # {} /\ c - 1 \in Int
    BY <1>1
  <2> HIDE DEF ends
  <2> QED BY <1>1, <2>1, Greatest
<1>3. ASSUME NEW d \in e + 1 .. c - 1 PROVE row[d] # Eos
  <2>1. d \in -1 .. c - 1 /\ ~(d <= e)
    BY <1>3
  <2> QED BY <1>2, <2>1
<1>4. e \in -1 .. c - 1 /\ (e = -1 \/ row[e] = Eos)
  OBVIOUS
<1> QED BY <1>3, <1>4 DEF PreviousEos

\* A row up to column c is the end of the stream t up to its token i.
LEMMA ShiftedIsPart ==
  ASSUME NEW t, NEW i \in Nat \ {0}, NEW row, NEW c \in Nat, NEW shift \in 0 .. NgramSize - 1,
         shift <= c, \A d \in 0 .. c : row[d] = StreamAt(t, i - c + d)
  PROVE  Shifted(row, c, shift) = Reference!NgramAt(t, i)[shift]
<1> DEFINE free == \A e \in i - shift .. i - 1 : t[e] # Eos
<1>1. Reference!NgramAt(t, i)[shift] = IF i - shift >= 1 /\ free THEN t[i - shift] ELSE Eos
  BY DEF Reference!NgramAt
<1>2. NgramSize \in Nat /\ shift \in Nat
  BY NgramAssumption
<1>3. CASE shift = 0
  <2>1. Shifted(row, c, shift) = t[i]
    BY <1>3 DEF Shifted, StreamAt
  <2> QED BY <1>1, <1>3, <2>1
<1>4. CASE shift # 0
  <2> DEFINE e == PreviousEos(row, c)
  <2>1. /\ e \in -1 .. c - 1 /\ (e = -1 \/ row[e] = Eos)
        /\ \A d \in e + 1 .. c - 1 : row[d] # Eos
    BY PreviousEosIs
  <2>2. Shifted(row, c, shift) = IF c - e - 1 >= shift THEN row[c - shift] ELSE Eos
    BY <1>2, <1>4 DEF Shifted, PositionInSegment
  <2> HIDE DEF e
  <2>3. CASE c - e - 1 >= shift
    <3>1. row[c - shift] = StreamAt(t, i - shift)
      <4>1. c - shift \in 0 .. c /\ i - c + (c - shift) = i - shift
        BY <1>2
      <4> QED BY <4>1
    <3>2. CASE i - shift >= 1
      <4>1. ASSUME NEW f \in i - shift .. i - 1 PROVE t[f] # Eos
        <5>1. c + f - i \in e + 1 .. c - 1 /\ c + f - i \in 0 .. c /\ i - c + (c + f - i) = f
          BY <1>2, <2>1, <2>3
        <5>2. row[c + f - i] = StreamAt(t, f)
          BY <5>1
        <5> QED BY <1>2, <2>1, <3>2, <5>1, <5>2 DEF StreamAt
      <4> QED BY <1>1, <2>2, <2>3, <3>1, <3>2, <4>1 DEF StreamAt
    <3>3. CASE ~(i - shift >= 1)
      BY <1>1, <2>2, <2>3, <3>1, <3>3 DEF StreamAt
    <3> QED BY <3>2, <3>3
  <2>4. CASE ~(c - e - 1 >= shift)
    <3>1. e \in 0 .. c - 1 /\ e >= c - shift /\ row[e] = Eos
      BY <1>2, <2>1, <2>4
    <3>2. StreamAt(t, i - c + e) = Eos
      BY <3>1
    <3>3. i - shift >= 1 => ~free
      <4>1. i - shift >= 1 => i - c + e \in i - shift .. i - 1 /\ i - c + e >= 1
        BY <1>2, <3>1
      <4> QED BY <3>2, <4>1 DEF StreamAt
    <3> QED BY <1>1, <2>2, <2>4, <3>3
  <2> QED BY <2>3, <2>4
<1> QED BY <1>3, <1>4

-----------------------------------------------------------------------------
(***************************************************************************)
(* One call.                                                               *)
(***************************************************************************)
LEMMA NgramOfIsPart ==
  ASSUME NEW b, Fits(b), NEW i \in 0 .. Len(b.reqs) - 1,
         NEW s \in Seq(Token), NgramContext(b, i) = LastTokens(s),
         NEW k \in 1 .. Len(Chunk(b, i))
  PROVE  NgramOf(b, b.query_start_loc[i] + k - 1)
           = Reference!NgramAt(s \o Chunk(b, i), Len(s) + k)
<1> DEFINE pos == b.query_start_loc[i] + k - 1
           row == Context(b, i)
           c == k + NgramSize - 2
           t == s \o Chunk(b, i)
<1>1. i \in 0 .. NumReqs(b) - 1
  BY BatchSizes, LenProperties DEF Fits
<1>2. Len(Chunk(b, i)) \in Nat /\ Len(s) \in Nat /\ NgramSize \in Nat /\ NgramSize >= 2
  BY <1>1, ChunkIsPart, LenProperties, NgramAssumption
<1>3. RequestIndex(b, pos) = i /\ Column(b, pos) = k - 1
  <2>0. /\ b.query_start_loc[i] \in Nat /\ b.query_start_loc[i + 1] \in Nat
        /\ Len(Chunk(b, i)) = b.query_start_loc[i + 1] - b.query_start_loc[i]
    BY <1>1, ChunkIsPart
  <2>1. PICK first \in Nat, last \in Nat :
          /\ b.query_start_loc[i] = first /\ b.query_start_loc[i + 1] = last
          /\ Len(Chunk(b, i)) = last - first
    BY <2>0, Zenon
  <2>2. first + k - 1 \in Nat /\ first <= first + k - 1 /\ first + k - 1 < last
    BY <2>1
  <2>3. RequestIndex(b, first + k - 1) = i /\ Column(b, first + k - 1) = (first + k - 1) - first
    BY <1>1, <2>1, <2>2, RowIsFound
  <2> QED BY <2>1, <2>3
<1>4. NgramOf(b, pos) = [shift \in 0 .. NgramSize - 1 |-> Shifted(row, c, shift)]
  <2>1. (k - 1) + NgramSize - 1 = c
    BY <1>2
  <2> QED BY <1>3, <2>1 DEF NgramOf
<1>5. c \in Nat /\ Len(s) + k \in Nat \ {0} /\ \A shift \in 0 .. NgramSize - 1 : shift <= c
  BY <1>2
<1>6. ASSUME NEW d \in 0 .. c PROVE row[d] = StreamAt(t, Len(s) + k - c + d)
  <2>1. d \in 0 .. NgramSize - 2 + Len(Chunk(b, i))
    BY <1>2
  <2>2. Len(s) + d + 2 - NgramSize = Len(s) + k - c + d
    BY <1>2
  <2> QED BY <2>1, <2>2, RowIsEndOfStream
<1>7. ASSUME NEW shift \in 0 .. NgramSize - 1
      PROVE  Shifted(row, c, shift) = Reference!NgramAt(t, Len(s) + k)[shift]
  <2> HIDE DEF c, row, t
  <2> QED BY <1>5, <1>6, ShiftedIsPart
<1>8. Reference!NgramAt(t, Len(s) + k)
        = [shift \in 0 .. NgramSize - 1 |-> Reference!NgramAt(t, Len(s) + k)[shift]]
  BY DEF Reference!NgramAt
<1> HIDE DEF c, row, t, pos
<1>9. NgramOf(b, pos) = Reference!NgramAt(t, Len(s) + k)
  BY <1>4, <1>7, <1>8
<1> QED BY <1>9 DEF t, pos

\* What was emitted for older tokens is as in the longer stream.
LEMMA OldNgramsStay ==
  ASSUME NEW s \in Seq(Token), NEW t \in Seq(Token), NEW i \in 1 .. Len(s)
  PROVE  Reference!NgramAt(s \o t, i) = Reference!NgramAt(s, i)
<1>1. \A j \in 1 .. Len(s) : (s \o t)[j] = s[j]
  <2>1. Len(s) \in Nat /\ Len(t) \in Nat
    BY LenProperties
  <2> QED BY <2>1, ConcatProperties
<1>2. ASSUME NEW j \in 0 .. NgramSize - 1
      PROVE  /\ i - j >= 1 => \A e \in i - j .. i - 1 : e \in 1 .. Len(s)
             /\ i - j >= 1 => i - j \in 1 .. Len(s)
  BY LenProperties, NgramAssumption
<1> QED BY <1>1, <1>2 DEF Reference!NgramAt

\* An n-gram is made of tokens.
LEMMA NgramType ==
  ASSUME NEW s \in Seq(Token), NEW i \in 1 .. Len(s)
  PROVE  Reference!NgramAt(s, i) \in [0 .. NgramSize - 1 -> Token]
<1>1. Len(s) \in Nat /\ NgramSize \in Nat
  BY LenProperties, NgramAssumption
<1>2. ASSUME NEW j \in 0 .. NgramSize - 1, i - j >= 1 PROVE s[i - j] \in Token
  <2>1. i - j \in 1 .. Len(s)
    BY <1>1, <1>2
  <2> QED BY <2>1, ElementOfSeq
<1> QED BY <1>2, TokenAssumption DEF Reference!NgramAt

LEMMA NgramsType ==
  ASSUME NEW s \in Seq(Token)
  PROVE  /\ Reference!NgramsOf(s) \in Seq([0 .. NgramSize - 1 -> Token])
         /\ Len(Reference!NgramsOf(s)) = Len(s)
<1>1. Len(s) \in Nat
  BY LenProperties
<1>2. Reference!NgramsOf(s) \in [1 .. Len(s) -> [0 .. NgramSize - 1 -> Token]]
  BY NgramType DEF Reference!NgramsOf
<1>3. Reference!NgramsOf(s) \in Seq([0 .. NgramSize - 1 -> Token])
  BY <1>1, <1>2, SeqDef
<1>4. DOMAIN Reference!NgramsOf(s) = 1 .. Len(s)
  BY DEF Reference!NgramsOf
<1> QED BY <1>1, <1>3, <1>4, LenProperties

LEMMA NgramsContinue ==
  ASSUME NEW b, Fits(b), NEW i \in 0 .. Len(b.reqs) - 1,
         NEW s \in Seq(Token), NgramContext(b, i) = LastTokens(s)
  PROVE  Reference!NgramsOf(s) \o RowNgrams(b, i) = Reference!NgramsOf(s \o Chunk(b, i))
<1> DEFINE N == [0 .. NgramSize - 1 -> Token]
           x == Chunk(b, i)
           old == Reference!NgramsOf(s)
           new == RowNgrams(b, i)
           all == Reference!NgramsOf(s \o x)
<1>1. i \in 0 .. NumReqs(b) - 1
  BY BatchSizes, LenProperties DEF Fits
<1>2. x \in Seq(Token) /\ Len(x) \in Nat /\ Len(s) \in Nat
  BY <1>1, ChunkIsPart, LenProperties
<1>3. s \o x \in Seq(Token) /\ Len(s \o x) = Len(s) + Len(x)
  BY <1>2, ConcatProperties
<1>4. /\ old \in Seq(N) /\ Len(old) = Len(s)
      /\ all \in Seq(N) /\ Len(all) = Len(s) + Len(x)
  BY <1>3, NgramsType
<1>5. new = [k \in 1 .. Len(x) |-> NgramOf(b, b.query_start_loc[i] + k - 1)]
  BY <1>1, ChunkIsPart DEF RowNgrams
<1>6. \A k \in 1 .. Len(x) : new[k] = Reference!NgramAt(s \o x, Len(s) + k)
  BY <1>5, NgramOfIsPart
<1>7. \A k \in 1 .. Len(x) : new[k] \in N
  <2> SUFFICES ASSUME NEW k \in 1 .. Len(x) PROVE new[k] \in N
    OBVIOUS
  <2>1. Len(s) + k \in 1 .. Len(s \o x)
    BY <1>2, <1>3
  <2> QED BY <1>3, <1>6, <2>1, NgramType
<1> HIDE DEF N, x, old, new, all
<1>8. new \in Seq(N) /\ Len(new) = Len(x)
  <2>1. new \in [1 .. Len(x) -> N] /\ DOMAIN new = 1 .. Len(x)
    BY <1>5, <1>7
  <2>2. new \in Seq(N)
    BY <1>2, <2>1, SeqDef
  <2> QED BY <1>2, <2>1, <2>2, LenProperties
<1>9. /\ old \o new \in Seq(N) /\ Len(old \o new) = Len(s) + Len(x)
      /\ \A k \in 1 .. Len(s) + Len(x) :
           (old \o new)[k] = IF k <= Len(s) THEN old[k] ELSE new[k - Len(s)]
  <2>0. old \in Seq(N) /\ new \in Seq(N)
    BY <1>4, <1>8
  <2>1. /\ old \o new \in Seq(N) /\ Len(old \o new) = Len(old) + Len(new)
        /\ \A k \in 1 .. Len(old) + Len(new) :
             (old \o new)[k] = IF k <= Len(old) THEN old[k] ELSE new[k - Len(old)]
    BY <2>0, ConcatProperties
  <2> QED BY <1>4, <1>8, <2>1, Zenon
<1>10. ASSUME NEW k \in 1 .. Len(s) + Len(x) PROVE (old \o new)[k] = all[k]
  <2>1. all[k] = Reference!NgramAt(s \o x, k)
    BY <1>3 DEF all, Reference!NgramsOf
  <2>2. CASE k <= Len(s)
    <3>1. k \in 1 .. Len(s)
      BY <1>2, <2>2
    <3>2. old[k] = Reference!NgramAt(s, k)
      BY <3>1 DEF old, Reference!NgramsOf
    <3> QED BY <1>2, <1>9, <2>1, <2>2, <3>1, <3>2, OldNgramsStay
  <2>3. CASE ~(k <= Len(s))
    <3>1. k - Len(s) \in 1 .. Len(x) /\ Len(s) + (k - Len(s)) = k
      BY <1>2, <2>3
    <3> QED BY <1>6, <1>9, <2>1, <2>3, <3>1
  <2> QED BY <2>2, <2>3
<1>11. old \o new = all
  BY <1>4, <1>9, <1>10, SeqEqual
<1> QED BY <1>11 DEF old, new, all, x

-----------------------------------------------------------------------------
(***************************************************************************)
(* The inductive invariant: each request has the n-grams of its stream.    *)
(***************************************************************************)
IInv ==
  /\ stream \in [Request -> Seq(Token)]
  /\ \A r \in Request : Len(stream[r]) <= MaxStream
  /\ ngrams = [r \in Request |-> Reference!NgramsOf(stream[r])]

LEMMA PrefixOfConcat ==
  ASSUME NEW s \in Seq(Token), NEW t \in Seq(Token)
  PROVE  SubSeq(s \o t, 1, Len(s)) = s
<1>1. Len(s) \in Nat /\ Len(t) \in Nat
  BY LenProperties
<1>2. /\ Len(s \o t) = Len(s) + Len(t)
      /\ \A k \in 1 .. Len(s) : (s \o t)[k] = s[k]
  BY <1>1, ConcatProperties
<1>3. \A k \in 1 .. Len(s) : (s \o t)[k] \in Token
  BY <1>2, ElementOfSeq
<1> DEFINE p == SubSeq(s \o t, 1, Len(s))
<1>4. /\ p \in Seq(Token) /\ Len(p) = IF 1 <= Len(s) THEN Len(s) - 1 + 1 ELSE 0
      /\ \A k \in 1 .. Len(s) - 1 + 1 : p[k] = (s \o t)[1 + k - 1]
  BY <1>1, <1>3, SubSeqProperties
<1> HIDE DEF p
<1>5. p \in Seq(Token) /\ Len(p) = Len(s) /\ \A k \in 1 .. Len(s) : p[k] = s[k]
  BY <1>1, <1>2, <1>4
<1>6. p = s
  BY <1>5, SeqEqual
<1> QED BY <1>6 DEF p

\* A request of the batch, with the row it is in.
LEMMA RowOfRequest ==
  ASSUME NEW b, Fits(b), NEW r \in Request, RowOf(b, r) # -1
  PROVE  /\ RowOf(b, r) \in 0 .. Len(b.reqs) - 1
         /\ NgramContext(b, RowOf(b, r)) = LastTokens(stream[r])
<1>0. Len(b.reqs) \in Nat
  BY LenProperties DEF Fits
<1>1. PICK i \in 1 .. Len(b.reqs) : b.reqs[i] = r /\ RowOf(b, r) = i - 1
  BY DEF RowOf
<1>2. i - 1 \in 0 .. Len(b.reqs) - 1 /\ i - 1 < Len(b.reqs) /\ (i - 1) + 1 = i
  BY <1>0
<1>3. NgramContext(b, i - 1) = LastTokens(stream[b.reqs[i]])
  BY <1>2 DEF NgramContext
<1> QED BY <1>1, <1>2, <1>3

LEMMA ForwardOfRequest ==
  ASSUME IInv, NEW b \in Batches, Forward(b), NEW r \in Request
  PROVE  /\ stream'[r] \in Seq(Token) /\ Len(stream'[r]) <= MaxStream
         /\ Len(stream[r]) <= Len(stream'[r])
         /\ stream[r] = SubSeq(stream'[r], 1, Len(stream[r]))
         /\ ngrams'[r] = Reference!NgramsOf(stream'[r])
<1> DEFINE s == stream[r]
           i == RowOf(b, r)
<1>1. Fits(b)
  BY BatchesFit
<1>2. /\ s \in Seq(Token) /\ Len(s) \in Nat /\ Len(s) <= MaxStream
      /\ ngrams[r] = Reference!NgramsOf(s)
  BY LenProperties DEF IInv
<1>3. CASE i = -1
  <2>1. stream'[r] = s /\ ngrams'[r] = ngrams[r]
    BY <1>3 DEF Forward
  <2> QED BY <1>2, <2>1, SubSeqFull
<1>4. CASE i # -1
  <2>1. i \in 0 .. Len(b.reqs) - 1 /\ NgramContext(b, i) = LastTokens(s)
    BY <1>1, <1>4, RowOfRequest
  <2>2. stream'[r] = s \o Chunk(b, i) /\ ngrams'[r] = ngrams[r] \o RowNgrams(b, i)
    BY <1>4 DEF Forward
  <2>3. Len(b.reqs) \in Nat /\ i \in 0 .. NumReqs(b) - 1
    BY <1>1, <2>1, BatchSizes, LenProperties DEF Fits
  <2>4. Chunk(b, i) \in Seq(Token) /\ Len(Chunk(b, i)) \in Nat
    BY <1>1, <2>3, ChunkIsPart, LenProperties
  <2>5. s \o Chunk(b, i) \in Seq(Token) /\ Len(s \o Chunk(b, i)) = Len(s) + Len(Chunk(b, i))
    BY <1>2, <2>4, ConcatProperties
  <2>6. Len(s) + Len(Chunk(b, i)) <= MaxStream
    <3>1. PICK k \in 1 .. Len(b.reqs) : b.reqs[k] = r /\ i = k - 1
      BY <1>4 DEF RowOf
    <3>2. Len(stream[b.reqs[k]]) + Len(Chunk(b, k - 1)) <= MaxStream
      BY DEF Forward
    <3> QED BY <3>1, <3>2
  <2>7. ngrams[r] \o RowNgrams(b, i) = Reference!NgramsOf(s \o Chunk(b, i))
    BY <1>1, <1>2, <2>1, NgramsContinue
  <2>8. SubSeq(s \o Chunk(b, i), 1, Len(s)) = s
    BY <1>2, <2>4, PrefixOfConcat
  <2>9. Len(s) <= Len(s) + Len(Chunk(b, i))
    BY <1>2, <2>4
  <2> HIDE DEF s, i
  <2>10. /\ stream'[r] \in Seq(Token) /\ Len(stream'[r]) <= MaxStream
         /\ Len(s) <= Len(stream'[r]) /\ s = SubSeq(stream'[r], 1, Len(s))
         /\ ngrams'[r] = Reference!NgramsOf(stream'[r])
    BY <2>2, <2>5, <2>6, <2>7, <2>8, <2>9, Zenon
  <2> QED BY <2>10 DEF s
<1> QED BY <1>3, <1>4

LEMMA ForwardStep ==
  ASSUME IInv, NEW b \in Batches, Forward(b)
  PROVE  IInv' /\ Reference!Consume
<1>1. stream' = [r \in Request |-> stream'[r]] /\ ngrams' = [r \in Request |-> ngrams'[r]]
  BY DEF Forward
<1>2. stream' \in [Request -> Seq(Token)]
  BY <1>1, ForwardOfRequest
<1>3. \A r \in Request : Len(stream'[r]) <= MaxStream
  BY ForwardOfRequest
<1>4. ngrams' = [r \in Request |-> Reference!NgramsOf(stream'[r])]
  BY <1>1, ForwardOfRequest, Zenon
<1>5. \A r \in Request : /\ Len(stream[r]) <= Len(stream'[r])
                         /\ stream[r] = SubSeq(stream'[r], 1, Len(stream[r]))
  BY ForwardOfRequest
<1> QED BY <1>2, <1>3, <1>4, <1>5 DEF IInv, Reference!Consume

LEMMA Prefix ==
  ASSUME NEW S, NEW s \in Seq(S), NEW n \in 0 .. Len(s)
  PROVE  /\ SubSeq(s, 1, n) \in Seq(S) /\ Len(SubSeq(s, 1, n)) = n
         /\ \A k \in 1 .. n : SubSeq(s, 1, n)[k] = s[k]
<1>1. Len(s) \in Nat
  BY LenProperties
<1>2. \A k \in 1 .. n : s[k] \in S
  BY <1>1, ElementOfSeq
<1> DEFINE p == SubSeq(s, 1, n)
<1>3. /\ p \in Seq(S) /\ Len(p) = IF 1 <= n THEN n - 1 + 1 ELSE 0
      /\ \A k \in 1 .. n - 1 + 1 : p[k] = s[1 + k - 1]
  BY <1>1, <1>2, SubSeqProperties
<1> HIDE DEF p
<1>4. n \in Nat /\ 1 .. n - 1 + 1 = 1 .. n /\ \A k \in 1 .. n : 1 + k - 1 = k
  BY <1>1
<1>5. Len(p) = n
  BY <1>3, <1>4
<1>6. \A k \in 1 .. n : p[k] = s[k]
  BY <1>3, <1>4
<1> QED BY <1>3, <1>5, <1>6 DEF p

LEMMA NgramsOfPrefix ==
  ASSUME NEW s \in Seq(Token), NEW n \in 0 .. Len(s)
  PROVE  Reference!NgramsOf(SubSeq(s, 1, n)) = SubSeq(Reference!NgramsOf(s), 1, n)
<1> DEFINE N == [0 .. NgramSize - 1 -> Token]
           p == SubSeq(s, 1, n)
           all == Reference!NgramsOf(s)
           few == Reference!NgramsOf(p)
           cut == SubSeq(all, 1, n)
<1>1. Len(s) \in Nat /\ n \in Nat /\ NgramSize \in Nat
  BY LenProperties, NgramAssumption
<1>2. p \in Seq(Token) /\ Len(p) = n /\ \A k \in 1 .. n : p[k] = s[k]
  BY Prefix
<1>3. /\ all \in Seq(N) /\ Len(all) = Len(s)
      /\ few \in Seq(N) /\ Len(few) = n
  BY <1>2, NgramsType
<1> HIDE DEF N, p, all, few, cut
<1>4. cut \in Seq(N) /\ Len(cut) = n /\ \A k \in 1 .. n : cut[k] = all[k]
  BY <1>3, Prefix DEF cut
<1>5. ASSUME NEW k \in 1 .. n PROVE few[k] = cut[k]
  <2>1. few[k] = Reference!NgramAt(p, k)
    BY <1>2 DEF few, Reference!NgramsOf
  <2>2. all[k] = Reference!NgramAt(s, k)
    <3>1. k \in 1 .. Len(s)
      BY <1>1
    <3> QED BY <3>1 DEF all, Reference!NgramsOf
  <2>3. Reference!NgramAt(p, k) = Reference!NgramAt(s, k)
    <3>1. ASSUME NEW j \in 0 .. NgramSize - 1
          PROVE  /\ k - j >= 1 => \A e \in k - j .. k - 1 : e \in 1 .. n
                 /\ k - j >= 1 => k - j \in 1 .. n
      BY <1>1
    <3> QED BY <1>2, <3>1 DEF Reference!NgramAt
  <2> QED BY <1>4, <2>1, <2>2, <2>3
<1>6. few = cut
  BY <1>3, <1>4, <1>5, SeqEqual
<1> QED BY <1>6 DEF few, cut, p, all

LEMMA RetractStep ==
  ASSUME IInv, NEW r \in Request, NEW n \in 0 .. Len(stream[r]), Retract(r, n)
  PROVE  IInv'
<1>1. stream[r] \in Seq(Token) /\ Len(stream[r]) \in Nat /\ Len(stream[r]) <= MaxStream /\ MaxStream \in Nat
  BY LenProperties, WorkspaceAssumption DEF IInv
<1>2. SubSeq(stream[r], 1, n) \in Seq(Token) /\ Len(SubSeq(stream[r], 1, n)) = n
  BY <1>1, Prefix
<1>3. n <= MaxStream
  BY <1>1
<1>4. ngrams[r] = Reference!NgramsOf(stream[r])
  BY DEF IInv
<1>5. SubSeq(ngrams[r], 1, n) = Reference!NgramsOf(SubSeq(stream[r], 1, n))
  BY <1>1, <1>4, NgramsOfPrefix
<1> DEFINE p == SubSeq(stream[r], 1, n)
           m == SubSeq(ngrams[r], 1, n)
<1>6. stream' = [stream EXCEPT ![r] = p] /\ ngrams' = [ngrams EXCEPT ![r] = m]
  BY DEF Retract
<1>7. p \in Seq(Token) /\ Len(p) <= MaxStream /\ m = Reference!NgramsOf(p)
  BY <1>2, <1>3, <1>5
<1> HIDE DEF p, m
<1>8. \A q \in Request : stream'[q] = IF q = r THEN p ELSE stream[q]
  BY <1>6 DEF IInv
<1>9. ngrams' = [q \in Request |-> IF q = r THEN m ELSE Reference!NgramsOf(stream[q])]
  BY <1>6 DEF IInv
<1>10. stream' \in [Request -> Seq(Token)]
  BY <1>6, <1>7 DEF IInv
<1>11. \A q \in Request : Len(stream'[q]) <= MaxStream
  BY <1>7, <1>8 DEF IInv
<1>12. ngrams' = [q \in Request |-> Reference!NgramsOf(stream'[q])]
  BY <1>7, <1>8, <1>9
<1> QED BY <1>10, <1>11, <1>12 DEF IInv

LEMMA InvInit == Init => IInv /\ Reference!Init
<1> SUFFICES ASSUME Init PROVE IInv /\ Reference!Init
  OBVIOUS
<1>1. <<>> \in Seq(Token) /\ Len(<<>>) = 0 /\ 0 <= MaxStream
  BY EmptySeq, WorkspaceAssumption
<1>2. Reference!NgramsOf(<<>>) = <<>>
  BY <1>1, NgramsType, EmptySeq
<1>3. stream = [r \in Request |-> <<>>] /\ ngrams = [r \in Request |-> <<>>]
  BY DEF Init
<1>4. stream \in [Request -> Seq(Token)] /\ \A r \in Request : Len(stream[r]) <= MaxStream
  BY <1>1, <1>3
<1>5. ngrams = [r \in Request |-> Reference!NgramsOf(stream[r])]
  BY <1>2, <1>3
<1> QED BY <1>3, <1>4, <1>5 DEF IInv, Reference!Init

LEMMA InvStep ==
  ASSUME IInv, [Next]_vars
  PROVE  IInv' /\ [Reference!Next]_Reference!vars
<1>1. ASSUME NEW b \in Batches, Forward(b) PROVE IInv' /\ Reference!Next
  BY <1>1, ForwardStep DEF Reference!Next
<1>2. ASSUME NEW r \in Request, NEW n \in 0 .. Len(stream[r]) - 1, Retract(r, n)
      PROVE  IInv' /\ Reference!Next
  <2>1. n \in 0 .. Len(stream[r])
    BY LenProperties DEF IInv
  <2>2. Reference!Retract(r, n)
    BY <1>2 DEF Retract, Reference!Retract
  <2> QED BY <1>2, <2>1, <2>2, RetractStep DEF Reference!Next
<1>3. CASE UNCHANGED vars
  BY <1>3 DEF vars, IInv, Reference!vars, Reference!NgramsOf, Reference!NgramAt
<1> QED BY <1>1, <1>2, <1>3 DEF Next

-----------------------------------------------------------------------------
(***************************************************************************)
(* The theorems.                                                           *)
(***************************************************************************)
\* The tokens and the n-grams of every request have their types: no n-gram is
\* longer or shorter than NgramSize or has anything but tokens in it.
THEOREM TypeCorrect == Spec => []TypeOK
<1>1. Init => IInv
  BY InvInit
<1>2. IInv /\ [Next]_vars => IInv'
  BY InvStep
<1>3. IInv => TypeOK
  BY NgramsType DEF IInv, TypeOK
<1> QED BY <1>1, <1>2, <1>3, PTL DEF Spec

\* The layer implements NgramStream: however many requests and tokens a
\* workspace holds, however the tokens are cut in chunks, ordered in batches
\* and padded, searchsorted, the packed buffer and the shifts within segments
\* give each token the n-gram it has in the whole stream of its request.
THEOREM Refinement == Spec => ImplementsNgramStream
<1>1. Init => IInv /\ Reference!Init
  BY InvInit
<1>2. IInv /\ [Next]_vars => IInv' /\ [Reference!Next]_Reference!vars
  BY InvStep
<1> QED BY <1>1, <1>2, PTL DEF Spec, ImplementsNgramStream, Reference!Spec

-----------------------------------------------------------------------------
(***************************************************************************)
(* Recursive functions.  s[k] is the step from the value at k - 1 to that  *)
(* at k.                                                                   *)
(***************************************************************************)
Stepwise(f, first, n, start, s) ==
  f[first] = start /\ \A k \in first + 1 .. n : f[k] = s[k][f[k - 1]]

\* What a recursive function computes is of the type its steps preserve.
LEMMA RecursionHasType ==
  ASSUME NEW first \in Nat, NEW n \in Nat, NEW V, NEW f,
         f[first] \in V,
         \A k \in first + 1 .. n : f[k - 1] \in V => f[k] \in V
  PROVE  \A k \in first .. n : f[k] \in V
<1> DEFINE bad == {k \in first .. n : f[k] \notin V}
<1> SUFFICES ASSUME bad # {} PROVE FALSE
  OBVIOUS
<1>1. bad \in SUBSET Nat
  OBVIOUS
<1>2. PICK m \in bad : \A k \in bad : m <= k
  BY <1>1, Least
<1>3. m # first
  BY <1>2
<1>4. m \in first + 1 .. n /\ m - 1 \in first .. n /\ m - 1 \notin bad
  BY <1>2, <1>3
<1> QED BY <1>2, <1>4

Alike(f, g, first, n) ==
  f[first] = g[first] /\ \A k \in first + 1 .. n : f[k - 1] = g[k - 1] => f[k] = g[k]

LEMMA RecursionIsUnique ==
  ASSUME NEW first \in Nat, NEW n \in Nat, NEW f, NEW g, Alike(f, g, first, n)
  PROVE  \A k \in first .. n : f[k] = g[k]
<1> USE DEF Alike
<1> DEFINE bad == {k \in first .. n : f[k] # g[k]}
<1> SUFFICES ASSUME bad # {} PROVE FALSE
  OBVIOUS
<1>1. bad \in SUBSET Nat
  OBVIOUS
<1>2. PICK m \in bad : \A k \in bad : m <= k
  BY <1>1, Least
<1>3. m # first
  BY <1>2
<1>4. m \in first + 1 .. n /\ m - 1 \in first .. n /\ m - 1 \notin bad
  BY <1>2, <1>3
<1> QED BY <1>2, <1>4

LEMMA RecursionExists ==
  ASSUME NEW first \in Nat, NEW n \in Nat, first <= n, NEW V, NEW start \in V, NEW s,
         \A k \in first + 1 .. n : \A v \in V : s[k][v] \in V
  PROVE  \E f \in [first .. n -> V] : Stepwise(f, first, n, start, s)
<1> DEFINE some(m) == \E f \in [first .. m -> V] : Stepwise(f, first, m, start, s)
           none == {m \in first .. n : ~some(m)}
<1>1. some(first)
  <2>1. [k \in first .. first |-> start] \in [first .. first -> V]
    OBVIOUS
  <2>2. Stepwise([k \in first .. first |-> start], first, first, start, s)
    BY DEF Stepwise
  <2> QED BY <2>1, <2>2
<1>2. ASSUME NEW m \in first .. n, m < n, some(m) PROVE some(m + 1)
  <2>1. PICK f \in [first .. m -> V] : Stepwise(f, first, m, start, s)
    BY <1>2
  <2> DEFINE g == [k \in first .. m + 1 |-> IF k = m + 1 THEN s[m + 1][f[m]] ELSE f[k]]
  <2>2. f[m] \in V /\ m + 1 \in first + 1 .. n
    BY <1>2, <2>1
  <2>3. s[m + 1][f[m]] \in V
    BY <2>2
  <2>4. g \in [first .. m + 1 -> V]
    <3>1. \A k \in first .. m + 1 : k # m + 1 => k \in first .. m
      OBVIOUS
    <3> QED BY <2>1, <2>3, <3>1
  <2>5. g[first] = start
    BY <2>1 DEF Stepwise
  <2>6. ASSUME NEW k \in first + 1 .. m + 1 PROVE g[k] = s[k][g[k - 1]]
    <3>1. g[k - 1] = f[k - 1]
      OBVIOUS
    <3>2. CASE k = m + 1
      BY <3>1, <3>2
    <3>3. CASE k # m + 1
      <4>1. k \in first + 1 .. m /\ g[k] = f[k]
        BY <3>3
      <4> QED BY <2>1, <3>1, <4>1 DEF Stepwise
    <3> QED BY <3>2, <3>3
  <2> HIDE DEF g
  <2> QED BY <2>4, <2>5, <2>6 DEF Stepwise
<1> HIDE DEF some
<1>3. none = {}
  <2> SUFFICES ASSUME none # {} PROVE FALSE
    OBVIOUS
  <2>1. none \in SUBSET Nat
    OBVIOUS
  <2>2. PICK m \in none : \A k \in none : m <= k
    BY <2>1, Least
  <2>3. m # first
    BY <1>1, <2>2
  <2>4. m - 1 \in first .. n /\ m - 1 \notin none /\ m - 1 < n
    BY <2>2, <2>3
  <2>5. some(m)
    BY <1>2, <2>4
  <2> QED BY <2>2, <2>5
<1>4. some(n)
  BY <1>3
<1> QED BY <1>4 DEF some

-----------------------------------------------------------------------------
(***************************************************************************)
(* Powers of two.                                                          *)
(***************************************************************************)
\* p lists the powers up to n.
Powers(p, n) == /\ p = [i \in 0 .. n |-> p[i]]
                /\ p[0] = 1 /\ \A i \in 1 .. n : p[i] = 2 * p[i - 1]

LEMMA TwoToIs ==
  ASSUME NEW n \in Nat
  PROVE  \E p : Powers(p, n) /\ TwoTo(n) = p[n]
<1> DEFINE Equation(p) == p = [i \in 0 .. n |-> IF i = 0 THEN 1 ELSE 2 * p[i - 1]]
           double == [k \in 1 .. n |-> [v \in Nat |-> 2 * v]]
<1>1. \A k \in 0 + 1 .. n : \A v \in Nat : double[k][v] \in Nat /\ double[k][v] = 2 * v
  OBVIOUS
<1>2. PICK f \in [0 .. n -> Nat] : Stepwise(f, 0, n, 1, double)
  <2>1. \A k \in 0 + 1 .. n : \A v \in Nat : double[k][v] \in Nat
    BY <1>1
  <2>2. 0 \in Nat /\ 1 \in Nat /\ 0 <= n
    OBVIOUS
  <2> HIDE DEF double
  <2> QED BY <2>1, <2>2, RecursionExists
<1>3. f[0] = 1 /\ \A k \in 1 .. n : f[k] = 2 * f[k - 1]
  <2> HIDE DEF double
  <2>1. f[0] = 1 /\ \A k \in 0 + 1 .. n : f[k] = double[k][f[k - 1]]
    BY <1>2 DEF Stepwise
  <2>2. ASSUME NEW k \in 1 .. n PROVE f[k] = 2 * f[k - 1]
    <3>1. k \in 0 + 1 .. n /\ f[k - 1] \in Nat
      BY <1>2
    <3> QED BY <1>1, <2>1, <3>1
  <2> QED BY <2>1, <2>2
<1>4. Equation(f)
  BY <1>2, <1>3
<1>5. TwoTo(n) = (CHOOSE p : Equation(p))[n]
  BY Zenon DEF TwoTo
<1> HIDE DEF Equation
<1>6. PICK p : Equation(p) /\ TwoTo(n) = p[n]
  BY <1>4, <1>5
<1>7. p = [i \in 0 .. n |-> IF i = 0 THEN 1 ELSE 2 * p[i - 1]]
  BY <1>6 DEF Equation
<1>8. \A i \in 0 .. n : p[i] = IF i = 0 THEN 1 ELSE 2 * p[i - 1]
  BY <1>7
<1>9. p = [i \in 0 .. n |-> p[i]]
  BY <1>7, <1>8
<1>10. p[0] = 1 /\ \A i \in 1 .. n : p[i] = 2 * p[i - 1]
  BY <1>8
<1> QED BY <1>6, <1>9, <1>10 DEF Powers

LEMMA TwoToStep ==
  /\ TwoTo(0) = 1
  /\ \A n \in Nat : TwoTo(n + 1) = 2 * TwoTo(n)
<1>1. TwoTo(0) = 1
  <2>1. PICK p : Powers(p, 0) /\ TwoTo(0) = p[0]
    BY TwoToIs
  <2> QED BY <2>1 DEF Powers
<1>2. ASSUME NEW n \in Nat PROVE TwoTo(n + 1) = 2 * TwoTo(n)
  <2>1. PICK p : Powers(p, n) /\ TwoTo(n) = p[n]
    BY TwoToIs
  <2>2. PICK q : Powers(q, n + 1) /\ TwoTo(n + 1) = q[n + 1]
    BY TwoToIs
  <2>3. q[n + 1] = 2 * q[n]
    BY <2>2 DEF Powers
  <2>4. ASSUME NEW k \in 0 + 1 .. n, q[k - 1] = p[k - 1] PROVE q[k] = p[k]
    <3>1. k \in 1 .. n /\ k \in 1 .. n + 1
      OBVIOUS
    <3> QED BY <2>1, <2>2, <2>4, <3>1 DEF Powers
  <2>5. q[0] = p[0]
    BY <2>1, <2>2 DEF Powers
  <2>6. Alike(q, p, 0, n)
    BY <2>4, <2>5, Zenon DEF Alike
  <2>7. \A k \in 0 .. n : q[k] = p[k]
    BY <2>6, RecursionIsUnique
  <2>8. q[n] = p[n]
    BY <2>7
  <2> QED BY <2>1, <2>2, <2>3, <2>8
<1> QED BY <1>1, <1>2

LEMMA TwoToType ==
  ASSUME NEW n \in Nat
  PROVE  TwoTo(n) \in Nat \ {0}
<1> DEFINE bad == {k \in Nat : TwoTo(k) \notin Nat \ {0}}
<1> SUFFICES ASSUME bad # {} PROVE FALSE
  OBVIOUS
<1>1. PICK m \in bad : \A k \in bad : m <= k
  BY Least
<1>2. m # 0
  BY <1>1, TwoToStep
<1>3. m - 1 \in Nat /\ m - 1 \notin bad /\ (m - 1) + 1 = m
  BY <1>1, <1>2
<1>4. TwoTo(m) = 2 * TwoTo(m - 1)
  BY <1>3, TwoToStep
<1> QED BY <1>1, <1>3, <1>4

LEMMA TwoToGrows ==
  ASSUME NEW m \in Nat, NEW n \in Nat, m <= n
  PROVE  TwoTo(m) <= TwoTo(n)
<1> DEFINE bad == {k \in Nat : m <= k /\ ~(TwoTo(m) <= TwoTo(k))}
<1> SUFFICES ASSUME bad # {} PROVE FALSE
  OBVIOUS
<1>1. PICK l \in bad : \A k \in bad : l <= k
  BY Least
<1>2. l # m
  BY <1>1, TwoToType
<1>3. l - 1 \in Nat /\ l - 1 \notin bad /\ (l - 1) + 1 = l /\ m <= l - 1
  BY <1>1, <1>2
<1>4. TwoTo(l) = 2 * TwoTo(l - 1)
  BY <1>3, TwoToStep
<1>5. TwoTo(m) \in Nat /\ TwoTo(l - 1) \in Nat /\ TwoTo(l) \in Nat
  BY <1>3, TwoToType
<1> QED BY <1>1, <1>3, <1>4, <1>5

-----------------------------------------------------------------------------
(***************************************************************************)
(* The exclusive or.                                                       *)
(***************************************************************************)
Bit(a, b, i) == ((a \div TwoTo(i)) + (b \div TwoTo(i))) % 2

\* low[i] is what the last i bits come to.
LowBits(low, a, b, w) ==
  /\ low[0] = 0
  /\ \A i \in 1 .. w : low[i] = low[i - 1] + TwoTo(i - 1) * Bit(a, b, i - 1)

LEMMA BitIs ==
  ASSUME NEW a \in Int, NEW b \in Int, NEW i \in Nat
  PROVE  Bit(a, b, i) \in {0, 1}
<1>1. PICK t \in Nat \ {0} : t = TwoTo(i)
  BY TwoToType
<1>2. (a \div t) + (b \div t) \in Int
  <2>1. a \div t \in Int /\ b \div t \in Int
    BY <1>1
  <2> QED BY <2>1
<1>3. \A c \in Int : c % 2 \in {0, 1}
  OBVIOUS
<1>4. Bit(a, b, i) = ((a \div t) + (b \div t)) % 2
  BY <1>1, Zenon DEF Bit
<1> QED BY <1>2, <1>3, <1>4, Zenon

LEMMA NextBit ==
  ASSUME NEW a \in Int, NEW b \in Int, NEW i \in Nat
  PROVE  TwoTo(i) * Bit(a, b, i) \in 0 .. TwoTo(i)
<1>1. PICK t \in Nat \ {0} : t = TwoTo(i)
  BY TwoToType
<1>2. CASE Bit(a, b, i) = 0
  BY <1>1, <1>2
<1>3. CASE Bit(a, b, i) = 1
  BY <1>1, <1>3
<1> QED BY <1>2, <1>3, BitIs

LEMMA XorIs ==
  ASSUME NEW a \in Int, NEW b \in Int, NEW w \in Nat
  PROVE  \E low : LowBits(low, a, b, w) /\ Xor(a, b, w) = low[w]
<1> DEFINE d(i) == TwoTo(i - 1) * Bit(a, b, i - 1)
           Equation(p) == p = [i \in 0 .. w |-> IF i = 0 THEN 0 ELSE p[i - 1] + d(i)]
           add == [k \in 1 .. w |-> [v \in Nat |-> v + d(k)]]
<1>1. \A k \in 1 .. w : d(k) \in Nat
  <2> SUFFICES ASSUME NEW k \in 1 .. w PROVE d(k) \in Nat
    OBVIOUS
  <2>1. k - 1 \in Nat
    OBVIOUS
  <2>2. d(k) \in 0 .. TwoTo(k - 1) /\ TwoTo(k - 1) \in Nat
    BY <2>1, NextBit, TwoToType
  <2> HIDE DEF d
  <2> QED BY <2>2
<1> HIDE DEF d
<1>2. \A k \in 0 + 1 .. w : \A v \in Nat : add[k][v] \in Nat
  BY <1>1
<1>3. PICK f \in [0 .. w -> Nat] : Stepwise(f, 0, w, 0, add)
  <2>1. 0 \in Nat /\ 0 <= w
    OBVIOUS
  <2> HIDE DEF add
  <2> QED BY <1>2, <2>1, RecursionExists
<1>4. f[0] = 0 /\ \A k \in 1 .. w : f[k] = f[k - 1] + d(k)
  <2>1. f[0] = 0 /\ \A k \in 0 + 1 .. w : f[k] = add[k][f[k - 1]]
    BY <1>3 DEF Stepwise
  <2>2. ASSUME NEW k \in 1 .. w PROVE f[k] = f[k - 1] + d(k)
    <3>1. k \in 0 + 1 .. w /\ f[k - 1] \in Nat
      BY <1>3
    <3> QED BY <2>1, <3>1
  <2> QED BY <2>1, <2>2
<1>5. Equation(f)
  <2>1. f = [k \in 0 .. w |-> f[k]]
    BY <1>3
  <2>2. ASSUME NEW k \in 0 .. w PROVE f[k] = IF k = 0 THEN 0 ELSE f[k - 1] + d(k)
    <3>1. CASE k = 0
      BY <1>4, <3>1
    <3>2. CASE k # 0
      BY <1>4, <3>2
    <3> QED BY <3>1, <3>2
  <2> QED BY <2>1, <2>2
<1>6. Xor(a, b, w) = (CHOOSE p : Equation(p))[w]
  BY Zenon DEF Xor, Bit, d
<1> HIDE DEF Equation
<1>7. PICK p : Equation(p) /\ Xor(a, b, w) = p[w]
  BY <1>5, <1>6
<1>8. p = [i \in 0 .. w |-> IF i = 0 THEN 0 ELSE p[i - 1] + d(i)]
  BY <1>7 DEF Equation
<1>9. \A i \in 0 .. w : p[i] = IF i = 0 THEN 0 ELSE p[i - 1] + d(i)
  BY <1>8
<1>10. p[0] = 0 /\ \A i \in 1 .. w : p[i] = p[i - 1] + d(i)
  BY <1>9
<1>11. LowBits(p, a, b, w)
  BY <1>10, Zenon DEF LowBits, d
<1> QED BY <1>7, <1>11

LEMMA LowBitsAreSmall ==
  ASSUME NEW a \in Int, NEW b \in Int, NEW w \in Nat, NEW low, LowBits(low, a, b, w)
  PROVE  \A i \in 0 .. w : low[i] \in 0 .. TwoTo(i) - 1
<1> DEFINE bad == {k \in 0 .. w : low[k] \notin 0 .. TwoTo(k) - 1}
<1> SUFFICES ASSUME bad # {} PROVE FALSE
  OBVIOUS
<1>1. bad \in SUBSET Nat
  OBVIOUS
<1>2. PICK m \in bad : \A k \in bad : m <= k
  BY <1>1, Least
<1>3. m # 0
  BY <1>2, TwoToStep DEF LowBits
<1>4. m - 1 \in 0 .. w /\ m - 1 \notin bad /\ (m - 1) + 1 = m /\ m \in 1 .. w /\ m - 1 \in Nat
  BY <1>2, <1>3
<1>5. PICK t \in Nat \ {0} : t = TwoTo(m - 1)
  BY <1>4, TwoToType
<1>6. TwoTo(m) = 2 * t
  BY <1>4, <1>5, TwoToStep
<1>7. PICK c \in 0 .. t : c = TwoTo(m - 1) * Bit(a, b, m - 1)
  BY <1>4, <1>5, NextBit
<1>8. low[m] = low[m - 1] + c
  BY <1>4, <1>7 DEF LowBits
<1>9. low[m - 1] \in 0 .. t - 1
  BY <1>4, <1>5
<1>10. low[m] \in 0 .. 2 * t - 1
  <2>1. PICK l \in 0 .. t - 1 : l = low[m - 1]
    BY <1>9
  <2> QED BY <1>8, <2>1
<1> QED BY <1>2, <1>6, <1>10

\* A word wider than both numbers does not change their exclusive or.
LEMMA XorOfSmall ==
  ASSUME NEW m \in Nat, NEW w \in Nat, m <= w,
         NEW a \in 0 .. TwoTo(m) - 1, NEW b \in 0 .. TwoTo(m) - 1
  PROVE  Xor(a, b, w) = Xor(a, b, m) /\ Xor(a, b, m) \in 0 .. TwoTo(m) - 1
<1>0. TwoTo(m) \in Nat /\ a \in Int /\ b \in Int
  BY TwoToType
<1>1. PICK low : LowBits(low, a, b, m) /\ Xor(a, b, m) = low[m]
  BY <1>0, XorIs
<1>2. PICK all : LowBits(all, a, b, w) /\ Xor(a, b, w) = all[w]
  BY <1>0, XorIs
<1>3. low[m] \in 0 .. TwoTo(m) - 1
  BY <1>0, <1>1, LowBitsAreSmall
<1>4. \A k \in 0 .. m : all[k] = low[k]
  <2>1. all[0] = low[0]
    BY <1>1, <1>2 DEF LowBits
  <2>2. ASSUME NEW k \in 0 + 1 .. m, all[k - 1] = low[k - 1] PROVE all[k] = low[k]
    <3>1. k \in 1 .. m /\ k \in 1 .. w
      OBVIOUS
    <3> QED BY <1>1, <1>2, <2>2, <3>1, Zenon DEF LowBits
  <2>3. Alike(all, low, 0, m)
    BY <2>1, <2>2, Zenon DEF Alike
  <2> QED BY <2>3, RecursionIsUnique
<1>5. ASSUME NEW i \in Nat, m <= i PROVE Bit(a, b, i) = 0
  <2>1. TwoTo(m) <= TwoTo(i)
    BY <1>5, TwoToGrows
  <2>2. PICK t \in Nat \ {0} : t = TwoTo(i)
    BY TwoToType
  <2>3. a < t /\ b < t
    BY <1>0, <2>1, <2>2
  <2>4. a \div t = 0 /\ b \div t = 0
    BY <2>2, <2>3
  <2> QED BY <2>2, <2>4 DEF Bit
<1>6. \A k \in m .. w : all[k] = low[m]
  <2> DEFINE flat == [k \in m .. w |-> low[m]]
  <2>1. ASSUME NEW k \in m + 1 .. w, all[k - 1] = flat[k - 1] PROVE all[k] = flat[k]
    <3>1. k \in 1 .. w /\ k - 1 \in Nat /\ m <= k - 1 /\ flat[k - 1] = low[m] /\ flat[k] = low[m]
      OBVIOUS
    <3>2. Bit(a, b, k - 1) = 0 /\ TwoTo(k - 1) \in Nat
      BY <1>5, <3>1, TwoToType
    <3>3. all[k] = all[k - 1] + TwoTo(k - 1) * Bit(a, b, k - 1)
      BY <1>2, <3>1 DEF LowBits
    <3>4. all[k] = low[m] + 0
      BY <2>1, <3>1, <3>2, <3>3
    <3> QED BY <1>0, <1>3, <3>1, <3>4
  <2>2. all[m] = flat[m]
    BY <1>4
  <2>3. \A k \in m .. w : all[k] = flat[k]
    <3> HIDE DEF flat
    <3>1. Alike(all, flat, m, w)
      BY <2>1, <2>2, Zenon DEF Alike
    <3> QED BY <3>1, RecursionIsUnique
  <2> QED BY <2>3
<1> QED BY <1>1, <1>2, <1>3, <1>6

-----------------------------------------------------------------------------
(***************************************************************************)
(* The hash does not wrap.                                                 *)
(***************************************************************************)
LEMMA WordIs ==
  /\ MaxInt \in Nat /\ MaxInt + 1 = TwoTo(Width - 1)
  /\ TwoTo(Width) = 2 * (MaxInt + 1)
<1>1. Width - 1 \in Nat /\ (Width - 1) + 1 = Width
  BY WidthAssumption
<1>2. TwoTo(Width - 1) \in Nat \ {0} /\ TwoTo(Width) = 2 * TwoTo(Width - 1)
  BY <1>1, TwoToType, TwoToStep
<1> QED BY <1>2 DEF MaxInt

LEMMA WrappedIs ==
  ASSUME NEW n \in 0 .. MaxInt
  PROVE  Wrapped(n) = n
<1>1. PICK m \in Nat : m = MaxInt
  BY WordIs
<1>2. TwoTo(Width) = 2 * (m + 1)
  BY <1>1, WordIs
<1>3. (n + m + 1) % (2 * (m + 1)) = n + m + 1
  BY <1>1
<1> QED BY <1>1, <1>2, <1>3 DEF Wrapped

Multiplier == 1 .. 2 * HalfBound - 1

LEMMA HalfBoundIs ==
  ASSUME vocab \in 1 .. MaxInt + 1
  PROVE  /\ HalfBound \in Nat \ {0}
         /\ HalfBound = 1 \/ 2 * HalfBound * vocab <= MaxInt
<1>1. PICK m \in Nat : m = MaxInt
  BY WordIs
<1>2. PICK v \in Nat \ {0} : v = vocab
  BY <1>1
<1>3. PICK q \in Nat : q = m \div v /\ q * v <= m
  BY <1>2
<1>4. PICK h \in Nat : h = q \div 2 /\ 2 * h <= q
  BY <1>3
<1>5. HalfBound = IF h > 1 THEN h ELSE 1
  BY <1>1, <1>2, <1>3, <1>4 DEF HalfBound, HalfOf
<1>6. 2 * h * v <= m
  <2>1. (2 * h) * v <= q * v
    BY <1>3, <1>4
  <2> QED BY <1>3, <2>1
<1> QED BY <1>1, <1>2, <1>5, <1>6

LEMMA ProductFits ==
  ASSUME vocab \in 1 .. MaxInt + 1, NEW t \in 0 .. vocab - 1, NEW m \in Multiplier
  PROVE  t * m \in 0 .. MaxInt
<1>1. PICK max \in Nat : max = MaxInt
  BY WordIs
<1>2. PICK v \in Nat \ {0} : v = vocab /\ v <= max + 1
  BY <1>1
<1>3. PICK h \in Nat \ {0} : h = HalfBound
  BY HalfBoundIs
<1>4. t \in Nat /\ t <= v - 1 /\ m \in Nat /\ m <= 2 * h - 1
  BY <1>2, <1>3 DEF Multiplier
<1>5. t * m \in Nat
  BY <1>4
<1>6. CASE h = 1
  <2>1. m = 1
    BY <1>3, <1>6 DEF Multiplier
  <2> QED BY <1>1, <1>2, <1>4, <2>1
<1>7. CASE h # 1
  <2>1. 2 * h * v <= max
    BY <1>1, <1>2, <1>3, <1>7, HalfBoundIs
  <2>2. t * m <= v * m
    BY <1>4
  <2>3. v * m <= v * (2 * h)
    BY <1>4
  <2>4. v * (2 * h) = 2 * h * v
    OBVIOUS
  <2> QED BY <1>1, <1>2, <1>4, <1>5, <2>1, <2>2, <2>3, <2>4
<1> QED BY <1>6, <1>7

Product(i) == shifted[i] * buffers.layer_multipliers[i]

\* g[i] is what the first i tokens of the n-gram mix to, in words of Width - 1
\* bits.
Mixes(g, n) ==
  /\ g \in [1 .. n -> 0 .. MaxInt]
  /\ g[1] = Product(1)
  /\ \A i \in 2 .. n : g[i] = Xor(g[i - 1], Product(i), Width - 1)

LEMMA XorFits ==
  ASSUME NEW a \in 0 .. MaxInt, NEW b \in 0 .. MaxInt
  PROVE  /\ Xor(a, b, Width - 1) \in 0 .. MaxInt
         /\ Xor(a, b, Width) = Xor(a, b, Width - 1)
         /\ Xor(a, b, 2 * Width) = Xor(a, b, Width - 1)
<1>1. PICK m \in Nat : m = Width - 1 /\ m <= Width /\ m <= 2 * Width
  BY WidthAssumption
<1>2. MaxInt = TwoTo(m) - 1
  BY <1>1 DEF MaxInt
<1>3. Width \in Nat /\ 2 * Width \in Nat
  BY WidthAssumption
<1>4. a \in 0 .. TwoTo(m) - 1 /\ b \in 0 .. TwoTo(m) - 1
  BY <1>2
<1>5. Xor(a, b, Width) = Xor(a, b, m) /\ Xor(a, b, m) \in 0 .. TwoTo(m) - 1
  BY <1>1, <1>3, <1>4, XorOfSmall
<1>6. Xor(a, b, 2 * Width) = Xor(a, b, m)
  BY <1>1, <1>3, <1>4, XorOfSmall
<1> QED BY <1>1, <1>2, <1>5, <1>6

ProductsFit(n) == \A i \in 1 .. n : Product(i) \in 0 .. MaxInt

LEMMA MixesExists ==
  ASSUME NEW n \in Nat \ {0}, ProductsFit(n)
  PROVE  \E g : Mixes(g, n)
<1> DEFINE V == 0 .. MaxInt
           s == [k \in 2 .. n |-> [v \in V |-> Xor(v, Product(k), Width - 1)]]
<1>1. ASSUME NEW k \in 1 + 1 .. n, NEW v \in V
      PROVE  s[k][v] = Xor(v, Product(k), Width - 1) /\ s[k][v] \in V
  <2>1. k \in 2 .. n /\ k \in 1 .. n
    OBVIOUS
  <2>2. Product(k) \in V
    BY <2>1 DEF ProductsFit
  <2>3. s[k][v] = Xor(v, Product(k), Width - 1)
    BY <2>1
  <2> QED BY <2>2, <2>3, XorFits
<1>2. Product(1) \in V /\ 1 \in Nat /\ 1 <= n
  BY DEF ProductsFit
<1>3. PICK g \in [1 .. n -> V] : Stepwise(g, 1, n, Product(1), s)
  <2>1. \A k \in 1 + 1 .. n : \A v \in V : s[k][v] \in V
    BY <1>1
  <2> HIDE DEF V, s
  <2> QED BY <1>2, <2>1, RecursionExists
<1>4. ASSUME NEW i \in 2 .. n PROVE g[i] = Xor(g[i - 1], Product(i), Width - 1)
  <2>1. i \in 1 + 1 .. n /\ i - 1 \in 1 .. n
    OBVIOUS
  <2>2. g[i - 1] \in V
    BY <1>3, <2>1
  <2>3. g[i] = s[i][g[i - 1]]
    BY <1>3, <2>1 DEF Stepwise
  <2> QED BY <1>1, <2>1, <2>2, <2>3
<1> QED BY <1>3, <1>4 DEF Mixes, Stepwise

LEMMA MixedIs ==
  ASSUME NEW n \in Nat \ {0}, ProductsFit(n), NEW g, Mixes(g, n)
  PROVE  Mixed(shifted, n) = g[n]
<1> DEFINE word(i) == Wrapped(shifted[i] * buffers.layer_multipliers[i])
           Equation(p) == p = [i \in 1 .. n |-> IF i = 1 THEN word(1)
                                                ELSE Wrapped(Xor(p[i - 1], word(i), Width))]
<1>1. \A i \in 1 .. n : word(i) = Product(i) /\ Product(i) \in 0 .. MaxInt
  BY WrappedIs DEF ProductsFit, Product
<1> HIDE DEF word
<1>2. \A i \in 1 .. n : i # 1 => g[i] = Wrapped(Xor(g[i - 1], word(i), Width))
  <2> SUFFICES ASSUME NEW i \in 1 .. n, i # 1
               PROVE  g[i] = Wrapped(Xor(g[i - 1], word(i), Width))
    OBVIOUS
  <2>1. i \in 2 .. n /\ i - 1 \in 1 .. n
    OBVIOUS
  <2>2. g[i - 1] \in 0 .. MaxInt
    BY <2>1 DEF Mixes
  <2>3. g[i] = Xor(g[i - 1], Product(i), Width - 1)
    BY <2>1 DEF Mixes
  <2>4. Xor(g[i - 1], Product(i), Width) = g[i] /\ g[i] \in 0 .. MaxInt
    BY <1>1, <2>2, <2>3, XorFits
  <2> QED BY <1>1, <2>4, WrappedIs
<1>3. Equation(g)
  <2>1. g = [i \in 1 .. n |-> g[i]]
    BY DEF Mixes
  <2>2. 1 \in 1 .. n /\ g[1] = word(1)
    BY <1>1 DEF Mixes
  <2> QED BY <1>2, <2>1, <2>2, Zenon
<1>4. Mixed(shifted, n) = (CHOOSE p : Equation(p))[n]
  BY Zenon DEF Mixed, word
<1> HIDE DEF Equation
<1>5. PICK p : Equation(p) /\ Mixed(shifted, n) = p[n]
  BY <1>3, <1>4
<1>6. \A i \in 1 .. n : p[i] = IF i = 1 THEN word(1) ELSE Wrapped(Xor(p[i - 1], word(i), Width))
  BY <1>5 DEF Equation
<1>7. Alike(p, g, 1, n)
  <2>1. 1 \in 1 .. n /\ p[1] = word(1) /\ g[1] = word(1)
    BY <1>1, <1>6 DEF Mixes
  <2>2. ASSUME NEW k \in 1 + 1 .. n, p[k - 1] = g[k - 1] PROVE p[k] = g[k]
    <3>1. k \in 1 .. n /\ k # 1
      OBVIOUS
    <3> QED BY <1>2, <1>6, <2>2, <3>1, Zenon
  <2> QED BY <2>1, <2>2, Zenon DEF Alike
<1>8. p[n] = g[n]
  BY <1>7, RecursionIsUnique
<1> QED BY <1>5, <1>8

LEMMA ExactMixedIs ==
  ASSUME NEW n \in Nat \ {0}, ProductsFit(n), NEW g, Mixes(g, n)
  PROVE  ExactMixed(buffers.layer_multipliers, n) = g[n]
<1> DEFINE Equation(p) == p = [i \in 1 .. n |-> IF i = 1 THEN Product(1)
                                                ELSE Xor(p[i - 1], Product(i), 2 * Width)]
<1>1. \A i \in 1 .. n : i # 1 => g[i] = Xor(g[i - 1], Product(i), 2 * Width)
  <2> SUFFICES ASSUME NEW i \in 1 .. n, i # 1
               PROVE  g[i] = Xor(g[i - 1], Product(i), 2 * Width)
    OBVIOUS
  <2>1. i \in 2 .. n /\ i - 1 \in 1 .. n
    OBVIOUS
  <2>2. g[i - 1] \in 0 .. MaxInt
    BY <2>1 DEF Mixes
  <2>3. g[i] = Xor(g[i - 1], Product(i), Width - 1)
    BY <2>1 DEF Mixes
  <2> QED BY <2>2, <2>3, XorFits DEF ProductsFit
<1>2. Equation(g)
  <2>1. g = [i \in 1 .. n |-> g[i]] /\ g[1] = Product(1)
    BY DEF Mixes
  <2> QED BY <1>1, <2>1, Zenon
<1>3. ExactMixed(buffers.layer_multipliers, n) = (CHOOSE p : Equation(p))[n]
  BY Zenon DEF ExactMixed, Product
<1> HIDE DEF Equation
<1>4. PICK p : Equation(p) /\ ExactMixed(buffers.layer_multipliers, n) = p[n]
  BY <1>2, <1>3
<1>5. \A i \in 1 .. n : p[i] = IF i = 1 THEN Product(1) ELSE Xor(p[i - 1], Product(i), 2 * Width)
  BY <1>4 DEF Equation
<1>6. Alike(p, g, 1, n)
  <2>1. 1 \in 1 .. n /\ p[1] = Product(1) /\ g[1] = Product(1)
    BY <1>5 DEF Mixes
  <2>2. ASSUME NEW k \in 1 + 1 .. n, p[k - 1] = g[k - 1] PROVE p[k] = g[k]
    <3>1. k \in 1 .. n /\ k # 1
      OBVIOUS
    <3> QED BY <1>1, <1>5, <2>2, <3>1, Zenon
  <2> QED BY <2>1, <2>2, Zenon DEF Alike
<1>7. p[n] = g[n]
  BY <1>6, RecursionIsUnique
<1> QED BY <1>4, <1>7

LEMMA MixedIsExact ==
  ASSUME NEW n \in Nat \ {0}, ProductsFit(n)
  PROVE  /\ Mixed(shifted, n) = ExactMixed(buffers.layer_multipliers, n)
         /\ Mixed(shifted, n) \in Nat
<1>1. PICK g : Mixes(g, n)
  BY MixesExists
<1>2. Mixed(shifted, n) = g[n] /\ ExactMixed(buffers.layer_multipliers, n) = g[n]
  BY <1>1, MixedIs, ExactMixedIs
<1>3. g[n] \in 0 .. MaxInt /\ MaxInt \in Nat
  BY <1>1, WordIs DEF Mixes
<1> QED BY <1>2, <1>3

-----------------------------------------------------------------------------
(***************************************************************************)
(* The rows of the heads.                                                  *)
(***************************************************************************)
\* n heads of sizes s at offsets o, one behind the other, have total rows.
Stacked(s, o, n, total) ==
  /\ \A h \in 1 .. n : s[h] \in Nat \ {0} /\ o[h] \in Nat
  /\ \A h \in 1 .. n : o[h] = IF h = 1 THEN 0 ELSE o[h - 1] + s[h - 1]
  /\ total = IF n = 0 THEN 0 ELSE o[n] + s[n]

LEMMA StackedGrows ==
  ASSUME NEW n \in Nat, NEW s, NEW o, NEW total, Stacked(s, o, n, total),
         NEW h \in 1 .. n, NEW i \in h + 1 .. n
  PROVE  o[h] + s[h] <= o[i]
<1> DEFINE bad == {k \in h + 1 .. n : ~(o[h] + s[h] <= o[k])}
<1> SUFFICES ASSUME bad # {} PROVE FALSE
  OBVIOUS
<1>1. bad \in SUBSET Nat
  OBVIOUS
<1>2. PICK m \in bad : \A k \in bad : m <= k
  BY <1>1, Least
<1>3. m \in 1 .. n /\ m # 1 /\ m - 1 \in 1 .. n
  BY <1>2
<1>4. o[m] = o[m - 1] + s[m - 1]
  BY <1>3 DEF Stacked
<1>5. o[h] \in Nat /\ s[h] \in Nat /\ o[m - 1] \in Nat /\ s[m - 1] \in Nat /\ o[m] \in Nat
  BY <1>3 DEF Stacked
<1>6. m # h + 1
  <2> SUFFICES ASSUME m = h + 1 PROVE FALSE
    OBVIOUS
  <2>1. m - 1 = h
    OBVIOUS
  <2> QED BY <1>2, <1>4, <1>5, <2>1
<1>7. m - 1 \in h + 1 .. n /\ m - 1 \notin bad
  BY <1>2, <1>6
<1>8. o[h] + s[h] <= o[m - 1]
  BY <1>7
<1> QED BY <1>2, <1>4, <1>5, <1>8

LEMMA StackedEnds ==
  ASSUME NEW n \in Nat, NEW s, NEW o, NEW total, Stacked(s, o, n, total), NEW h \in 1 .. n
  PROVE  o[h] + s[h] <= total
<1>1. total = o[n] + s[n] /\ n \in 1 .. n
  BY DEF Stacked
<1>2. o[h] \in Nat /\ s[h] \in Nat /\ o[n] \in Nat /\ s[n] \in Nat
  BY <1>1 DEF Stacked
<1>3. CASE h = n
  BY <1>1, <1>2, <1>3
<1>4. CASE h # n
  <2>1. n \in h + 1 .. n
    BY <1>4
  <2>2. o[h] + s[h] <= o[n]
    BY <2>1, StackedGrows
  <2> QED BY <1>1, <1>2, <2>2
<1> QED BY <1>3, <1>4

LEMMA StackedCovers ==
  ASSUME NEW n \in Nat, NEW s, NEW o, NEW total, Stacked(s, o, n, total),
         NEW t \in Nat, t < total
  PROVE  \E h \in 1 .. n : o[h] <= t /\ t < o[h] + s[h]
<1> DEFINE before == {h \in 1 .. n : o[h] <= t}
<1>1. n # 0 /\ 1 \in 1 .. n /\ o[1] = 0
  BY DEF Stacked
<1>2. before \in SUBSET Int /\ before # {} /\ n \in Int /\ \A k \in before : k <= n
  BY <1>1
<1>3. PICK h \in before : \A k \in before : k <= h
  <2> HIDE DEF before
  <2> QED BY <1>2, Greatest
<1>4. CASE h = n
  BY <1>1, <1>3, <1>4 DEF Stacked
<1>5. CASE h # n
  <2>1. h + 1 \in 1 .. n /\ h + 1 # 1 /\ (h + 1) - 1 = h /\ h + 1 \notin before
    BY <1>3, <1>5
  <2>2. o[h + 1] = o[h] + s[h] /\ o[h + 1] \in Nat
    BY <2>1 DEF Stacked
  <2> QED BY <1>3, <2>1, <2>2
<1> QED BY <1>4, <1>5

\* The padding rounds up to a multiple of the divisor.
Padded(total) == ((total + Divisor - 1) \div Divisor) * Divisor

LEMMA PaddedIs ==
  ASSUME NEW total \in Nat
  PROVE  Padded(total) - total \in 0 .. Divisor - 1 /\ Padded(total) \in Nat
<1>1. PICK d \in Nat \ {0} : d = Divisor
  BY LayoutAssumption
<1>2. \A x \in Nat : x \div d \in Nat /\ (x \div d) * d <= x /\ x < (x \div d) * d + d
  OBVIOUS
<1>3. PICK q \in Nat : q = (total + d - 1) \div d /\ q * d <= total + d - 1
                       /\ total + d - 1 < q * d + d
  <2>1. total + d - 1 \in Nat
    OBVIOUS
  <2> QED BY <1>2, <2>1
<1>4. PICK p \in Nat : p = q * d
  OBVIOUS
<1>5. Padded(total) = p
  BY <1>1, <1>3, <1>4 DEF Padded
<1> QED BY <1>1, <1>3, <1>4, <1>5

Finished(layout) ==
  \E total \in Nat : /\ Len(layout.sizes) = Heads /\ Len(layout.offsets) = Heads
                     /\ Stacked(layout.sizes, layout.offsets, Heads, total)
                     /\ layout.padded_vocab_size = Padded(total)

LEMMA FinishedIsPartitioned ==
  ASSUME NEW layout, Finished(layout)
  PROVE  LET rows(h) == layout.offsets[h] .. layout.offsets[h] + layout.sizes[h] - 1
             all == UNION {rows(h) : h \in 1 .. Heads}
         IN /\ \A h, i \in 1 .. Heads : h # i => rows(h) \intersect rows(i) = {}
            /\ all = 0 .. Cardinality(all) - 1
            /\ layout.padded_vocab_size - Cardinality(all) \in 0 .. Divisor - 1
<1>1. PICK total \in Nat : /\ Stacked(layout.sizes, layout.offsets, Heads, total)
                           /\ layout.padded_vocab_size = Padded(total)
  BY DEF Finished
<1>2. PICK n \in Nat : n = Heads
  BY LayoutAssumption
<1> DEFINE s == layout.sizes
           o == layout.offsets
           rows(h) == o[h] .. o[h] + s[h] - 1
           all == UNION {rows(h) : h \in 1 .. n}
<1>3. Stacked(s, o, n, total)
  BY <1>1, <1>2
<1> HIDE DEF s, o
<1>4. \A h \in 1 .. n : o[h] \in Nat /\ s[h] \in Nat
  BY <1>3 DEF Stacked
<1>5. ASSUME NEW h \in 1 .. n, NEW i \in 1 .. n, h < i PROVE rows(h) \intersect rows(i) = {}
  <2>1. o[h] + s[h] <= o[i]
    BY <1>3, <1>5, StackedGrows
  <2> QED BY <1>4, <2>1
<1>6. \A h, i \in 1 .. n : h # i => rows(h) \intersect rows(i) = {}
  <2> SUFFICES ASSUME NEW h \in 1 .. n, NEW i \in 1 .. n, h # i
               PROVE  rows(h) \intersect rows(i) = {}
    OBVIOUS
  <2>1. CASE h < i
    BY <1>5, <2>1
  <2>2. CASE i < h
    BY <1>5, <2>2
  <2> QED BY <2>1, <2>2
<1>7. all = 0 .. total - 1
  <2>1. ASSUME NEW t \in all PROVE t \in 0 .. total - 1
    <3>1. PICK h \in 1 .. n : t \in rows(h)
      OBVIOUS
    <3>2. o[h] + s[h] <= total
      BY <1>3, StackedEnds
    <3> QED BY <1>4, <3>1, <3>2
  <2>2. ASSUME NEW t \in 0 .. total - 1 PROVE t \in all
    <3>1. PICK h \in 1 .. n : o[h] <= t /\ t < o[h] + s[h]
      BY <1>3, StackedCovers
    <3>2. t \in rows(h)
      BY <1>4, <3>1
    <3> QED BY <3>2
  <2> QED BY <2>1, <2>2
<1> HIDE DEF all, rows
<1>8. Cardinality(all) = total
  BY <1>7, FS_Interval
<1>9. all = 0 .. Cardinality(all) - 1
  BY <1>7, <1>8
<1>10. layout.padded_vocab_size - Cardinality(all) \in 0 .. Divisor - 1
  BY <1>1, <1>8, PaddedIs
<1> QED BY <1>2, <1>6, <1>9, <1>10, Zenon DEF all, rows, s, o

-----------------------------------------------------------------------------
(***************************************************************************)
(* The inductive invariant of layout and hash.                             *)
(***************************************************************************)
Layout == [sizes : Seq(Nat \ {0}), offsets : Seq(Nat), padded_vocab_size : Nat]

\* What the search finds is positive.
SearchInv ==
  /\ prime \in Int /\ found \in Nat /\ candidate \in Nat
  /\ found > 0 => prime > 0

LayoutInv ==
  /\ sizes \in Seq(Nat \ {0}) /\ offsets \in Seq(Nat) /\ offset \in Nat
  /\ Len(offsets) = Len(sizes)
  /\ Stacked(sizes, offsets, Len(sizes), offset)
  /\ layouts \in Seq(Layout)
  /\ \A l \in 1 .. Len(layouts) : Finished(layouts[l])

MultipliersInv ==
  /\ base \in Nat /\ vocab \in 1 .. MaxInt + 1 /\ layer \in 1 .. Layers /\ IsCheckpoint(ckpt, vocab)
  /\ multipliers \in Seq(Multiplier) /\ Len(multipliers) <= NgramSize
  /\ multipliers # <<>> => Len(layouts) >= Layers

\* Which of the buffers are the checkpoint's, and what has been compared.
BuffersInv ==
  /\ todo \subseteq Buffers \union {Table}
  /\ buffers = <<>> => todo = {}
  /\ todo \intersect Buffers # {} => ckpt.has_buffers
  /\ buffers # <<>> =>
       /\ Len(multipliers) = NgramSize
       /\ DOMAIN buffers = Buffers
       /\ \A name \in Buffers :
            IF ckpt.has_buffers /\ name \notin todo
              THEN buffers[name] = Written[name] /\ Len(Written[name]) = Len(Constructed[name])
              ELSE buffers[name] = Constructed[name]
       /\ Table \notin todo =>
            ckpt.layouts[layer].padded_vocab_size = layouts[layer].padded_vocab_size

IdsInv ==
  ids # <<>> => /\ buffers # <<>> /\ todo = {}
                /\ shifted \in [1 .. NgramSize -> 0 .. vocab - 1]
                /\ ids = Ids(shifted)

HashInv == SearchInv /\ LayoutInv /\ MultipliersInv /\ BuffersInv /\ IdsInv

LEMMA HashInvInit == HashInit => HashInv
<1> SUFFICES ASSUME HashInit PROVE HashInv
  OBVIOUS
<1> USE DEF HashInit, LayoutInit
<1>1. base \in Nat /\ vocab \in 1 .. MaxInt + 1 /\ IsCheckpoint(ckpt, vocab)
  <2>1. PICK model \in Models : base = model.base /\ vocab = model.vocab /\ ckpt = model.ckpt
    OBVIOUS
  <2> QED BY <2>1, ModelsAssumption, BasesAssumption
<1>2. SearchInv
  BY <1>1 DEF SearchInv
<1>3. LayoutInv
  BY DEF LayoutInv, Stacked
<1>4. MultipliersInv
  <2>1. multipliers \in Seq(Multiplier) /\ Len(multipliers) = 0 /\ 0 <= NgramSize
    BY NgramAssumption
  <2> QED BY <1>1, <2>1 DEF MultipliersInv
<1>5. BuffersInv /\ IdsInv
  BY DEF BuffersInv, IdsInv
<1> QED BY <1>2, <1>3, <1>4, <1>5 DEF HashInv

-----------------------------------------------------------------------------
\* When the multipliers are made the layer is laid out.
LEMMA IsLaidOut ==
  ASSUME MultipliersInv, LayoutInv, Len(multipliers) = NgramSize
  PROVE  layer \in 1 .. Len(layouts)
<1>1. multipliers # <<>> /\ Layers \in Nat
  BY NgramAssumption, LayoutAssumption
<1> QED BY <1>1 DEF MultipliersInv, LayoutInv

\* What the id of a token depends on.
LEMMA IdsFrame ==
  ASSUME buffers' = buffers, shifted' = shifted
  PROVE  Ids(shifted)' = Ids(shifted)
<1>1. \A head : Size(head)' = Size(head) /\ Offset(head)' = Offset(head)
  BY DEF Size, Offset
<1>2. \A n : Mixed(shifted, n)' = Mixed(shifted, n)
  BY Zenon DEF Mixed
<1> QED BY <1>1, <1>2 DEF Ids

\* What does not depend on the layout stays when a layout is made, and a
\* layout that is made is not changed.
LEMMA HashFrame ==
  ASSUME MultipliersInv, LayoutInv, BuffersInv, IdsInv, base' = base, UNCHANGED hash_vars,
         layouts' = layouts \/ \E x \in Layout : layouts' = Append(layouts, x)
  PROVE  MultipliersInv' /\ BuffersInv' /\ IdsInv'
<1>1. Len(layouts) \in Nat /\ Len(layouts') >= Len(layouts) /\ Len(layouts') \in Nat
  BY DEF LayoutInv
<1>2. ASSUME NEW l \in 1 .. Len(layouts) PROVE layouts'[l] = layouts[l]
  <2>1. layouts \in Seq(Layout)
    BY DEF LayoutInv
  <2>2. ASSUME NEW x \in Layout, layouts' = Append(layouts, x) PROVE layouts'[l] = layouts[l]
    BY <2>1, <2>2
  <2> QED BY <2>2
<1>3. UNCHANGED <<vocab, ckpt, layer, multipliers, buffers, todo, failed, shifted, ids>>
  BY DEF hash_vars, load_vars
<1>4. HalfBound' = HalfBound
  BY <1>3 DEF HalfBound
<1>5. Multiplier' = Multiplier
  BY <1>4 DEF Multiplier
<1>6. Layers \in Nat
  BY LayoutAssumption
<1>7. MultipliersInv'
  BY <1>1, <1>3, <1>5, <1>6 DEF MultipliersInv
<1>8. BuffersInv'
  <2>1. CASE buffers = <<>>
    BY <1>3, <2>1 DEF BuffersInv
  <2>2. CASE buffers # <<>>
    <3>1. layer \in 1 .. Len(layouts)
      BY <2>2, IsLaidOut DEF BuffersInv
    <3>2. layouts'[layer'] = layouts[layer]
      BY <1>2, <1>3, <3>1
    <3>3. Constructed' = Constructed /\ Written' = Written
      BY <1>3, <3>2 DEF Constructed, Written
    <3> QED BY <1>3, <3>2, <3>3 DEF BuffersInv
  <2> QED BY <2>1, <2>2
<1>9. IdsInv'
  BY <1>3, IdsFrame DEF IdsInv
<1> QED BY <1>7, <1>8, <1>9

LEMMA InvBeginSearch ==
  ASSUME HashInv, BeginSearch, UNCHANGED hash_vars
  PROVE  HashInv'
<1> USE DEF HashInv, BeginSearch
<1>1. SearchInv'
  <2>1. CASE prime + 1 <= 2
    BY <2>1 DEF SearchInv
  <2>2. CASE ~(prime + 1 <= 2)
    BY <2>2 DEF SearchInv
  <2> QED BY <2>1, <2>2 DEF SearchInv
<1>2. LayoutInv'
  BY DEF LayoutInv
<1>3. MultipliersInv' /\ BuffersInv' /\ IdsInv'
  BY HashFrame
<1> QED BY <1>1, <1>2, <1>3

LEMMA InvTestCandidate ==
  ASSUME HashInv, TestCandidate, UNCHANGED hash_vars
  PROVE  HashInv'
<1> USE DEF HashInv, TestCandidate
<1>1. SearchInv'
  <2>1. CASE IsPrime64(candidate)
    BY <2>1 DEF SearchInv
  <2>2. CASE ~IsPrime64(candidate)
    BY <2>2 DEF SearchInv
  <2> QED BY <2>1, <2>2
<1>2. LayoutInv'
  BY DEF LayoutInv
<1>3. MultipliersInv' /\ BuffersInv' /\ IdsInv'
  BY HashFrame
<1> QED BY <1>1, <1>2, <1>3

LEMMA InvEndHead ==
  ASSUME HashInv, EndHead, UNCHANGED hash_vars
  PROVE  HashInv'
<1> USE DEF HashInv, EndHead
<1>1. SearchInv'
  BY DEF SearchInv, MultipliersInv
<1>2. prime \in Nat \ {0}
  <2>1. GlobalHead \in Nat
    <3>1. Heads \in Nat /\ Len(layouts) \in Nat /\ Len(sizes) \in Nat
      BY LayoutAssumption DEF LayoutInv
    <3>2. Len(layouts) * Heads \in Nat
      BY <3>1
    <3> QED BY <3>1, <3>2 DEF GlobalHead
  <2> QED BY <2>1 DEF SearchInv
<1>3. LayoutInv'
  <2>1. PICK n \in Nat : n = Len(sizes) /\ n = Len(offsets)
    BY DEF LayoutInv
  <2>2. /\ sizes' \in Seq(Nat \ {0}) /\ offsets' \in Seq(Nat)
        /\ Len(sizes') = n + 1 /\ Len(offsets') = n + 1
    BY <1>2, <2>1 DEF LayoutInv
  <2>3. \A h \in 1 .. n : sizes'[h] = sizes[h] /\ offsets'[h] = offsets[h]
    BY <2>1 DEF LayoutInv
  <2>4. sizes'[n + 1] = prime /\ offsets'[n + 1] = offset
    BY <2>1 DEF LayoutInv
  <2>5. Stacked(sizes, offsets, n, offset) /\ offset \in Nat
    BY <2>1 DEF LayoutInv
  <2>6. Stacked(sizes', offsets', n + 1, offset')
    <3>1. ASSUME NEW h \in 1 .. n + 1
          PROVE  sizes'[h] \in Nat \ {0} /\ offsets'[h] \in Nat
      <4>1. CASE h = n + 1
        BY <1>2, <2>4, <2>5, <4>1
      <4>2. CASE h # n + 1
        <5>1. h \in 1 .. n
          BY <4>2
        <5>2. sizes'[h] = sizes[h] /\ offsets'[h] = offsets[h]
          BY <2>3, <5>1
        <5>3. sizes[h] \in Nat \ {0} /\ offsets[h] \in Nat
          BY <2>5, <5>1 DEF Stacked
        <5> QED BY <5>2, <5>3
      <4> QED BY <4>1, <4>2
    <3>2. ASSUME NEW h \in 1 .. n + 1
          PROVE  offsets'[h] = IF h = 1 THEN 0 ELSE offsets'[h - 1] + sizes'[h - 1]
      <4>1. CASE h = n + 1 /\ n = 0
        BY <2>4, <2>5, <4>1 DEF Stacked
      <4>2. CASE h = n + 1 /\ n # 0
        <5>1. n \in 1 .. n /\ h - 1 = n /\ h # 1
          BY <4>2
        <5>2. offset = offsets[n] + sizes[n]
          BY <2>5, <4>2 DEF Stacked
        <5>3. offsets'[h] = offsets'[n] + sizes'[n]
          BY <2>3, <2>4, <4>2, <5>1, <5>2
        <5> QED BY <5>1, <5>3
      <4>3. CASE h # n + 1
        <5>1. h \in 1 .. n
          BY <4>3
        <5>2. offsets[h] = IF h = 1 THEN 0 ELSE offsets[h - 1] + sizes[h - 1]
          BY <2>5, <5>1 DEF Stacked
        <5>3. CASE h = 1
          BY <2>3, <5>1, <5>2, <5>3
        <5>4. CASE h # 1
          <6>1. h - 1 \in 1 .. n
            BY <5>1, <5>4
          <6> QED BY <2>3, <5>1, <5>2, <5>4, <6>1
        <5> QED BY <5>3, <5>4
      <4> QED BY <4>1, <4>2, <4>3
    <3>3. offset' = offsets'[n + 1] + sizes'[n + 1] /\ n + 1 # 0
      BY <2>4
    <3> QED BY <3>1, <3>2, <3>3 DEF Stacked
  <2>7. offset' \in Nat
    BY <1>2, <2>5
  <2>8. layouts' \in Seq(Layout) /\ \A l \in 1 .. Len(layouts') : Finished(layouts'[l])
    BY DEF LayoutInv
  <2> QED BY <2>2, <2>6, <2>7, <2>8 DEF LayoutInv
<1>4. MultipliersInv' /\ BuffersInv' /\ IdsInv'
  BY HashFrame
<1> QED BY <1>1, <1>3, <1>4

LEMMA InvEndLayer ==
  ASSUME HashInv, EndLayer, UNCHANGED hash_vars
  PROVE  HashInv'
<1> USE DEF HashInv, EndLayer
<1> DEFINE x == [sizes |-> sizes, offsets |-> offsets, padded_vocab_size |-> Padded(offset)]
<1>1. SearchInv'
  BY DEF SearchInv
<1>2. x \in Layout /\ layouts' = Append(layouts, x)
  <2>1. Padded(offset) \in Nat
    BY PaddedIs DEF LayoutInv
  <2> QED BY <2>1 DEF LayoutInv, Layout, Padded
<1>3. Finished(x)
  BY DEF Finished, LayoutInv
<1> HIDE DEF x
<1>4. LayoutInv'
  <2>1. layouts \in Seq(Layout)
    BY DEF LayoutInv
  <2>2. layouts' \in Seq(Layout) /\ Len(layouts') = Len(layouts) + 1
    BY <1>2, <2>1
  <2>3. ASSUME NEW l \in 1 .. Len(layouts') PROVE Finished(layouts'[l])
    <3>1. CASE l = Len(layouts) + 1
      BY <1>2, <1>3, <2>1, <3>1
    <3>2. CASE l # Len(layouts) + 1
      <4>1. l \in 1 .. Len(layouts)
        BY <2>1, <2>2, <3>2
      <4>2. layouts'[l] = layouts[l]
        BY <1>2, <2>1, <4>1
      <4> QED BY <4>1, <4>2 DEF LayoutInv
    <3> QED BY <3>1, <3>2
  <2>4. Stacked(sizes', offsets', Len(sizes'), offset')
    BY DEF Stacked
  <2> QED BY <2>2, <2>3, <2>4 DEF LayoutInv
<1>5. MultipliersInv' /\ BuffersInv' /\ IdsInv'
  BY <1>2, HashFrame
<1> QED BY <1>1, <1>4, <1>5

LEMMA InvMakeMultiplier ==
  ASSUME HashInv, MakeMultiplier
  PROVE  HashInv'
<1> USE DEF HashInv, MakeMultiplier, layout_vars, load_vars
<1>1. SearchInv'
  BY DEF SearchInv
<1>2. LayoutInv'
  BY DEF LayoutInv
<1>3. HalfBound' = HalfBound
  BY DEF HalfBound
<1>4. Multiplier' = Multiplier
  BY <1>3 DEF Multiplier
<1>5. PICK mix \in Nat : multipliers' = Append(multipliers, 2 * (mix % HalfBound) + 1)
  <2>1. TwoTo(Width) \in Nat
    BY WidthAssumption, TwoToType
  <2> QED BY <2>1
<1>6. 2 * (mix % HalfBound) + 1 \in Multiplier
  <2>1. PICK h \in Nat \ {0} : h = HalfBound
    BY HalfBoundIs DEF MultipliersInv
  <2>2. mix % h \in 0 .. h - 1
    BY <2>1
  <2> QED BY <2>1, <2>2 DEF Multiplier
<1>7. MultipliersInv'
  <2>1. multipliers' \in Seq(Multiplier) /\ Len(multipliers') <= NgramSize
    BY <1>5, <1>6, NgramAssumption DEF MultipliersInv
  <2>2. Layers \in Nat
    BY LayoutAssumption
  <2> QED BY <1>4, <2>1, <2>2 DEF MultipliersInv
<1>8. BuffersInv' /\ IdsInv'
  <2>1. Len(multipliers) # NgramSize
    BY NgramAssumption DEF MultipliersInv
  <2>2. buffers = <<>>
    BY <2>1 DEF BuffersInv
  <2> QED BY <2>2 DEF BuffersInv, IdsInv
<1> QED BY <1>1, <1>2, <1>7, <1>8

\* The steps of load_weights and forward leave the constructor's values alone.
LEMMA ConstructorFrame ==
  ASSUME SearchInv, LayoutInv, MultipliersInv, UNCHANGED <<layout_vars, vocab, ckpt, layer, multipliers>>
  PROVE  SearchInv' /\ LayoutInv' /\ MultipliersInv' /\ Constructed' = Constructed /\ Written' = Written
<1> USE DEF layout_vars
<1>1. SearchInv'
  BY DEF SearchInv
<1>2. LayoutInv'
  BY DEF LayoutInv
<1>3. HalfBound' = HalfBound
  BY DEF HalfBound
<1>4. MultipliersInv'
  BY <1>3 DEF MultipliersInv, Multiplier
<1> QED BY <1>1, <1>2, <1>4 DEF Constructed, Written

LEMMA InvRegister ==
  ASSUME HashInv, Register
  PROVE  HashInv'
<1> USE DEF HashInv, Register
<1>1. SearchInv' /\ LayoutInv' /\ MultipliersInv' /\ Constructed' = Constructed /\ Written' = Written
  BY ConstructorFrame
<1>2. DOMAIN Constructed = Buffers
  BY DEF Constructed, BuffersOf, Buffers
<1>3. BuffersInv'
  <2>1. todo' \subseteq Buffers \union {Table} /\ buffers' # <<>> /\ Table \in todo'
    BY <1>2 DEF Buffers
  <2>2. ASSUME NEW name \in Buffers PROVE ~(ckpt.has_buffers /\ name \notin todo')
    OBVIOUS
  <2>3. todo' \intersect Buffers # {} => ckpt'.has_buffers
    BY DEF Buffers, Table
  <2> QED BY <1>1, <1>2, <2>1, <2>2, <2>3 DEF BuffersInv
<1>4. IdsInv'
  BY DEF IdsInv
<1> QED BY <1>1, <1>3, <1>4

LEMMA InvLoadBuffer ==
  ASSUME HashInv, NEW name \in Buffers, LoadBuffer(name)
  PROVE  HashInv'
<1> USE DEF HashInv, LoadBuffer
<1>1. SearchInv' /\ LayoutInv' /\ MultipliersInv' /\ Constructed' = Constructed /\ Written' = Written
  BY ConstructorFrame
<1>2. UNCHANGED <<layout_vars, ckpt, layer, multipliers>>
  OBVIOUS
<1>3. name \in todo /\ buffers # <<>> /\ ids' = ids /\ ids = <<>>
  BY DEF BuffersInv, IdsInv
<1>4. BuffersInv'
  <2>1. CASE Len(Written[name]) = Len(buffers[name])
    <3>1. buffers[name] = Constructed[name]
      BY <1>3 DEF BuffersInv
    <3>2. /\ buffers' = [buffers EXCEPT ![name] = Written[name]] /\ todo' = todo \ {name}
          /\ DOMAIN buffers = Buffers
      BY <1>3, <2>1 DEF BuffersInv
    <3>3. DOMAIN buffers' = Buffers /\ buffers' # <<>>
      BY <1>3, <3>2
    <3>4. ASSUME NEW other \in Buffers
          PROVE  IF ckpt.has_buffers /\ other \notin todo'
                   THEN buffers'[other] = Written[other] /\ Len(Written[other]) = Len(Constructed[other])
                   ELSE buffers'[other] = Constructed[other]
      <4>1. CASE other = name
        <5>1. buffers'[name] = Written[name] /\ name \notin todo'
          BY <3>2
        <5>2. ckpt.has_buffers /\ Len(Written[name]) = Len(Constructed[name])
          BY <1>3, <2>1, <3>1 DEF BuffersInv
        <5> QED BY <4>1, <5>1, <5>2
      <4>2. CASE other # name
        <5>1. buffers'[other] = buffers[other] /\ (other \in todo' <=> other \in todo)
          BY <3>2, <4>2
        <5> QED BY <1>3, <5>1 DEF BuffersInv
      <4> QED BY <4>1, <4>2
    <3>5. Table \notin todo' => Table \notin todo
      BY <3>2 DEF Buffers, Table
    <3> QED BY <1>1, <1>2, <1>3, <3>2, <3>3, <3>4, <3>5 DEF BuffersInv, layout_vars
  <2>2. CASE Len(Written[name]) # Len(buffers[name])
    BY <1>1, <1>2, <2>2 DEF BuffersInv, layout_vars
  <2> QED BY <2>1, <2>2
<1>5. IdsInv'
  BY <1>3 DEF IdsInv
<1> QED BY <1>1, <1>4, <1>5

LEMMA InvLoadTable ==
  ASSUME HashInv, LoadTable
  PROVE  HashInv'
<1> USE DEF HashInv, LoadTable
<1>1. SearchInv' /\ LayoutInv' /\ MultipliersInv' /\ Constructed' = Constructed /\ Written' = Written
  BY ConstructorFrame
<1>2. Table \in todo /\ buffers # <<>> /\ ids' = ids /\ ids = <<>>
  BY DEF BuffersInv, IdsInv
<1>3. \A name \in Buffers : name \in todo' <=> name \in todo
  BY DEF Buffers, Table
<1>4. BuffersInv'
  BY <1>1, <1>2, <1>3 DEF BuffersInv, layout_vars
<1>5. IdsInv'
  BY <1>2 DEF IdsInv
<1> QED BY <1>1, <1>4, <1>5

LEMMA InvHash ==
  ASSUME HashInv, Hash
  PROVE  HashInv'
<1> USE DEF HashInv, Hash, load_vars
<1>1. SearchInv' /\ LayoutInv' /\ MultipliersInv' /\ Constructed' = Constructed /\ Written' = Written
  BY ConstructorFrame
<1>2. BuffersInv'
  BY <1>1 DEF BuffersInv, layout_vars
<1>3. ids' = Ids(shifted)'
  <2>1. \A n : Mixed(shifted, n)' = Mixed(shifted', n)
    BY Zenon DEF Mixed
  <2>2. \A head : Size(head)' = Size(head) /\ Offset(head)' = Offset(head)
    BY DEF Size, Offset
  <2> QED BY <2>1, <2>2 DEF Ids
<1>4. IdsInv'
  BY <1>3 DEF IdsInv
<1> QED BY <1>1, <1>2, <1>4

LEMMA HashInvStep == HashInv /\ [HashNext]_all_vars => HashInv'
<1> SUFFICES ASSUME HashInv, [HashNext]_all_vars PROVE HashInv'
  OBVIOUS
<1>1. CASE UNCHANGED all_vars
  <2>1. UNCHANGED hash_vars /\ UNCHANGED layout_vars
    BY <1>1 DEF all_vars
  <2>2. MultipliersInv' /\ BuffersInv' /\ IdsInv'
    BY <2>1, HashFrame DEF HashInv, layout_vars
  <2> QED BY <2>1, <2>2 DEF layout_vars, HashInv, SearchInv, LayoutInv
<1>2. CASE Lay
  BY <1>2, InvBeginSearch, InvTestCandidate, InvEndHead, InvEndLayer DEF Lay, LayoutNext
<1>3. CASE MakeMultiplier
  BY <1>3, InvMakeMultiplier
<1>4. CASE Register
  BY <1>4, InvRegister
<1>5. CASE \E name \in Buffers : LoadBuffer(name)
  BY <1>5, InvLoadBuffer
<1>6. CASE LoadTable
  BY <1>6, InvLoadTable
<1>7. CASE Hash
  BY <1>7, InvHash
<1>8. CASE Stop
  BY <1>1, <1>8 DEF Stop
<1> QED BY <1>1, <1>2, <1>3, <1>4, <1>5, <1>6, <1>7, <1>8 DEF HashNext

LEMMA HashInvAlways == HashSpec => []HashInv
<1> QED BY HashInvInit, HashInvStep, PTL DEF HashSpec

\* The rows of the heads of a layer do not overlap and fill its table up to
\* the padding, whatever numbers the search takes for primes.
THEOREM PartitionCorrect == HashSpec => []RowsArePartitioned
<1>1. HashInv => RowsArePartitioned
  <2> SUFFICES ASSUME HashInv, NEW l \in 1 .. Len(layouts)
               PROVE  LET rows(h) == layouts[l].offsets[h]
                                       .. layouts[l].offsets[h] + layouts[l].sizes[h] - 1
                          all == UNION {rows(h) : h \in 1 .. Heads}
                      IN /\ \A h, i \in 1 .. Heads : h # i => rows(h) \intersect rows(i) = {}
                         /\ all = 0 .. Cardinality(all) - 1
                         /\ layouts[l].padded_vocab_size - Cardinality(all) \in 0 .. Divisor - 1
    BY Zenon DEF RowsArePartitioned
  <2>1. Finished(layouts[l])
    BY DEF HashInv, LayoutInv
  <2> QED BY <2>1, FinishedIsPartitioned, Zenon
<1> QED BY <1>1, HashInvAlways, PTL

-----------------------------------------------------------------------------
\* Once loaded, the buffers are those of the constructor or, if it has any and
\* they have the same shapes, those of the checkpoint.
LEMMA LoadedBuffers ==
  ASSUME HashInv, ids # <<>>
  PROVE  /\ \/ ~ckpt.has_buffers /\ \A name \in Buffers : buffers[name] = Constructed[name]
            \/ /\ ckpt.has_buffers
               /\ \A name \in Buffers : /\ buffers[name] = Written[name]
                                        /\ Len(Written[name]) = Len(Constructed[name])
         /\ ckpt.layouts[layer].padded_vocab_size = layouts[layer].padded_vocab_size
         /\ Len(multipliers) = NgramSize
BY DEF HashInv, BuffersInv, IdsInv

\* Shapes and ranges of the constructor's values, and of those of the
\* checkpoint.
LEMMA ConstructedIs ==
  ASSUME HashInv, Len(multipliers) = NgramSize
  PROVE  /\ \A i \in 1 .. NgramSize : Constructed.layer_multipliers[i] \in Multiplier
         /\ Len(Constructed.layer_multipliers) = NgramSize
         /\ \A h \in 1 .. Heads :
              /\ Constructed.ngram_heads_vocab_sizes[h] \in Nat \ {0}
              /\ Constructed.ngram_heads_offsets[h] \in Nat
              /\ Constructed.ngram_heads_offsets[h] + Constructed.ngram_heads_vocab_sizes[h]
                   <= layouts[layer].padded_vocab_size
<1> USE DEF HashInv
<1>1. layer \in 1 .. Len(layouts)
  BY IsLaidOut
<1>2. /\ Constructed.layer_multipliers = multipliers
      /\ Constructed.ngram_heads_vocab_sizes = layouts[layer].sizes
      /\ Constructed.ngram_heads_offsets = layouts[layer].offsets
  BY DEF Constructed, BuffersOf
<1>3. PICK total \in Nat : /\ Stacked(layouts[layer].sizes, layouts[layer].offsets, Heads, total)
                           /\ layouts[layer].padded_vocab_size = Padded(total)
  BY <1>1 DEF LayoutInv, Finished
<1>4. total <= Padded(total)
  BY PaddedIs, LayoutAssumption
<1>5. PICK n \in Nat : n = Heads
  BY LayoutAssumption
<1>6. \A h \in 1 .. n : layouts[layer].offsets[h] + layouts[layer].sizes[h] <= total
  BY <1>3, <1>5, StackedEnds
<1>7. \A h \in 1 .. n : layouts[layer].sizes[h] \in Nat \ {0} /\ layouts[layer].offsets[h] \in Nat
  BY <1>3, <1>5 DEF Stacked
<1>8. ASSUME NEW h \in 1 .. n
      PROVE  layouts[layer].offsets[h] + layouts[layer].sizes[h] <= Padded(total)
  <2>1. PICK rows \in Nat : rows = Padded(total)
    BY PaddedIs
  <2>2. PICK o \in Nat, s \in Nat : o = layouts[layer].offsets[h] /\ s = layouts[layer].sizes[h]
    BY <1>7
  <2>3. o + s <= total /\ total <= rows
    BY <1>4, <1>6, <2>1, <2>2
  <2> QED BY <2>1, <2>2, <2>3
<1>9. \A i \in 1 .. NgramSize : multipliers[i] \in Multiplier
  BY NgramAssumption DEF MultipliersInv
<1> QED BY <1>2, <1>3, <1>5, <1>7, <1>8, <1>9

LEMMA WrittenIs ==
  ASSUME HashInv, Len(multipliers) = NgramSize,
         \A name \in Buffers : Len(Written[name]) = Len(Constructed[name])
  PROVE  /\ \A i \in 1 .. NgramSize : Written.layer_multipliers[i] \in Multiplier
         /\ \A h \in 1 .. Heads :
              /\ Written.ngram_heads_vocab_sizes[h] \in Nat \ {0}
              /\ Written.ngram_heads_offsets[h] \in Nat
              /\ Written.ngram_heads_offsets[h] + Written.ngram_heads_vocab_sizes[h]
                   <= ckpt.layouts[layer].padded_vocab_size
<1> USE DEF HashInv
<1>1. layer \in 1 .. Len(layouts) /\ layer \in 1 .. Layers /\ IsCheckpoint(ckpt, vocab)
  BY IsLaidOut DEF MultipliersInv
<1>2. /\ Written.layer_multipliers = ckpt.multipliers
      /\ Written.ngram_heads_vocab_sizes = ckpt.layouts[layer].sizes
      /\ Written.ngram_heads_offsets = ckpt.layouts[layer].offsets
  BY DEF Written, BuffersOf
<1>3. /\ Len(ckpt.multipliers) = NgramSize
      /\ Len(ckpt.layouts[layer].sizes) = Heads /\ Len(ckpt.layouts[layer].offsets) = Heads
  <2>1. /\ Constructed.layer_multipliers = multipliers
        /\ Constructed.ngram_heads_vocab_sizes = layouts[layer].sizes
        /\ Constructed.ngram_heads_offsets = layouts[layer].offsets
    BY DEF Constructed, BuffersOf
  <2>2. Len(layouts[layer].sizes) = Heads /\ Len(layouts[layer].offsets) = Heads
    BY <1>1 DEF LayoutInv, Finished
  <2> QED BY <1>2, <2>1, <2>2 DEF Buffers
<1>4. ASSUME NEW i \in 1 .. NgramSize PROVE ckpt.multipliers[i] \in Multiplier
  <2>1. ckpt.multipliers \in Seq(Multiplier)
    BY <1>1 DEF IsCheckpoint, Multiplier, HalfBound
  <2> QED BY <1>3, <2>1, NgramAssumption
<1>5. ASSUME NEW h \in 1 .. Heads
      PROVE  /\ ckpt.layouts[layer].sizes[h] \in Nat \ {0} /\ ckpt.layouts[layer].offsets[h] \in Nat
             /\ ckpt.layouts[layer].offsets[h] + ckpt.layouts[layer].sizes[h]
                  <= ckpt.layouts[layer].padded_vocab_size
  <2>1. /\ ckpt.layouts[layer].sizes \in Seq(Nat \ {0}) /\ ckpt.layouts[layer].offsets \in Seq(Nat)
        /\ \A k \in DOMAIN ckpt.layouts[layer].sizes :
             ckpt.layouts[layer].offsets[k] + ckpt.layouts[layer].sizes[k]
               <= ckpt.layouts[layer].padded_vocab_size
    BY <1>1 DEF IsCheckpoint
  <2>2. PICK n \in Nat : n = Heads
    BY LayoutAssumption
  <2>3. PICK s \in Seq(Nat \ {0}) : s = ckpt.layouts[layer].sizes /\ Len(s) = n
    BY <1>3, <2>1, <2>2
  <2>4. PICK o \in Seq(Nat) : o = ckpt.layouts[layer].offsets /\ Len(o) = n
    BY <1>3, <2>1, <2>2
  <2>5. h \in DOMAIN s /\ s[h] \in Nat \ {0} /\ o[h] \in Nat
    <3>1. h \in 1 .. n
      BY <2>2
    <3>2. h \in DOMAIN s /\ s[h] \in Nat \ {0}
      BY <2>3, <3>1
    <3>3. \A q \in Seq(Nat) : Len(q) = n => q[h] \in Nat
      BY <3>1
    <3>4. o[h] \in Nat
      BY <2>4, <3>3
    <3> QED BY <3>2, <3>4
  <2> QED BY <2>1, <2>3, <2>4, <2>5
<1> QED BY <1>2, <1>4, <1>5

\* The buffers a forward reads, whoever they come from.
LEMMA BuffersAre ==
  ASSUME HashInv, ids # <<>>
  PROVE  /\ \A i \in 1 .. NgramSize : buffers.layer_multipliers[i] \in Multiplier
         /\ \A h \in 1 .. Heads :
              /\ Size(h) \in Nat \ {0} /\ Offset(h) \in Nat
              /\ Offset(h) + Size(h) <= layouts[layer].padded_vocab_size
         /\ layouts[layer].padded_vocab_size \in Nat
<1>1. /\ ckpt.layouts[layer].padded_vocab_size = layouts[layer].padded_vocab_size
      /\ Len(multipliers) = NgramSize
  BY LoadedBuffers
<1>2. layouts[layer].padded_vocab_size \in Nat
  <2>1. layer \in 1 .. Len(layouts) /\ layouts \in Seq(Layout)
    BY <1>1, IsLaidOut DEF HashInv, LayoutInv
  <2>2. layouts[layer] \in Layout
    BY <2>1
  <2> QED BY <2>2 DEF Layout
<1>3. CASE ~ckpt.has_buffers
  <2>1. /\ buffers.layer_multipliers = Constructed.layer_multipliers
        /\ buffers.ngram_heads_vocab_sizes = Constructed.ngram_heads_vocab_sizes
        /\ buffers.ngram_heads_offsets = Constructed.ngram_heads_offsets
    BY <1>3, LoadedBuffers DEF Buffers
  <2> QED BY <1>1, <1>2, <2>1, ConstructedIs DEF Size, Offset
<1>4. CASE ckpt.has_buffers
  <2>1. /\ buffers.layer_multipliers = Written.layer_multipliers
        /\ buffers.ngram_heads_vocab_sizes = Written.ngram_heads_vocab_sizes
        /\ buffers.ngram_heads_offsets = Written.ngram_heads_offsets
    BY <1>4, LoadedBuffers DEF Buffers
  <2>2. \A name \in Buffers : Len(Written[name]) = Len(Constructed[name])
    BY <1>4, LoadedBuffers
  <2> QED BY <1>1, <1>2, <2>1, <2>2, WrittenIs DEF Size, Offset
<1> QED BY <1>3, <1>4

\* The n-gram of a head is one of those the layer makes, and no product of its
\* tokens wraps.
LEMMA HeadMixes ==
  ASSUME HashInv, ids # <<>>, NEW head \in 1 .. Heads
  PROVE  /\ NgramOfHead(head) \in Nat \ {0}
         /\ ProductsFit(NgramOfHead(head))
<1>1. PICK p \in Nat \ {0} : p = HeadsPerNgram
  BY HeadsAssumption
<1>2. PICK g \in Nat \ {0} : g = NgramSize - 1 /\ head <= g * p
  BY <1>1, NgramAssumption, HeadsAssumption
<1>3. PICK k \in Nat : k = (head - 1) \div p /\ k * p <= head - 1
  <2>1. head - 1 \in Nat
    OBVIOUS
  <2>2. \A x \in Nat : x \div p \in Nat /\ (x \div p) * p <= x
    OBVIOUS
  <2> QED BY <2>1, <2>2
<1>4. k < g
  <2> SUFFICES ASSUME g <= k PROVE FALSE
    OBVIOUS
  <2>1. g * p <= k * p
    OBVIOUS
  <2>2. g * p \in Nat /\ k * p \in Nat
    OBVIOUS
  <2> QED BY <1>2, <1>3, <2>1, <2>2
<1>5. NgramOfHead(head) = 2 + k
  BY <1>1, <1>3 DEF NgramOfHead
<1>6. ASSUME NEW i \in 1 .. NgramSize PROVE Product(i) \in 0 .. MaxInt
  <2>1. shifted[i] \in 0 .. vocab - 1
    BY DEF HashInv, IdsInv
  <2>2. buffers.layer_multipliers[i] \in Multiplier
    BY BuffersAre
  <2>3. vocab \in 1 .. MaxInt + 1
    BY DEF HashInv, MultipliersInv
  <2> QED BY <2>1, <2>2, <2>3, ProductFits DEF Product
<1>7. 2 + k \in Nat \ {0} /\ \A i \in 1 .. 2 + k : i \in 1 .. NgramSize
  BY <1>2, <1>4, NgramAssumption
<1> QED BY <1>5, <1>6, <1>7 DEF ProductsFit

LEMMA IdIs ==
  ASSUME HashInv, ids # <<>>, NEW head \in 1 .. Heads
  PROVE  /\ ids[head] = (Mixed(shifted, NgramOfHead(head)) % Size(head)) + Offset(head)
         /\ Mixed(shifted, NgramOfHead(head))
              = ExactMixed(buffers.layer_multipliers, NgramOfHead(head))
         /\ Mixed(shifted, NgramOfHead(head)) \in Nat
<1>1. ids = Ids(shifted)
  BY DEF HashInv, IdsInv
<1>2. ids[head] = (Mixed(shifted, NgramOfHead(head)) % Size(head)) + Offset(head)
  BY <1>1, Zenon DEF Ids
<1> QED BY <1>2, HeadMixes, MixedIsExact

\* In words of any width no product of a token and its multiplier wraps, so
\* that ids are those of the hash in unbounded integers.
THEOREM HashCorrect == HashSpec => []HashIsExact
<1>1. HashInv => HashIsExact
  BY IdIs DEF HashIsExact
<1> QED BY <1>1, HashInvAlways, PTL

\* Whatever checkpoint load_weights has accepted, of this configuration or of
\* another, with its buffers or without, no id is outside of the table.
THEOREM IdsCorrect == HashSpec => []IdsAreRowsOfTable
<1>1. HashInv => IdsAreRowsOfTable
  <2> SUFFICES ASSUME HashInv, ids # <<>>, NEW head \in 1 .. Heads
               PROVE  ids[head] \in 0 .. layouts[layer].padded_vocab_size - 1
    BY DEF IdsAreRowsOfTable
  <2>1. PICK m \in Nat : m = Mixed(shifted, NgramOfHead(head))
    BY IdIs
  <2>2. PICK s \in Nat \ {0} : s = Size(head)
    BY BuffersAre
  <2>3. PICK o \in Nat : o = Offset(head)
    BY BuffersAre
  <2>4. PICK rows \in Nat : rows = layouts[layer].padded_vocab_size
    BY BuffersAre
  <2>5. o + s <= rows
    BY <2>2, <2>3, <2>4, BuffersAre
  <2>6. m % s \in 0 .. s - 1
    OBVIOUS
  <2>7. ids[head] = (m % s) + o
    BY <2>1, <2>2, <2>3, IdIs
  <2> QED BY <2>4, <2>5, <2>6, <2>7
<1> QED BY <1>1, HashInvAlways, PTL

\* With the buffers of the checkpoint, or a configuration that gives the same,
\* the table is read at the ids of the model that wrote it.
THEOREM TableCorrect == HashSpec => []TableIsReadAsWritten
<1>1. HashInv => TableIsReadAsWritten
  <2> SUFFICES ASSUME HashInv, ids # <<>>, ckpt.has_buffers \/ IsOwnCheckpoint, NEW head \in 1 .. Heads
               PROVE  ids[head] = (ExactMixed(ckpt.multipliers, NgramOfHead(head))
                                     % ckpt.layouts[layer].sizes[head])
                                    + ckpt.layouts[layer].offsets[head]
    BY DEF TableIsReadAsWritten
  <2>1. \A name \in Buffers : buffers[name] = Written[name]
    BY LoadedBuffers DEF IsOwnCheckpoint
  <2>2. /\ buffers.layer_multipliers = ckpt.multipliers
        /\ buffers.ngram_heads_vocab_sizes = ckpt.layouts[layer].sizes
        /\ buffers.ngram_heads_offsets = ckpt.layouts[layer].offsets
    BY <2>1 DEF Buffers, Written, BuffersOf
  <2> QED BY <2>2, IdIs DEF Size, Offset
<1> QED BY <1>1, HashInvAlways, PTL

-----------------------------------------------------------------------------
(***************************************************************************)
(* The search for primes, as far as the test is exact: no candidate is     *)
(* skipped, none is counted twice, and the search of every head starts     *)
(* again.                                                                  *)
(***************************************************************************)
\* The test tells primes from composites between b and x.
ExactUpTo(b, x) == \A v \in b .. x : IsPrime64(v) <=> IsPrime(v)

Primes(b, x) == {p \in b .. x : IsPrime(p)}

\* x is the n-th prime not below b.
Nth(b, x, n) == ExactUpTo(b, x) => IsPrime(x) /\ Cardinality(Primes(b, x)) = n

LEMMA EvenIsComposite ==
  ASSUME NEW v \in Nat, v > 2, v % 2 = 0
  PROVE  ~IsPrime(v)
<1>1. 2 \in 2 .. v - 1 /\ 2 * 2 <= v
  OBVIOUS
<1> QED BY <1>1 DEF IsPrime

\* The next prime counts one more.
LEMMA NextPrime ==
  ASSUME NEW b \in Nat, NEW x \in Int, NEW c \in Nat, b <= c, x < c, b - 1 <= x, NEW n \in Nat,
         Cardinality(Primes(b, x)) = n, IsPrime(c), \A v \in x + 1 .. c - 1 : ~IsPrime(v)
  PROVE  Cardinality(Primes(b, c)) = n + 1
<1>1. Primes(b, c) = Primes(b, x) \union {c}
  BY DEF Primes
<1>2. IsFiniteSet(b .. x)
  BY FS_Interval
<1>3. Primes(b, x) \in SUBSET (b .. x)
  BY DEF Primes
<1>4. IsFiniteSet(Primes(b, x))
  BY <1>2, <1>3, FS_Subset
<1>5. c \notin Primes(b, x)
  BY DEF Primes
<1> QED BY <1>1, <1>4, <1>5, FS_AddElement

CountInv ==
  /\ prime >= base - 1
  /\ found = 0 => prime = base - 1
  /\ found > 0 => prime >= base /\ prime >= 2 /\ Nth(base, prime, found)

CandidateInv ==
  candidate # 0 =>
    /\ candidate > prime /\ candidate >= 3 /\ candidate % 2 = 1
    /\ found < GlobalHead + 1
    /\ ExactUpTo(base, candidate - 1) => \A v \in prime + 1 .. candidate - 1 : ~IsPrime(v)

SizesInv ==
  /\ \A h \in 1 .. Len(sizes) : Nth(base, sizes[h], Len(layouts) * Heads + h)
  /\ \A l \in 1 .. Len(layouts), h \in 1 .. Heads :
       Nth(base, layouts[l].sizes[h], (l - 1) * Heads + h)

PrimesInv == base \in Nat /\ CountInv /\ CandidateInv /\ SizesInv

LEMMA PrimesInvInit == HashInit => PrimesInv
<1> SUFFICES ASSUME HashInit PROVE PrimesInv
  OBVIOUS
<1>1. HashInv
  BY HashInvInit
<1>2. base \in Nat
  BY <1>1 DEF HashInv, MultipliersInv
<1> QED BY <1>2 DEF PrimesInv, CountInv, CandidateInv, SizesInv, HashInit, LayoutInit

\* What has been counted, the search of a head just begun included.
LEMMA Counted ==
  ASSUME SearchInv, PrimesInv, ExactUpTo(base, prime)
  PROVE  Cardinality(Primes(base, prime)) = found
<1>1. CASE found = 0
  <2>1. Primes(base, prime) = {}
    BY <1>1 DEF PrimesInv, CountInv, Primes, SearchInv
  <2> QED BY <1>1, <2>1, FS_EmptySet
<1>2. CASE found # 0
  BY <1>2 DEF PrimesInv, CountInv, SearchInv, Nth
<1> QED BY <1>1, <1>2

LEMMA PrimesBeginSearch ==
  ASSUME SearchInv, PrimesInv, BeginSearch
  PROVE  PrimesInv'
<1> USE DEF BeginSearch
<1>1. base' = base /\ base \in Nat /\ prime \in Int /\ found \in Nat
  BY DEF PrimesInv, SearchInv
<1>2. SizesInv'
  BY DEF PrimesInv, SizesInv
<1>3. CASE prime + 1 <= 2
  <2>1. prime' = 2 /\ found' = found + 1 /\ candidate' = 0
    BY <1>3
  <2>2. found = 0 /\ prime = base - 1 /\ base <= 2
    <3>1. found = 0 /\ prime = base - 1
      BY <1>1, <1>3 DEF PrimesInv, CountInv
    <3> QED BY <1>1, <1>3, <3>1
  <2>3. IsPrime(2) /\ ~IsPrime(0) /\ ~IsPrime(1)
    BY DEF IsPrime
  <2>4. Primes(base, 2) = {2}
    BY <1>1, <2>2, <2>3 DEF Primes
  <2>5. Nth(base, 2, 1)
    BY <2>3, <2>4, FS_Singleton DEF Nth
  <2>6. CountInv'
    BY <1>1, <2>1, <2>2, <2>5 DEF CountInv
  <2> QED BY <1>1, <1>2, <2>1, <2>6 DEF PrimesInv, CandidateInv
<1>4. CASE ~(prime + 1 <= 2)
  <2>1. prime' = prime /\ found' = found
    BY <1>4
  <2>2. CountInv'
    BY <1>1, <2>1 DEF PrimesInv, CountInv
  <2>3. GlobalHead' = GlobalHead /\ found < GlobalHead + 1
    BY DEF GlobalHead, Searching
  <2>4. candidate' > prime /\ candidate' >= 3 /\ candidate' % 2 = 1
    BY <1>1, <1>4
  <2>5. \A v \in prime + 1 .. candidate' - 1 : ~IsPrime(v)
    BY <1>1, <1>4, EvenIsComposite
  <2>6. CandidateInv'
    BY <1>1, <2>1, <2>3, <2>4, <2>5 DEF CandidateInv
  <2> QED BY <1>1, <1>2, <2>2, <2>6 DEF PrimesInv
<1> QED BY <1>3, <1>4

LEMMA PrimesTestCandidate ==
  ASSUME SearchInv, PrimesInv, TestCandidate
  PROVE  PrimesInv'
<1> USE DEF TestCandidate
<1>1. /\ base' = base /\ base \in Nat /\ prime \in Int /\ found \in Nat
      /\ prime >= base - 1 /\ candidate \in Nat
  BY DEF PrimesInv, SearchInv, CountInv
<1>2. SizesInv'
  BY DEF PrimesInv, SizesInv
<1>3. /\ candidate > prime /\ candidate >= 3 /\ candidate % 2 = 1
      /\ found < GlobalHead + 1
      /\ ExactUpTo(base, candidate - 1) => \A v \in prime + 1 .. candidate - 1 : ~IsPrime(v)
  BY DEF PrimesInv, CandidateInv
<1>4. ExactUpTo(base, candidate) => ExactUpTo(base, candidate - 1) /\ ExactUpTo(base, prime)
  BY <1>1, <1>3 DEF ExactUpTo
<1>5. candidate \in base .. candidate
  BY <1>1, <1>3
<1>6. CASE IsPrime64(candidate)
  <2>1. prime' = candidate /\ found' = found + 1 /\ candidate' = 0
    BY <1>6
  <2>2. Nth(base, candidate, found + 1)
    <3> SUFFICES ASSUME ExactUpTo(base, candidate)
                 PROVE  IsPrime(candidate) /\ Cardinality(Primes(base, candidate)) = found + 1
      BY DEF Nth
    <3>1. IsPrime(candidate)
      BY <1>5, <1>6 DEF ExactUpTo
    <3>2. Cardinality(Primes(base, prime)) = found
      BY <1>4, Counted
    <3>3. \A v \in prime + 1 .. candidate - 1 : ~IsPrime(v)
      BY <1>3, <1>4
    <3> QED BY <1>1, <1>3, <1>5, <3>1, <3>2, <3>3, NextPrime
  <2>3. CountInv'
    BY <1>1, <1>3, <1>5, <2>1, <2>2 DEF CountInv
  <2> QED BY <1>1, <1>2, <2>1, <2>3 DEF PrimesInv, CandidateInv
<1>7. CASE ~IsPrime64(candidate)
  <2>1. prime' = prime /\ found' = found /\ candidate' = candidate + 2
    BY <1>7
  <2>2. CountInv'
    BY <1>1, <2>1 DEF PrimesInv, CountInv
  <2>3. GlobalHead' = GlobalHead
    BY DEF GlobalHead
  <2>4. candidate' > prime /\ candidate' >= 3 /\ candidate' % 2 = 1
    BY <1>1, <1>3, <2>1
  <2>5. ASSUME ExactUpTo(base, candidate + 1), NEW v \in prime + 1 .. candidate + 1
        PROVE  ~IsPrime(v)
    <3>1. ExactUpTo(base, candidate)
      BY <1>1, <2>5 DEF ExactUpTo
    <3>2. CASE v = candidate
      BY <1>5, <1>7, <3>1, <3>2 DEF ExactUpTo
    <3>3. CASE v = candidate + 1
      <4>1. v \in Nat /\ v > 2 /\ v % 2 = 0
        BY <1>1, <1>3, <3>3
      <4> QED BY <4>1, EvenIsComposite
    <3>4. CASE v < candidate
      <4>1. v \in prime + 1 .. candidate - 1
        BY <1>1, <3>4
      <4> QED BY <1>3, <1>4, <3>1, <4>1
    <3> QED BY <1>1, <3>2, <3>3, <3>4
  <2>6. candidate' - 1 = candidate + 1
    BY <1>1, <2>1
  <2>7. CandidateInv'
    BY <1>1, <1>3, <2>1, <2>3, <2>4, <2>5, <2>6 DEF CandidateInv
  <2> QED BY <1>1, <1>2, <2>2, <2>7 DEF PrimesInv
<1> QED BY <1>6, <1>7

LEMMA GlobalHeadType ==
  ASSUME LayoutInv
  PROVE  /\ Len(layouts) \in Nat /\ Len(sizes) \in Nat /\ Heads \in Nat
         /\ Len(layouts) * Heads \in Nat /\ GlobalHead \in Nat
         /\ (Len(layouts) + 1) * Heads = Len(layouts) * Heads + Heads
<1>1. PICK n \in Nat : n = Len(layouts)
  BY DEF LayoutInv
<1>2. PICK h \in Nat : h = Heads
  BY LayoutAssumption
<1>3. n * h \in Nat /\ (n + 1) * h = n * h + h
  OBVIOUS
<1>4. Len(sizes) \in Nat
  BY DEF LayoutInv
<1> QED BY <1>1, <1>2, <1>3, <1>4 DEF GlobalHead

LEMMA PrimesEndHead ==
  ASSUME SearchInv, LayoutInv, PrimesInv, EndHead
  PROVE  PrimesInv'
<1> USE DEF EndHead
<1>1. base' = base /\ base \in Nat /\ prime \in Int /\ found \in Nat
  BY DEF PrimesInv, SearchInv
<1>2. CountInv'
  BY <1>1 DEF CountInv
<1>3. candidate' = 0
  BY <1>1, GlobalHeadType DEF PrimesInv, CandidateInv
<1>4. SizesInv'
  <2>1. PICK n \in Nat : n = Len(sizes)
    BY GlobalHeadType
  <2>2. Len(sizes') = n + 1 /\ sizes'[n + 1] = prime /\ \A h \in 1 .. n : sizes'[h] = sizes[h]
    BY <1>1, <2>1 DEF LayoutInv
  <2>3. found = Len(layouts) * Heads + (n + 1) /\ found > 0
    <3>1. PICK m \in Nat : m = Len(layouts) * Heads
      BY GlobalHeadType
    <3>2. found = m + n + 1
      BY <2>1, <3>1 DEF GlobalHead
    <3> QED BY <3>1, <3>2
  <2>4. Nth(base, prime, found)
    BY <2>3 DEF PrimesInv, CountInv
  <2>5. ASSUME NEW h \in 1 .. n + 1 PROVE Nth(base, sizes'[h], Len(layouts) * Heads + h)
    <3>1. CASE h = n + 1
      BY <2>2, <2>3, <2>4, <3>1
    <3>2. CASE h # n + 1
      <4>1. h \in 1 .. n
        BY <3>2
      <4> QED BY <2>1, <2>2, <4>1 DEF PrimesInv, SizesInv
    <3> QED BY <3>1, <3>2
  <2>6. \A l \in 1 .. Len(layouts), h \in 1 .. Heads :
          Nth(base, layouts[l].sizes[h], (l - 1) * Heads + h)
    BY DEF PrimesInv, SizesInv
  <2> QED BY <1>1, <2>2, <2>5, <2>6 DEF SizesInv
<1> QED BY <1>1, <1>2, <1>3, <1>4 DEF PrimesInv, CandidateInv

LEMMA PrimesEndLayer ==
  ASSUME SearchInv, LayoutInv, PrimesInv, EndLayer
  PROVE  PrimesInv'
<1> USE DEF EndLayer
<1>1. base' = base /\ base \in Nat
  BY DEF PrimesInv
<1>2. CountInv'
  BY DEF PrimesInv, CountInv
<1> DEFINE x == [sizes |-> sizes, offsets |-> offsets, padded_vocab_size |-> Padded(offset)]
<1>3. x \in Layout /\ layouts' = Append(layouts, x) /\ x.sizes = sizes
  <2>1. Padded(offset) \in Nat
    BY PaddedIs DEF LayoutInv
  <2> QED BY <2>1 DEF LayoutInv, Layout, Padded
<1> HIDE DEF x
<1>4. PICK n \in Nat : n = Len(layouts)
  BY GlobalHeadType
<1>5. Len(layouts') = n + 1 /\ layouts'[n + 1] = x /\ \A l \in 1 .. n : layouts'[l] = layouts[l]
  BY <1>3, <1>4 DEF LayoutInv
<1>6. GlobalHead' = GlobalHead
  BY <1>4, <1>5, GlobalHeadType DEF GlobalHead
<1>7. CandidateInv'
  BY <1>6 DEF PrimesInv, CandidateInv
<1>8. ASSUME NEW l \in 1 .. n + 1, NEW h \in 1 .. Heads
      PROVE  Nth(base, layouts'[l].sizes[h], (l - 1) * Heads + h)
  <2>1. CASE l = n + 1
    <3>1. l - 1 = n
      BY <2>1
    <3>2. Nth(base, sizes[h], n * Heads + h)
      BY <1>4 DEF PrimesInv, SizesInv
    <3> QED BY <1>3, <1>5, <2>1, <3>1, <3>2
  <2>2. CASE l # n + 1
    <3>1. l \in 1 .. n
      BY <2>2
    <3> QED BY <1>4, <1>5, <3>1 DEF PrimesInv, SizesInv
  <2> QED BY <2>1, <2>2
<1>9. SizesInv'
  <2>1. Len(sizes') = 0
    OBVIOUS
  <2>2. \A h \in 1 .. Len(sizes') : Nth(base', sizes'[h], Len(layouts') * Heads + h)
    BY <2>1
  <2>3. \A l \in 1 .. Len(layouts'), h \in 1 .. Heads :
          Nth(base', layouts'[l].sizes[h], (l - 1) * Heads + h)
    BY <1>1, <1>5, <1>8
  <2> QED BY <2>2, <2>3, Zenon DEF SizesInv
<1> QED BY <1>1, <1>2, <1>7, <1>9 DEF PrimesInv

LEMMA PrimesInvStep == HashInv /\ PrimesInv /\ [HashNext]_all_vars => PrimesInv'
<1> SUFFICES ASSUME HashInv, PrimesInv, [HashNext]_all_vars PROVE PrimesInv'
  OBVIOUS
<1>1. ASSUME UNCHANGED layout_vars PROVE PrimesInv'
  BY <1>1 DEF layout_vars, PrimesInv, CountInv, CandidateInv, SizesInv, GlobalHead
<1>2. CASE Lay
  BY <1>2, PrimesBeginSearch, PrimesTestCandidate, PrimesEndHead, PrimesEndLayer
     DEF Lay, LayoutNext, HashInv
<1>3. CASE ~Lay
  <2>1. UNCHANGED layout_vars
    BY <1>3 DEF HashNext, MakeMultiplier, Register, LoadBuffer, LoadTable, Hash, Stop, all_vars
  <2> QED BY <1>1, <2>1
<1> QED BY <1>2, <1>3

\* The prime test is exact on the numbers between the base and the sizes.
TestIsExact ==
  \A l \in 1 .. Len(layouts), h \in 1 .. Heads : ExactUpTo(base, layouts[l].sizes[h])

\* Each head has its own prime, the next one not yet taken: the search skips
\* none, as far as the prime test with its seven bases is exact.
THEOREM SizesCorrect == HashSpec => [](TestIsExact => SizesAreTheNextPrimes)
<1>1. PrimesInv => (TestIsExact => SizesAreTheNextPrimes)
  BY DEF PrimesInv, SizesInv, Nth, Primes, TestIsExact, SizesAreTheNextPrimes
<1> QED BY <1>1, PrimesInvInit, PrimesInvStep, HashInvAlways, PTL DEF HashSpec
=============================================================================
