-------------------------- MODULE ShortConvProofs ---------------------------
(***************************************************************************)
(* Proofs about ShortConv, for every value of its constants.               *)
(***************************************************************************)
EXTENDS ShortConv, SequenceTheorems, TLAPS

-----------------------------------------------------------------------------
(* The sizes of a row.                                                     *)

LEMMA Sizes ==
  /\ ConvStateLen \in Nat
  /\ SpecQueryLen \in Nat \ {0}
  /\ NumSpec \in Nat
  /\ \A j \in Tap : j * Dilation \in 0 .. ConvStateLen
<1> USE KernelAssumption, SpecAssumption
<1>1. ConvStateLen \in Nat
  BY DEF ConvStateLen
<1>2. ASSUME NEW j \in Tap PROVE j * Dilation \in 0 .. ConvStateLen
  <2>1. j \in Nat /\ Kernel - 1 - j \in Nat
    BY DEF Tap
  <2>2. (Kernel - 1 - j) * Dilation \in Nat /\ j * Dilation \in Nat
    BY <2>1
  <2>3. (Kernel - 1) * Dilation = (Kernel - 1 - j) * Dilation + j * Dilation
    BY <2>1
  <2> QED
    BY <2>2, <2>3, <1>1 DEF ConvStateLen
<1> QED
  BY <1>1, <1>2 DEF SpecQueryLen

LEMMA ChunksAreSequences ==
  ASSUME NEW S, NEW n \in Nat, NEW x \in Chunks(S, n)
  PROVE  x \in Seq(S) /\ Len(x) \in 0 .. n
<1>1. PICK m \in 0 .. n : x \in [1 .. m -> S]
  BY DEF Chunks
<1> QED
  BY <1>1, SeqDef, LenProperties

LEMMA AlphabetIsInput ==
  ASSUME NEW s \in Slot
  PROVE  Alphabet[s] \subseteq Input
BY DEF Input

LEMMA StreamAtConcat ==
  ASSUME NEW h \in Seq(Input), NEW x \in Seq(Input), NEW i \in Int, i <= Len(h) + Len(x)
  PROVE  StreamAt(h \o x, i) = IF i <= Len(h) THEN StreamAt(h, i) ELSE x[i - Len(h)]
BY ConcatProperties, LenProperties DEF StreamAt

-----------------------------------------------------------------------------
(* One row of a forward.                                                   *)

\* A state that is the end of the stream h.
EndOf(state, h) ==
  \A i \in 0 .. ConvStateLen - 1 : state[i] = StreamAt(h, Len(h) - ConvStateLen + 1 + i)

\* A history that continues the end of h with x.
Continues(history, h, x) ==
  \A i \in 0 .. ConvStateLen + Len(x) - 1 :
    history[i] = StreamAt(h \o x, Len(h) - ConvStateLen + 1 + i)

LEMMA HistoryContinues ==
  ASSUME NEW h \in Seq(Input), NEW x \in Seq(Input), NEW width \in Nat,
         Len(x) <= width, NEW state, EndOf(state, h)
  PROVE  Continues(History(state, x, width), h, x)
<1> USE Sizes, LenProperties
<1> SUFFICES ASSUME NEW i \in 0 .. ConvStateLen + Len(x) - 1
             PROVE  History(state, x, width)[i] = StreamAt(h \o x, Len(h) - ConvStateLen + 1 + i)
  BY DEF Continues
<1>0. Len(h) \in Nat /\ Len(x) \in Nat /\ i \in 0 .. ConvStateLen + width - 1
  OBVIOUS
<1>1. CASE i < ConvStateLen
  <2>1. History(state, x, width)[i] = StreamAt(h, Len(h) - ConvStateLen + 1 + i)
    BY <1>0, <1>1 DEF History, EndOf
  <2> QED
    BY <2>1, <1>0, <1>1, StreamAtConcat, SMTT(40)
<1>2. CASE i >= ConvStateLen
  <2>1. History(state, x, width)[i] = x[i - ConvStateLen + 1]
    BY <1>0, <1>2 DEF History
  <2>2. (Len(h) - ConvStateLen + 1 + i) - Len(h) = i - ConvStateLen + 1
    BY <1>0
  <2> QED
    BY <2>1, <2>2, <1>0, <1>2, StreamAtConcat
<1> QED
  BY <1>0, <1>1, <1>2

\* A convolution over a history that continues h is the causal one.
LEMMA Conv1dIsCausal ==
  ASSUME NEW h \in Seq(Input), NEW x \in Seq(Input), NEW history, Continues(history, h, x)
  PROVE  Conv1d(history, Len(x)) = OutputsOf(h, x)
<1> USE Sizes, LenProperties, KernelAssumption
<1>1. ASSUME NEW i \in 1 .. Len(x), NEW j \in Tap
      PROVE  history[i - 1 + j * Dilation]
               = StreamAt(h \o x, (Len(h) + i) - ConvStateLen + j * Dilation)
  <2> DEFINE d == j * Dilation
  <2>1. d \in 0 .. ConvStateLen /\ Len(h) \in Nat /\ Len(x) \in Nat
    OBVIOUS
  <2> HIDE DEF d
  <2>2. i - 1 + d \in 0 .. ConvStateLen + Len(x) - 1
    BY <2>1
  <2>3. Len(h) - ConvStateLen + 1 + (i - 1 + d) = (Len(h) + i) - ConvStateLen + d
    BY <2>1
  <2>4. history[i - 1 + d] = StreamAt(h \o x, (Len(h) + i) - ConvStateLen + d)
    BY <2>2, <2>3 DEF Continues
  <2> QED
    BY <2>4 DEF d
<1> QED
  BY <1>1 DEF Conv1d, OutputsOf, OutputAt

\* What prefill and decode leave at the front of the row.
LEMMA PlainRowIsEnd ==
  ASSUME NEW h \in Seq(Input), NEW x \in Seq(Input), x # << >>,
         NEW row, NEW history, Continues(history, h, x)
  PROVE  EndOf(PlainRow(row, TRUE, history, x), h \o x)
<1> USE Sizes, LenProperties
<1> SUFFICES ASSUME NEW i \in 0 .. ConvStateLen - 1
             PROVE  PlainRow(row, TRUE, history, x)[i]
                      = StreamAt(h \o x, Len(h \o x) - ConvStateLen + 1 + i)
  BY DEF EndOf
<1>1. Len(h) \in Nat /\ Len(x) \in Nat /\ Len(h \o x) = Len(h) + Len(x)
  BY ConcatProperties
<1>2. i \in Position /\ Len(x) + i \in 0 .. ConvStateLen + Len(x) - 1
  BY <1>1 DEF Position
<1>3. PlainRow(row, TRUE, history, x)[i] = history[Len(x) + i]
  BY <1>2 DEF PlainRow
<1>4. Len(h) - ConvStateLen + 1 + (Len(x) + i) = Len(h \o x) - ConvStateLen + 1 + i
  BY <1>1
<1> QED
  BY <1>2, <1>3, <1>4 DEF Continues

\* What the speculative path leaves in the row: a window for each verdict.
LEMMA SpecRowHasVerdicts ==
  ASSUME NEW h \in Seq(Input), NEW x \in Seq(Input), Len(x) <= SpecQueryLen,
         NEW row, NEW history, Continues(history, h, x), NEW a \in 1 .. Len(x)
  PROVE  EndOf([i \in 0 .. ConvStateLen - 1 |-> SpecRow(row, TRUE, history, x)[a - 1 + i]],
               h \o SubSeq(x, 1, a))
<1> USE Sizes, LenProperties
<1> DEFINE y == SubSeq(x, 1, a)
<1>1. Len(h) \in Nat /\ Len(x) \in Nat
  OBVIOUS
<1>2. y \in Seq(Input) /\ Len(y) = a /\ \A i \in 1 .. a : y[i] = x[i]
  <2>1. \A i \in 1 .. a : x[i] \in Input
    BY <1>1, ElementOfSeq
  <2> QED
    BY <2>1, <1>1, SubSeqProperties
<1> HIDE DEF y
<1>3. Len(h \o y) = Len(h) + a
  BY <1>2, ConcatProperties
<1>4. ASSUME NEW i \in 0 .. ConvStateLen - 1
      PROVE  SpecRow(row, TRUE, history, x)[a - 1 + i]
               = StreamAt(h \o y, Len(h \o y) - ConvStateLen + 1 + i)
  <2> DEFINE k == Len(h) - ConvStateLen + 1 + (a + i)
  <2>1. a - 1 + i \in Position /\ a + i \in 0 .. ConvStateLen + Len(x) - 1
    BY <1>1 DEF Position, SpecQueryLen
  <2>2. SpecRow(row, TRUE, history, x)[a - 1 + i] = history[a + i]
    BY <1>1, <2>1 DEF SpecRow
  <2>3. history[a + i] = StreamAt(h \o x, k)
    BY <2>1 DEF Continues
  <2>4. k \in Int /\ k <= Len(h) + a /\ k = Len(h \o y) - ConvStateLen + 1 + i
    BY <1>1, <1>3
  <2> HIDE DEF k
  <2>5. StreamAt(h \o x, k) = StreamAt(h \o y, k)
    <3>1. CASE k <= Len(h)
      BY <3>1, <2>4, <1>1, <1>2, StreamAtConcat
    <3>2. CASE k > Len(h)
      <4>1. k - Len(h) \in 1 .. a /\ k <= Len(h) + Len(x) /\ k <= Len(h) + Len(y)
        BY <3>2, <2>4, <1>1, <1>2
      <4>2. StreamAt(h \o x, k) = x[k - Len(h)]
        BY <4>1, <3>2, <2>4, <1>1, StreamAtConcat
      <4>3. StreamAt(h \o y, k) = y[k - Len(h)]
        <5>1. y \in Seq(Input) /\ k \in Int /\ ~(k <= Len(h))
          BY <3>2, <2>4, <1>1, <1>2
        <5> QED
          BY ONLY <5>1, <4>1, StreamAtConcat, h \in Seq(Input)
      <4> QED
        BY <4>1, <4>2, <4>3, <1>2
    <3> QED
      BY <3>1, <3>2, <2>4, <1>1
  <2> QED
    BY <2>2, <2>3, <2>4, <2>5
<1> QED
  BY <1>4 DEF EndOf, y

-----------------------------------------------------------------------------
(* The jobs of a batch.                                                    *)

LEMMA JobFacts ==
  ASSUME NEW s \in Slot, NEW j \in Jobs(s)
  PROVE  /\ j.x \in Seq(Input)
         /\ j # IdleJob => /\ j.kind \in {"decode", "prefill", "spec"}
                           /\ s \in live /\ draft[s] = << >>
                           /\ j.x \in Chunks(Alphabet[s], MaxChunk)
                           /\ Len(stream[s]) + Len(j.x) <= MaxModelLen
                           /\ j.kind # "spec" => num_accepted_tokens[s] = 1
                           /\ j.kind = "spec" => stream[s] # << >> /\ Len(j.x) \in 1 .. SpecQueryLen
         /\ j = IdleJob => j.kind = "idle" /\ j.x = << >>
<1>1. CASE j = IdleJob
  BY <1>1, EmptySeq DEF IdleJob
<1>2. CASE j # IdleJob
  <2>1. /\ j \in [kind : {"decode", "prefill", "spec"}, x : Chunks(Alphabet[s], MaxChunk)]
        /\ s \in live
        /\ draft[s] = << >>
        /\ Len(stream[s]) + Len(j.x) <= MaxModelLen
        /\ j.kind # "spec" => num_accepted_tokens[s] = 1
        /\ j.kind = "spec" => stream[s] # << >> /\ Len(j.x) \in 1 .. SpecQueryLen
    BY <1>2 DEF Jobs
  <2>2. j.x \in Seq(Alphabet[s])
    BY <2>1, ChunksAreSequences, ChunkAssumption
  <2>3. j.x \in Seq(Input)
    BY <2>2, AlphabetIsInput, SeqMonotonic
  <2> QED
    BY <2>1, <2>3, <1>2
<1> QED
  BY <1>1, <1>2

LEMMA BatchFacts ==
  ASSUME NEW job \in Batches
  PROVE  /\ \A s \in Slot : job[s] \in Jobs(s)
         /\ job[NULL_BLOCK_ID] \in PaddingJobs
BY DEF Batches

LEMMA SlotIsValid ==
  ASSUME NEW s \in Slot
  PROVE  Valid(s) /\ s \in Block
BY SlotsAssumption DEF Valid, Slot, Block, NULL_BLOCK_ID

\* The history a row is given continues the stream of its owner.
LEMMA RowHistoryContinues ==
  ASSUME TypeOK, WindowIsEndOfStream,
         NEW s \in Slot, NEW j \in Jobs(s), j # IdleJob, NEW masked \in BOOLEAN,
         masked \/ (j.kind = "decode" => HasInitial(s))
  PROVE  Continues(RowHistory(s, j, masked), stream[s], j.x)
<1> USE Sizes, LenProperties
<1>1. stream[s] \in Seq(Input) /\ num_accepted_tokens[s] \in 1 .. SpecQueryLen
  BY DEF TypeOK
<1>2. Valid(s) /\ Len(stream[s]) \in Nat /\ j.x \in Seq(Input) /\ Len(j.x) \in Nat
  BY <1>1, SlotIsValid, JobFacts
<1>3. CASE j.kind = "spec"
  <2> DEFINE state == [i \in 0 .. ConvStateLen - 1 |->
                         IF TRUE THEN conv_state[s][RollbackOffset(num_accepted_tokens[s]) + i] ELSE Zero]
  <2>0. draft[s] = << >> /\ stream[s] # << >> /\ Len(j.x) \in 1 .. SpecQueryLen
    BY ONLY <1>3, JobFacts, j # IdleJob, s \in Slot, j \in Jobs(s)
  <2>1. stream[s] # << >> /\ draft[s] = << >> /\ Len(j.x) <= SpecQueryLen
    BY <2>0
  <2>2. RollbackOffset(num_accepted_tokens[s]) = num_accepted_tokens[s] - 1
    BY <1>1 DEF RollbackOffset
  <2>3. WindowOf(s) = [i \in 0 .. ConvStateLen - 1 |->
                         StreamAt(stream[s], Len(stream[s]) - ConvStateLen + 1 + i)]
    BY <2>1 DEF WindowIsEndOfStream
  <2>4. EndOf(state, stream[s])
    BY <2>2, <2>3 DEF EndOf, WindowOf
  <2>5. RowHistory(s, j, masked) = History(state, j.x, SpecQueryLen)
    BY <1>2, <1>3 DEF RowHistory, SpecHistory
  <2> HIDE DEF state
  <2> QED
    BY <2>1, <2>4, <2>5, <1>1, <1>2, HistoryContinues
<1>4. CASE j.kind # "spec"
  <2> DEFINE use == UseInitial(s, j.kind, masked)
             state == [i \in 0 .. ConvStateLen - 1 |->
                         IF TRUE /\ use THEN conv_state[s][i] ELSE Zero]
  <2>1. num_accepted_tokens[s] = 1 /\ draft[s] = << >>
    BY <1>4, JobFacts
  <2>2. use <=> stream[s] # << >>
    BY <1>2 DEF UseInitial, HasInitial
  <2>3. EndOf(state, stream[s])
    <3>1. CASE stream[s] # << >>
      <4>1. WindowOf(s) = [i \in 0 .. ConvStateLen - 1 |->
                             StreamAt(stream[s], Len(stream[s]) - ConvStateLen + 1 + i)]
        BY <2>1, <3>1 DEF WindowIsEndOfStream
      <4>2. \A i \in 0 .. ConvStateLen - 1 : 1 - 1 + i = i
        OBVIOUS
      <4> QED
        BY <2>1, <2>2, <3>1, <4>1, <4>2 DEF EndOf, WindowOf
    <3>2. CASE stream[s] = << >>
      <4>1. \A i : StreamAt(stream[s], i) = Zero
        BY <3>2 DEF StreamAt
      <4> QED
        BY <2>2, <3>2, <4>1 DEF EndOf
    <3> QED
      BY <3>1, <3>2
  <2>4. RowHistory(s, j, masked) = History(state, j.x, Len(j.x))
    BY <1>2, <1>4 DEF RowHistory, PlainHistory
  <2> HIDE DEF state
  <2> QED
    BY <2>3, <2>4, <1>1, <1>2, HistoryContinues
<1> QED
  BY <1>3, <1>4

-----------------------------------------------------------------------------
(* Types.                                                                  *)

LEMMA RowHistoryType ==
  ASSUME TypeOK, NEW b \in Block, NEW j, j.x \in Seq(Input), NEW masked \in BOOLEAN
  PROVE  RowHistory(b, j, masked)
           \in [0 .. ConvStateLen + (IF j.kind = "spec" THEN SpecQueryLen ELSE Len(j.x)) - 1 -> Value]
<1> USE Sizes, LenProperties
<1> DEFINE x == j.x
<1>0. x \in Seq(Input) /\ Len(x) \in Nat /\ \A i \in 1 .. Len(x) : x[i] \in Value
  BY ElementOfSeq DEF Value
<1> HIDE DEF x
<1>1. ASSUME NEW state \in [0 .. ConvStateLen - 1 -> Value], NEW width \in Nat
      PROVE  History(state, x, width) \in [0 .. ConvStateLen + width - 1 -> Value]
  <2>1. ASSUME NEW i \in 0 .. ConvStateLen + width - 1
        PROVE  (IF i < ConvStateLen THEN state[i]
                ELSE IF i - ConvStateLen < Len(x) THEN x[i - ConvStateLen + 1]
                ELSE Zero) \in Value
    <3>1. CASE i < ConvStateLen
      BY <3>1
    <3>2. CASE i >= ConvStateLen /\ i - ConvStateLen < Len(x)
      <4>1. i - ConvStateLen + 1 \in 1 .. Len(x)
        BY <3>2, <1>0
      <4> QED
        BY <4>1, <3>2, <1>0
    <3>3. CASE i >= ConvStateLen /\ ~(i - ConvStateLen < Len(x))
      BY <3>3 DEF Value
    <3> QED
      BY <3>1, <3>2, <3>3
  <2> QED
    BY <2>1 DEF History
<1>2. conv_state[b] \in [Position -> Value]
  BY DEF TypeOK
<1>3. CASE j.kind = "spec"
  <2> DEFINE acc == IF Valid(b) THEN num_accepted_tokens[b] ELSE 1
             state == [i \in 0 .. ConvStateLen - 1 |->
                         IF Valid(b) THEN conv_state[b][RollbackOffset(acc) + i] ELSE Zero]
  <2>1. acc \in 1 .. SpecQueryLen
    BY DEF TypeOK, Valid, Block
  <2> HIDE DEF acc
  <2>2. RollbackOffset(acc) \in 0 .. NumSpec
    BY <2>1 DEF RollbackOffset, SpecQueryLen
  <2>3. \A i \in 0 .. ConvStateLen - 1 : RollbackOffset(acc) + i \in Position
    BY <2>2 DEF Position
  <2>4. state \in [0 .. ConvStateLen - 1 -> Value]
    BY <2>3, <1>2 DEF Value
  <2>5. RowHistory(b, j, masked) = History(state, x, SpecQueryLen)
    BY <1>3 DEF RowHistory, SpecHistory, x, acc
  <2> HIDE DEF state
  <2> QED
    BY <1>1, <1>3, <2>4, <2>5
<1>4. CASE j.kind # "spec"
  <2> DEFINE use == UseInitial(b, j.kind, masked)
             state == [i \in 0 .. ConvStateLen - 1 |->
                         IF Valid(b) /\ use THEN conv_state[b][i] ELSE Zero]
  <2>1. \A i \in 0 .. ConvStateLen - 1 : i \in Position
    BY DEF Position
  <2>2. state \in [0 .. ConvStateLen - 1 -> Value]
    BY <2>1, <1>2 DEF Value
  <2>3. RowHistory(b, j, masked) = History(state, x, Len(x))
    BY <1>4 DEF RowHistory, PlainHistory, x
  <2> HIDE DEF state
  <2> QED
    BY <1>0, <1>1, <1>4, <2>2, <2>3 DEF x
<1> QED
  BY <1>3, <1>4

LEMMA RowAfterType ==
  ASSUME TypeOK, NEW b \in Block, NEW j, j.x \in Seq(Input), NEW masked \in BOOLEAN,
         j.kind = "spec" => Len(j.x) <= SpecQueryLen
  PROVE  RowAfter(b, j, masked) \in [Position -> Value]
<1> USE Sizes, LenProperties
<1> DEFINE history == RowHistory(b, j, masked)
           x == j.x
<1>1. /\ x \in Seq(Input) /\ Len(x) \in Nat
      /\ conv_state[b] \in [Position -> Value]
      /\ history \in [0 .. ConvStateLen + (IF j.kind = "spec" THEN SpecQueryLen ELSE Len(x)) - 1 -> Value]
  BY RowHistoryType DEF TypeOK
<1>2. CASE j.kind = "spec"
  <2>1. RowAfter(b, j, masked) = SpecRow(conv_state[b], Valid(b), history, x)
    BY <1>2 DEF RowAfter
  <2> HIDE DEF history, x
  <2>2. \A p \in Position : p < ConvStateLen + Len(x) - 1 => history[p + 1] \in Value
    <3>1. \A p \in Position : p < ConvStateLen + Len(x) - 1 => p + 1 \in 0 .. ConvStateLen + SpecQueryLen - 1
      BY <1>1 DEF Position, SpecQueryLen
    <3> QED
      BY <1>1, <1>2, <3>1
  <2> QED
    BY <1>1, <2>1, <2>2 DEF SpecRow
<1>3. CASE j.kind # "spec"
  <2>1. RowAfter(b, j, masked) = PlainRow(conv_state[b], Valid(b), history, x)
    BY <1>3 DEF RowAfter
  <2> HIDE DEF history, x
  <2>2. \A p \in Position : p < ConvStateLen => history[Len(x) + p] \in Value
    <3>1. \A p \in Position : p < ConvStateLen => Len(x) + p \in 0 .. ConvStateLen + Len(x) - 1
      BY <1>1 DEF Position
    <3> QED
      BY <1>1, <1>3, <3>1
  <2> QED
    BY <1>1, <2>1, <2>2 DEF PlainRow
<1> QED
  BY <1>2, <1>3

LEMMA OutputType ==
  ASSUME TypeOK, NEW b \in Block, NEW j, j.x \in Seq(Input), NEW masked \in BOOLEAN,
         j.kind = "spec" => Len(j.x) <= SpecQueryLen
  PROVE  Conv1d(RowHistory(b, j, masked), Len(j.x)) \in Seq([Tap -> Value])
<1> USE Sizes, LenProperties
<1> DEFINE history == RowHistory(b, j, masked)
           n == Len(j.x)
           w == IF j.kind = "spec" THEN SpecQueryLen ELSE n
<1>1. n \in Nat /\ w \in Nat /\ n <= w
  OBVIOUS
<1>2. history \in [0 .. ConvStateLen + w - 1 -> Value]
  BY RowHistoryType
<1> HIDE DEF history, n, w
<1>3. ASSUME NEW i \in 1 .. n, NEW t \in Tap
      PROVE  history[i - 1 + t * Dilation] \in Value
  <2> DEFINE d == t * Dilation
  <2>1. d \in 0 .. ConvStateLen
    OBVIOUS
  <2> HIDE DEF d
  <2>2. i - 1 + d \in 0 .. ConvStateLen + w - 1
    BY <1>1, <2>1
  <2>3. history[i - 1 + d] \in Value
    BY <1>2, <2>2
  <2> QED
    BY <2>3 DEF d
<1>4. Conv1d(history, n) \in [1 .. n -> [Tap -> Value]]
  BY <1>3 DEF Conv1d
<1> QED
  BY <1>1, <1>4, SeqDef DEF history, n

-----------------------------------------------------------------------------
(***************************************************************************)
(* Type correctness.                                                       *)
(***************************************************************************)
LEMMA ForwardFacts ==
  ASSUME NEW job \in Batches, NEW s \in Slot
  PROVE  /\ job[s] \in Jobs(s)
         /\ job[s].x \in Seq(Input)
         /\ job[s].kind = "spec" => Len(job[s].x) \in 1 .. SpecQueryLen /\ job[s] # IdleJob
  BY BatchFacts, JobFacts DEF IdleJob

LEMMA PaddingFacts ==
  ASSUME NEW job \in Batches
  PROVE  /\ job[NULL_BLOCK_ID].x \in Seq(Input)
         /\ Len(job[NULL_BLOCK_ID].x) <= SpecQueryLen
<1>1. job[NULL_BLOCK_ID] \in PaddingJobs
  BY BatchFacts
<1>2. job[NULL_BLOCK_ID].x = << >> \/ \E v \in Input : job[NULL_BLOCK_ID].x = <<v>>
  BY <1>1 DEF PaddingJobs, IdleJob
<1>3. \A v \in Input : <<v>> \in Seq(Input) /\ Len(<<v>>) = 1
  OBVIOUS
<1>4. << >> \in Seq(Input) /\ Len(<< >>) = 0
  BY EmptySeq
<1>5. 0 <= SpecQueryLen /\ 1 <= SpecQueryLen
  BY Sizes
<1>6. CASE job[NULL_BLOCK_ID].x = << >>
  BY <1>4, <1>5, <1>6
<1>7. ASSUME NEW v \in Input, job[NULL_BLOCK_ID].x = <<v>>
      PROVE  job[NULL_BLOCK_ID].x \in Seq(Input) /\ Len(job[NULL_BLOCK_ID].x) <= SpecQueryLen
  <2>1. <<v>> \in Seq(Input) /\ Len(<<v>>) = 1
    BY <1>3
  <2> QED
    BY <2>1, <1>5, <1>7
<1> QED
  BY <1>2, <1>6, <1>7

LEMMA TypeInit == Init => TypeOK
<1> SUFFICES ASSUME Init PROVE TypeOK
  OBVIOUS
<1>1. << >> \in Seq(Input) /\ Len(<< >>) = 0 /\ << >> \in Seq([Tap -> Value])
  BY EmptySeq
<1>2. Zero \in Value
  BY DEF Value
<1> QED
  BY <1>1, <1>2, Sizes DEF Init, TypeOK

LEMMA TypeForward ==
  ASSUME TypeOK, Forward
  PROVE  TypeOK'
<1> USE Sizes
<1>1. PICK job \in Batches, masked \in BOOLEAN :
        /\ conv_state' = [b \in Block |-> RowAfter(b, job[b], masked)]
        /\ out' = [s \in Slot |-> Conv1d(RowHistory(s, job[s], masked), Len(job[s].x))]
        /\ stream' = [s \in Slot |->
             IF job[s].kind = "spec" THEN stream[s] ELSE stream[s] \o job[s].x]
        /\ draft' = [s \in Slot |->
             IF job[s].kind = "spec" THEN job[s].x ELSE draft[s]]
        /\ UNCHANGED <<live, num_accepted_tokens>>
  BY DEF Forward
<1>2. \A b \in Block : RowAfter(b, job[b], masked) \in [Position -> Value]
  <2>1. ASSUME NEW s \in Slot PROVE RowAfter(s, job[s], masked) \in [Position -> Value]
    <3>1. job[s].kind = "spec" => Len(job[s].x) <= SpecQueryLen
      BY ForwardFacts
    <3> QED
      BY <3>1, ForwardFacts, RowAfterType, SlotIsValid
  <2>2. RowAfter(NULL_BLOCK_ID, job[NULL_BLOCK_ID], masked) \in [Position -> Value]
    <3>1. NULL_BLOCK_ID \in Block
      BY DEF Block
    <3> QED
      BY <3>1, PaddingFacts, RowAfterType
  <2> QED
    BY <2>1, <2>2 DEF Block
<1>3. ASSUME NEW s \in Slot
      PROVE  Conv1d(RowHistory(s, job[s], masked), Len(job[s].x)) \in Seq([Tap -> Value])
  <2>1. job[s].kind = "spec" => Len(job[s].x) <= SpecQueryLen
    BY ForwardFacts
  <2> QED
    BY <2>1, ForwardFacts, OutputType, SlotIsValid
<1>4. ASSUME NEW s \in Slot
      PROVE  /\ stream[s] \o job[s].x \in Seq(Input)
             /\ job[s].kind = "spec" => Len(job[s].x) <= SpecQueryLen
             /\ job[s].x \in Seq(Input)
  BY ForwardFacts, ConcatProperties DEF TypeOK
<1>5. conv_state' \in [Block -> [Position -> Value]]
  BY <1>1, <1>2
<1>6. out' \in [Slot -> Seq([Tap -> Value])]
  BY <1>1, <1>3
<1>7. stream' \in [Slot -> Seq(Input)]
  BY <1>1, <1>4 DEF TypeOK
<1>8. draft' \in [Slot -> Seq(Input)] /\ \A s \in Slot : Len(draft'[s]) <= SpecQueryLen
  BY <1>1, <1>4 DEF TypeOK
<1> QED
  BY <1>1, <1>5, <1>6, <1>7, <1>8 DEF TypeOK

LEMMA AcceptedPrefix ==
  ASSUME TypeOK, NEW s \in Slot, NEW a \in 1 .. Len(draft[s])
  PROVE  /\ SubSeq(draft[s], 1, a) \in Seq(Input)
         /\ Len(SubSeq(draft[s], 1, a)) = a
         /\ stream[s] \o SubSeq(draft[s], 1, a) \in Seq(Input)
         /\ a \in 1 .. SpecQueryLen
<1>1. draft[s] \in Seq(Input) /\ Len(draft[s]) \in Nat /\ stream[s] \in Seq(Input)
      /\ Len(draft[s]) <= SpecQueryLen
  BY LenProperties DEF TypeOK
<1>2. \A i \in 1 .. a : draft[s][i] \in Input
  BY <1>1, ElementOfSeq
<1>3. SubSeq(draft[s], 1, a) \in Seq(Input) /\ Len(SubSeq(draft[s], 1, a)) = a
  BY <1>1, <1>2, SubSeqProperties
<1> QED
  BY <1>1, <1>3, ConcatProperties, Sizes

LEMMA TypeNext ==
  ASSUME TypeOK, [Next]_vars
  PROVE  TypeOK'
<1> USE Sizes
<1>0. << >> \in Seq(Input) /\ Len(<< >>) = 0 /\ << >> \in Seq([Tap -> Value])
  BY EmptySeq
<1>1. ASSUME NEW s \in Slot, Admit(s) PROVE TypeOK'
  BY <1>1 DEF TypeOK, Admit
<1>2. ASSUME NEW s \in Slot, Release(s) PROVE TypeOK'
  BY <1>0, <1>2 DEF TypeOK, Release
<1>3. ASSUME NEW s \in Slot, Accept(s) PROVE TypeOK'
  <2>1. PICK a \in 1 .. Len(draft[s]) :
          /\ stream' = [stream EXCEPT ![s] = @ \o SubSeq(draft[s], 1, a)]
          /\ num_accepted_tokens' = [num_accepted_tokens EXCEPT ![s] = a]
    BY <1>3 DEF Accept
  <2> QED
    BY <1>0, <1>3, <2>1, AcceptedPrefix DEF TypeOK, Accept
<1>4. CASE Forward
  BY <1>4, TypeForward
<1>5. CASE UNCHANGED vars
  BY <1>5 DEF TypeOK, vars
<1> QED
  BY <1>1, <1>2, <1>3, <1>4, <1>5 DEF Next

\* Every variable keeps its type: a row never loses a position, the accepted
\* count stays within the packing width, streams and candidates hold inputs.
THEOREM TypeCorrect == Spec => []TypeOK
  BY TypeInit, TypeNext, PTL DEF Spec

-----------------------------------------------------------------------------
(***************************************************************************)
(* The window.  The invariant is inductive as the conjunction of its two   *)
(* halves: a forward needs the window, and leaves either a window or, on   *)
(* the speculative path, one for each verdict; a verdict picks one of them.*)
(***************************************************************************)
IInv == TypeOK /\ WindowIsEndOfStream /\ EveryVerdictHasAWindow

\* The two halves, for one slot.
WindowHolds(s) ==
  stream[s] # << >> /\ draft[s] = << >> => EndOf(WindowOf(s), stream[s])

VerdictsHold(s) ==
  draft[s] # << >> =>
    \A a \in 1 .. Len(draft[s]) :
      EndOf([i \in 0 .. ConvStateLen - 1 |-> conv_state[s][a - 1 + i]],
            stream[s] \o SubSeq(draft[s], 1, a))

LEMMA Halves ==
  /\ WindowIsEndOfStream <=> \A s \in Slot : WindowHolds(s)
  /\ EveryVerdictHasAWindow <=> \A s \in Slot : VerdictsHold(s)
<1>1. ASSUME NEW s \in Slot
      PROVE  EndOf(WindowOf(s), stream[s]) <=>
               WindowOf(s) = [i \in 0 .. ConvStateLen - 1 |->
                                StreamAt(stream[s], Len(stream[s]) - ConvStateLen + 1 + i)]
  BY DEF EndOf, WindowOf
<1> QED
  BY <1>1 DEF WindowIsEndOfStream, EveryVerdictHasAWindow, WindowHolds, VerdictsHold, EndOf

LEMMA IInvInit == Init => IInv
<1> SUFFICES ASSUME Init PROVE IInv
  OBVIOUS
<1>1. \A s \in Slot : stream[s] = << >> /\ draft[s] = << >>
  BY DEF Init
<1> QED
  BY <1>1, TypeInit DEF IInv, WindowIsEndOfStream, EveryVerdictHasAWindow

\* A slot whose row, stream, candidates and count do not change.
LEMMA SlotUnchanged ==
  ASSUME NEW s \in Slot, WindowHolds(s), VerdictsHold(s),
         conv_state'[s] = conv_state[s], stream'[s] = stream[s], draft'[s] = draft[s],
         num_accepted_tokens'[s] = num_accepted_tokens[s]
  PROVE  WindowHolds(s)' /\ VerdictsHold(s)'
<1>1. WindowOf(s)' = WindowOf(s)
  BY DEF WindowOf
<1> QED
  BY <1>1 DEF WindowHolds, VerdictsHold, EndOf

\* A slot that has fed nothing.
LEMMA SlotEmpty ==
  ASSUME NEW s \in Slot, stream'[s] = << >>, draft'[s] = << >>
  PROVE  WindowHolds(s)' /\ VerdictsHold(s)'
  BY DEF WindowHolds, VerdictsHold

\* One slot through a forward.
LEMMA SlotForward ==
  ASSUME IInv, NEW s \in Slot, NEW job \in Batches, NEW masked \in BOOLEAN,
         masked \/ (job[s].kind = "decode" => HasInitial(s)),
         conv_state'[s] = RowAfter(s, job[s], masked),
         stream'[s] = IF job[s].kind = "spec" THEN stream[s] ELSE stream[s] \o job[s].x,
         draft'[s] = IF job[s].kind = "spec" THEN job[s].x ELSE draft[s],
         num_accepted_tokens'[s] = num_accepted_tokens[s]
  PROVE  WindowHolds(s)' /\ VerdictsHold(s)'
<1> DEFINE j == job[s]
           x == j.x
           h == stream[s]
           row == conv_state[s]
           history == RowHistory(s, j, masked)
<1>1. /\ h \in Seq(Input) /\ x \in Seq(Input) /\ j \in Jobs(s)
      /\ row \in [Position -> Value] /\ Valid(s)
      /\ WindowHolds(s) /\ VerdictsHold(s)
  BY ForwardFacts, SlotIsValid, Halves DEF IInv, TypeOK
<1>2. ASSUME j # IdleJob PROVE Continues(history, h, x)
  BY <1>1, <1>2, RowHistoryContinues DEF IInv
<1>3. CASE j.kind # "spec" /\ x = << >>
  <2>1. RowAfter(s, j, masked) = row
    BY <1>1, <1>3 DEF RowAfter, PlainRow
  <2>2. h \o x = h
    BY <1>1, <1>3, ConcatEmptySeq
  <2> QED
    BY <1>1, <1>3, <2>1, <2>2, SlotUnchanged
<1>4. CASE j.kind # "spec" /\ x # << >>
  <2>1. j # IdleJob
    BY <1>4 DEF IdleJob
  <2>2. draft[s] = << >> /\ num_accepted_tokens[s] = 1
    BY <1>1, <1>4, <2>1, JobFacts
  <2>3. RowAfter(s, j, masked) = PlainRow(row, TRUE, history, x)
    BY <1>1, <1>4 DEF RowAfter
  <2> HIDE DEF history
  <2>4. EndOf(PlainRow(row, TRUE, history, x), h \o x)
    BY <1>1, <1>2, <1>4, <2>1, PlainRowIsEnd
  <2>5. /\ conv_state'[s] = PlainRow(row, TRUE, history, x)
        /\ stream'[s] = h \o x /\ draft'[s] = << >> /\ num_accepted_tokens'[s] = 1
    BY <1>4, <2>2, <2>3
  <2>6. \A i \in 0 .. ConvStateLen - 1 : 1 - 1 + i = i
    BY Sizes
  <2>7. EndOf(WindowOf(s), stream[s])'
    BY <2>4, <2>5, <2>6 DEF EndOf, WindowOf
  <2> QED
    BY <2>5, <2>7 DEF WindowHolds, VerdictsHold
<1>5. CASE j.kind = "spec"
  <2>1. j # IdleJob
    BY <1>5 DEF IdleJob
  <2>2. Len(x) \in 1 .. SpecQueryLen
    BY <1>5, ForwardFacts
  <2>3. RowAfter(s, j, masked) = SpecRow(row, TRUE, history, x)
    BY <1>1, <1>5 DEF RowAfter
  <2>4. x # << >> /\ Len(x) <= SpecQueryLen
    BY <2>2, EmptySeq, Sizes
  <2>5. /\ conv_state'[s] = SpecRow(row, TRUE, history, x)
        /\ stream'[s] = h /\ draft'[s] = x
    BY <1>5, <2>3
  <2> HIDE DEF history, x
  <2>6. ASSUME NEW a \in 1 .. Len(x)
        PROVE  EndOf([i \in 0 .. ConvStateLen - 1 |-> SpecRow(row, TRUE, history, x)[a - 1 + i]],
                     h \o SubSeq(x, 1, a))
    BY <1>1, <1>2, <2>1, <2>4, SpecRowHasVerdicts
  <2>7. VerdictsHold(s)'
    BY <2>5, <2>6 DEF VerdictsHold, EndOf
  <2>8. WindowHolds(s)'
    BY <2>4, <2>5 DEF WindowHolds
  <2> QED
    BY <2>7, <2>8
<1> QED
  BY <1>3, <1>4, <1>5

LEMMA IInvNext ==
  ASSUME IInv, [Next]_vars
  PROVE  IInv'
<1>1. TypeOK'
  BY TypeNext DEF IInv
<1>0. /\ (WindowIsEndOfStream <=> \A s \in Slot : WindowHolds(s))'
      /\ (EveryVerdictHasAWindow <=> \A s \in Slot : VerdictsHold(s))'
  BY Halves, PTL
<1>2. SUFFICES ASSUME NEW t \in Slot PROVE WindowHolds(t)' /\ VerdictsHold(t)'
  BY <1>0, <1>1 DEF IInv
<1>3. WindowHolds(t) /\ VerdictsHold(t)
  BY Halves DEF IInv
<1>4. ASSUME NEW s \in Slot, Admit(s) PROVE WindowHolds(t)' /\ VerdictsHold(t)'
  BY <1>3, <1>4, SlotUnchanged DEF Admit
<1>5. ASSUME NEW s \in Slot, Release(s) PROVE WindowHolds(t)' /\ VerdictsHold(t)'
  <2>1. CASE t = s
    BY <1>5, <2>1, SlotEmpty DEF Release, IInv, TypeOK
  <2>2. CASE t # s
    BY <1>3, <1>5, <2>2, SlotUnchanged DEF Release, IInv, TypeOK
  <2> QED
    BY <2>1, <2>2
<1>6. ASSUME NEW s \in Slot, Accept(s) PROVE WindowHolds(t)' /\ VerdictsHold(t)'
  <2>1. PICK a \in 1 .. Len(draft[s]) :
          /\ stream' = [stream EXCEPT ![s] = @ \o SubSeq(draft[s], 1, a)]
          /\ num_accepted_tokens' = [num_accepted_tokens EXCEPT ![s] = a]
    BY <1>6 DEF Accept
  <2>2. draft' = [draft EXCEPT ![s] = << >>] /\ conv_state' = conv_state /\ draft[s] # << >>
    BY <1>6 DEF Accept
  <2>3. CASE t = s
    <3>1. /\ stream'[t] = stream[t] \o SubSeq(draft[t], 1, a)
          /\ num_accepted_tokens'[t] = a /\ draft'[t] = << >>
      BY <2>1, <2>2, <2>3 DEF IInv, TypeOK
    <3>2. EndOf([i \in 0 .. ConvStateLen - 1 |-> conv_state[t][a - 1 + i]],
                stream[t] \o SubSeq(draft[t], 1, a))
      BY <1>3, <2>2, <2>3 DEF VerdictsHold
    <3>3. EndOf(WindowOf(t), stream[t])'
      BY <2>2, <3>1, <3>2 DEF EndOf, WindowOf
    <3> QED
      BY <3>1, <3>3 DEF WindowHolds, VerdictsHold
  <2>4. CASE t # s
    BY <1>3, <2>1, <2>2, <2>4, SlotUnchanged DEF IInv, TypeOK
  <2> QED
    BY <2>3, <2>4
<1>7. CASE Forward
  <2>1. PICK job \in Batches, masked \in BOOLEAN :
          /\ masked \/ \A s \in Slot : job[s].kind = "decode" => HasInitial(s)
          /\ conv_state' = [b \in Block |-> RowAfter(b, job[b], masked)]
          /\ stream' = [s \in Slot |->
               IF job[s].kind = "spec" THEN stream[s] ELSE stream[s] \o job[s].x]
          /\ draft' = [s \in Slot |->
               IF job[s].kind = "spec" THEN job[s].x ELSE draft[s]]
          /\ num_accepted_tokens' = num_accepted_tokens
    BY <1>7 DEF Forward
  <2>2. /\ masked \/ (job[t].kind = "decode" => HasInitial(t))
        /\ conv_state'[t] = RowAfter(t, job[t], masked)
        /\ stream'[t] = IF job[t].kind = "spec" THEN stream[t] ELSE stream[t] \o job[t].x
        /\ draft'[t] = IF job[t].kind = "spec" THEN job[t].x ELSE draft[t]
        /\ num_accepted_tokens'[t] = num_accepted_tokens[t]
    BY <2>1, SlotIsValid
  <2> QED
    BY <2>2, SlotForward
<1>8. CASE UNCHANGED vars
  BY <1>3, <1>8, SlotUnchanged DEF vars
<1> QED
  BY <1>4, <1>5, <1>6, <1>7, <1>8 DEF Next

\* Whatever chunks, paths and verdicts led here, and whoever owned the block
\* before, the row of a request holds the end of that request's own stream
\* where the next forward will read it.
THEOREM WindowCorrect == Spec => []WindowIsEndOfStream
<1>1. IInv => WindowIsEndOfStream
  BY DEF IInv
<1> QED
  BY <1>1, IInvInit, IInvNext, PTL DEF Spec

\* While candidates await the verifier, the row holds a window for each of
\* the verdicts it may give.
THEOREM VerdictsCorrect == Spec => []EveryVerdictHasAWindow
<1>1. IInv => EveryVerdictHasAWindow
  BY DEF IInv
<1> QED
  BY <1>1, IInvInit, IInvNext, PTL DEF Spec

-----------------------------------------------------------------------------
\* No row that pads the batch of a captured graph ever changes the reserved
\* block, on any path and with any leftover inputs.
THEOREM NullBlockCorrect == Spec => NullBlockUntouched
<1>1. ASSUME TypeOK, Next
      PROVE  conv_state'[NULL_BLOCK_ID] = conv_state[NULL_BLOCK_ID]
  <2>1. CASE Forward
    <3>1. NULL_BLOCK_ID \in Block /\ ~Valid(NULL_BLOCK_ID)
      BY DEF Block, Valid
    <3>2. conv_state[NULL_BLOCK_ID] \in [Position -> Value]
      BY <1>1, <3>1 DEF TypeOK
    <3>3. PICK job \in Batches, masked \in BOOLEAN :
            conv_state' = [b \in Block |-> RowAfter(b, job[b], masked)]
      BY <2>1 DEF Forward
    <3>4. RowAfter(NULL_BLOCK_ID, job[NULL_BLOCK_ID], masked) = conv_state[NULL_BLOCK_ID]
      BY <3>1, <3>2 DEF RowAfter, SpecRow, PlainRow
    <3> QED
      BY <3>1, <3>3, <3>4
  <2>2. ASSUME NEW s \in Slot, Admit(s) \/ Release(s) \/ Accept(s)
        PROVE  conv_state'[NULL_BLOCK_ID] = conv_state[NULL_BLOCK_ID]
    BY <2>2 DEF Admit, Release, Accept
  <2> QED
    BY <1>1, <2>1, <2>2 DEF Next
<1> QED
  BY <1>1, TypeCorrect, PTL DEF Spec, NullBlockUntouched

-----------------------------------------------------------------------------
(***************************************************************************)
(* The rows implement the causal convolution.  A free block owes nothing   *)
(* to its last owner but the row, and the row is not read for a request    *)
(* that has fed nothing.                                                   *)
(***************************************************************************)
FreeIsEmpty == \A s \in Slot \ live : stream[s] = << >> /\ draft[s] = << >>

LEMMA FreeNext ==
  ASSUME TypeOK, FreeIsEmpty, [Next]_vars
  PROVE  FreeIsEmpty'
<1>1. ASSUME NEW s \in Slot, Admit(s) PROVE FreeIsEmpty'
  BY <1>1 DEF FreeIsEmpty, Admit
<1>2. ASSUME NEW s \in Slot, Release(s) PROVE FreeIsEmpty'
  BY <1>2 DEF FreeIsEmpty, Release, TypeOK
<1>3. ASSUME NEW s \in Slot, Accept(s) PROVE FreeIsEmpty'
  <2>1. s \in live
    BY <1>3 DEF FreeIsEmpty, Accept
  <2>2. live' = live /\ \A t \in Slot \ {s} : stream'[t] = stream[t] /\ draft'[t] = draft[t]
    BY <1>3 DEF Accept, TypeOK
  <2> QED
    BY <2>1, <2>2 DEF FreeIsEmpty
<1>4. CASE Forward
  <2>1. PICK job \in Batches, masked \in BOOLEAN :
          /\ stream' = [s \in Slot |->
               IF job[s].kind = "spec" THEN stream[s] ELSE stream[s] \o job[s].x]
          /\ draft' = [s \in Slot |->
               IF job[s].kind = "spec" THEN job[s].x ELSE draft[s]]
          /\ UNCHANGED live
    BY <1>4 DEF Forward
  <2>2. ASSUME NEW s \in Slot \ live PROVE stream'[s] = << >> /\ draft'[s] = << >>
    <3>1. job[s].kind = "idle" /\ job[s].x = << >>
      BY ForwardFacts, JobFacts
    <3>2. << >> \o << >> = << >>
      BY ConcatEmptySeq, EmptySeq
    <3> QED
      BY <2>1, <3>1, <3>2 DEF FreeIsEmpty
  <2> QED
    BY <2>1, <2>2 DEF FreeIsEmpty
<1>5. CASE UNCHANGED vars
  BY <1>5 DEF FreeIsEmpty, vars
<1> QED
  BY <1>1, <1>2, <1>3, <1>4, <1>5 DEF Next

LEMMA SameOutputs ==
  ASSUME NEW h, NEW x
  PROVE  Causal!OutputsOf(h, x) = OutputsOf(h, x)
  BY DEF OutputsOf, OutputAt, StreamAt, Tap, ConvStateLen,
         Causal!OutputsOf, Causal!OutputAt, Causal!StreamAt, Causal!Tap, Causal!ConvStateLen

\* One slot through a forward is a step, or a rest, of the specification.
LEMMA SlotRefines ==
  ASSUME IInv, NEW s \in Slot, NEW job \in Batches, NEW masked \in BOOLEAN,
         masked \/ (job[s].kind = "decode" => HasInitial(s)),
         out'[s] = Conv1d(RowHistory(s, job[s], masked), Len(job[s].x)),
         stream'[s] = IF job[s].kind = "spec" THEN stream[s] ELSE stream[s] \o job[s].x,
         draft'[s] = IF job[s].kind = "spec" THEN job[s].x ELSE draft[s]
  PROVE  \/ Causal!Rest(s)
         \/ \E x \in Chunks(Alphabet[s], MaxModelLen), kept \in BOOLEAN : Causal!Feed(s, x, kept)
<1> DEFINE j == job[s]
           h == stream[s]
<1>1. h \in Seq(Input) /\ j.x \in Seq(Input) /\ j \in Jobs(s)
  BY ForwardFacts DEF IInv, TypeOK
<1>2. CASE j = IdleJob
  <2>1. j.kind = "idle" /\ j.x = << >>
    BY <1>1, <1>2, JobFacts
  <2>2. Conv1d(RowHistory(s, j, masked), 0) = << >>
    BY DEF Conv1d
  <2>3. h \o << >> = h /\ Len(<< >>) = 0
    BY <1>1, ConcatEmptySeq, EmptySeq
  <2> QED
    BY <2>1, <2>2, <2>3 DEF Causal!Rest
<1>3. CASE j # IdleJob
  <2>1. /\ s \in live /\ draft[s] = << >>
        /\ j.x \in Chunks(Alphabet[s], MaxChunk)
        /\ Len(h) + Len(j.x) <= MaxModelLen
    BY <1>1, <1>3, JobFacts
  <2>2. j.x \in Chunks(Alphabet[s], MaxModelLen)
    <3>1. PICK m \in 0 .. MaxChunk : j.x \in [1 .. m -> Alphabet[s]]
      BY <2>1 DEF Chunks
    <3>2. Len(j.x) = m /\ Len(h) \in Nat
      BY <1>1, <3>1, LenProperties
    <3>3. m \in 0 .. MaxModelLen
      BY <2>1, <3>2, LengthAssumption, ChunkAssumption
    <3> QED
      BY <3>1, <3>3 DEF Chunks
  <2>3. out'[s] = Causal!OutputsOf(h, j.x)
    <3>1. Continues(RowHistory(s, j, masked), h, j.x)
      BY <1>1, <1>3, RowHistoryContinues DEF IInv
    <3> QED
      BY <1>1, <3>1, Conv1dIsCausal, SameOutputs
  <2>4. Causal!Feed(s, j.x, j.kind # "spec")
    BY <2>1, <2>3 DEF Causal!Feed
  <2> QED
    BY <2>2, <2>4
<1> QED
  BY <1>2, <1>3

LEMMA StepRefines ==
  ASSUME IInv, IInv', FreeIsEmpty, [Next]_vars
  PROVE  [Causal!Next]_<<live, stream, draft, out>>
<1> USE DEF IInv, TypeOK
<1>1. ASSUME NEW s \in Slot, Admit(s) PROVE Causal!Admit(s)
  <2>1. stream[s] = << >>
    BY <1>1 DEF Admit, FreeIsEmpty
  <2> QED
    BY <1>1, <2>1 DEF Admit, Causal!Admit
<1>2. ASSUME NEW s \in Slot, Release(s) PROVE Causal!Release(s)
  BY <1>2 DEF Release, Causal!Release
<1>3. ASSUME NEW s \in Slot, Accept(s) PROVE Causal!Accept(s)
  BY <1>3 DEF Accept, Causal!Accept
<1>4. CASE Forward
  <2>1. PICK job \in Batches, masked \in BOOLEAN :
          /\ masked \/ \A s \in Slot : job[s].kind = "decode" => HasInitial(s)
          /\ out' = [s \in Slot |-> Conv1d(RowHistory(s, job[s], masked), Len(job[s].x))]
          /\ stream' = [s \in Slot |->
               IF job[s].kind = "spec" THEN stream[s] ELSE stream[s] \o job[s].x]
          /\ draft' = [s \in Slot |->
               IF job[s].kind = "spec" THEN job[s].x ELSE draft[s]]
          /\ UNCHANGED live
    BY <1>4 DEF Forward
  <2>2. ASSUME NEW s \in Slot
        PROVE  \/ Causal!Rest(s)
               \/ \E x \in Chunks(Alphabet[s], MaxModelLen), kept \in BOOLEAN :
                    Causal!Feed(s, x, kept)
    BY <2>1, SlotRefines
  <2>3. /\ stream' = [s \in Slot |-> stream'[s]]
        /\ draft' = [s \in Slot |-> draft'[s]]
        /\ out' = [s \in Slot |-> out'[s]]
    BY <2>1
  <2>4. Causal!Forward
    BY <2>1, <2>2, <2>3 DEF Causal!Forward, Causal!Slot, Slot, Causal!Chunks, Chunks
  <2> QED
    BY <2>4 DEF Causal!Next
<1>5. CASE UNCHANGED vars
  BY <1>5 DEF vars
<1> QED
  BY <1>1, <1>2, <1>3, <1>4, <1>5 DEF Next, Causal!Next, Causal!Slot, Slot

\* The outputs of every forward, on every path, are those of one causal
\* convolution over the inputs the request really consumed.
THEOREM Refinement == Spec => ImplementsCausalConv
<1>1. Init => Causal!Init
  BY DEF Init, Causal!Init, Causal!Slot, Slot
<1>2. Init => FreeIsEmpty
  BY DEF Init, FreeIsEmpty
<1>3. IInv /\ FreeIsEmpty /\ [Next]_vars => FreeIsEmpty'
  BY FreeNext DEF IInv
<1> QED
  BY <1>1, <1>2, <1>3, IInvInit, IInvNext, StepRefines, PTL
  DEF Spec, ImplementsCausalConv, Causal!Spec, Causal!vars

=============================================================================
