----------------------------- MODULE ShortConv ------------------------------
(***************************************************************************)
(* Qwen4ExpPLELayer._short_conv: the dilated short convolution over a      *)
(* cache row per request.  A row keeps the last ConvStateLen inputs of its *)
(* request, and room for NumSpec more, so that the inputs of a speculative *)
(* step survive until the verifier says how many of them count.            *)
(*                                                                         *)
(* A request is named by the cache block it owns.  The scheduler and the   *)
(* metadata builder are vLLM's: the guards of Admit, Release, Accept and   *)
(* Jobs are what the code takes for granted of them.                       *)
(***************************************************************************)
EXTENDS ConvStream, ConvRow

CONSTANT MaxChunk  \* bound of a prefill chunk (max_num_batched_tokens)

ASSUME ChunkAssumption == MaxChunk \in Nat

VARIABLES
  conv_state,  \* conv_state[b]: the row of block b
  live,        \* the blocks owned by a running request
  stream,      \* stream[s]: inputs consumed by the owner of s (history)
  draft,       \* draft[s]: inputs of a speculative step awaiting verification
  out,         \* out[s]: outputs of the last forward for the owner of s
  num_accepted_tokens

vars == <<conv_state, live, stream, draft, out, num_accepted_tokens>>

-----------------------------------------------------------------------------
Init ==
  /\ conv_state = [b \in Block |-> [p \in Position |-> Zero]]
  /\ live = {}
  /\ stream = [s \in Slot |-> << >>]
  /\ draft = [s \in Slot |-> << >>]
  /\ out = [s \in Slot |-> << >>]
  /\ num_accepted_tokens = [s \in Slot |-> 1]

\* A request starts on a free block; the row is still its last owner's.
Admit(s) ==
  /\ s \notin live
  /\ live' = live \union {s}
  /\ UNCHANGED <<conv_state, stream, draft, out, num_accepted_tokens>>

\* The owner of s finishes or is preempted, at any moment.
Release(s) ==
  /\ s \in live
  /\ live' = live \ {s}
  /\ stream' = [stream EXCEPT ![s] = << >>]
  /\ draft' = [draft EXCEPT ![s] = << >>]
  /\ out' = [out EXCEPT ![s] = << >>]
  /\ num_accepted_tokens' = [num_accepted_tokens EXCEPT ![s] = 1]
  /\ UNCHANGED conv_state

\* Mutant: only the accepted drafts are counted, not the input before them.
AcceptDraftsOnly(s) ==
  /\ draft[s] # << >>
  /\ \E a \in 1 .. Len(draft[s]) :
       /\ stream' = [stream EXCEPT ![s] = @ \o SubSeq(draft[s], 1, a)]
       /\ num_accepted_tokens' = [num_accepted_tokens EXCEPT ![s] = a - 1]
  /\ draft' = [draft EXCEPT ![s] = << >>]
  /\ out' = [out EXCEPT ![s] = << >>]
  /\ UNCHANGED <<conv_state, live>>

\* The verifier keeps a non-empty prefix of the candidates.
Accept(s) ==
  /\ draft[s] # << >>
  /\ \E a \in 1 .. Len(draft[s]) :
       /\ stream' = [stream EXCEPT ![s] = @ \o SubSeq(draft[s], 1, a)]
       /\ num_accepted_tokens' = [num_accepted_tokens EXCEPT ![s] = a]
  /\ draft' = [draft EXCEPT ![s] = << >>]
  /\ out' = [out EXCEPT ![s] = << >>]
  /\ UNCHANGED <<conv_state, live>>

-----------------------------------------------------------------------------
\* What a forward does to a row: its path and its inputs.  A request leaves
\* the speculative path only when its window is not rolled back.
IdleJob == [kind |-> "idle", x |-> << >>]

Jobs(s) ==
  {IdleJob}
  \union
  { j \in [kind : {"decode", "prefill", "spec"}, x : Chunks(Alphabet[s], MaxChunk)] :
      /\ s \in live
      /\ draft[s] = << >>
      /\ Len(stream[s]) + Len(j.x) <= MaxModelLen
      /\ j.kind # "spec" => num_accepted_tokens[s] = 1
      /\ j.kind = "decode" => Len(j.x) = 1
      /\ j.kind = "spec" => stream[s] # << >> /\ Len(j.x) \in 1 .. SpecQueryLen }

\* A padding row holds whatever its buffer held before.
PaddingJobs ==
  {IdleJob} \union [kind : {"decode", "spec"}, x : {<<v>> : v \in Input}]

Batches ==
  { job \in [Block -> UNION {Jobs(s) : s \in Slot} \union PaddingJobs] :
      /\ job[NULL_BLOCK_ID] \in PaddingJobs
      /\ \A s \in Slot : job[s] \in Jobs(s) }

Valid(b) == b # NULL_BLOCK_ID

\* has_initial_states: the row continues a stream.
HasInitial(b) == Valid(b) /\ stream[b] # << >>

\* Without has_initial_states_d the decode path takes it for granted.
UseInitial(b, kind, masked) == (kind = "decode" /\ ~masked) \/ HasInitial(b)

RowHistory(b, j, masked) ==
  IF j.kind = "spec"
    THEN SpecHistory(conv_state[b], Valid(b),
                     IF Valid(b) THEN num_accepted_tokens[b] ELSE 1, j.x)
    ELSE PlainHistory(conv_state[b], Valid(b), UseInitial(b, j.kind, masked), j.x)

RowAfter(b, j, masked) ==
  IF j.kind = "spec"
    THEN SpecRow(conv_state[b], Valid(b), RowHistory(b, j, masked), j.x)
    ELSE PlainRow(conv_state[b], Valid(b), RowHistory(b, j, masked), j.x)

\* One batch through _short_conv_dilated_dispatch.  The requests of a batch
\* own distinct blocks, so its three paths do not meet; a row out of the batch
\* goes through as an empty chunk.
Forward ==
  \E job \in Batches, masked \in BOOLEAN :
    /\ masked \/ \A s \in Slot : job[s].kind = "decode" => HasInitial(s)
    /\ conv_state' = [b \in Block |-> RowAfter(b, job[b], masked)]
    /\ out' = [s \in Slot |-> Conv1d(RowHistory(s, job[s], masked), Len(job[s].x))]
    /\ stream' = [s \in Slot |->
         IF job[s].kind = "spec" THEN stream[s] ELSE stream[s] \o job[s].x]
    /\ draft' = [s \in Slot |->
         IF job[s].kind = "spec" THEN job[s].x ELSE draft[s]]
    /\ UNCHANGED <<live, num_accepted_tokens>>

Next ==
  \/ \E s \in Slot : Admit(s) \/ Release(s) \/ Accept(s)
  \/ Forward

Spec == Init /\ [][Next]_vars

-----------------------------------------------------------------------------
\* The types of the variables: candidates never exceed the room of a row, and
\* the verdict on them is a count of 1 .. SpecQueryLen, never 0.
TypeOK ==
  /\ conv_state \in [Block -> [Position -> Value]]
  /\ live \in SUBSET Slot
  /\ stream \in [Slot -> Seq(Input)]
  /\ draft \in [Slot -> Seq(Input)]
  /\ \A s \in Slot : Len(draft[s]) <= SpecQueryLen
  /\ out \in [Slot -> Seq([Tap -> Value])]
  /\ num_accepted_tokens \in [Slot -> 1 .. SpecQueryLen]

\* Where the owner of s will read next, its row holds the end of its own
\* stream, padded with zeros at the start: whatever mix of chunk lengths,
\* paths and rejected candidates led here, and whoever had the block before.
WindowOf(s) ==
  [i \in 0 .. ConvStateLen - 1 |-> conv_state[s][num_accepted_tokens[s] - 1 + i]]

WindowIsEndOfStream ==
  \A s \in Slot :
    stream[s] # << >> /\ draft[s] = << >> =>
      WindowOf(s) = [i \in 0 .. ConvStateLen - 1 |->
                       StreamAt(stream[s], Len(stream[s]) - ConvStateLen + 1 + i)]

\* While candidates await the verifier, the row already holds the window of
\* every verdict it may give: rejecting a suffix needs no copy of the state.
EveryVerdictHasAWindow ==
  \A s \in Slot : draft[s] # << >> =>
    \A a \in 1 .. Len(draft[s]) :
      LET kept == stream[s] \o SubSeq(draft[s], 1, a)
      IN \A i \in 0 .. ConvStateLen - 1 :
           conv_state[s][a - 1 + i] = StreamAt(kept, Len(kept) - ConvStateLen + 1 + i)

\* The padding of a captured graph never changes the reserved block.
NullBlockUntouched == [][conv_state'[NULL_BLOCK_ID] = conv_state[NULL_BLOCK_ID]]_vars

\* Every output is that of one causal convolution over the inputs that were
\* accepted: the cached rows implement the specification without a cache.
Causal == INSTANCE CausalConv
ImplementsCausalConv == Causal!Spec
=============================================================================
