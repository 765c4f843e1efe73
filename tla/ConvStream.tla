----------------------------- MODULE ConvStream -----------------------------
(***************************************************************************)
(* What the dilated short convolution of Qwen4ExpPLELayer computes, stated *)
(* on whole token streams, without the cache.                              *)
(*                                                                         *)
(* A stream is the sequence of the inputs a request has fed to the layer.  *)
(* An input (a row of the tensor `normalized`) is a value, told apart from *)
(* the others and from the zero vector that pads the start of a stream.    *)
(* The convolution, the activation and the weights are a function of the   *)
(* inputs under the taps of the kernel, so an output is modelled as the    *)
(* tuple of the values under its taps.                                     *)
(***************************************************************************)
EXTENDS ConvShape

CONSTANTS
  NumSlots,     \* cache blocks usable by requests
  Alphabet,     \* Alphabet[s]: the inputs a request that owns block s may feed
  MaxModelLen   \* bound of a stream (max_model_len)

Slot == 1 .. NumSlots
Block == Slot \union {NULL_BLOCK_ID}

Input == UNION { Alphabet[s] : s \in Slot }
Value == Input \union {Zero}

ASSUME SlotsAssumption ==
  /\ NumSlots \in Nat \ {0}
  /\ Zero \notin Input
ASSUME LengthAssumption == MaxModelLen \in Nat

\* Sequences of at most n elements of S.
Chunks(S, n) == UNION { [1 .. m -> S] : m \in 0 .. n }

\* The i-th input of a stream; the layer sees zeros before its first input.
StreamAt(h, i) == IF i \in 1 .. Len(h) THEN h[i] ELSE Zero

\* The output at position i of a stream: the values under the taps, the
\* last tap on the input itself.
OutputAt(h, i) ==
  [j \in Tap |-> StreamAt(h, i - ConvStateLen + j * Dilation)]

\* The outputs of a chunk x that continues the stream h.
OutputsOf(h, x) == [i \in 1 .. Len(x) |-> OutputAt(h \o x, Len(h) + i)]

=============================================================================
