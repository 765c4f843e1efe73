----------------------------- MODULE ConvShape ------------------------------
(***************************************************************************)
(* The shape of the dilated short convolution of Qwen4ExpPLELayer: how far *)
(* an output reaches back, and where the taps of the kernel are.           *)
(***************************************************************************)
EXTENDS Naturals, Integers, Sequences

CONSTANTS
  Kernel,    \* config.ple_conv_kernel_size
  Dilation,  \* config.ngram_size
  Zero       \* the zero vector

ASSUME KernelAssumption == Kernel \in Nat \ {0} /\ Dilation \in Nat \ {0}

\* conv_state_len: how many past inputs an output reaches back to.
ConvStateLen == (Kernel - 1) * Dilation

Tap == 0 .. Kernel - 1

\* The cache block that no request owns.
NULL_BLOCK_ID == 0
=============================================================================
