---------------------------- MODULE WeightFormat ----------------------------
(***************************************************************************)
(* moe_wna16_weight_loader: the conversion of an AWQ or GPTQ tensor to the *)
(* bytes the kernel reads.  ExpertLoading takes over from there.           *)
(*                                                                         *)
(* numbers[<<r, n>>] is the quantized number of row r and output feature   *)
(* n.  A row is an input feature, or a group of them for zeros and scales. *)
(* An int32 is the sequence of its bytes, the least significant first, as  *)
(* view(torch.uint8) shows them.                                           *)
(***************************************************************************)
EXTENDS Integers

CONSTANTS
  Rows, Outputs,  \* the shape of a tensor
  Tensors         \* the numbers to try: functions on Cells

Cells == (0 .. Rows - 1) \X (0 .. Outputs - 1)
ASSUME ShapeAssumption ==
  {Rows, Outputs} \subseteq {n \in Nat \ {0} : n % 8 = 0}
ASSUME TensorsAssumption == Tensors \subseteq [Cells -> 0 .. 255]

\* Numbers of `bits` bits per byte and per int32.
BytePack(bits) == 8 \div bits
IntPack(bits) == 32 \div bits

-----------------------------------------------------------------------------
(***************************************************************************)
(* The checkpoint.                                                         *)
(***************************************************************************)

\* Which of its eight output features AutoAWQ puts into each nibble.
AwqOrder == <<0, 2, 4, 6, 1, 3, 5, 7>>

\* (rows, n // 8): eight output features of a row.
AwqInts(numbers) ==
  [c \in (0 .. Rows - 1) \X (0 .. (Outputs \div 8) - 1) |->
     [j \in 0 .. 3 |-> numbers[<<c[1], 8 * c[2] + AwqOrder[2 * j + 1]>>]
                       + 16 * numbers[<<c[1], 8 * c[2] + AwqOrder[2 * j + 2]>>]]]

\* (rows // pack, n): successive input features of an output feature.
GptqWeightInts(bits, numbers) ==
  [c \in (0 .. (Rows \div IntPack(bits)) - 1) \X (0 .. Outputs - 1) |->
     [j \in 0 .. 3 |->
        IF bits = 8 THEN numbers[<<4 * c[1] + j, c[2]>>]
        ELSE numbers[<<8 * c[1] + 2 * j, c[2]>>] + 16 * numbers[<<8 * c[1] + 2 * j + 1, c[2]>>]]]

\* (rows, n // pack): successive output features of a group; zeros less one.
GptqZeroInts(bits, numbers) ==
  [c \in (0 .. Rows - 1) \X (0 .. (Outputs \div IntPack(bits)) - 1) |->
     [j \in 0 .. 3 |->
        IF bits = 8 THEN numbers[<<c[1], 4 * c[2] + j>>] - 1
        ELSE (numbers[<<c[1], 8 * c[2] + 2 * j>>] - 1)
             + 16 * (numbers[<<c[1], 8 * c[2] + 2 * j + 1>>] - 1)]]

-----------------------------------------------------------------------------
(***************************************************************************)
(* The conversions.                                                        *)
(***************************************************************************)

\* Mutant: the nibbles keep the order of the checkpoint.
PackOrder == <<0, 2, 4, 6, 1, 3, 5, 7>>

\* reverse_awq_pack_order.
ReverseAwqPackOrder == <<0, 4, 1, 5, 2, 6, 3, 7>>

\* (byte >> shifter) & 0xF: nibble 0 or 1 of a byte.
Nibble(byte, i) == (IF i = 0 THEN byte ELSE byte \div 16) % 16

\* Two numbers in a byte, in uint8.
Repack(first, second) == (second * 16 + first) % 256

\* convert_awq_tensor: view, unpack, change order, transpose, repack.
ConvertAwqTensor(kind, x) ==
  LET byte(r, b) == x[<<r, b \div 4>>][b % 4]
      unpacked(r, m) == Nibble(byte(r, m \div 2), m % 2)
      t(m, r) == unpacked(r, 8 * (m \div 8) + ReverseAwqPackOrder[(m % 8) + 1])
  IN IF kind = "qweight"
       THEN [c \in (0 .. Outputs - 1) \X (0 .. (Rows \div 2) - 1) |->
               Repack(t(c[1], 2 * c[2]), t(c[1], 2 * c[2] + 1))]
       ELSE [c \in (0 .. (Outputs \div 2) - 1) \X (0 .. Rows - 1) |->
               Repack(t(2 * c[1], c[2]), t(2 * c[1] + 1, c[2]))]

\* T.contiguous().view(torch.uint8).
ConvertGptqWeight(bits, x) ==
  [c \in (0 .. Outputs - 1) \X (0 .. (Rows \div BytePack(bits)) - 1) |-> x[<<c[2] \div 4, c[1]>>][c[2] % 4]]

\* convert_gptq_int4_qzeros, or one added to each byte; then transposed.
ConvertGptqZeros(bits, x) ==
  [c \in (0 .. (Outputs \div BytePack(bits)) - 1) \X (0 .. Rows - 1) |->
     LET byte == x[<<c[2], c[1] \div 4>>][c[1] % 4]
     IN IF bits = 4 THEN Repack(Nibble(byte, 0) + 1, Nibble(byte, 1) + 1)
        ELSE (byte + 1) % 256]

\* Scales are transposed.
ConvertScales(x) == [c \in (0 .. Outputs - 1) \X (0 .. Rows - 1) |-> x[<<c[2], c[1]>>]]

\* The branches of the loader on the format and on the name of the tensor.
Converted(method, bits, kind, numbers) ==
  CASE kind = "scales" -> ConvertScales(numbers)
    [] kind # "scales" /\ method = "awq" -> ConvertAwqTensor(kind, AwqInts(numbers))
    [] kind = "qweight" /\ method = "gptq" -> ConvertGptqWeight(bits, GptqWeightInts(bits, numbers))
    [] kind = "qzeros" /\ method = "gptq" -> ConvertGptqZeros(bits, GptqZeroInts(bits, numbers))

-----------------------------------------------------------------------------
\* The tensors to try.  GPTQ stores a zero less one: no zero is 0.
Representable(method, bits, kind) ==
  {numbers \in Tensors : \A c \in Cells :
     /\ numbers[c] < (IF bits = 4 THEN 16 ELSE 256)
     /\ method = "gptq" /\ kind = "qzeros" => numbers[c] > 0}

\* What the kernel reads for row r and output feature n: weights are packed
\* along the rows, zeros along the output features.
ReadBack(bits, kind, converted, r, n) ==
  CASE kind = "qweight" -> IF bits = 8 THEN converted[<<n, r>>]
                           ELSE Nibble(converted[<<n, r \div 2>>], r % 2)
    [] kind = "qzeros" -> IF bits = 8 THEN converted[<<n, r>>]
                          ELSE Nibble(converted[<<n \div 2, r>>], n % 2)
    [] kind = "scales" -> converted[<<n, r>>]
=============================================================================
