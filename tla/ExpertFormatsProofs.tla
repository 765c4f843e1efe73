------------------------ MODULE ExpertFormatsProofs -------------------------
(***************************************************************************)
(* Proofs about ExpertFormats, for every layout and kind of tensor, every  *)
(* number of experts, of their copies and of ranks, and every size.        *)
(***************************************************************************)
EXTENDS ExpertFormats, TLAPS

-----------------------------------------------------------------------------
(***************************************************************************)
(* Quotients.                                                              *)
(***************************************************************************)
LEMMA QuotientIs ==
  ASSUME NEW v \in Nat, NEW c \in Nat \ {0}
  PROVE  v \div c \in Nat /\ v % c \in 0 .. c - 1 /\ v = (v \div c) * c + (v % c)
OBVIOUS

LEMMA DivisorAndRest ==
  ASSUME NEW a \in Nat, NEW c \in Nat \ {0}, NEW b \in 0 .. c - 1, NEW v \in Nat
  PROVE  (v \div c = a /\ v % c = b) <=> v = a * c + b
OBVIOUS

LEMMA WholeQuotient ==
  ASSUME NEW v \in Nat, NEW c \in Nat \ {0}, v % c = 0
  PROVE  v \div c \in Nat /\ (v \div c) * c = v
OBVIOUS

LEMMA MultipleQuotient ==
  ASSUME NEW m \in Nat, NEW c \in Nat \ {0}
  PROVE  (m * c) \div c = m /\ (m * c) % c = 0
OBVIOUS

LEMMA NestedQuotient ==
  ASSUME NEW v \in Nat, NEW b \in Nat \ {0}, NEW c \in Nat \ {0}
  PROVE  v \div (b * c) = (v \div b) \div c
OBVIOUS

\* A number of fine blocks in coarse blocks.
LEMMA CoarseQuotient ==
  ASSUME NEW v \in Nat, NEW f \in Nat \ {0}, NEW g \in Nat \ {0}
  PROVE  (v * g) \div (f * g) = v \div f
<1>1. (v * g) \div g = v
  BY MultipleQuotient
<1>2. (v * g) \div (g * f) = ((v * g) \div g) \div f
  <2>1. PICK u \in Nat : u = v * g
    OBVIOUS
  <2>2. u \div (g * f) = (u \div g) \div f
    BY NestedQuotient
  <2> QED BY <2>1, <2>2, Zenon
<1>3. f * g = g * f
  OBVIOUS
<1> QED BY <1>1, <1>2, <1>3, Zenon

-----------------------------------------------------------------------------
(***************************************************************************)
(* The experts of a rank and the parts of the checkpoint they need.        *)
(***************************************************************************)
Physical(l) ==
  IF EpSize = 1 THEN l
  ELSE IF placement = "linear" THEN rank * (NumPhysical \div EpSize) + l
  ELSE l * EpSize + rank

\* The shards of a tensor.
ShardsOf(proj) ==
  CASE proj = "gate" -> {"w1"} [] proj = "up" -> {"w3"}
    [] proj = "down" -> {"w2"} [] proj = "gate_up" -> {"w1", "w3"}

\* Tensor t holds a shard of local expert l.  Tensors of all experts are given
\* to the physical experts of the same number.
Brings(t, l, shard) ==
  /\ shard \in ShardsOf(t.proj)
  /\ IF t.expert = All THEN Physical(l) < NumLogical ELSE LogicalExpert(l) = t.expert

Arrived(l, shard) == \E t \in Checkpoint \ todo : Brings(t, l, shard)

\* A shard of expert e, as the checkpoint of one tensor each stores it.
Plain(e, shard) ==
  [rows |-> Rows(shard), cols |-> Cols(shard),
   at |-> [c \in Cells(Rows(shard), Cols(shard)) |-> <<e, shard, c[1], c[2]>>]]

\* The sizes of the blocks of a parameter and of the checkpoint.
Grid == IF kind = "block_scale" THEN RefinedBlock ELSE 1
Coarse == IF kind = "block_scale" THEN Block ELSE 1

\* The shard a cell of a parameter belongs to.
IsUp(c) == c[1] * Grid >= PaddedIntermediate
RowFeature(c) == (c[1] * Grid) - (IF IsUp(c) THEN PaddedIntermediate ELSE 0)
ShardOf(name, c) ==
  CASE kind = "tensor_scale" -> IF name = "w2" THEN "w2" ELSE IF c[1] = 0 THEN "w1" ELSE "w3"
    [] kind # "tensor_scale" /\ name = "w13" ->
         IF ~IsFeature(RowFeature(c)) \/ c[2] * Grid >= Hidden THEN "none"
         ELSE IF IsUp(c) THEN "w3" ELSE "w1"
    [] kind \in {"bias", "channel_scale"} /\ name = "w2" ->
         IF c[1] >= Hidden THEN "none" ELSE "w2"
    [] OTHER -> IF c[1] * Grid >= Hidden \/ ~IsFeature(c[2] * Grid) THEN "none" ELSE "w2"

\* What a cell holds when some tensors have come.
IsThere(name, l, c) == \E shard \in Shards : ShardOf(name, c) = shard /\ Arrived(l, shard)
Content(name, l, c) == IF IsThere(name, l, c) THEN SourceOf(name, l, c) ELSE Empty

CellsOf(name) == Cells(ParamRows(name), ParamCols(name))
HasParam == kind # "input_scale" /\ (kind = "bias" => HasBias)

-----------------------------------------------------------------------------
(***************************************************************************)
(* The inductive invariant.                                                *)
(***************************************************************************)
ChoicesInv ==
  /\ config \in Configs
  /\ format \in config.formats /\ kind \in config.kinds /\ Supported(format, kind)
  /\ transposed \in BOOLEAN /\ (transposed => format = "fused_3d")
  /\ num_redundant \in config.redundancies
  /\ placement \in {"linear", "round_robin"}
  /\ rank \in 0 .. (IF EpSize > 1 THEN EpSize ELSE TpSize) - 1
  /\ kind = "input_scale" =>
       input_value \in [0 .. NumLogical - 1 -> [Shards -> config.input_scales]]

LoadingInv ==
  /\ todo \subseteq Checkpoint
  /\ failed \in BOOLEAN
  /\ kind # "input_scale" => ~failed

\* Each cell holds its source once the tensor it is in has come.
ParamInv ==
  IF HasParam
    THEN /\ DOMAIN param = Names
         /\ \A name \in Names :
              param[name] = [l \in LocalExperts |-> [c \in CellsOf(name) |-> Content(name, l, c)]]
    ELSE param = <<>>

\* The scale of a shard that has come is in its place, and stays there.
ScaleInv ==
  kind = "input_scale" /\ 1 \notin config.input_scales /\ ~failed =>
    \A l \in LocalExperts : \A shard \in Shards :
      Arrived(l, shard) => input_scale[NameOf(shard)][l] = input_value[LogicalExpert(l)][shard]

IInv == ChoicesInv /\ LoadingInv /\ ParamInv /\ ScaleInv

-----------------------------------------------------------------------------
(***************************************************************************)
(* Sizes.                                                                  *)
(***************************************************************************)
LEMMA ConfigSizes ==
  ASSUME ChoicesInv
  PROVE  /\ {NumLogical, EpSize, TpSize, Block, RefinedBlock, Intermediate, Hidden,
             PaddedIntermediate, PaddedHidden} \subseteq Nat \ {0}
         /\ num_redundant \in Nat /\ NumPhysical \in Nat \ {0} /\ NumPhysical % EpSize = 0
         /\ EpSize = 1 \/ TpSize = 1
         /\ Intermediate % TpSize = 0 /\ Intermediate \div TpSize <= PaddedIntermediate
         /\ Hidden <= PaddedHidden /\ Block % RefinedBlock = 0
         /\ Intermediate % Block = 0 /\ Hidden % Block = 0
         /\ (Intermediate \div TpSize) % RefinedBlock = 0
         /\ PaddedIntermediate % RefinedBlock = 0 /\ PaddedHidden % RefinedBlock = 0
         /\ rank \in Nat /\ (EpSize > 1 => rank < EpSize) /\ (EpSize = 1 => rank < TpSize)
         /\ format \in {"per_expert", "per_expert_fused", "fused_3d"}
         /\ kind \in {"weight", "bias", "channel_scale", "block_scale", "tensor_scale", "input_scale"}
<1>1. config \in Configs
  BY DEF ChoicesInv
<1>2. /\ {NumLogical, EpSize, TpSize, Block, RefinedBlock} \subseteq Nat \ {0}
      /\ EpSize = 1 \/ TpSize = 1
  BY <1>1, ExpertsAssumption DEF NumLogical, EpSize, TpSize, Block, RefinedBlock
<1>3. num_redundant \in Nat /\ (NumLogical + num_redundant) % EpSize = 0
  BY <1>1, ExpertsAssumption DEF ChoicesInv, NumLogical, EpSize
<1>4. NumPhysical \in Nat \ {0} /\ NumPhysical % EpSize = 0
  BY <1>2, <1>3 DEF NumPhysical
<1>5. /\ {Intermediate, Hidden, PaddedIntermediate, PaddedHidden} \subseteq Nat \ {0}
      /\ Intermediate % TpSize = 0 /\ Intermediate \div TpSize <= PaddedIntermediate
      /\ Hidden <= PaddedHidden
  BY <1>1, PaddingAssumption DEF Intermediate, Hidden, PaddedIntermediate, PaddedHidden, TpSize
<1>6. /\ Block % RefinedBlock = 0 /\ Intermediate % Block = 0 /\ Hidden % Block = 0
      /\ (Intermediate \div TpSize) % RefinedBlock = 0
      /\ PaddedIntermediate % RefinedBlock = 0 /\ PaddedHidden % RefinedBlock = 0
  BY <1>1, BlockAssumption
     DEF Block, RefinedBlock, Intermediate, Hidden, PaddedIntermediate, PaddedHidden, TpSize
<1>7. rank \in Nat /\ (EpSize > 1 => rank < EpSize) /\ (EpSize = 1 => rank < TpSize)
  BY <1>2 DEF ChoicesInv
<1>8. /\ format \in {"per_expert", "per_expert_fused", "fused_3d"}
      /\ kind \in {"weight", "bias", "channel_scale", "block_scale", "tensor_scale", "input_scale"}
  BY <1>1, KindsAssumption DEF ChoicesInv
<1> QED BY <1>2, <1>3, <1>4, <1>5, <1>6, <1>7, <1>8

-----------------------------------------------------------------------------
(***************************************************************************)
(* Where experts are.                                                      *)
(***************************************************************************)

\* Each local expert of a rank is one physical expert.
LEMMA Located ==
  ASSUME ChoicesInv, NEW l \in LocalExperts
  PROVE  /\ Physical(l) \in 0 .. NumPhysical - 1
         /\ \A p \in 0 .. NumPhysical - 1 : LocalExpertId(p) = l <=> p = Physical(l)
<1>1. PICK all \in Nat \ {0}, ep \in Nat \ {0}, r \in Nat :
        /\ all = NumPhysical /\ ep = EpSize /\ r = rank
        /\ all % ep = 0 /\ (ep > 1 => r < ep)
  BY ConfigSizes
<1>2. PICK n \in Nat : n = all \div ep /\ n * ep = all
  BY <1>1, WholeQuotient
<1>3. l \in 0 .. n - 1 /\ l \in Nat /\ n # 0
  BY <1>1, <1>2 DEF LocalExperts
<1>4. CASE ep = 1
  <2>1. Physical(l) = l /\ \A p : LocalExpertId(p) = p
    BY <1>1, <1>4 DEF Physical, LocalExpertId
  <2> QED BY <1>1, <1>2, <1>3, <1>4, <2>1
<1>5. CASE ep > 1 /\ placement = "linear"
  <2>1. Physical(l) = r * n + l /\ \A p : LocalExpertId(p) = IF p \div n = r THEN p % n ELSE -1
    BY <1>1, <1>2, <1>5 DEF Physical, LocalExpertId
  <2>2. ASSUME NEW p \in 0 .. all - 1
        PROVE  LocalExpertId(p) = l <=> p = r * n + l
    <3>1. (p \div n = r /\ p % n = l) <=> p = r * n + l
      BY <1>3, DivisorAndRest
    <3> QED BY <1>3, <2>1, <3>1
  <2>3. r * n + l \in 0 .. all - 1
    <3>1. r <= ep - 1
      BY <1>1, <1>5
    <3>2. r * n <= (ep - 1) * n
      BY <1>1, <1>2, <3>1
    <3>3. (ep - 1) * n = n * ep - n /\ r * n \in Nat
      BY <1>1, <1>2
    <3> QED BY <1>1, <1>2, <1>3, <3>2, <3>3
  <2> QED BY <1>1, <2>1, <2>2, <2>3
<1>6. CASE ep > 1 /\ placement = "round_robin"
  <2>1. /\ Physical(l) = l * ep + r
        /\ \A p : LocalExpertId(p) = IF p % ep = r THEN p \div ep ELSE -1
    BY <1>1, <1>6 DEF Physical, LocalExpertId
  <2>2. ASSUME NEW p \in 0 .. all - 1
        PROVE  LocalExpertId(p) = l <=> p = l * ep + r
    <3>1. (p \div ep = l /\ p % ep = r) <=> p = l * ep + r
      BY <1>1, <1>3, <1>6, DivisorAndRest
    <3> QED BY <1>3, <2>1, <3>1
  <2>3. l * ep + r \in 0 .. all - 1
    <3>1. l <= n - 1
      BY <1>2, <1>3
    <3>2. l * ep <= (n - 1) * ep
      BY <1>1, <1>2, <1>3, <3>1
    <3>3. (n - 1) * ep = n * ep - ep /\ l * ep \in Nat
      BY <1>1, <1>2, <1>3
    <3> QED BY <1>1, <1>2, <1>3, <1>6, <3>2, <3>3
  <2> QED BY <1>1, <2>1, <2>2, <2>3
<1>7. placement \in {"linear", "round_robin"}
  BY DEF ChoicesInv
<1> QED BY <1>1, <1>4, <1>5, <1>6, <1>7

LEMMA Logical ==
  ASSUME ChoicesInv
  PROVE  /\ \A p \in 0 .. NumPhysical - 1 : PhysicalToLogical(p) \in 0 .. NumLogical - 1
         /\ \A p \in 0 .. NumLogical - 1 : PhysicalToLogical(p) = p
         /\ NumLogical <= NumPhysical
         /\ \A l \in LocalExperts : /\ LogicalExpert(l) = PhysicalToLogical(Physical(l))
                                    /\ LogicalExpert(l) \in 0 .. NumLogical - 1
<1>1. NumLogical \in Nat \ {0} /\ num_redundant \in Nat /\ NumPhysical = NumLogical + num_redundant
  BY ConfigSizes DEF NumPhysical
<1>2. \A p \in 0 .. NumLogical - 1 : PhysicalToLogical(p) = p
  BY <1>1 DEF PhysicalToLogical
<1>3. ASSUME NEW p \in 0 .. NumPhysical - 1
      PROVE  PhysicalToLogical(p) \in 0 .. NumLogical - 1
  <2>1. CASE p < NumLogical
    BY <1>1, <2>1 DEF PhysicalToLogical
  <2>2. CASE p >= NumLogical
    <3>1. PICK v \in Nat : v = p - NumLogical
      BY <1>1, <2>2
    <3>2. v % NumLogical \in 0 .. NumLogical - 1
      BY <1>1, QuotientIs
    <3> QED BY <1>1, <2>2, <3>1, <3>2 DEF PhysicalToLogical
  <2> QED BY <1>1, <2>1, <2>2
<1>4. ASSUME NEW l \in LocalExperts
      PROVE  LogicalExpert(l) = PhysicalToLogical(Physical(l))
  BY DEF LogicalExpert, Physical
<1> QED BY <1>1, <1>2, <1>3, <1>4, Located

-----------------------------------------------------------------------------
(***************************************************************************)
(* In every layout of the checkpoint the loader is handed plain shards.    *)
(***************************************************************************)

\* Gate over up.
Stacked(e) ==
  [rows |-> 2 * Rows("w1"), cols |-> Cols("w1"),
   at |-> [c \in Cells(2 * Rows("w1"), Cols("w1")) |->
             <<e, IF c[1] < Rows("w1") THEN "w1" ELSE "w3", c[1] % Rows("w1"), c[2]>>]]

LEMMA SizesOfShards ==
  ASSUME ChoicesInv, kind # "input_scale"
  PROVE  /\ \A shard \in Shards : Rows(shard) \in Nat \ {0} /\ Cols(shard) \in Nat \ {0}
         /\ Rows("w1") = Rows("w3") /\ Cols("w1") = Cols("w3")
<1>1. /\ {Intermediate, Hidden, Block} \subseteq Nat \ {0}
      /\ Intermediate % Block = 0 /\ Hidden % Block = 0
      /\ kind \in {"weight", "bias", "channel_scale", "block_scale", "tensor_scale"}
  BY ConfigSizes
<1>2. ASSUME NEW v \in {Intermediate, Hidden} PROVE v \div Block \in Nat \ {0}
  <2>1. v \div Block \in Nat /\ (v \div Block) * Block = v /\ v \in Nat \ {0}
    BY <1>1, WholeQuotient
  <2> QED BY <1>1, <2>1
<1>3. ASSUME NEW shard \in Shards PROVE Rows(shard) \in Nat \ {0}
  BY <1>1, <1>2 DEF Rows
<1>4. ASSUME NEW shard \in Shards PROVE Cols(shard) \in Nat \ {0}
  BY <1>1, <1>2 DEF Cols
<1>5. Rows("w1") = Rows("w3") /\ Cols("w1") = Cols("w3")
  BY <1>1 DEF Rows, Cols
<1> QED BY <1>3, <1>4, <1>5

LEMMA TransposedTwice ==
  ASSUME NEW rows, NEW cols, NEW at,
         at = [c \in Cells(rows, cols) |-> at[c]]
  PROVE  Transpose(Transpose([rows |-> rows, cols |-> cols, at |-> at]))
           = [rows |-> rows, cols |-> cols, at |-> at]
<1> DEFINE x == [rows |-> rows, cols |-> cols, at |-> at]
           y == Transpose(x)
           z == Transpose(y)
<1>1. /\ y.rows = cols /\ y.cols = rows
      /\ y.at = [c \in Cells(cols, rows) |-> at[<<c[2], c[1]>>]]
  BY DEF Transpose
<1>2. /\ z = [rows |-> rows, cols |-> cols,
              at |-> [c \in Cells(rows, cols) |-> y.at[<<c[2], c[1]>>]]]
  BY <1>1 DEF Transpose
<1>3. ASSUME NEW c \in Cells(rows, cols) PROVE y.at[<<c[2], c[1]>>] = at[c]
  <2>1. <<c[2], c[1]>> \in Cells(cols, rows) /\ c = <<c[1], c[2]>>
    BY DEF Cells
  <2> QED BY <1>1, <2>1
<1> HIDE DEF y
<1>4. [c \in Cells(rows, cols) |-> y.at[<<c[2], c[1]>>]] = at
  BY <1>3
<1>5. z = x
  BY <1>2, <1>4
<1> QED BY <1>5 DEF y

LEMMA ChunksOfStacked ==
  ASSUME ChoicesInv, kind # "input_scale", NEW e
  PROVE  Chunk(Stacked(e), 0) = Plain(e, "w1") /\ Chunk(Stacked(e), 1) = Plain(e, "w3")
<1>1. PICK n \in Nat \ {0} : n = Rows("w1") /\ n = Rows("w3")
  BY SizesOfShards DEF Shards
<1>2. PICK cols \in Nat \ {0} : cols = Cols("w1") /\ cols = Cols("w3")
  BY SizesOfShards DEF Shards
<1> DEFINE x == Stacked(e)
<1>3. /\ x.rows = 2 * n /\ x.cols = cols /\ x.rows \div 2 = n
      /\ x.at = [c \in Cells(2 * n, cols) |-> <<e, IF c[1] < n THEN "w1" ELSE "w3", c[1] % n, c[2]>>]
  BY <1>1, <1>2 DEF Stacked
<1> HIDE DEF x
<1>4. ASSUME NEW c \in Cells(n, cols)
      PROVE  x.at[<<0 * n + c[1], c[2]>>] = <<e, "w1", c[1], c[2]>>
  <2>1. c[1] \in 0 .. n - 1 /\ c[2] \in 0 .. cols - 1
    BY DEF Cells
  <2>2. 0 * n + c[1] = c[1] /\ <<c[1], c[2]>> \in Cells(2 * n, cols) /\ c[1] % n = c[1]
    BY <1>1, <2>1 DEF Cells
  <2> QED BY <1>3, <2>1, <2>2
<1>5. ASSUME NEW c \in Cells(n, cols)
      PROVE  x.at[<<1 * n + c[1], c[2]>>] = <<e, "w3", c[1], c[2]>>
  <2>1. c[1] \in 0 .. n - 1 /\ c[2] \in 0 .. cols - 1
    BY DEF Cells
  <2>2. PICK k \in Nat : k = n + c[1] /\ 1 * n + c[1] = k
    BY <2>1
  <2>3. k % n = c[1]
    <3>1. PICK rest \in 0 .. n - 1 : rest = c[1]
      BY <2>1
    <3>2. (k \div n = 1 /\ k % n = rest) <=> k = 1 * n + rest
      BY DivisorAndRest
    <3> QED BY <2>2, <3>1, <3>2
  <2>4. <<k, c[2]>> \in Cells(2 * n, cols) /\ ~(k < n)
    BY <1>1, <2>1, <2>2 DEF Cells
  <2>5. x.at[<<k, c[2]>>] = <<e, "w3", c[1], c[2]>>
    BY <1>3, <2>3, <2>4
  <2> QED BY <2>2, <2>5
<1>6. \A i : Chunk(x, i) = [rows |-> n, cols |-> cols,
                            at |-> [c \in Cells(n, cols) |-> x.at[<<i * n + c[1], c[2]>>]]]
  BY <1>3 DEF Chunk
<1>7. Chunk(x, 0) = Plain(e, "w1")
  <2>1. [c \in Cells(n, cols) |-> x.at[<<0 * n + c[1], c[2]>>]]
          = [c \in Cells(n, cols) |-> <<e, "w1", c[1], c[2]>>]
    BY <1>4
  <2>2. Chunk(x, 0) = [rows |-> n, cols |-> cols,
                       at |-> [c \in Cells(n, cols) |-> x.at[<<0 * n + c[1], c[2]>>]]]
    BY <1>6
  <2>3. Plain(e, "w1") = [rows |-> n, cols |-> cols,
                          at |-> [c \in Cells(n, cols) |-> <<e, "w1", c[1], c[2]>>]]
    BY <1>1, <1>2 DEF Plain
  <2> QED BY <2>1, <2>2, <2>3
<1>8. Chunk(x, 1) = Plain(e, "w3")
  <2>1. [c \in Cells(n, cols) |-> x.at[<<1 * n + c[1], c[2]>>]]
          = [c \in Cells(n, cols) |-> <<e, "w3", c[1], c[2]>>]
    BY <1>5
  <2>2. Chunk(x, 1) = [rows |-> n, cols |-> cols,
                       at |-> [c \in Cells(n, cols) |-> x.at[<<1 * n + c[1], c[2]>>]]]
    BY <1>6
  <2>3. Plain(e, "w3") = [rows |-> n, cols |-> cols,
                          at |-> [c \in Cells(n, cols) |-> <<e, "w3", c[1], c[2]>>]]
    BY <1>1, <1>2 DEF Plain
  <2> QED BY <2>1, <2>2, <2>3
<1> QED BY <1>7, <1>8 DEF x

\* Stored with the input features first or not, a tensor is turned back.
LEMMA OrientedIs ==
  ASSUME ChoicesInv, kind # "input_scale", NEW e
  PROVE  /\ format # "fused_3d" =>
              /\ StoredIn("gate", e) = Plain(e, "w1") /\ StoredIn("up", e) = Plain(e, "w3")
              /\ StoredIn("down", e) = Plain(e, "w2") /\ StoredIn("gate_up", e) = Stacked(e)
         /\ format = "fused_3d" =>
              /\ Oriented(StoredIn("down", e)) = Plain(e, "w2")
              /\ Oriented(StoredIn("gate_up", e)) = Stacked(e)
<1> DEFINE Turned(x) == IF transposed /\ kind \in {"weight", "block_scale"} THEN Transpose(x) ELSE x
<1>1. /\ StoredIn("gate", e) = Turned(Plain(e, "w1")) /\ StoredIn("up", e) = Turned(Plain(e, "w3"))
      /\ StoredIn("down", e) = Turned(Plain(e, "w2"))
  BY DEF StoredIn, Plain
<1>2. StoredIn("gate_up", e) = Turned(Stacked(e))
  BY DEF StoredIn, Stacked
<1>3. Transpose(Transpose(Plain(e, "w2"))) = Plain(e, "w2")
  <2> DEFINE at == [c \in Cells(Rows("w2"), Cols("w2")) |-> <<e, "w2", c[1], c[2]>>]
  <2>1. at = [c \in Cells(Rows("w2"), Cols("w2")) |-> at[c]]
    OBVIOUS
  <2> HIDE DEF at
  <2>2. Plain(e, "w2") = [rows |-> Rows("w2"), cols |-> Cols("w2"), at |-> at]
    BY DEF Plain, at
  <2>3. PICK rows, cols : rows = Rows("w2") /\ cols = Cols("w2")
    OBVIOUS
  <2>4. at = [c \in Cells(rows, cols) |-> at[c]]
    BY <2>1, <2>3
  <2>5. Transpose(Transpose([rows |-> rows, cols |-> cols, at |-> at]))
          = [rows |-> rows, cols |-> cols, at |-> at]
    BY <2>4, TransposedTwice
  <2> QED BY <2>2, <2>3, <2>5
<1>4. Transpose(Transpose(Stacked(e))) = Stacked(e)
  <2> DEFINE at == [c \in Cells(2 * Rows("w1"), Cols("w1")) |->
                      <<e, IF c[1] < Rows("w1") THEN "w1" ELSE "w3", c[1] % Rows("w1"), c[2]>>]
  <2>1. at = [c \in Cells(2 * Rows("w1"), Cols("w1")) |-> at[c]]
    OBVIOUS
  <2> HIDE DEF at
  <2>2. Stacked(e) = [rows |-> 2 * Rows("w1"), cols |-> Cols("w1"), at |-> at]
    BY DEF Stacked, at
  <2>3. PICK rows, cols : rows = 2 * Rows("w1") /\ cols = Cols("w1")
    OBVIOUS
  <2>4. at = [c \in Cells(rows, cols) |-> at[c]]
    BY <2>1, <2>3
  <2>5. Transpose(Transpose([rows |-> rows, cols |-> cols, at |-> at]))
          = [rows |-> rows, cols |-> cols, at |-> at]
    BY <2>4, TransposedTwice
  <2> QED BY <2>2, <2>3, <2>5
<1>5. format = "fused_3d" => kind \in {"weight", "channel_scale", "block_scale"}
  BY DEF ChoicesInv, Supported
<1>6. format = "fused_3d" =>
        \A x : Oriented(x) = Turned(x)
  BY <1>5 DEF Oriented
<1>7. format # "fused_3d" => ~transposed
  BY DEF ChoicesInv
<1> QED BY <1>1, <1>2, <1>3, <1>4, <1>6, <1>7

\* The part of a tensor that the loader is handed for a local expert.
Loaded(t, l, shard) ==
  {x \in UNION {LoadedExperts(t, entry) : entry \in Entries(t)} :
     LocalExpertId(x.expert) = l /\ x.shard = shard}
Part(l, shard) ==
  [expert |-> Physical(l), shard |-> shard, weight |-> Plain(LogicalExpert(l), shard)]

LEMMA TensorKinds ==
  ASSUME ChoicesInv, NEW t \in Checkpoint
  PROVE  \/ /\ format \in {"per_expert", "per_expert_fused"} /\ t.expert # All
            /\ t.expert \in 0 .. NumLogical - 1
            /\ t.proj \in {"gate", "up", "down", "gate_up"}
            /\ ShardsOf(t.proj) \subseteq Shards
            /\ Entries(t) = {p \in 0 .. NumPhysical - 1 : PhysicalToLogical(p) = t.expert} \X ShardsOf(t.proj)
         \/ /\ format = "fused_3d" /\ t.expert = All /\ t.proj \in {"gate_up", "down"}
            /\ Entries(t) = IF t.proj = "down" THEN {<<0, "w2">>} ELSE {<<0, "w1">>, <<1, "w3">>}
<1>1. CASE format \in {"per_expert", "per_expert_fused"}
  <2>1. t.expert \in 0 .. NumLogical - 1 /\ t.proj \in {"gate", "up", "down", "gate_up"}
    BY <1>1 DEF Checkpoint
  <2>2. t.expert # All /\ ShardsOf(t.proj) \subseteq Shards
    BY <2>1, ConfigSizes DEF All, ShardsOf, Shards
  <2>3. Entries(t) = {p \in 0 .. NumPhysical - 1 : PhysicalToLogical(p) = t.expert} \X ShardsOf(t.proj)
    BY <2>2, Zenon DEF Entries, ShardsOf
  <2> QED BY <1>1, <2>1, <2>2, <2>3
<1>2. CASE format = "fused_3d"
  <2>1. t.expert = All /\ t.proj \in {"gate_up", "down"}
    BY <1>2 DEF Checkpoint
  <2>2. Entries(t) = IF t.proj = "down" THEN {<<0, "w2">>} ELSE {<<0, "w1">>, <<1, "w3">>}
    BY <2>1 DEF Entries
  <2> QED BY <1>2, <2>1, <2>2
<1> QED BY <1>1, <1>2, ConfigSizes

\* Whatever the layout, it is the plain shard of the expert it stands for.
LEMMA LoadedIs ==
  ASSUME ChoicesInv, kind # "input_scale",
         NEW t \in Checkpoint, NEW l \in LocalExperts, NEW shard \in Shards
  PROVE  Loaded(t, l, shard) = IF Brings(t, l, shard) THEN {Part(l, shard)} ELSE {}
<1>1. /\ Physical(l) \in 0 .. NumPhysical - 1
      /\ \A p \in 0 .. NumPhysical - 1 : LocalExpertId(p) = l <=> p = Physical(l)
  BY Located
<1>2. /\ LogicalExpert(l) = PhysicalToLogical(Physical(l))
      /\ \A p \in 0 .. NumLogical - 1 : p \in 0 .. NumPhysical - 1 /\ PhysicalToLogical(p) = p
      /\ NumLogical \in Nat /\ NumPhysical \in Nat
  BY Logical, ConfigSizes
<1>3. CASE t.expert # All
  <2>1. /\ format # "fused_3d" /\ t.proj \in {"gate", "up", "down", "gate_up"}
        /\ Entries(t) = {p \in 0 .. NumPhysical - 1 : PhysicalToLogical(p) = t.expert} \X ShardsOf(t.proj)
    BY <1>3, TensorKinds
  <2>2. ASSUME NEW entry \in Entries(t)
        PROVE  LoadedExperts(t, entry)
                 = {[expert |-> entry[1], shard |-> entry[2], weight |-> Plain(t.expert, entry[2])]}
    <3>1. entry[2] \in ShardsOf(t.proj)
      BY <2>1
    <3>2. (IF t.proj = "gate_up" THEN Chunk(StoredIn(t.proj, t.expert), IF entry[2] = "w1" THEN 0 ELSE 1)
             ELSE StoredIn(t.proj, t.expert)) = Plain(t.expert, entry[2])
      BY <2>1, <3>1, OrientedIs, ChunksOfStacked DEF ShardsOf
    <3> QED BY <1>3, <3>2 DEF LoadedExperts
  <2>3. ASSUME NEW x \in Loaded(t, l, shard)
        PROVE  Brings(t, l, shard) /\ x = Part(l, shard)
    <3>1. PICK entry \in Entries(t) : x \in LoadedExperts(t, entry)
      BY DEF Loaded
    <3>2. x = [expert |-> entry[1], shard |-> entry[2], weight |-> Plain(t.expert, entry[2])]
      BY <2>2, <3>1
    <3>3. LocalExpertId(entry[1]) = l /\ entry[2] = shard
      BY <3>2 DEF Loaded
    <3>4. /\ entry[1] \in 0 .. NumPhysical - 1 /\ PhysicalToLogical(entry[1]) = t.expert
          /\ entry[2] \in ShardsOf(t.proj)
      BY <2>1
    <3>5. entry[1] = Physical(l) /\ LogicalExpert(l) = t.expert
      BY <1>1, <1>2, <3>3, <3>4
    <3> QED BY <1>3, <3>2, <3>3, <3>4, <3>5 DEF Brings, Part
  <2>4. ASSUME Brings(t, l, shard)
        PROVE  Part(l, shard) \in Loaded(t, l, shard)
    <3>1. shard \in ShardsOf(t.proj) /\ LogicalExpert(l) = t.expert
      BY <1>3, <2>4 DEF Brings
    <3> DEFINE entry == <<Physical(l), shard>>
    <3>2. entry \in Entries(t) /\ entry[1] = Physical(l) /\ entry[2] = shard
      BY <1>1, <1>2, <2>1, <3>1
    <3>3. Part(l, shard) \in LoadedExperts(t, entry)
      BY <2>2, <3>1, <3>2 DEF Part
    <3>4. LocalExpertId(Part(l, shard).expert) = l /\ Part(l, shard).shard = shard
      BY <1>1 DEF Part
    <3> QED BY <3>2, <3>3, <3>4 DEF Loaded
  <2> QED BY <2>3, <2>4
<1>4. CASE t.expert = All
  <2>1. /\ format = "fused_3d" /\ t.proj \in {"gate_up", "down"}
        /\ Entries(t) = IF t.proj = "down" THEN {<<0, "w2">>} ELSE {<<0, "w1">>, <<1, "w3">>}
    BY <1>4, TensorKinds, ConfigSizes DEF All
  <2>2. ASSUME NEW entry \in Entries(t)
        PROVE  LoadedExperts(t, entry)
                 = {[expert |-> e, shard |-> entry[2], weight |-> Plain(e, entry[2])] : e \in 0 .. NumLogical - 1}
    <3>1. ASSUME NEW e \in 0 .. NumLogical - 1
          PROVE  (IF entry[2] = "w2" THEN Oriented(StoredIn(t.proj, e))
                    ELSE Chunk(Oriented(StoredIn(t.proj, e)), entry[1])) = Plain(e, entry[2])
      BY <2>1, OrientedIs, ChunksOfStacked
    <3> QED BY <1>4, <3>1 DEF LoadedExperts
  <2>3. ASSUME NEW x \in Loaded(t, l, shard)
        PROVE  Brings(t, l, shard) /\ x = Part(l, shard)
    <3>1. PICK entry \in Entries(t) : x \in LoadedExperts(t, entry)
      BY DEF Loaded
    <3>2. PICK e \in 0 .. NumLogical - 1 : x = [expert |-> e, shard |-> entry[2], weight |-> Plain(e, entry[2])]
      BY <2>2, <3>1
    <3>3. LocalExpertId(e) = l /\ entry[2] = shard
      BY <3>2 DEF Loaded
    <3>4. entry[2] \in ShardsOf(t.proj)
      BY <2>1 DEF ShardsOf
    <3>5. e = Physical(l) /\ LogicalExpert(l) = e /\ Physical(l) < NumLogical
      BY <1>1, <1>2, <3>3
    <3> QED BY <1>4, <3>2, <3>3, <3>4, <3>5 DEF Brings, Part
  <2>4. ASSUME Brings(t, l, shard)
        PROVE  Part(l, shard) \in Loaded(t, l, shard)
    <3>1. shard \in ShardsOf(t.proj) /\ Physical(l) < NumLogical
      BY <1>4, <2>4 DEF Brings
    <3>2. Physical(l) \in 0 .. NumLogical - 1 /\ LogicalExpert(l) = Physical(l)
      BY <1>1, <1>2, <3>1
    <3>3. PICK entry \in Entries(t) : entry[2] = shard
      <4>1. CASE t.proj = "down"
        <5>1. shard = "w2" /\ <<0, "w2">> \in Entries(t)
          BY <2>1, <3>1, <4>1 DEF ShardsOf
        <5> QED BY <5>1
      <4>2. CASE t.proj = "gate_up"
        <5>1. shard \in {"w1", "w3"} /\ <<0, "w1">> \in Entries(t) /\ <<1, "w3">> \in Entries(t)
          BY <2>1, <3>1, <4>2 DEF ShardsOf
        <5> QED BY <5>1
      <4> QED BY <2>1, <4>1, <4>2
    <3>4. Part(l, shard) \in LoadedExperts(t, entry)
      BY <2>2, <3>2, <3>3 DEF Part
    <3>5. LocalExpertId(Part(l, shard).expert) = l /\ Part(l, shard).shard = shard
      BY <1>1 DEF Part
    <3> QED BY <3>4, <3>5 DEF Loaded
  <2> QED BY <2>3, <2>4
<1> QED BY <1>3, <1>4

LEMMA WithPartIs ==
  ASSUME ChoicesInv, kind # "input_scale",
         NEW t \in Checkpoint, NEW l \in LocalExperts, NEW shard \in Shards, NEW cells
  PROVE  WithPart(t, cells, l, shard)
           = IF ~Brings(t, l, shard) \/ cells = Refused THEN cells
             ELSE WeightLoader(cells, shard, Plain(LogicalExpert(l), shard))
<1>1. WithPart(t, cells, l, shard)
        = IF Loaded(t, l, shard) = {} \/ cells = Refused THEN cells
          ELSE WeightLoader(cells, shard, (CHOOSE x \in Loaded(t, l, shard) : TRUE).weight)
  BY DEF WithPart, Loaded
<1>2. CASE Brings(t, l, shard)
  <2>1. Loaded(t, l, shard) = {Part(l, shard)}
    BY <1>2, LoadedIs
  <2>2. (CHOOSE x \in {Part(l, shard)} : TRUE) = Part(l, shard)
    OBVIOUS
  <2>3. (CHOOSE x \in Loaded(t, l, shard) : TRUE).weight = Plain(LogicalExpert(l), shard)
    BY <2>1, <2>2 DEF Part
  <2>4. Loaded(t, l, shard) # {}
    BY <2>1
  <2> QED BY <1>1, <1>2, <2>3, <2>4
<1>3. CASE ~Brings(t, l, shard)
  BY <1>1, <1>3, LoadedIs
<1> QED BY <1>2, <1>3

-----------------------------------------------------------------------------
(***************************************************************************)
(* Sizes in blocks of the parameters: FirstRow is where the features of    *)
(* this rank begin, Fineness how many of these blocks a block of the       *)
(* checkpoint spans.                                                       *)
(***************************************************************************)
Gridded == {"weight", "bias", "channel_scale", "block_scale"}
Fineness == Coarse \div Grid
PaddedRows == PaddedIntermediate \div Grid
RankRows == (Intermediate \div TpSize) \div Grid
PaddedHiddenRows == PaddedHidden \div Grid
HiddenRows == Hidden \div Grid
FirstRow == TpRank * RankRows

LEMMA Scaled ==
  ASSUME NEW a \in Nat, NEW b \in Nat, NEW g \in Nat \ {0}
  PROVE  /\ (a * g >= b * g) <=> (a >= b)
         /\ (a * g < b * g) <=> (a < b)
         /\ (a * g <= b * g) <=> (a <= b)
         /\ (a * g) - (b * g) = (a - b) * g /\ (a * g) + (b * g) = (a + b) * g
         /\ (a * g = 0) <=> (a = 0)
OBVIOUS

LEMMA Blocks ==
  ASSUME ChoicesInv, kind \in Gridded
  PROVE  /\ Grid \in Nat \ {0} /\ Fineness \in Nat \ {0} /\ Fineness * Grid = Coarse
         /\ PaddedRows \in Nat \ {0} /\ PaddedRows * Grid = PaddedIntermediate
         /\ RankRows \in Nat \ {0} /\ RankRows * Grid = Intermediate \div TpSize
         /\ PaddedHiddenRows \in Nat \ {0} /\ PaddedHiddenRows * Grid = PaddedHidden
         /\ HiddenRows \in Nat \ {0} /\ HiddenRows * Grid = Hidden
         /\ RankRows <= PaddedRows /\ HiddenRows <= PaddedHiddenRows
<1>1. /\ {Intermediate, Hidden, PaddedIntermediate, PaddedHidden, TpSize, Block, RefinedBlock} \subseteq Nat \ {0}
      /\ Intermediate % TpSize = 0 /\ Intermediate \div TpSize <= PaddedIntermediate
      /\ Hidden <= PaddedHidden /\ Block % RefinedBlock = 0 /\ Hidden % Block = 0
      /\ (Intermediate \div TpSize) % RefinedBlock = 0
      /\ PaddedIntermediate % RefinedBlock = 0 /\ PaddedHidden % RefinedBlock = 0
  BY ConfigSizes
<1>2. PICK g \in Nat \ {0} : g = Grid
  BY <1>1 DEF Grid
<1>3. PICK co \in Nat \ {0} : co = Coarse
  BY <1>1 DEF Coarse
<1>4. PICK q \in Nat \ {0} : q = Intermediate \div TpSize
  <2>1. Intermediate \div TpSize \in Nat /\ (Intermediate \div TpSize) * TpSize = Intermediate
    BY <1>1, WholeQuotient
  <2> QED BY <1>1, <2>1
<1>5. \A v \in Nat : v % 1 = 0
  OBVIOUS
<1>6. Hidden % RefinedBlock = 0
  <2>1. PICK f \in Nat : f * RefinedBlock = Block
    BY <1>1, WholeQuotient
  <2>2. PICK h \in Nat : h * Block = Hidden
    BY <1>1, WholeQuotient
  <2>3. Hidden = (h * f) * RefinedBlock /\ h * f \in Nat
    BY <1>1, <2>1, <2>2
  <2> QED BY <1>1, <2>3, MultipleQuotient
<1>7. co % g = 0 /\ PaddedIntermediate % g = 0 /\ q % g = 0 /\ PaddedHidden % g = 0 /\ Hidden % g = 0
  <2>1. CASE kind = "block_scale"
    BY <1>1, <1>2, <1>3, <1>4, <1>6, <2>1 DEF Grid, Coarse
  <2>2. CASE kind # "block_scale"
    <3>1. g = 1
      BY <1>2, <2>2 DEF Grid
    <3> QED BY <1>1, <1>3, <1>4, <1>5, <3>1
  <2> QED BY <2>1, <2>2
<1>8. ASSUME NEW v \in Nat \ {0}, v % g = 0
      PROVE  v \div g \in Nat \ {0} /\ (v \div g) * g = v
  <2>1. v \div g \in Nat /\ (v \div g) * g = v
    BY <1>8, WholeQuotient
  <2> QED BY <2>1
<1>9. /\ Fineness \in Nat \ {0} /\ Fineness * g = co
      /\ PaddedRows \in Nat \ {0} /\ PaddedRows * g = PaddedIntermediate
      /\ RankRows \in Nat \ {0} /\ RankRows * g = q
      /\ PaddedHiddenRows \in Nat \ {0} /\ PaddedHiddenRows * g = PaddedHidden
      /\ HiddenRows \in Nat \ {0} /\ HiddenRows * g = Hidden
  BY <1>1, <1>2, <1>3, <1>4, <1>7, <1>8 DEF Fineness, PaddedRows, RankRows, PaddedHiddenRows, HiddenRows
<1>10. RankRows <= PaddedRows /\ HiddenRows <= PaddedHiddenRows
  BY <1>1, <1>4, <1>9, Scaled
<1> QED BY <1>2, <1>3, <1>4, <1>9, <1>10

LEMMA RankIs ==
  ASSUME ChoicesInv, kind \in Gridded
  PROVE  /\ TpRank \in 0 .. TpSize - 1 /\ FirstRow \in Nat
         /\ (IF EpSize > 1 THEN 0 ELSE rank * (Intermediate \div TpSize)) = FirstRow * Grid
         /\ FirstRow + RankRows <= TpSize * RankRows
<1>1. TpRank \in 0 .. TpSize - 1 /\ TpSize \in Nat \ {0}
  BY ConfigSizes DEF TpRank
<1>2. PICK n \in Nat : n = TpRank
  BY <1>1
<1>3. PICK m \in Nat \ {0}, g \in Nat \ {0} : m = RankRows /\ g = Grid /\ m * g = Intermediate \div TpSize
  BY Blocks
<1>4. PICK tp \in Nat \ {0} : tp = TpSize /\ n <= tp - 1
  BY <1>1, <1>2
<1>5. n * m \in Nat /\ (n * m) + m = (n + 1) * m /\ (n + 1) * m <= tp * m
  BY <1>3, <1>4, Scaled
<1>6. (IF EpSize > 1 THEN 0 ELSE rank * (Intermediate \div TpSize)) = n * (m * g)
  <2>1. CASE EpSize > 1
    BY <1>2, <1>3, <2>1 DEF TpRank
  <2>2. CASE ~(EpSize > 1)
    <3>1. rank = n
      BY <1>2, <2>2 DEF TpRank
    <3> QED BY <1>3, <2>2, <3>1
  <2> QED BY <2>1, <2>2
<1>7. n * (m * g) = (n * m) * g
  BY <1>3
<1> QED BY <1>1, <1>2, <1>3, <1>4, <1>5, <1>6, <1>7 DEF FirstRow

Split == kind \in {"weight", "block_scale"}

LEMMA BlocksOfShards ==
  ASSUME ChoicesInv, kind \in Gridded
  PROVE  /\ Rows("w1") * Fineness = TpSize * RankRows /\ Rows("w3") * Fineness = TpSize * RankRows
         /\ Rows("w2") * Fineness = HiddenRows
         /\ Split => /\ Cols("w1") * Fineness = HiddenRows /\ Cols("w3") * Fineness = HiddenRows
                     /\ Cols("w2") * Fineness = TpSize * RankRows
         /\ ~Split => /\ \A shard \in Shards : Cols(shard) = 1
                      /\ Fineness = 1 /\ Grid = 1 /\ Coarse = 1
         /\ kind # "block_scale" => Fineness = 1 /\ Grid = 1 /\ Coarse = 1
<1>1. PICK g \in Nat \ {0}, f \in Nat \ {0}, m \in Nat \ {0}, h \in Nat \ {0} :
        /\ g = Grid /\ f = Fineness /\ m = RankRows /\ h = HiddenRows
        /\ f * g = Coarse /\ m * g = Intermediate \div TpSize /\ h * g = Hidden
  BY Blocks
<1>2. PICK tp \in Nat \ {0} : tp = TpSize /\ (m * g) * tp = Intermediate
  <2>1. TpSize \in Nat \ {0} /\ Intermediate \in Nat /\ Intermediate % TpSize = 0
    BY ConfigSizes
  <2>2. (Intermediate \div TpSize) * TpSize = Intermediate
    BY <2>1, WholeQuotient
  <2> QED BY <1>1, <2>1, <2>2, Zenon
<1>3. /\ {Intermediate, Hidden, Block} \subseteq Nat \ {0}
      /\ Intermediate % Block = 0 /\ Hidden % Block = 0
  BY ConfigSizes
<1>4. PICK i \in Nat : i * Coarse = Intermediate /\ i = IF kind = "block_scale" THEN Intermediate \div Block ELSE Intermediate
  <2>1. Intermediate \div Block \in Nat /\ (Intermediate \div Block) * Block = Intermediate /\ Intermediate * 1 = Intermediate /\ Intermediate \in Nat
    <3>1. Intermediate \in Nat /\ Intermediate * 1 = Intermediate
      BY <1>3
    <3>2. Intermediate \div Block \in Nat /\ (Intermediate \div Block) * Block = Intermediate
      BY <1>3, WholeQuotient
    <3> QED BY <3>1, <3>2, Zenon
  <2>2. CASE kind = "block_scale"
    BY <2>1, <2>2, Zenon DEF Coarse
  <2>3. CASE kind # "block_scale"
    BY <2>1, <2>3, Zenon DEF Coarse
  <2> QED BY <2>2, <2>3
<1>5. PICK j \in Nat : j * Coarse = Hidden /\ j = IF kind = "block_scale" THEN Hidden \div Block ELSE Hidden
  <2>1. Hidden \div Block \in Nat /\ (Hidden \div Block) * Block = Hidden /\ Hidden * 1 = Hidden /\ Hidden \in Nat
    <3>1. Hidden \in Nat /\ Hidden * 1 = Hidden
      BY <1>3
    <3>2. Hidden \div Block \in Nat /\ (Hidden \div Block) * Block = Hidden
      BY <1>3, WholeQuotient
    <3> QED BY <3>1, <3>2, Zenon
  <2>2. CASE kind = "block_scale"
    BY <2>1, <2>2, Zenon DEF Coarse
  <2>3. CASE kind # "block_scale"
    BY <2>1, <2>3, Zenon DEF Coarse
  <2> QED BY <2>2, <2>3
<1>6. i * f = tp * m
  <2>1. (i * f) * g = (tp * m) * g
    BY <1>1, <1>2, <1>4
  <2>2. i * f \in Nat /\ tp * m \in Nat
    BY <1>1, <1>2
  <2> QED BY <2>1, <2>2, Scaled
<1>7. j * f = h
  <2>1. (j * f) * g = h * g
    BY <1>1, <1>5
  <2>2. j * f \in Nat
    BY <1>1
  <2> QED BY <2>1, <2>2, Scaled
<1>8. Rows("w1") = i /\ Rows("w3") = i /\ Rows("w2") = j
  BY <1>4, <1>5 DEF Rows, Gridded
<1>9. Split => Cols("w1") = j /\ Cols("w3") = j /\ Cols("w2") = i
  BY <1>4, <1>5 DEF Cols, Split
<1>10. ~Split => \A shard \in Shards : Cols(shard) = 1
  BY DEF Cols, Split, Gridded
<1>11. kind # "block_scale" => Fineness = 1 /\ Grid = 1 /\ Coarse = 1
  BY DEF Fineness, Grid, Coarse
<1>12. ~Split => kind # "block_scale"
  BY DEF Split
<1> QED BY <1>1, <1>2, <1>6, <1>7, <1>8, <1>9, <1>10, <1>11, <1>12

LEMMA BlocksOfParameters ==
  ASSUME ChoicesInv, kind \in Gridded
  PROVE  /\ ParamRows("w13") = 2 * PaddedRows /\ ParamRows("w2") = PaddedHiddenRows
         /\ Split => ParamCols("w13") = PaddedHiddenRows /\ ParamCols("w2") = PaddedRows
         /\ ~Split => ParamCols("w13") = 1 /\ ParamCols("w2") = 1
<1>1. PICK g \in Nat \ {0}, p \in Nat \ {0}, h \in Nat \ {0} :
        /\ g = Grid /\ p = PaddedRows /\ h = PaddedHiddenRows
        /\ p * g = PaddedIntermediate /\ h * g = PaddedHidden
  BY Blocks
<1>2. 2 * (p * g) = (2 * p) * g
  BY <1>1
<1>3. (2 * PaddedIntermediate) \div g = 2 * p /\ PaddedIntermediate \div g = p /\ PaddedHidden \div g = h
  <2>1. PICK u \in Nat : u = 2 * p
    BY <1>1
  <2>2. (u * g) \div g = u /\ (p * g) \div g = p /\ (h * g) \div g = h
    BY <1>1, MultipleQuotient
  <2>3. 2 * PaddedIntermediate = u * g
    BY <1>1, <1>2, <2>1
  <2> QED BY <1>1, <2>1, <2>2, <2>3
<1>4. kind # "block_scale" => g = 1
  BY <1>1 DEF Grid
<1>5. kind = "block_scale" => g = RefinedBlock
  BY <1>1 DEF Grid
<1>6. {PaddedIntermediate, PaddedHidden} \subseteq Nat
  BY ConfigSizes
<1>7. kind # "block_scale" => PaddedIntermediate = p /\ PaddedHidden = h
  BY <1>1, <1>4
<1>8. CASE kind = "block_scale"
  BY <1>1, <1>3, <1>5, <1>8 DEF ParamRows, ParamCols, Split
<1>9. CASE kind = "weight"
  BY <1>1, <1>7, <1>9 DEF ParamRows, ParamCols, Split
<1>10. CASE kind \in {"bias", "channel_scale"}
  BY <1>1, <1>7, <1>10 DEF ParamRows, ParamCols, Split
<1> QED BY <1>8, <1>9, <1>10 DEF Gridded

\* A shard in the blocks of the parameters.
Fine(x) == IF kind = "block_scale" THEN Refined(x) ELSE x

LEMMA FineIs ==
  ASSUME ChoicesInv, kind \in Gridded, NEW e, NEW shard \in Shards
  PROVE  Fine(Plain(e, shard))
           = [rows |-> Rows(shard) * Fineness, cols |-> Cols(shard) * Fineness,
              at |-> [c \in Cells(Rows(shard) * Fineness, Cols(shard) * Fineness) |->
                        <<e, shard, c[1] \div Fineness, c[2] \div Fineness>>]]
<1>1. PICK f \in Nat \ {0} : f = Fineness
  BY Blocks
<1>2. PICK rows \in Nat \ {0}, cols \in Nat \ {0} : rows = Rows(shard) /\ cols = Cols(shard)
  BY SizesOfShards DEF Gridded
<1> DEFINE x == Plain(e, shard)
<1>3. x.rows = rows /\ x.cols = cols /\ x.at = [c \in Cells(rows, cols) |-> <<e, shard, c[1], c[2]>>]
  BY <1>2 DEF Plain
<1>4. CASE kind = "block_scale"
  <2>1. f = Block \div RefinedBlock
    BY <1>1, <1>4 DEF Fineness, Coarse, Grid
  <2>2. f * rows = rows * f /\ f * cols = cols * f
    BY <1>1, <1>2
  <2>3. ASSUME NEW c \in Cells(rows * f, cols * f)
        PROVE  x.at[<<c[1] \div f, c[2] \div f>>] = <<e, shard, c[1] \div f, c[2] \div f>>
    <3>1. PICK i \in Nat, j \in Nat : i = c[1] /\ j = c[2] /\ i < rows * f /\ j < cols * f
      BY <1>1, <1>2 DEF Cells
    <3>2. i \div f \in 0 .. rows - 1 /\ j \div f \in 0 .. cols - 1
      BY <1>1, <1>2, <3>1
    <3>3. <<i \div f, j \div f>> \in Cells(rows, cols)
      BY <3>2 DEF Cells
    <3> QED BY <1>3, <3>1, <3>3
  <2>4. Refined(x) = [rows |-> rows * f, cols |-> cols * f,
                      at |-> [c \in Cells(rows * f, cols * f) |-> x.at[<<c[1] \div f, c[2] \div f>>]]]
    BY <1>3, <2>1, <2>2 DEF Refined
  <2>5. [c \in Cells(rows * f, cols * f) |-> x.at[<<c[1] \div f, c[2] \div f>>]]
          = [c \in Cells(rows * f, cols * f) |-> <<e, shard, c[1] \div f, c[2] \div f>>]
    <3> HIDE DEF x
    <3> QED BY <2>3
  <2> QED BY <1>1, <1>2, <1>4, <2>4, <2>5, Zenon DEF Fine
<1>5. CASE kind # "block_scale"
  <2>1. f = 1
    BY <1>1, <1>5, BlocksOfShards
  <2>2. rows * f = rows /\ cols * f = cols
    BY <1>2, <2>1
  <2>3. ASSUME NEW c \in Cells(rows, cols) PROVE c[1] \div f = c[1] /\ c[2] \div f = c[2]
    BY <1>2, <2>1 DEF Cells
  <2>4. [c \in Cells(rows, cols) |-> <<e, shard, c[1], c[2]>>]
          = [c \in Cells(rows, cols) |-> <<e, shard, c[1] \div f, c[2] \div f>>]
    BY <2>3
  <2>5. x = [rows |-> rows * f, cols |-> cols * f,
             at |-> [c \in Cells(rows * f, cols * f) |-> <<e, shard, c[1] \div f, c[2] \div f>>]]
    BY <1>2, <2>2, <2>4, Zenon DEF Plain
  <2> QED BY <1>1, <1>2, <1>5, <2>5 DEF Fine
<1> QED BY <1>4, <1>5

-----------------------------------------------------------------------------
(***************************************************************************)
(* The sources of the cells, in blocks of the parameters.                  *)
(***************************************************************************)
InUp(c) == c[1] >= PaddedRows
RowOf(c) == IF InUp(c) THEN c[1] - PaddedRows ELSE c[1]

LEMMA SourceOfW13 ==
  ASSUME ChoicesInv, kind \in Gridded, NEW l \in LocalExperts, NEW c \in CellsOf("w13")
  PROVE  /\ ShardOf("w13", c) = IF RowOf(c) < RankRows /\ c[2] < HiddenRows
                                  THEN IF InUp(c) THEN "w3" ELSE "w1"
                                  ELSE "none"
         /\ ShardOf("w13", c) # "none" =>
              SourceOf("w13", l, c)
                = <<LogicalExpert(l), ShardOf("w13", c), (FirstRow + RowOf(c)) \div Fineness, c[2] \div Fineness>>
<1>1. PICK g \in Nat \ {0}, f \in Nat \ {0}, p \in Nat \ {0}, m \in Nat \ {0}, h \in Nat \ {0}, first \in Nat :
        /\ g = Grid /\ f = Fineness /\ p = PaddedRows /\ m = RankRows /\ h = HiddenRows /\ first = FirstRow
        /\ f * g = Coarse /\ p * g = PaddedIntermediate /\ m * g = Intermediate \div TpSize /\ h * g = Hidden
  BY Blocks, RankIs
<1>2. PICK i \in Nat, j \in Nat : i = c[1] /\ j = c[2]
  <2>1. ParamRows("w13") \in Nat /\ ParamCols("w13") \in Nat
    BY Blocks, BlocksOfParameters
  <2> QED BY <2>1 DEF CellsOf, Cells
<1>3. IsUp(c) <=> i >= p
  BY <1>1, <1>2, Scaled DEF IsUp
<1>4. PICK k \in Nat : k = RowOf(c) /\ RowFeature(c) = k * g
  <2>1. CASE i >= p
    <3>1. RowOf(c) = i - p /\ i - p \in Nat
      BY <1>1, <1>2, <2>1 DEF RowOf, InUp
    <3>2. (i * g) - (p * g) = (i - p) * g
      BY <1>1, Scaled
    <3> QED BY <1>1, <1>2, <1>3, <2>1, <3>1, <3>2 DEF RowFeature
  <2>2. CASE ~(i >= p)
    <3>1. RowOf(c) = i
      BY <1>1, <1>2, <2>2 DEF RowOf, InUp
    <3>2. (i * g) - 0 = i * g
      BY <1>1
    <3> QED BY <1>1, <1>2, <1>3, <2>2, <3>1, <3>2 DEF RowFeature
  <2> QED BY <2>1, <2>2
<1>5. /\ IsFeature(RowFeature(c)) <=> k < m
      /\ c[2] * Grid >= Hidden <=> ~(j < h)
  BY <1>1, <1>2, <1>4, Scaled DEF IsFeature
<1>6. ShardOf("w13", c) = IF ~IsFeature(RowFeature(c)) \/ c[2] * Grid >= Hidden THEN "none"
                           ELSE IF IsUp(c) THEN "w3" ELSE "w1"
  BY DEF ShardOf, Gridded
<1>7. SourceOf("w13", l, c)
        = IF ~IsFeature(RowFeature(c)) \/ c[2] * Grid >= Hidden THEN Empty
          ELSE <<LogicalExpert(l), IF IsUp(c) THEN "w3" ELSE "w1",
                 Feature(RowFeature(c)) \div Coarse, (c[2] * Grid) \div Coarse>>
  BY DEF SourceOf, Gridded, Grid, Coarse, IsUp, RowFeature
<1>8. Feature(RowFeature(c)) \div Coarse = (first + k) \div f
  <2>1. Feature(RowFeature(c)) = (first * g) + (k * g)
    BY <1>1, <1>4, RankIs DEF Feature
  <2>2. (first * g) + (k * g) = (first + k) * g
    BY <1>1, Scaled
  <2>3. PICK v \in Nat : v = first + k
    BY <1>1, <1>4
  <2>4. (v * g) \div (f * g) = v \div f
    BY <1>1, CoarseQuotient
  <2> QED BY <1>1, <2>1, <2>2, <2>3, <2>4, Zenon
<1>9. (c[2] * Grid) \div Coarse = j \div f
  <2>1. (j * g) \div (f * g) = j \div f
    BY <1>1, CoarseQuotient
  <2> QED BY <1>1, <1>2, <2>1, Zenon
<1>10. InUp(c) <=> i >= p
  BY <1>1, <1>2 DEF InUp
<1>11. ShardOf("w13", c) = IF k < m /\ j < h THEN IF i >= p THEN "w3" ELSE "w1" ELSE "none"
  BY <1>3, <1>5, <1>6
<1>12. ShardOf("w13", c) # "none" =>
        SourceOf("w13", l, c) = <<LogicalExpert(l), ShardOf("w13", c), (first + k) \div f, j \div f>>
  BY <1>5, <1>6, <1>7, <1>8, <1>9, Zenon
<1> QED BY <1>1, <1>2, <1>4, <1>10, <1>11, <1>12

LEMMA SourceOfW2 ==
  ASSUME ChoicesInv, kind \in Gridded, NEW l \in LocalExperts, NEW c \in CellsOf("w2")
  PROVE  /\ ShardOf("w2", c) = IF c[1] < HiddenRows /\ (Split => c[2] < RankRows) THEN "w2" ELSE "none"
         /\ ShardOf("w2", c) # "none" =>
              SourceOf("w2", l, c)
                = <<LogicalExpert(l), "w2", c[1] \div Fineness,
                    IF Split THEN (FirstRow + c[2]) \div Fineness ELSE 0>>
<1>1. PICK g \in Nat \ {0}, f \in Nat \ {0}, m \in Nat \ {0}, h \in Nat \ {0}, first \in Nat :
        /\ g = Grid /\ f = Fineness /\ m = RankRows /\ h = HiddenRows /\ first = FirstRow
        /\ f * g = Coarse /\ m * g = Intermediate \div TpSize /\ h * g = Hidden
  BY Blocks, RankIs
<1>2. PICK i \in Nat, j \in Nat : i = c[1] /\ j = c[2]
  <2>1. ParamRows("w2") \in Nat /\ ParamCols("w2") \in Nat
    BY Blocks, BlocksOfParameters
  <2> QED BY <2>1 DEF CellsOf, Cells
<1>3. CASE Split
  <2>1. /\ IsFeature(c[2] * Grid) <=> j < m
        /\ c[1] * Grid >= Hidden <=> ~(i < h)
    BY <1>1, <1>2, Scaled DEF IsFeature
  <2>2. ShardOf("w2", c) = IF c[1] * Grid >= Hidden \/ ~IsFeature(c[2] * Grid) THEN "none" ELSE "w2"
    BY <1>3 DEF ShardOf, Split
  <2>3. SourceOf("w2", l, c)
          = IF c[1] * Grid >= Hidden \/ ~IsFeature(c[2] * Grid) THEN Empty
            ELSE <<LogicalExpert(l), "w2", (c[1] * Grid) \div Coarse, Feature(c[2] * Grid) \div Coarse>>
    BY <1>3 DEF SourceOf, Split, Grid, Coarse
  <2>4. Feature(c[2] * Grid) \div Coarse = (first + j) \div f
    <3>1. Feature(c[2] * Grid) = (first * g) + (j * g)
      BY <1>1, <1>2, RankIs DEF Feature
    <3>2. (first * g) + (j * g) = (first + j) * g
      BY <1>1, <1>2, Scaled
    <3>3. PICK v \in Nat : v = first + j
      BY <1>1, <1>2
    <3>4. (v * g) \div (f * g) = v \div f
      BY <1>1, CoarseQuotient
    <3> QED BY <1>1, <3>1, <3>2, <3>3, <3>4, Zenon
  <2>5. (c[1] * Grid) \div Coarse = i \div f
    <3>1. (i * g) \div (f * g) = i \div f
      BY <1>1, CoarseQuotient
    <3> QED BY <1>1, <1>2, <3>1, Zenon
  <2>6. ShardOf("w2", c) = IF i < h /\ j < m THEN "w2" ELSE "none"
    BY <2>1, <2>2
  <2>7. ShardOf("w2", c) # "none" =>
          SourceOf("w2", l, c) = <<LogicalExpert(l), "w2", i \div f, (first + j) \div f>>
    BY <2>2, <2>3, <2>4, <2>5, Zenon
  <2> QED BY <1>1, <1>2, <1>3, <2>6, <2>7
<1>4. CASE ~Split
  <2>1. kind \in {"bias", "channel_scale"} /\ f = 1 /\ g = 1 /\ h = Hidden
    <3>1. f = 1 /\ g = 1
      BY <1>1, <1>4, BlocksOfShards
    <3> QED BY <1>1, <1>4, <3>1 DEF Split, Gridded
  <2>2. ShardOf("w2", c) = IF c[1] >= Hidden THEN "none" ELSE "w2"
    BY <2>1 DEF ShardOf
  <2>3. SourceOf("w2", l, c) = IF c[1] >= Hidden THEN Empty ELSE <<LogicalExpert(l), "w2", c[1], 0>>
    BY <2>1 DEF SourceOf
  <2>4. i \div 1 = i
    BY <1>2
  <2> QED BY <1>1, <1>2, <1>4, <2>1, <2>2, <2>3, <2>4
<1> QED BY <1>3, <1>4

-----------------------------------------------------------------------------
(***************************************************************************)
(* The loader fills the cells of a shard, and no others, with their        *)
(* sources.                                                                *)
(***************************************************************************)
Filled(name, l, cells, shard) ==
  [c \in CellsOf(name) |-> IF ShardOf(name, c) = shard THEN SourceOf(name, l, c) ELSE cells[c]]

LEMMA FillsW13 ==
  ASSUME ChoicesInv, kind \in Gridded, NEW l \in LocalExperts, NEW shard \in {"w1", "w3"},
         NEW cells, DOMAIN cells = CellsOf("w13")
  PROVE  LoadW13(cells, shard, Fine(Plain(LogicalExpert(l), shard))) = Filled("w13", l, cells, shard)
<1>1. PICK f \in Nat \ {0}, p \in Nat \ {0}, m \in Nat \ {0}, h \in Nat \ {0}, hp \in Nat, tp \in Nat \ {0},
           first \in Nat :
        /\ f = Fineness /\ p = PaddedRows /\ m = RankRows /\ h = HiddenRows
        /\ hp = PaddedHiddenRows /\ tp = TpSize /\ first = FirstRow
        /\ m <= p /\ h <= hp /\ first + m <= tp * m
  BY Blocks, RankIs, ConfigSizes
<1> DEFINE e == LogicalExpert(l)
           x == Fine(Plain(e, shard))
<1>2. PICK cols \in Nat : cols = Cols(shard) * f /\ (Split => cols = h) /\ (~Split => cols = 1)
  BY <1>1, BlocksOfShards DEF Shards
<1>3. PICK pc \in Nat : pc = ParamCols("w13") /\ cols <= pc /\ (Split => pc = hp) /\ (~Split => pc = 1)
  BY <1>1, <1>2, BlocksOfParameters
<1>4. ParamRows("w13") = 2 * p /\ ParamRows("w13") \div 2 = p
  BY <1>1, BlocksOfParameters
<1>5. PICK rows \in Nat : rows = tp * m /\ rows = Rows(shard) * f
  BY <1>1, BlocksOfShards
<1>6. /\ x.rows = rows /\ x.cols = cols
      /\ x.at = [c \in Cells(rows, cols) |-> <<e, shard, c[1] \div f, c[2] \div f>>]
  <2>1. shard \in Shards
    BY DEF Shards
  <2>2. x = [rows |-> Rows(shard) * Fineness, cols |-> Cols(shard) * Fineness,
             at |-> [c \in Cells(Rows(shard) * Fineness, Cols(shard) * Fineness) |->
                       <<e, shard, c[1] \div Fineness, c[2] \div Fineness>>]]
    BY <2>1, FineIs
  <2> HIDE DEF x
  <2>3. x = [rows |-> rows, cols |-> cols,
             at |-> [c \in Cells(rows, cols) |-> <<e, shard, c[1] \div f, c[2] \div f>>]]
    BY <1>1, <1>2, <1>5, <2>2, Zenon
  <2> QED BY <2>3
<1> HIDE DEF x
<1>7. x.rows \div TpSize = m
  <2>1. rows = m * tp
    BY <1>1, <1>5
  <2>2. rows \div tp = m
    BY <1>1, <2>1, MultipleQuotient
  <2> QED BY <1>1, <1>6, <2>2
<1>8. m * TpRank = first /\ ~(rows - first <= 0)
  <2>1. m * TpRank = first
    BY <1>1, RankIs DEF FirstRow
  <2> QED BY <1>1, <1>5, <2>1
<1> DEFINE to == IF shard = "w1" THEN 0 ELSE p
<1>9. LoadW13(cells, shard, x)
        = [c \in DOMAIN cells |->
             IF c[1] \in to .. to + m - 1 /\ c[2] < cols
               THEN x.at[<<first + c[1] - to, 0 + c[2]>>] ELSE cells[c]]
  BY <1>1, <1>3, <1>4, <1>6, <1>7, <1>8 DEF LoadW13, Store
<1>10. ASSUME NEW c \in CellsOf("w13")
       PROVE  (IF c[1] \in to .. to + m - 1 /\ c[2] < cols
                 THEN x.at[<<first + c[1] - to, 0 + c[2]>>] ELSE cells[c])
              = IF ShardOf("w13", c) = shard THEN SourceOf("w13", l, c) ELSE cells[c]
  <2>1. PICK i \in Nat, j \in Nat : i = c[1] /\ j = c[2] /\ i < 2 * p /\ j < pc
    BY <1>1, <1>3, <1>4 DEF CellsOf, Cells
  <2>2. InUp(c) <=> i >= p
    BY <1>1, <2>1 DEF InUp
  <2>3. PICK k \in Nat : k = RowOf(c) /\ k = IF i >= p THEN i - p ELSE i
    BY <1>1, <2>1, <2>2 DEF RowOf
  <2>4. j < cols <=> j < h
    BY <1>1, <1>2, <1>3, <2>1
  <2>5. /\ ShardOf("w13", c) = IF k < m /\ j < h THEN IF i >= p THEN "w3" ELSE "w1" ELSE "none"
        /\ ShardOf("w13", c) # "none" =>
             SourceOf("w13", l, c) = <<e, ShardOf("w13", c), (first + k) \div f, j \div f>>
    BY <1>1, <2>1, <2>2, <2>3, SourceOfW13
  <2>6. (i \in to .. to + m - 1 /\ j < cols) <=> ShardOf("w13", c) = shard
    BY <1>1, <2>1, <2>3, <2>4, <2>5
  <2>7. ASSUME ShardOf("w13", c) = shard
        PROVE  x.at[<<first + i - to, 0 + j>>] = SourceOf("w13", l, c)
    <3>1. k < m /\ j < cols /\ first + i - to = first + k /\ 0 + j = j
      BY <1>1, <2>1, <2>3, <2>4, <2>5, <2>7
    <3>2. PICK u \in Nat : u = first + k /\ u < rows
      BY <1>1, <1>5, <2>3, <3>1
    <3>3. <<u, j>> \in Cells(rows, cols)
      BY <1>2, <1>5, <2>1, <3>1, <3>2 DEF Cells
    <3>4. x.at[<<u, j>>] = <<e, shard, u \div f, j \div f>>
      BY <1>6, <3>3
    <3>5. SourceOf("w13", l, c) = <<e, shard, (first + k) \div f, j \div f>>
      BY <2>5, <2>7
    <3> QED BY <3>1, <3>2, <3>4, <3>5
  <2> QED BY <2>1, <2>6, <2>7
<1> HIDE DEF to
<1>11. [c \in CellsOf("w13") |->
             IF c[1] \in to .. to + m - 1 /\ c[2] < cols
               THEN x.at[<<first + c[1] - to, 0 + c[2]>>] ELSE cells[c]]
         = Filled("w13", l, cells, shard)
  BY <1>10 DEF Filled
<1> QED BY <1>9, <1>11 DEF x

LEMMA FillsW2 ==
  ASSUME ChoicesInv, kind \in Gridded, NEW l \in LocalExperts,
         NEW cells, DOMAIN cells = CellsOf("w2")
  PROVE  LET x == Fine(Plain(LogicalExpert(l), "w2"))
         IN (IF Split THEN LoadW2(cells, x) ELSE LoadFullW2(cells, x)) = Filled("w2", l, cells, "w2")
<1>1. PICK f \in Nat \ {0}, p \in Nat \ {0}, m \in Nat \ {0}, h \in Nat \ {0}, hp \in Nat, tp \in Nat \ {0},
           first \in Nat :
        /\ f = Fineness /\ p = PaddedRows /\ m = RankRows /\ h = HiddenRows
        /\ hp = PaddedHiddenRows /\ tp = TpSize /\ first = FirstRow
        /\ m <= p /\ h <= hp /\ first + m <= tp * m
  BY Blocks, RankIs, ConfigSizes
<1> DEFINE e == LogicalExpert(l)
           x == Fine(Plain(e, "w2"))
<1>2. PICK cols \in Nat : cols = Cols("w2") * f /\ (Split => cols = tp * m) /\ (~Split => cols = 1)
  BY <1>1, BlocksOfShards DEF Shards
<1>3. /\ ParamRows("w2") = hp
      /\ Split => ParamCols("w2") = p
      /\ ~Split => ParamCols("w2") = 1
  BY <1>1, BlocksOfParameters
<1>4. /\ x.rows = h /\ x.cols = cols
      /\ x.at = [c \in Cells(h, cols) |-> <<e, "w2", c[1] \div f, c[2] \div f>>]
  <2>1. x = [rows |-> Rows("w2") * Fineness, cols |-> Cols("w2") * Fineness,
             at |-> [c \in Cells(Rows("w2") * Fineness, Cols("w2") * Fineness) |->
                       <<e, "w2", c[1] \div Fineness, c[2] \div Fineness>>]]
    BY FineIs DEF Shards
  <2>2. Rows("w2") * Fineness = h
    BY <1>1, BlocksOfShards
  <2> HIDE DEF x
  <2>3. x = [rows |-> h, cols |-> cols,
             at |-> [c \in Cells(h, cols) |-> <<e, "w2", c[1] \div f, c[2] \div f>>]]
    BY <1>1, <1>2, <2>1, <2>2, Zenon
  <2> QED BY <2>3
<1> HIDE DEF x
<1>5. CASE Split
  <2>1. x.cols \div TpSize = m
    <3>1. cols = m * tp
      BY <1>1, <1>2, <1>5
    <3>2. cols \div tp = m
      BY <1>1, <3>1, MultipleQuotient
    <3> QED BY <1>1, <1>4, <3>2
  <2>2. m * TpRank = first /\ ~(cols - first <= 0)
    <3>1. m * TpRank = first
      BY <1>1, RankIs DEF FirstRow
    <3> QED BY <1>1, <1>2, <1>5, <3>1
  <2>3. LoadW2(cells, x)
          = [c \in DOMAIN cells |->
               IF c[1] \in 0 .. 0 + h - 1 /\ c[2] < m
                 THEN x.at[<<0 + c[1] - 0, first + c[2]>>] ELSE cells[c]]
    BY <1>1, <1>3, <1>4, <1>5, <2>1, <2>2 DEF LoadW2, Store
  <2>4. ASSUME NEW c \in CellsOf("w2")
        PROVE  (IF c[1] \in 0 .. 0 + h - 1 /\ c[2] < m
                  THEN x.at[<<0 + c[1] - 0, first + c[2]>>] ELSE cells[c])
               = IF ShardOf("w2", c) = "w2" THEN SourceOf("w2", l, c) ELSE cells[c]
    <3>1. PICK i \in Nat, j \in Nat : i = c[1] /\ j = c[2]
      BY <1>1, <1>3, <1>5 DEF CellsOf, Cells
    <3>2. /\ ShardOf("w2", c) = IF i < h /\ j < m THEN "w2" ELSE "none"
          /\ ShardOf("w2", c) # "none" =>
               SourceOf("w2", l, c) = <<e, "w2", i \div f, (first + j) \div f>>
      BY <1>1, <1>5, <3>1, SourceOfW2
    <3>3. (i \in 0 .. 0 + h - 1 /\ j < m) <=> ShardOf("w2", c) = "w2"
      BY <1>1, <3>1, <3>2
    <3>4. ASSUME ShardOf("w2", c) = "w2"
          PROVE  x.at[<<0 + i - 0, first + j>>] = SourceOf("w2", l, c)
      <4>1. i < h /\ j < m /\ 0 + i - 0 = i
        BY <3>1, <3>2, <3>4
      <4>2. PICK u \in Nat : u = first + j /\ u < cols
        BY <1>1, <1>2, <1>5, <3>1, <4>1
      <4>3. <<i, u>> \in Cells(h, cols)
        BY <1>1, <1>2, <3>1, <4>1, <4>2 DEF Cells
      <4>4. x.at[<<i, u>>] = <<e, "w2", i \div f, u \div f>>
        BY <1>4, <4>3
      <4> QED BY <3>2, <3>4, <4>1, <4>2, <4>4
    <3> QED BY <3>1, <3>3, <3>4
  <2>5. LoadW2(cells, x) = Filled("w2", l, cells, "w2")
    BY <2>3, <2>4 DEF Filled
  <2> QED BY <1>5, <2>5 DEF x
<1>6. CASE ~Split
  <2>1. f = 1 /\ cols = 1
    BY <1>1, <1>2, <1>6, BlocksOfShards
  <2>2. LoadFullW2(cells, x)
          = [c \in DOMAIN cells |->
               IF c[1] \in 0 .. 0 + h - 1 /\ c[2] < cols
                 THEN x.at[<<0 + c[1] - 0, 0 + c[2]>>] ELSE cells[c]]
    BY <1>1, <1>2, <1>3, <1>4, <1>6, <2>1 DEF LoadFullW2, Store
  <2>3. ASSUME NEW c \in CellsOf("w2")
        PROVE  (IF c[1] \in 0 .. 0 + h - 1 /\ c[2] < cols
                  THEN x.at[<<0 + c[1] - 0, 0 + c[2]>>] ELSE cells[c])
               = IF ShardOf("w2", c) = "w2" THEN SourceOf("w2", l, c) ELSE cells[c]
    <3>1. PICK i \in Nat : i = c[1] /\ c[2] = 0
      BY <1>1, <1>3, <1>6 DEF CellsOf, Cells
    <3>2. /\ ShardOf("w2", c) = IF i < h THEN "w2" ELSE "none"
          /\ ShardOf("w2", c) # "none" => SourceOf("w2", l, c) = <<e, "w2", i \div f, 0>>
      BY <1>1, <1>6, <3>1, SourceOfW2
    <3>3. (i \in 0 .. 0 + h - 1 /\ c[2] < cols) <=> ShardOf("w2", c) = "w2"
      BY <1>1, <2>1, <3>1, <3>2
    <3>4. ASSUME ShardOf("w2", c) = "w2"
          PROVE  x.at[<<0 + i - 0, 0 + c[2]>>] = SourceOf("w2", l, c)
      <4>1. i < h /\ 0 + i - 0 = i /\ 0 + c[2] = 0
        BY <3>1, <3>2, <3>4
      <4>2. <<i, 0>> \in Cells(h, cols)
        BY <1>1, <2>1, <3>1, <4>1 DEF Cells
      <4>3. x.at[<<i, 0>>] = <<e, "w2", i \div f, 0 \div f>>
        BY <1>4, <4>2
      <4>4. 0 \div f = 0
        BY <2>1
      <4> QED BY <3>2, <3>4, <4>1, <4>3, <4>4
    <3> QED BY <3>1, <3>3, <3>4
  <2>4. LoadFullW2(cells, x) = Filled("w2", l, cells, "w2")
    BY <2>2, <2>3 DEF Filled
  <2> QED BY <1>6, <2>4 DEF x
<1> QED BY <1>5, <1>6

\* A scale of the whole tensor has a cell of its own.
LEMMA FillsScalar ==
  ASSUME kind = "tensor_scale", NEW l \in LocalExperts, NEW shard \in Shards,
         NEW cells, DOMAIN cells = CellsOf(NameOf(shard)), cells = [c \in DOMAIN cells |-> cells[c]]
  PROVE  LoadScalar(cells, shard, Plain(LogicalExpert(l), shard)) = Filled(NameOf(shard), l, cells, shard)
<1>1. Rows(shard) = 1 /\ Cols(shard) = 1
  BY DEF Rows, Cols
<1>2. Plain(LogicalExpert(l), shard).at[<<0, 0>>] = <<LogicalExpert(l), shard, 0, 0>>
  BY <1>1 DEF Plain, Cells
<1> DEFINE place == <<IF shard = "w3" THEN 1 ELSE 0, 0>>
           name == NameOf(shard)
           v == <<LogicalExpert(l), shard, 0, 0>>
<1>3. CellsOf(name) = (0 .. (IF name = "w13" THEN 2 ELSE 1) - 1) \X (0 .. 0)
  BY DEF CellsOf, Cells, ParamRows, ParamCols
<1>4. shard \in {"w1", "w2", "w3"} /\ (name = "w2" <=> shard = "w2") /\ (name = "w13" <=> shard # "w2")
  BY DEF Shards, NameOf
<1>5. LoadScalar(cells, shard, Plain(LogicalExpert(l), shard)) = [cells EXCEPT ![place] = v]
  BY <1>2 DEF LoadScalar
<1>6. ASSUME NEW c \in CellsOf(name)
      PROVE  /\ ShardOf(name, c) = shard <=> c = place
             /\ ShardOf(name, c) = shard => SourceOf(name, l, c) = v
  <2>1. c[2] = 0 /\ c = <<c[1], c[2]>> /\ c[1] \in 0 .. (IF name = "w13" THEN 2 ELSE 1) - 1
    BY <1>3
  <2>2. ShardOf(name, c) = IF name = "w2" THEN "w2" ELSE IF c[1] = 0 THEN "w1" ELSE "w3"
    BY DEF ShardOf
  <2>3. SourceOf(name, l, c)
          = <<LogicalExpert(l), IF name = "w2" THEN "w2" ELSE IF c[1] = 0 THEN "w1" ELSE "w3", 0, 0>>
    BY DEF SourceOf
  <2>4. ShardOf(name, c) = shard <=> c = place
    <3>1. CASE shard = "w1"
      BY <1>4, <2>1, <2>2, <3>1
    <3>2. CASE shard = "w2"
      BY <1>4, <2>1, <2>2, <3>2
    <3>3. CASE shard = "w3"
      BY <1>4, <2>1, <2>2, <3>3
    <3> QED BY <1>4, <3>1, <3>2, <3>3
  <2>5. ShardOf(name, c) = shard => SourceOf(name, l, c) = v
    BY <2>2, <2>3, Zenon
  <2> QED BY <2>4, <2>5
<1> HIDE DEF place, name, v
<1>7. [cells EXCEPT ![place] = v] = [c \in CellsOf(name) |-> IF c = place THEN v ELSE cells[c]]
  BY DEF name
<1>8. [c \in CellsOf(name) |-> IF c = place THEN v ELSE cells[c]] = Filled(name, l, cells, shard)
  BY <1>6 DEF Filled
<1> QED BY <1>5, <1>7, <1>8 DEF name

\* Of every kind.
LEMMA LoaderFills ==
  ASSUME ChoicesInv, kind # "input_scale", NEW l \in LocalExperts, NEW shard \in Shards,
         NEW cells, DOMAIN cells = CellsOf(NameOf(shard)), cells = [c \in DOMAIN cells |-> cells[c]]
  PROVE  WeightLoader(cells, shard, Plain(LogicalExpert(l), shard)) = Filled(NameOf(shard), l, cells, shard)
<1> DEFINE x == Plain(LogicalExpert(l), shard)
<1>1. kind \in {"weight", "bias", "channel_scale", "block_scale", "tensor_scale"}
  BY ConfigSizes
<1>2. CASE kind = "tensor_scale"
  BY <1>2, FillsScalar DEF WeightLoader
<1>3. CASE kind # "tensor_scale" /\ shard = "w2"
  <2>1. kind \in Gridded /\ NameOf(shard) = "w2"
    BY <1>1, <1>3 DEF Gridded, NameOf
  <2>2. WeightLoader(cells, shard, x)
          = IF Split THEN LoadW2(cells, Fine(x)) ELSE LoadFullW2(cells, Fine(x))
    <3> HIDE DEF x
    <3> QED BY <1>1, <1>3 DEF WeightLoader, Fine, Split
  <2> QED BY <1>3, <2>1, <2>2, FillsW2
<1>4. CASE kind # "tensor_scale" /\ shard # "w2"
  <2>1. kind \in Gridded /\ NameOf(shard) = "w13" /\ shard \in {"w1", "w3"}
    BY <1>1, <1>4 DEF Gridded, NameOf, Shards
  <2>2. WeightLoader(cells, shard, x) = LoadW13(cells, shard, Fine(x))
    <3> HIDE DEF x
    <3> QED BY <1>1, <1>4 DEF WeightLoader, Fine
  <2> QED BY <2>1, <2>2, FillsW13
<1> QED BY <1>2, <1>3, <1>4

-----------------------------------------------------------------------------
(***************************************************************************)
(* One tensor.                                                             *)
(***************************************************************************)
LEMMA CellsExist ==
  ASSUME ChoicesInv, kind # "input_scale", NEW name \in Names
  PROVE  <<0, 0>> \in CellsOf(name)
<1>1. CASE kind = "tensor_scale"
  BY <1>1 DEF CellsOf, Cells, ParamRows, ParamCols
<1>2. CASE kind # "tensor_scale"
  <2>1. kind \in Gridded
    BY <1>2, ConfigSizes DEF Gridded
  <2>2. ParamRows(name) \in Nat \ {0} /\ ParamCols(name) \in Nat \ {0}
    BY <2>1, Blocks, BlocksOfParameters DEF Names
  <2> QED BY <2>2 DEF CellsOf, Cells
<1> QED BY <1>1, <1>2

LEMMA NotRefused ==
  ASSUME ChoicesInv, kind # "input_scale", NEW name \in Names, NEW cells, DOMAIN cells = CellsOf(name)
  PROVE  cells # Refused
<1>1. <<0, 0>> \in DOMAIN cells
  BY CellsExist
<1>2. DOMAIN Refused = {}
  BY DEF Refused
<1> QED BY <1>1, <1>2

LEMMA ShardsOfCells ==
  ASSUME ChoicesInv, kind # "input_scale", NEW c
  PROVE  ShardOf("w13", c) \in {"w1", "w3", "none"} /\ ShardOf("w2", c) \in {"w2", "none"}
<1>1. kind \in {"weight", "bias", "channel_scale", "block_scale", "tensor_scale"}
  BY ConfigSizes
<1> QED BY <1>1 DEF ShardOf

\* The cells of a local expert with a shard of the tensor.
LEMMA PartFills ==
  ASSUME ChoicesInv, kind # "input_scale", NEW t \in Checkpoint, NEW l \in LocalExperts,
         NEW shard \in Shards,
         NEW cells, DOMAIN cells = CellsOf(NameOf(shard)), cells = [c \in DOMAIN cells |-> cells[c]]
  PROVE  WithPart(t, cells, l, shard)
           = [c \in CellsOf(NameOf(shard)) |->
                IF Brings(t, l, shard) /\ ShardOf(NameOf(shard), c) = shard
                  THEN SourceOf(NameOf(shard), l, c) ELSE cells[c]]
<1>1. NameOf(shard) \in Names
  BY DEF Shards, NameOf, Names
<1>2. cells # Refused
  BY <1>1, NotRefused
<1>3. CASE Brings(t, l, shard)
  <2>1. WithPart(t, cells, l, shard) = Filled(NameOf(shard), l, cells, shard)
    BY <1>2, <1>3, WithPartIs, LoaderFills
  <2> QED BY <1>3, <2>1 DEF Filled
<1>4. CASE ~Brings(t, l, shard)
  <2>1. WithPart(t, cells, l, shard) = cells
    BY <1>4, WithPartIs
  <2> QED BY <1>4, <2>1
<1> QED BY <1>3, <1>4

\* All the cells of a local expert with all that a tensor brings.
After(t, name, l) ==
  [c \in CellsOf(name) |->
     IF \E shard \in Shards : ShardOf(name, c) = shard /\ (Arrived(l, shard) \/ Brings(t, l, shard))
       THEN SourceOf(name, l, c) ELSE Empty]

LEMMA TensorFills ==
  ASSUME IInv, HasParam, NEW t \in Checkpoint, NEW l \in LocalExperts
  PROVE  /\ WithPart(t, WithPart(t, param["w13"][l], l, "w1"), l, "w3") = After(t, "w13", l)
         /\ WithPart(t, param["w2"][l], l, "w2") = After(t, "w2", l)
<1>1. kind # "input_scale" /\ ChoicesInv
  BY DEF IInv, HasParam
<1>2. /\ param["w13"][l] = [c \in CellsOf("w13") |-> Content("w13", l, c)]
      /\ param["w2"][l] = [c \in CellsOf("w2") |-> Content("w2", l, c)]
  BY DEF IInv, ParamInv, Names
<1>3. /\ \A shard \in {"w1", "w3"} : shard \in Shards /\ NameOf(shard) = "w13"
      /\ "w2" \in Shards /\ NameOf("w2") = "w2"
  BY DEF Shards, NameOf
<1>4. PICK a : a = param["w13"][l] /\ DOMAIN a = CellsOf("w13") /\ a = [c \in DOMAIN a |-> a[c]]
                /\ \A c \in CellsOf("w13") : a[c] = Content("w13", l, c)
  BY <1>2
<1>5. PICK b : b = WithPart(t, a, l, "w1")
  OBVIOUS
<1>6. b = [c \in CellsOf("w13") |->
             IF Brings(t, l, "w1") /\ ShardOf("w13", c) = "w1" THEN SourceOf("w13", l, c) ELSE a[c]]
  <2>1. WithPart(t, a, l, "w1")
          = [c \in CellsOf(NameOf("w1")) |->
               IF Brings(t, l, "w1") /\ ShardOf(NameOf("w1"), c) = "w1"
                 THEN SourceOf(NameOf("w1"), l, c) ELSE a[c]]
    BY <1>1, <1>3, <1>4, PartFills
  <2> QED BY <1>3, <1>5, <2>1
<1>7. DOMAIN b = CellsOf("w13") /\ b = [c \in DOMAIN b |-> b[c]]
  BY <1>6
<1>8. WithPart(t, b, l, "w3")
        = [c \in CellsOf("w13") |->
             IF Brings(t, l, "w3") /\ ShardOf("w13", c) = "w3" THEN SourceOf("w13", l, c) ELSE b[c]]
  <2>1. WithPart(t, b, l, "w3")
          = [c \in CellsOf(NameOf("w3")) |->
               IF Brings(t, l, "w3") /\ ShardOf(NameOf("w3"), c) = "w3"
                 THEN SourceOf(NameOf("w3"), l, c) ELSE b[c]]
    BY <1>1, <1>3, <1>7, PartFills
  <2> QED BY <1>3, <2>1
<1>9. ASSUME NEW c \in CellsOf("w13")
      PROVE  (IF Brings(t, l, "w3") /\ ShardOf("w13", c) = "w3" THEN SourceOf("w13", l, c) ELSE b[c])
             = (IF \E shard \in Shards : ShardOf("w13", c) = shard /\ (Arrived(l, shard) \/ Brings(t, l, shard))
                  THEN SourceOf("w13", l, c) ELSE Empty)
  <2>1. b[c] = IF Brings(t, l, "w1") /\ ShardOf("w13", c) = "w1" THEN SourceOf("w13", l, c)
               ELSE Content("w13", l, c)
    BY <1>4, <1>6
  <2>2. ShardOf("w13", c) \in {"w1", "w3", "none"}
    BY <1>1, ShardsOfCells
  <2> QED BY <2>1, <2>2 DEF Content, IsThere, Shards
<1>10. WithPart(t, WithPart(t, param["w13"][l], l, "w1"), l, "w3") = After(t, "w13", l)
  <2>1. WithPart(t, b, l, "w3") = After(t, "w13", l)
    BY <1>8, <1>9 DEF After
  <2> QED BY <1>4, <1>5, <2>1, Zenon
<1>11. PICK d : d = param["w2"][l] /\ DOMAIN d = CellsOf("w2") /\ d = [c \in DOMAIN d |-> d[c]]
                 /\ \A c \in CellsOf("w2") : d[c] = Content("w2", l, c)
  BY <1>2
<1>12. WithPart(t, d, l, "w2")
         = [c \in CellsOf("w2") |->
              IF Brings(t, l, "w2") /\ ShardOf("w2", c) = "w2" THEN SourceOf("w2", l, c) ELSE d[c]]
  <2>1. WithPart(t, d, l, "w2")
          = [c \in CellsOf(NameOf("w2")) |->
               IF Brings(t, l, "w2") /\ ShardOf(NameOf("w2"), c) = "w2"
                 THEN SourceOf(NameOf("w2"), l, c) ELSE d[c]]
    BY <1>1, <1>3, <1>11, PartFills
  <2> QED BY <1>3, <2>1
<1>13. ASSUME NEW c \in CellsOf("w2")
       PROVE  (IF Brings(t, l, "w2") /\ ShardOf("w2", c) = "w2" THEN SourceOf("w2", l, c) ELSE d[c])
              = (IF \E shard \in Shards : ShardOf("w2", c) = shard /\ (Arrived(l, shard) \/ Brings(t, l, shard))
                   THEN SourceOf("w2", l, c) ELSE Empty)
  <2>1. d[c] = Content("w2", l, c)
    BY <1>11
  <2>2. ShardOf("w2", c) \in {"w2", "none"}
    BY <1>1, ShardsOfCells
  <2> QED BY <2>1, <2>2 DEF Content, IsThere, Shards
<1>14. WithPart(t, param["w2"][l], l, "w2") = After(t, "w2", l)
  <2>1. WithPart(t, d, l, "w2") = After(t, "w2", l)
    BY <1>12, <1>13 DEF After
  <2> QED BY <1>11, <2>1, Zenon
<1> QED BY <1>10, <1>14

-----------------------------------------------------------------------------
(***************************************************************************)
(* The invariant is inductive.                                             *)
(***************************************************************************)
LEMMA Outside ==
  ASSUME UNCHANGED choices
  PROVE  /\ Checkpoint' = Checkpoint /\ LocalExperts' = LocalExperts /\ HasParam' = HasParam
         /\ ChoicesInv' = ChoicesInv
         /\ \A name : CellsOf(name)' = CellsOf(name)
         /\ \A l : LogicalExpert(l)' = LogicalExpert(l)
         /\ \A t, l, shard : Brings(t, l, shard)' = Brings(t, l, shard)
         /\ \A name, c : ShardOf(name, c)' = ShardOf(name, c)
         /\ \A name, l, c : SourceOf(name, l, c)' = SourceOf(name, l, c)
<1>1. /\ config' = config /\ format' = format /\ transposed' = transposed /\ kind' = kind
      /\ num_redundant' = num_redundant /\ placement' = placement /\ rank' = rank
      /\ input_value' = input_value
  BY DEF choices
<1>2. /\ HasBias' = HasBias /\ NumLogical' = NumLogical /\ EpSize' = EpSize /\ TpSize' = TpSize
      /\ Intermediate' = Intermediate /\ Hidden' = Hidden
      /\ PaddedIntermediate' = PaddedIntermediate /\ PaddedHidden' = PaddedHidden
      /\ Block' = Block /\ RefinedBlock' = RefinedBlock
  BY <1>1 DEF HasBias, NumLogical, EpSize, TpSize, Intermediate, Hidden, PaddedIntermediate,
              PaddedHidden, Block, RefinedBlock
<1>3. NumPhysical' = NumPhysical
  BY <1>1, <1>2 DEF NumPhysical
<1>4. Checkpoint' = Checkpoint /\ LocalExperts' = LocalExperts /\ HasParam' = HasParam
  BY <1>1, <1>2, <1>3 DEF Checkpoint, LocalExperts, HasParam
<1>5. ChoicesInv' = ChoicesInv
  BY <1>1, <1>2 DEF ChoicesInv, Supported
<1>6. \A name : CellsOf(name)' = CellsOf(name)
  BY <1>1, <1>2 DEF CellsOf, ParamRows, ParamCols
<1>7. \A p : PhysicalToLogical(p)' = PhysicalToLogical(p)
  BY <1>2 DEF PhysicalToLogical
<1>8. \A l : LogicalExpert(l)' = LogicalExpert(l) /\ Physical(l)' = Physical(l)
  BY <1>1, <1>2, <1>3, <1>7 DEF LogicalExpert, Physical, PhysicalToLogical
<1>9. \A t, l, shard : Brings(t, l, shard)' = Brings(t, l, shard)
  BY <1>2, <1>8 DEF Brings
<1>10. Grid' = Grid /\ Coarse' = Coarse
  BY <1>1, <1>2 DEF Grid, Coarse
<1>11. \A f : IsFeature(f)' = IsFeature(f) /\ Feature(f)' = Feature(f)
  BY <1>1, <1>2 DEF IsFeature, Feature
<1>12. \A name, c : ShardOf(name, c)' = ShardOf(name, c)
  BY <1>1, <1>2, <1>10 DEF ShardOf, IsUp, RowFeature, IsFeature
<1>13. \A name, l, c : SourceOf(name, l, c)' = SourceOf(name, l, c)
  BY <1>1, <1>2, <1>8, <1>11 DEF SourceOf, LogicalExpert, PhysicalToLogical, NumPhysical, IsFeature, Feature
<1> QED BY <1>4, <1>5, <1>6, <1>8, <1>9, <1>12, <1>13

\* What has arrived after tensor t.
LEMMA ArrivedNext ==
  ASSUME IInv, NEW t \in todo, todo' = todo \ {t}, UNCHANGED choices
  PROVE  \A l, shard : Arrived(l, shard)' <=> Arrived(l, shard) \/ Brings(t, l, shard)
<1>1. t \in Checkpoint /\ todo \subseteq Checkpoint
  BY DEF IInv, LoadingInv
<1>2. Checkpoint' \ todo' = (Checkpoint \ todo) \union {t}
  BY <1>1, Outside
<1>3. ASSUME NEW l, NEW shard
      PROVE  Arrived(l, shard)' <=> Arrived(l, shard) \/ Brings(t, l, shard)
  <2>1. \A u : Brings(u, l, shard)' = Brings(u, l, shard)
    BY Outside
  <2>2. Arrived(l, shard)' <=> \E u \in (Checkpoint \ todo) \union {t} : Brings(u, l, shard)
    BY <1>2, <2>1 DEF Arrived
  <2> QED BY <2>2 DEF Arrived
<1> QED BY <1>3

LEMMA SameCells ==
  ASSUME IInv, UNCHANGED <<choices, todo, param, input_scale, failed>>
  PROVE  IInv'
<1>1. ChoicesInv' /\ LoadingInv'
  BY Outside DEF IInv, LoadingInv, choices
<1>2. \A l, shard : Arrived(l, shard)' <=> Arrived(l, shard)
  <2>1. ASSUME NEW l, NEW shard PROVE Arrived(l, shard)' <=> Arrived(l, shard)
    <3>1. \A u : Brings(u, l, shard)' = Brings(u, l, shard)
      BY Outside
    <3> QED BY <3>1, Outside DEF Arrived
  <2> QED BY <2>1
<1>3. \A name, l, c : Content(name, l, c)' = Content(name, l, c)
  BY <1>2, Outside DEF Content, IsThere
<1>4. ParamInv'
  BY <1>3, Outside DEF IInv, ParamInv
<1>5. ScaleInv'
  <2>1. kind' = kind /\ config' = config /\ input_value' = input_value
    BY DEF choices
  <2> QED BY <1>2, <2>1, Outside DEF IInv, ScaleInv
<1> QED BY <1>1, <1>4, <1>5 DEF IInv

LEMMA InitInv == Init => IInv
<1> SUFFICES ASSUME Init PROVE IInv
  OBVIOUS
<1>1. ChoicesInv
  <2>1. /\ config \in Configs /\ format \in config.formats
        /\ kind \in config.kinds /\ Supported(format, kind)
        /\ num_redundant \in config.redundancies
    BY DEF Init
  <2>2. transposed \in BOOLEAN /\ (transposed => format = "fused_3d")
    BY DEF Init
  <2>3. placement \in {"linear", "round_robin"}
    BY DEF Init
  <2>4. rank \in 0 .. (IF EpSize > 1 THEN EpSize ELSE TpSize) - 1
    BY DEF Init
  <2>5. kind = "input_scale" => input_value \in [0 .. NumLogical - 1 -> [Shards -> config.input_scales]]
    BY DEF Init
  <2> QED BY <2>1, <2>2, <2>3, <2>4, <2>5 DEF ChoicesInv
<1>2. LoadingInv
  BY DEF Init, LoadingInv
<1>3. \A l, shard : ~Arrived(l, shard)
  BY DEF Init, Arrived
<1>4. \A name, l, c : Content(name, l, c) = Empty
  BY <1>3 DEF Content, IsThere
<1>5. ParamInv
  <2>1. CASE HasParam
    <3>1. param = [name \in Names |-> [l \in LocalExperts |-> [c \in CellsOf(name) |-> Empty]]]
      BY <2>1 DEF Init, HasParam, CellsOf
    <3> QED BY <1>4, <2>1, <3>1 DEF ParamInv
  <2>2. CASE ~HasParam
    BY <2>2 DEF Init, HasParam, ParamInv
  <2> QED BY <2>1, <2>2
<1>6. ScaleInv
  BY <1>3 DEF ScaleInv
<1> QED BY <1>1, <1>2, <1>5, <1>6 DEF IInv

LEMMA SkippedTensor ==
  ASSUME IInv, NEW t \in todo, SkipBias(t)
  PROVE  IInv'
<1>1. /\ kind = "bias" /\ ~HasBias /\ todo' = todo \ {t} /\ UNCHANGED choices
      /\ UNCHANGED <<param, input_scale, failed>> /\ kind' = kind
  BY DEF SkipBias, Take, choices
<1>2. ChoicesInv' /\ LoadingInv'
  BY <1>1, Outside DEF IInv, LoadingInv
<1>3. ParamInv'
  BY <1>1, Outside DEF IInv, ParamInv, HasParam
<1>4. ScaleInv'
  BY <1>1 DEF ScaleInv
<1> QED BY <1>2, <1>3, <1>4 DEF IInv

LEMMA LoadedTensor ==
  ASSUME IInv, NEW t \in todo, LoadTensor(t)
  PROVE  IInv'
<1>1. /\ kind # "input_scale" /\ HasParam /\ todo' = todo \ {t} /\ UNCHANGED choices /\ kind' = kind
      /\ t \in Checkpoint /\ ~failed
  BY DEF LoadTensor, Take, HasParam, IInv, LoadingInv, choices
<1> DEFINE w13(l) == WithPart(t, WithPart(t, param["w13"][l], l, "w1"), l, "w3")
           w2(l) == WithPart(t, param["w2"][l], l, "w2")
<1>2. ASSUME NEW l \in LocalExperts
      PROVE  /\ w13(l) = After(t, "w13", l) /\ w2(l) = After(t, "w2", l)
             /\ w13(l) # Refused /\ w2(l) # Refused
  <2>1. w13(l) = After(t, "w13", l) /\ w2(l) = After(t, "w2", l)
    BY <1>1, TensorFills
  <2>2. DOMAIN After(t, "w13", l) = CellsOf("w13") /\ DOMAIN After(t, "w2", l) = CellsOf("w2")
    BY DEF After
  <2>3. After(t, "w13", l) # Refused /\ After(t, "w2", l) # Refused
    BY <1>1, <2>2, NotRefused DEF IInv, Names
  <2> QED BY <2>1, <2>3
<1>3. /\ param' = [w13 |-> [l \in LocalExperts |-> w13(l)], w2 |-> [l \in LocalExperts |-> w2(l)]]
      /\ UNCHANGED failed
  BY <1>2 DEF LoadTensor
<1> HIDE DEF w13, w2
<1>4. /\ DOMAIN param' = Names
      /\ \A name \in Names : param'[name] = [l \in LocalExperts |-> After(t, name, l)]
  BY <1>2, <1>3 DEF Names
<1>5. ASSUME NEW name \in Names, NEW l \in LocalExperts
      PROVE  After(t, name, l) = [c \in CellsOf(name) |-> Content(name, l, c)']
  <2>1. \A shard : Arrived(l, shard)' <=> Arrived(l, shard) \/ Brings(t, l, shard)
    BY <1>1, ArrivedNext
  <2>2. ASSUME NEW c
        PROVE  Content(name, l, c)'
                 = IF \E shard \in Shards : ShardOf(name, c) = shard /\ (Arrived(l, shard) \/ Brings(t, l, shard))
                     THEN SourceOf(name, l, c) ELSE Empty
    <3>1. ShardOf(name, c)' = ShardOf(name, c) /\ SourceOf(name, l, c)' = SourceOf(name, l, c)
      BY <1>1, Outside
    <3>2. IsThere(name, l, c)'
            <=> \E shard \in Shards : ShardOf(name, c) = shard /\ (Arrived(l, shard) \/ Brings(t, l, shard))
      BY <2>1, <3>1 DEF IsThere
    <3> QED BY <3>1, <3>2 DEF Content
  <2> QED BY <2>2 DEF After
<1>6. ParamInv'
  <2>1. HasParam' /\ LocalExperts' = LocalExperts /\ \A name : CellsOf(name)' = CellsOf(name)
    BY <1>1, Outside
  <2>2. \A name \in Names :
          param'[name] = [l \in LocalExperts |-> [c \in CellsOf(name) |-> Content(name, l, c)']]
    BY <1>4, <1>5
  <2> QED BY <1>4, <2>1, <2>2 DEF ParamInv
<1>7. ChoicesInv' /\ LoadingInv'
  BY <1>1, <1>3, Outside DEF IInv, LoadingInv
<1>8. ScaleInv'
  BY <1>1 DEF ScaleInv
<1> QED BY <1>6, <1>7, <1>8 DEF IInv

LEMMA LoadedScale ==
  ASSUME IInv, NEW t \in todo, LoadInputScale(t)
  PROVE  IInv'
<1>1. /\ kind = "input_scale" /\ ~HasParam /\ todo' = todo \ {t} /\ UNCHANGED choices /\ kind' = kind
      /\ t \in Checkpoint /\ ~failed /\ UNCHANGED param
      /\ config' = config /\ input_value' = input_value
  BY DEF LoadInputScale, Take, HasParam, IInv, LoadingInv, choices
<1>2. ChoicesInv /\ ChoicesInv'
  BY <1>1, Outside DEF IInv
<1>3. LoadingInv' /\ ParamInv'
  <2>1. failed' = TRUE \/ failed' = failed
    BY Zenon DEF LoadInputScale
  <2>2. failed' \in BOOLEAN
    BY <2>1, Zenon DEF IInv, LoadingInv
  <2>3. todo' \subseteq Checkpoint'
    BY <1>1, Outside DEF IInv, LoadingInv
  <2>4. HasParam' = HasParam
    BY <1>1, Outside
  <2>5. ParamInv'
    BY <1>1, <2>4 DEF IInv, ParamInv
  <2> QED BY <1>1, <2>2, <2>3, <2>5 DEF LoadingInv
<1>4. format = "per_expert"
  BY <1>1, <1>2, ConfigSizes DEF ChoicesInv, Supported
<1>5. t.expert \in 0 .. NumLogical - 1 /\ t.proj \in {"gate", "up", "down"} /\ t.expert # All
  BY <1>1, <1>2, <1>4, ConfigSizes DEF Checkpoint, All
<1> DEFINE ws == CASE t.proj = "gate" -> "w1" [] t.proj = "up" -> "w3" [] t.proj = "down" -> "w2"
           places == {<<NameOf(entry[2]), LocalExpertId(entry[1])>> :
                        entry \in {e \in Entries(t) : LocalExpertId(e[1]) # -1}}
           value == input_value[t.expert][ws]
<1>6. ws \in Shards /\ ShardsOf(t.proj) = {ws}
  BY <1>5 DEF Shards, ShardsOf
<1>7. Entries(t) = {p \in 0 .. NumPhysical - 1 : PhysicalToLogical(p) = t.expert} \X {ws}
  BY <1>1, <1>2, <1>4, <1>6, TensorKinds
<1>8. /\ failed' = FALSE => \A p \in places : input_scale[p[1]][p[2]] \in {1, value}
      /\ failed' = FALSE =>
           input_scale' = [name \in Names |-> [l \in LocalExperts |->
                             IF <<name, l>> \in places THEN value ELSE input_scale[name][l]]]
  BY <1>1, Zenon DEF LoadInputScale
<1> HIDE DEF value, ws
<1>9. ASSUME NEW name, NEW l \in LocalExperts
      PROVE  <<name, l>> \in places <=> name = NameOf(ws) /\ LogicalExpert(l) = t.expert
  <2>1. /\ Physical(l) \in 0 .. NumPhysical - 1 /\ LocalExpertId(Physical(l)) = l
        /\ \A p \in 0 .. NumPhysical - 1 : LocalExpertId(p) = l => p = Physical(l)
        /\ LogicalExpert(l) = PhysicalToLogical(Physical(l))
    BY <1>2, Located, Logical
  <2>2. l # -1
    BY DEF LocalExperts
  <2>3. ASSUME <<name, l>> \in places
        PROVE  name = NameOf(ws) /\ LogicalExpert(l) = t.expert
    <3>1. PICK entry \in Entries(t) : name = NameOf(entry[2]) /\ l = LocalExpertId(entry[1])
      BY <2>3
    <3>2. /\ entry[1] \in 0 .. NumPhysical - 1 /\ PhysicalToLogical(entry[1]) = t.expert
          /\ entry[2] = ws
      BY <1>7
    <3> QED BY <2>1, <3>1, <3>2
  <2>4. ASSUME name = NameOf(ws), LogicalExpert(l) = t.expert
        PROVE  <<name, l>> \in places
    <3> DEFINE entry == <<Physical(l), ws>>
    <3>1. entry \in Entries(t) /\ entry[1] = Physical(l) /\ entry[2] = ws
      BY <1>7, <2>1, <2>4
    <3> HIDE DEF entry
    <3>2. LocalExpertId(entry[1]) # -1 /\ <<NameOf(entry[2]), LocalExpertId(entry[1])>> = <<name, l>>
      BY <2>1, <2>2, <2>4, <3>1
    <3> QED BY <3>1, <3>2
  <2> QED BY <2>3, <2>4
<1> HIDE DEF places
<1>10. ScaleInv'
  <2> SUFFICES ASSUME 1 \notin config.input_scales, failed' = FALSE,
                      NEW l \in LocalExperts, NEW shard \in Shards, Arrived(l, shard)'
               PROVE  input_scale'[NameOf(shard)][l] = input_value[LogicalExpert(l)][shard]
    <3>1. failed' \in BOOLEAN
      BY <1>3 DEF LoadingInv
    <3>2. LocalExperts' = LocalExperts /\ \A l : LogicalExpert(l)' = LogicalExpert(l)
      BY <1>1, Outside
    <3> QED BY <1>1, <3>1, <3>2 DEF ScaleInv
  <2>1. NameOf(shard) \in Names
    BY DEF NameOf, Names
  <2>2. input_scale'[NameOf(shard)][l]
          = IF <<NameOf(shard), l>> \in places THEN value ELSE input_scale[NameOf(shard)][l]
    BY <1>8, <2>1
  <2>3. CASE Brings(t, l, shard)
    <3>1. shard = ws /\ LogicalExpert(l) = t.expert
      BY <1>5, <1>6, <2>3 DEF Brings
    <3> QED BY <1>9, <2>2, <3>1 DEF value
  <2>4. CASE ~Brings(t, l, shard)
    <3>1. Arrived(l, shard)
      BY <1>1, <2>4, ArrivedNext
    <3>2. input_scale[NameOf(shard)][l] = input_value[LogicalExpert(l)][shard]
      BY <1>1, <3>1 DEF IInv, ScaleInv
    <3>3. input_value[LogicalExpert(l)][shard] # 1
      <4>1. /\ LogicalExpert(l) \in 0 .. NumLogical - 1
            /\ input_value \in [0 .. NumLogical - 1 -> [Shards -> config.input_scales]]
        BY <1>1, <1>2, Logical DEF ChoicesInv
      <4>2. input_value[LogicalExpert(l)][shard] \in config.input_scales
        BY <4>1
      <4> QED BY <4>2
    <3>4. CASE <<NameOf(shard), l>> \in places
      <4>1. input_scale[NameOf(shard)][l] \in {1, value}
        BY <1>8, <3>4
      <4> QED BY <2>2, <3>2, <3>3, <3>4, <4>1
    <3>5. CASE <<NameOf(shard), l>> \notin places
      BY <2>2, <3>2, <3>5
    <3> QED BY <3>4, <3>5
  <2> QED BY <2>3, <2>4
<1> QED BY <1>2, <1>3, <1>10 DEF IInv

LEMMA StepInv == IInv /\ [Next]_vars => IInv'
<1> SUFFICES ASSUME IInv, [Next]_vars PROVE IInv'
  OBVIOUS
<1>1. ASSUME NEW t \in todo, SkipBias(t) PROVE IInv'
  BY <1>1, SkippedTensor
<1>2. ASSUME NEW t \in todo, LoadTensor(t) PROVE IInv'
  BY <1>2, LoadedTensor
<1>3. ASSUME NEW t \in todo, LoadInputScale(t) PROVE IInv'
  BY <1>3, LoadedScale
<1>4. CASE Stop
  BY <1>4, SameCells DEF Stop, vars
<1>5. CASE UNCHANGED vars
  BY <1>5, SameCells DEF vars
<1> QED BY <1>1, <1>2, <1>3, <1>4, <1>5 DEF Next

\* At any time, each cell of the parameters is its source if the tensor it is
\* in has come, and is empty if not: the invariant of the theorems below.
THEOREM Invariance == Spec => []IInv
<1> QED BY InitInv, StepInv, PTL DEF Spec

-----------------------------------------------------------------------------
(***************************************************************************)
(* What the kernels read.                                                  *)
(***************************************************************************)
LEMMA NoShardNoSource ==
  ASSUME ChoicesInv, kind # "input_scale", NEW name \in Names, NEW l, NEW c, ShardOf(name, c) = "none"
  PROVE  SourceOf(name, l, c) = Empty
<1>1. kind \in {"weight", "bias", "channel_scale", "block_scale", "tensor_scale"}
  BY ConfigSizes
<1>2. kind # "tensor_scale"
  BY DEF ShardOf
<1>3. CASE name = "w13"
  <2>1. ~IsFeature(RowFeature(c)) \/ c[2] * Grid >= Hidden
    BY <1>2, <1>3 DEF ShardOf
  <2> QED BY <1>1, <1>2, <1>3, <2>1 DEF SourceOf, RowFeature, IsUp, Grid
<1>4. CASE name = "w2" /\ kind \in {"bias", "channel_scale"}
  BY <1>4 DEF ShardOf, SourceOf
<1>5. CASE name = "w2" /\ kind \notin {"bias", "channel_scale"}
  <2>1. c[1] * Grid >= Hidden \/ ~IsFeature(c[2] * Grid)
    BY <1>1, <1>2, <1>5 DEF ShardOf
  <2> QED BY <1>1, <1>2, <1>5, <2>1 DEF SourceOf, Grid
<1> QED BY <1>3, <1>4, <1>5 DEF Names

\* Tensors of all experts name the logical experts only, and redundant ones
\* are not loaded from them.
AllAreNamed == format = "fused_3d" => num_redundant = 0

\* When no tensor is left, every shard of every local expert has come.
LEMMA AllArrived ==
  ASSUME ChoicesInv, AllAreNamed, todo = {}, NEW l \in LocalExperts, NEW shard \in Shards
  PROVE  Arrived(l, shard)
<1>1. LogicalExpert(l) \in 0 .. NumLogical - 1 /\ Physical(l) \in 0 .. NumPhysical - 1
  BY Logical, Located
<1>2. shard \in {"w1", "w2", "w3"}
  BY DEF Shards
<1>3. LogicalExpert(l) # All
  BY <1>1, ConfigSizes DEF All
<1>4. SUFFICES \E t \in Checkpoint : Brings(t, l, shard)
  BY DEF Arrived
<1>5. CASE format = "per_expert"
  <2> DEFINE t == [expert |-> LogicalExpert(l),
                   proj |-> IF shard = "w1" THEN "gate" ELSE IF shard = "w3" THEN "up" ELSE "down"]
  <2>1. t \in Checkpoint
    BY <1>1, <1>5 DEF Checkpoint
  <2>2. Brings(t, l, shard)
    BY <1>2, <1>3 DEF Brings, ShardsOf
  <2> QED BY <2>1, <2>2
<1>6. CASE format = "per_expert_fused"
  <2> DEFINE t == [expert |-> LogicalExpert(l), proj |-> IF shard = "w2" THEN "down" ELSE "gate_up"]
  <2>1. t \in Checkpoint
    BY <1>1, <1>6 DEF Checkpoint
  <2>2. Brings(t, l, shard)
    BY <1>2, <1>3 DEF Brings, ShardsOf
  <2> QED BY <2>1, <2>2
<1>7. CASE format = "fused_3d"
  <2> DEFINE t == [expert |-> All, proj |-> IF shard = "w2" THEN "down" ELSE "gate_up"]
  <2>1. t \in Checkpoint
    BY <1>7 DEF Checkpoint
  <2>2. Physical(l) < NumLogical
    BY <1>1, <1>7, ConfigSizes DEF AllAreNamed, NumPhysical
  <2>3. Brings(t, l, shard)
    BY <1>2, <2>2 DEF Brings, ShardsOf
  <2> QED BY <2>1, <2>3
<1> QED BY <1>5, <1>6, <1>7, ConfigSizes

LEMMA CellsOfParameters ==
  ASSUME IInv, NEW name \in DOMAIN param, NEW l \in LocalExperts, NEW c \in DOMAIN param[name][l]
  PROVE  /\ HasParam /\ name \in Names /\ c \in CellsOf(name)
         /\ param[name][l][c] = Content(name, l, c)
<1>1. HasParam
  <2> SUFFICES ASSUME ~HasParam PROVE FALSE
    OBVIOUS
  <2>1. param = <<>>
    BY DEF IInv, ParamInv
  <2> QED BY <2>1
<1>2. name \in Names
  BY <1>1 DEF IInv, ParamInv
<1>3. param[name][l] = [d \in CellsOf(name) |-> Content(name, l, d)]
  BY <1>1, <1>2 DEF IInv, ParamInv
<1> QED BY <1>1, <1>2, <1>3

\* In whatever layout and order the tensors come, a cell the kernels read
\* holds what belongs there or nothing yet, and padding stays untouched.
THEOREM CellsCorrect == Spec => []CellsAreTheirSources
<1>1. IInv => CellsAreTheirSources
  <2> SUFFICES ASSUME IInv, NEW name \in DOMAIN param, NEW l \in LocalExperts,
                      NEW c \in DOMAIN param[name][l]
               PROVE  param[name][l][c] \in {Empty, SourceOf(name, l, c)}
    BY DEF CellsAreTheirSources
  <2> QED BY CellsOfParameters DEF Content
<1> QED BY Invariance, <1>1, PTL

\* No tensor is refused, and the layer is whole in the end, redundant experts
\* included unless the checkpoint has all experts in one tensor.
THEOREM LayerCorrect == Spec => [](AllAreNamed => LayerIsComplete)
<1>1. IInv => (AllAreNamed => LayerIsComplete)
  <2> SUFFICES ASSUME IInv, AllAreNamed, kind # "input_scale"
               PROVE  /\ ~failed
                      /\ todo = {} =>
                           \A name \in DOMAIN param : \A l \in LocalExperts :
                             \A c \in DOMAIN param[name][l] : param[name][l][c] = SourceOf(name, l, c)
    BY DEF LayerIsComplete
  <2>1. ~failed
    BY DEF IInv, LoadingInv
  <2>2. ASSUME todo = {}, NEW name \in DOMAIN param, NEW l \in LocalExperts,
               NEW c \in DOMAIN param[name][l]
        PROVE  param[name][l][c] = SourceOf(name, l, c)
    <3>1. name \in Names /\ param[name][l][c] = Content(name, l, c)
      BY <2>2, CellsOfParameters
    <3>2. ShardOf(name, c) \in Shards \/ ShardOf(name, c) = "none"
      BY <3>1, ShardsOfCells DEF IInv, Names, Shards
    <3>3. CASE ShardOf(name, c) \in Shards
      <4>1. Arrived(l, ShardOf(name, c))
        BY <2>2, <3>3, AllArrived DEF IInv
      <4> QED BY <3>1, <3>3, <4>1 DEF Content, IsThere
    <3>4. CASE ShardOf(name, c) = "none"
      BY <3>1, <3>4, NoShardNoSource DEF IInv, Content
    <3> QED BY <3>2, <3>3, <3>4
  <2> QED BY <2>1, <2>2
<1> QED BY Invariance, <1>1, PTL

\* A layer is loaded only if the input scales of w1 and w3 of each expert are
\* equal, provided that none of them is 1, which stands for no scale yet.
THEOREM ScalesCorrect == Spec => [](1 \notin config.input_scales => UnequalInputScalesAreRefused)
<1>1. IInv => (1 \notin config.input_scales => UnequalInputScalesAreRefused)
  <2> SUFFICES ASSUME IInv, 1 \notin config.input_scales, todo = {}, ~failed, kind = "input_scale",
                      NEW l \in LocalExperts
               PROVE  LET value == input_value[LogicalExpert(l)]
                      IN /\ value["w1"] = value["w3"]
                         /\ input_scale["w13"][l] = value["w1"] /\ input_scale["w2"][l] = value["w2"]
    BY DEF UnequalInputScalesAreRefused
  <2>1. AllAreNamed
    BY DEF IInv, ChoicesInv, Supported, AllAreNamed
  <2>2. \A shard \in Shards : input_scale[NameOf(shard)][l] = input_value[LogicalExpert(l)][shard]
    BY <2>1, AllArrived DEF IInv, ScaleInv
  <2>3. /\ NameOf("w1") = "w13" /\ NameOf("w3") = "w13" /\ NameOf("w2") = "w2"
        /\ {"w1", "w2", "w3"} \subseteq Shards
    BY DEF NameOf, Shards
  <2> QED BY <2>2, <2>3
<1> QED BY Invariance, <1>1, PTL
=============================================================================
