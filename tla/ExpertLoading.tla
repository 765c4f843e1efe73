--------------------------- MODULE ExpertLoading ----------------------------
(***************************************************************************)
(* Loading the experts of one MoE layer on one rank: RoutedExperts.        *)
(* load_weights, the loader MoeWNA16Method wraps around                    *)
(* RoutedExperts.weight_loader, and the sizes create_weights chooses.      *)
(*                                                                         *)
(* The tensors of a checkpoint arrive one at a time in any order.  A       *)
(* tensor is already in the standard format of the loader (n rows, k       *)
(* columns, `pack` numbers to a byte); the element at row n and column k   *)
(* of tensor t is <<t, n, k>>, so a parameter shows where each of its      *)
(* bytes came from.  Rows, columns, experts and ranks count from 0.        *)
(***************************************************************************)
EXTENDS Naturals, FiniteSets, WeightFormat

CONSTANTS
  Configs,       \* the configurations: of the engine, and of the checkpoint
  MinGroupSize   \* 32 in the code

(***************************************************************************)
(* A configuration: num_experts is the global number of experts,           *)
(* intermediate the intermediate size before sharding, group_size and the  *)
(* rest what quantization_config says, suffixes the kinds of tensors the   *)
(* checkpoint holds.                                                       *)
(***************************************************************************)
Sizes == {"num_experts", "ep_size", "tp_size", "intermediate", "hidden", "group_size"}
ASSUME SizesAssumption ==
  /\ MinGroupSize \in Nat \ {0}
  /\ \A c \in Configs :
       /\ \A size \in Sizes : c[size] \in Nat \ {0}
       /\ c.num_experts % c.ep_size = 0 /\ c.intermediate % c.tp_size = 0
       /\ c.ep_size = 1 \/ c.tp_size = 1
ASSUME FormatAssumption ==
  \A c \in Configs : /\ c.bits \in {4, 8} /\ c.has_zp \in BOOLEAN
                     /\ c.method \in {"awq", "gptq"} /\ (c.method = "awq" => c.bits = 4)

\* The factors by which a group size is halved, and those create_weights allows.
Halvings(n) == {d \in 1 .. n : \E i \in 0 .. n : d = 2 ^ i}
IsSupported(n, d) == d > 1 => n \div d >= MinGroupSize

\* The rows of a checkpoint are whole groups, and a group is whole bytes of
\* numbers down to the smallest the code supports.
ASSUME GroupsAssumption ==
  \A c \in Configs :
    /\ c.hidden % c.group_size = 0 /\ c.intermediate % c.group_size = 0
    /\ \A d \in Halvings(c.group_size) :
         IsSupported(c.group_size, d) =>
           c.group_size % d = 0 /\ (c.group_size \div d) % BytePack(c.bits) = 0

VARIABLES
  config,  \* a member of Configs
  rank,    \* the rank of this process in its expert or tensor parallel group
  todo,    \* the tensors of the checkpoint still to come
  param,   \* param[name][expert]: the cells of a parameter of a local expert
  failed   \* a tensor could not be stored

vars == <<config, rank, todo, param, failed>>

NumExperts == config.num_experts
EpSize == config.ep_size
TpSize == config.tp_size
Intermediate == config.intermediate
Hidden == config.hidden
CkptGroupSize == config.group_size
HasZeroPoint == config.has_zp

Empty == <<>>

-----------------------------------------------------------------------------
(***************************************************************************)
(* create_weights: the parameters of a rank.                               *)
(***************************************************************************)
IntermediatePerPartition == Intermediate \div TpSize
Pack == BytePack(config.bits)  \* bit8_pack_factor
LocalExperts == 0 .. NumExperts \div EpSize - 1

\* The group size is halved until it divides both sizes.
Divides(d) ==
  /\ IntermediatePerPartition % (CkptGroupSize \div d) = 0
  /\ Hidden % (CkptGroupSize \div d) = 0
GroupSizeDivFactor ==
  CHOOSE d \in Halvings(CkptGroupSize) :
    Divides(d) /\ \A f \in Halvings(CkptGroupSize) : f < d => ~Divides(f)
GroupSize == CkptGroupSize \div GroupSizeDivFactor

\* assert group_size >= 32, in the loop.
GroupSizeIsSupported ==
  \E d \in Halvings(CkptGroupSize) : Divides(d) /\ IsSupported(CkptGroupSize, d)

\* The rows and columns of a parameter.
Shape ==
  [w13_qweight |-> <<2 * IntermediatePerPartition, Hidden \div Pack>>,
   w2_qweight  |-> <<Hidden, IntermediatePerPartition \div Pack>>,
   w13_scales  |-> <<2 * IntermediatePerPartition, Hidden \div GroupSize>>,
   w2_scales   |-> <<Hidden, IntermediatePerPartition \div GroupSize>>,
   w13_qzeros  |-> <<(2 * IntermediatePerPartition) \div Pack, Hidden \div GroupSize>>,
   w2_qzeros   |-> <<Hidden \div Pack, IntermediatePerPartition \div GroupSize>>]

Registered ==
  {"w13_qweight", "w2_qweight", "w13_scales", "w2_scales"}
  \union IF HasZeroPoint THEN {"w13_qzeros", "w2_qzeros"} ELSE {}

Block(rows, cols) == (0 .. rows - 1) \X (0 .. cols - 1)

-----------------------------------------------------------------------------
(***************************************************************************)
(* The checkpoint.  Besides what the layer needs it may hold a bare weight *)
(* or an inverse scale of the same expert, and the g_idx of GPTQ.          *)
(***************************************************************************)
Shards == {"w1", "w2", "w3"}
Checkpoint == [expert : 0 .. NumExperts - 1, shard : Shards, suffix : config.suffixes]

OutFeatures(shard) == IF shard = "w2" THEN Hidden ELSE Intermediate
InFeatures(shard) == IF shard = "w2" THEN Intermediate ELSE Hidden

\* The shape of a tensor in the standard format.
CkptShape(t) ==
  CASE t.suffix = "qweight" -> <<OutFeatures(t.shard), InFeatures(t.shard) \div Pack>>
    [] t.suffix = "scales" -> <<OutFeatures(t.shard), InFeatures(t.shard) \div CkptGroupSize>>
    [] t.suffix = "qzeros" -> <<OutFeatures(t.shard) \div Pack, InFeatures(t.shard) \div CkptGroupSize>>

Tensor(t) ==
  [rows |-> CkptShape(t)[1], cols |-> CkptShape(t)[2],
   at |-> [c \in Block(CkptShape(t)[1], CkptShape(t)[2]) |-> <<t, c[1], c[2]>>]]

\* Zeros and scales are repeated to fit a smaller group size.
Repeated(t) ==
  LET x == Tensor(t)
  IN IF (GroupSizeDivFactor > 1 /\ t.suffix = "qzeros") \/ t.suffix = "scales"
       THEN [rows |-> x.rows, cols |-> x.cols * GroupSizeDivFactor,
             at |-> [c \in Block(x.rows, x.cols * GroupSizeDivFactor) |->
                       x.at[<<c[1], c[2] \div GroupSizeDivFactor>>]]]
       ELSE x

\* The parameter build_expert_params_mapping resolves a tensor to.
ParamName(t) ==
  LET w13(name) == t.shard \in {"w1", "w3"} /\ t.suffix = name
      w2(name) == t.shard = "w2" /\ t.suffix = name
  IN CASE w13("qweight") -> "w13_qweight" [] w2("qweight") -> "w2_qweight"
       [] w13("scales") -> "w13_scales"   [] w2("scales") -> "w2_scales"
       [] w13("qzeros") -> "w13_qzeros"   [] w2("qzeros") -> "w2_qzeros"
       [] OTHER -> "none"

-----------------------------------------------------------------------------
(***************************************************************************)
(* Where a tensor goes.                                                    *)
(***************************************************************************)

\* Mutant: every rank loads the first slice.
FirstRank == 0

\* Under expert parallelism the experts of a rank are whole: its layer has
\* tp_size 1 and tp_rank 0, whatever the rank of the process.
TpRank == IF EpSize > 1 THEN 0 ELSE rank

AllButFirstExpert(expert) ==
  LET n == NumExperts \div EpSize
      first == IF EpSize > 1 THEN rank * n ELSE 0
  IN IF expert \in first + 1 .. first + n - 1 THEN expert - first ELSE -1

\* _map_global_expert_id_to_local_expert_id, linear placement.
LocalExpertId(expert) ==
  LET n == NumExperts \div EpSize
      first == IF EpSize > 1 THEN rank * n ELSE 0
  IN IF expert \in first .. first + n - 1 THEN expert - first ELSE -1

\* Store the block of x that starts at <<row, col>> of x, of `size`, at the
\* place of the parameter that starts at `to`: the cells it fills.
Stored(cells, x, from, size, to) ==
  [c \in DOMAIN cells |->
     IF c[1] \in to[1] .. to[1] + size[1] - 1 /\ c[2] \in to[2] .. to[2] + size[2] - 1
       THEN x.at[<<from[1] + c[1] - to[1], from[2] + c[2] - to[2]>>] ELSE cells[c]]

\* A block fits a place narrowed to it, and overflows a smaller one.
Fits(size, room) == size[1] <= room[1] /\ size[2] <= room[2]

Store(name, expert, x, from, size, to, fits) ==
  IF fits
    THEN /\ param' = [param EXCEPT ![name][expert] = Stored(@, x, from, size, to)]
         /\ UNCHANGED failed
    ELSE failed' = TRUE /\ UNCHANGED param

\* Mutant: w3 goes where w1 is.
LoadW13Together(name, expert, shard, x) ==
  LET per_rank == x.rows \div TpSize
  IN Store(name, expert, x, <<per_rank * TpRank, 0>>, <<per_rank, x.cols>>, <<0, 0>>,
           Fits(<<per_rank, x.cols>>, Shape[name]))

\* _load_w13: the rows of this rank, in the first or the second half.
LoadW13(name, expert, shard, x) ==
  LET per_rank == x.rows \div TpSize
      shard_size == Shape[name][1] \div 2
  IN Store(name, expert, x, <<per_rank * TpRank, 0>>, <<per_rank, x.cols>>,
           <<IF shard = "w1" THEN 0 ELSE shard_size, 0>>,
           Fits(<<per_rank, x.cols>>, <<shard_size, Shape[name][2]>>))

\* _load_w2: the columns of this rank.
LoadW2(name, expert, x) ==
  LET per_rank == x.cols \div TpSize
  IN Store(name, expert, x, <<0, per_rank * TpRank>>, <<x.rows, per_rank>>, <<0, 0>>,
           Fits(<<x.rows, per_rank>>, Shape[name]))

\* Mutant: the halves are those of the weights, which are not packed by rows.
LoadW13ZerosUnpacked(expert, shard, x) ==
  LET size == <<x.rows \div TpSize, x.cols>>
      to == IF shard = "w1" THEN 0 ELSE IntermediatePerPartition
  IN Store("w13_qzeros", expert, x, <<size[1] * TpRank, 0>>, size, <<to, 0>>,
           size = <<IntermediatePerPartition, Shape["w13_qzeros"][2]>>)

\* The w13_qzeros path of the wrapper: assignment to a slice of rows.
LoadW13Zeros(expert, shard, x) ==
  LET rows == Shape["w13_qzeros"][1]
      half == IntermediatePerPartition \div 2
      size == <<x.rows \div TpSize, x.cols>>
      to == IF shard = "w1" THEN 0 ELSE half
      room == IF shard = "w1" THEN half ELSE rows - half
  IN Store("w13_qzeros", expert, x, <<size[1] * TpRank, 0>>, size, <<to, 0>>,
           x.rows % TpSize = 0 /\ size = <<room, Shape["w13_qzeros"][2]>>)

\* The w2_qzeros path of the wrapper.
LoadW2Zeros(expert, x) ==
  LET size == <<x.rows, x.cols \div TpSize>>
  IN Store("w2_qzeros", expert, x, <<0, size[2] * TpRank>>, size, <<0, 0>>,
           x.cols % TpSize = 0 /\ size = Shape["w2_qzeros"])

-----------------------------------------------------------------------------
Init ==
  /\ config \in Configs
  /\ GroupSizeIsSupported
  /\ rank \in 0 .. (IF EpSize > 1 THEN EpSize ELSE TpSize) - 1
  /\ todo = Checkpoint
  /\ param = [name \in Registered |->
                [expert \in LocalExperts |-> [c \in Block(Shape[name][1], Shape[name][2]) |-> Empty]]]
  /\ failed = FALSE

Take(t) == t \in todo /\ ~failed /\ todo' = todo \ {t} /\ UNCHANGED <<config, rank>>

\* No parameter has this name, and the layer has the quantized one.
SkipSpurious(t) ==
  /\ Take(t)
  /\ t.suffix \in {"weight", "weight_scale_inv"}
  /\ UNCHANGED <<param, failed>>

\* g_idx, and zeros of a symmetric checkpoint, are not used: the wrapper skips
\* them.  They get there if create_weights registered an empty parameter of
\* their name, which it does for GPTQ.
Unused(t) == t.suffix = "g_idx" \/ (t.suffix = "qzeros" /\ ~HasZeroPoint)

SkipUnused(t) ==
  /\ Take(t)
  /\ Unused(t) /\ config.method = "gptq"
  /\ UNCHANGED <<param, failed>>

\* The AttributeError of load_weights: no parameter has the name.
RaiseUnregistered(t) ==
  /\ Take(t)
  /\ Unused(t) /\ config.method = "awq"
  /\ failed' = TRUE
  /\ UNCHANGED param

\* An expert of another rank.
SkipRemote(t) ==
  /\ Take(t)
  /\ ParamName(t) \in Registered
  /\ LocalExpertId(t.expert) = -1
  /\ UNCHANGED <<param, failed>>

LoadTensor(t) ==
  /\ Take(t)
  /\ ParamName(t) \in Registered
  /\ LocalExpertId(t.expert) # -1
  /\ LET expert == LocalExpertId(t.expert)
         x == Repeated(t)
     IN CASE ParamName(t) = "w13_qzeros" -> LoadW13Zeros(expert, t.shard, x)
          [] ParamName(t) = "w2_qzeros" -> LoadW2Zeros(expert, x)
          [] ParamName(t) \in {"w13_qweight", "w13_scales"} -> LoadW13(ParamName(t), expert, t.shard, x)
          [] OTHER -> LoadW2(ParamName(t), expert, x)

\* The layer is loaded, or an exception stopped the engine.
Stop ==
  /\ todo = {} \/ failed
  /\ UNCHANGED vars

Next ==
  \/ \E t \in todo : SkipSpurious(t) \/ SkipUnused(t) \/ RaiseUnregistered(t)
                     \/ SkipRemote(t) \/ LoadTensor(t)
  \/ Stop

Spec == Init /\ [][Next]_vars

-----------------------------------------------------------------------------
(***************************************************************************)
(* What the kernel reads.  The weight of local expert l that multiplies    *)
(* input feature k into output feature n of a shard has its number, its    *)
(* scale and its zero at these cells; each must come from the same weight  *)
(* of the same expert in the checkpoint.                                   *)
(***************************************************************************)
Weights ==
  [expert : LocalExperts, shard : {"w1", "w3"},
   n : 0 .. IntermediatePerPartition - 1, k : 0 .. Hidden - 1]
  \union
  [expert : LocalExperts, shard : {"w2"},
   n : 0 .. Hidden - 1, k : 0 .. IntermediatePerPartition - 1]

\* Row n of w3 is behind those of w1.
Row(w) == IF w.shard = "w3" THEN IntermediatePerPartition + w.n ELSE w.n
Part(w, suffix) ==
  IF w.shard = "w2" THEN CASE suffix = "qweight" -> "w2_qweight"
                           [] suffix = "scales" -> "w2_scales" [] suffix = "qzeros" -> "w2_qzeros"
  ELSE CASE suffix = "qweight" -> "w13_qweight"
         [] suffix = "scales" -> "w13_scales" [] suffix = "qzeros" -> "w13_qzeros"

CellOf(w, suffix) ==
  CASE suffix = "qweight" -> <<Row(w), w.k \div Pack>>
    [] suffix = "scales" -> <<Row(w), w.k \div GroupSize>>
    [] suffix = "qzeros" -> <<Row(w) \div Pack, w.k \div GroupSize>>

\* The same weight in the whole model.
GlobalExpert(l) == IF EpSize > 1 THEN rank * (NumExperts \div EpSize) + l ELSE l
FirstFeature == IF TpSize > 1 THEN rank * IntermediatePerPartition ELSE 0
GlobalN(w) == IF w.shard = "w2" THEN w.n ELSE FirstFeature + w.n
GlobalK(w) == IF w.shard = "w2" THEN FirstFeature + w.k ELSE w.k

SourceOf(w, suffix) ==
  LET t == [expert |-> GlobalExpert(w.expert), shard |-> w.shard, suffix |-> suffix]
  IN CASE suffix = "qweight" -> <<t, GlobalN(w), GlobalK(w) \div Pack>>
       [] suffix = "scales" -> <<t, GlobalN(w), GlobalK(w) \div CkptGroupSize>>
       [] suffix = "qzeros" -> <<t, GlobalN(w) \div Pack, GlobalK(w) \div CkptGroupSize>>

Needed == config.suffixes \intersect
  ({"qweight", "scales"} \union IF HasZeroPoint THEN {"qzeros"} ELSE {})

\* Whatever has arrived, in whatever order, the number, the scale and the
\* zero the kernel will use for a weight are those of that very weight.
OnlyItsOwnSource ==
  \A w \in Weights, s \in Needed :
    param[Part(w, s)][w.expert][CellOf(w, s)] \in {Empty, SourceOf(w, s)}

\* When the checkpoint is exhausted, none of them is missing.
NothingIsMissing ==
  todo = {} /\ ~failed =>
    \A w \in Weights, s \in Needed : param[Part(w, s)][w.expert][CellOf(w, s)] # Empty

\* A byte that was loaded is never overwritten by a later tensor.
NeverOverwritten ==
  [][\A name \in Registered, l \in LocalExperts :
       \A c \in DOMAIN param[name][l] :
         param[name][l][c] # Empty => param'[name][l][c] = param[name][l][c]]_vars

\* Unused tensors come with GPTQ only.
UnusedAreRegistered == \A t \in Checkpoint : Unused(t) => config.method = "gptq"

\* No tensor of a checkpoint whose unused tensors have a parameter to go to
\* stops the loader: the slices of a rank, halved, packed and of the groups it
\* chose, have the shapes of their places.
EveryTensorFits == UnusedAreRegistered => ~failed

\* Whatever the format of the checkpoint, the kernel reads each number where
\* it belongs: no nibble of the reordered, transposed and repacked tensor is
\* misplaced, and no carry of a zero point reaches its neighbour.
NumbersSurvive ==
  todo = {} =>
    \A kind \in Needed :
      \A numbers \in Representable(config.method, config.bits, kind) :
        LET x == Converted(config.method, config.bits, kind, numbers)
        IN \A c \in Cells : ReadBack(config.bits, kind, x, c[1], c[2]) = numbers[c]
=============================================================================
