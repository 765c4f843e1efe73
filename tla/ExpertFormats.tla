---------------------------- MODULE ExpertFormats ---------------------------
(***************************************************************************)
(* RoutedExperts.load_weights for the three layouts of a checkpoint: one   *)
(* tensor per expert and projection; gate and up fused per expert; all     *)
(* experts of a projection in one three-dimensional tensor.  The layer may *)
(* hold redundant copies of experts (EPLB), share its experts or its       *)
(* intermediate features among ranks, and pad its parameters.              *)
(*                                                                         *)
(* A tensor is a grid of rows and columns; the cell of row n and column k  *)
(* of a tensor of expert e is <<e, shard, n, k>>, so a parameter shows     *)
(* where each cell came from.  The kinds of tensors (weights, biases,      *)
(* scales) have parameters of their own and do not meet: a behaviour is    *)
(* about one of them.  ExpertLoading has the WNA16 tensors.                *)
(***************************************************************************)
EXTENDS Integers, FiniteSets

CONSTANT Configs   \* the configurations of the layer and of the checkpoint

(***************************************************************************)
(* A configuration: formats and kinds are the layouts and the kinds of     *)
(* tensors to try, redundancies the numbers of redundant experts and       *)
(* input_scales the values an input scale may have; padded_intermediate    *)
(* and padded_hidden are the sizes of the parameters of a rank, block and  *)
(* refined_block the block sizes of the scales of the checkpoint and of    *)
(* the parameters; has_bias says whether the layer registers biases.       *)
(***************************************************************************)
ASSUME KindsAssumption == \A c \in Configs :
  /\ c.formats \subseteq {"per_expert", "per_expert_fused", "fused_3d"}
  /\ c.kinds \subseteq {"weight", "bias", "channel_scale", "block_scale", "tensor_scale", "input_scale"}
  /\ c.has_bias \in BOOLEAN
ASSUME ExpertsAssumption == \A c \in Configs :
  /\ {c.num_logical, c.ep_size, c.tp_size, c.block, c.refined_block} \subseteq Nat \ {0}
  /\ \A n \in c.redundancies : n \in Nat /\ (c.num_logical + n) % c.ep_size = 0
  /\ c.ep_size = 1 \/ c.tp_size = 1
ASSUME PaddingAssumption == \A c \in Configs :
  /\ {c.intermediate, c.hidden, c.padded_intermediate, c.padded_hidden} \subseteq Nat \ {0}
  /\ c.intermediate % c.tp_size = 0
  /\ c.padded_intermediate >= c.intermediate \div c.tp_size /\ c.padded_hidden >= c.hidden
ASSUME BlockAssumption == \A c \in Configs :
  /\ c.block % c.refined_block = 0
  /\ \A n \in {c.intermediate, c.hidden} : n % c.block = 0
  /\ \A n \in {c.intermediate \div c.tp_size, c.padded_intermediate, c.padded_hidden} :
       n % c.refined_block = 0

VARIABLES
  config,       \* a member of Configs
  format,       \* the layout of the checkpoint
  transposed,   \* is_fused_checkpoint_transposed
  kind,         \* the kind of tensor this behaviour is about
  num_redundant, \* num_experts - num_logical_experts
  placement,    \* the placement strategy of experts
  rank,         \* the rank of this process
  input_value,  \* the input scale of each shard of each expert
  todo,         \* the tensors of the checkpoint still to come
  param,        \* param[name][expert]: the cells of a parameter of a local expert
  input_scale,  \* input_scale[name][expert]: w13_input_scale and w2_input_scale
  failed        \* a tensor could not be stored

choices == <<config, format, transposed, kind, num_redundant, placement, rank, input_value>>
vars == <<choices, todo, param, input_scale, failed>>

HasBias == config.has_bias
NumLogical == config.num_logical
EpSize == config.ep_size
TpSize == config.tp_size
Intermediate == config.intermediate
Hidden == config.hidden
PaddedIntermediate == config.padded_intermediate
PaddedHidden == config.padded_hidden
Block == config.block
RefinedBlock == config.refined_block

Empty == <<>>
NumPhysical == NumLogical + num_redundant
LocalExperts == 0 .. NumPhysical \div EpSize - 1
Shards == {"w1", "w2", "w3"}
Names == {"w13", "w2"}
NameOf(shard) == IF shard = "w2" THEN "w2" ELSE "w13"

-----------------------------------------------------------------------------
(***************************************************************************)
(* The checkpoint.  A tensor of all experts has expert All.                *)
(***************************************************************************)
All == -1
Cells(rows, cols) == (0 .. rows - 1) \X (0 .. cols - 1)

Checkpoint ==
  CASE format = "per_expert" -> [expert : 0 .. NumLogical - 1, proj : {"gate", "up", "down"}]
    [] format = "per_expert_fused" -> [expert : 0 .. NumLogical - 1, proj : {"gate_up", "down"}]
    [] format = "fused_3d" -> [expert : {All}, proj : {"gate_up", "down"}]

\* The rows and columns of a shard of one expert.
Rows(shard) ==
  LET out == IF shard = "w2" THEN Hidden ELSE Intermediate
  IN CASE kind \in {"weight", "bias", "channel_scale"} -> out
       [] kind = "block_scale" -> out \div Block
       [] kind = "tensor_scale" -> 1
Cols(shard) ==
  LET in == IF shard = "w2" THEN Intermediate ELSE Hidden
  IN CASE kind = "weight" -> in
       [] kind = "block_scale" -> in \div Block
       [] OTHER -> 1

Transpose(x) ==
  [rows |-> x.cols, cols |-> x.rows,
   at |-> [c \in Cells(x.cols, x.rows) |-> x.at[<<c[2], c[1]>>]]]

\* What the checkpoint stores of expert e: gate over up, when they are fused;
\* tensors of all experts with the input features first, when transposed.
StoredIn(proj, e) ==
  LET plain(shard) ==
        [rows |-> Rows(shard), cols |-> Cols(shard),
         at |-> [c \in Cells(Rows(shard), Cols(shard)) |-> <<e, shard, c[1], c[2]>>]]
      n == Rows("w1")
      stacked ==
        [rows |-> 2 * n, cols |-> Cols("w1"),
         at |-> [c \in Cells(2 * n, Cols("w1")) |->
                   <<e, IF c[1] < n THEN "w1" ELSE "w3", c[1] % n, c[2]>>]]
      x == CASE proj = "gate" -> plain("w1") [] proj = "up" -> plain("w3")
             [] proj = "down" -> plain("w2") [] proj = "gate_up" -> stacked
  IN IF transposed /\ kind \in {"weight", "block_scale"} THEN Transpose(x) ELSE x

-----------------------------------------------------------------------------
(***************************************************************************)
(* build_expert_params_mapping: the entries <<expert_id, shard_id>> whose  *)
(* weight name matches a tensor.                                           *)
(***************************************************************************)

\* EplbState.build_initial_global_physical_to_logical_map.
PhysicalToLogical(p) == IF p < NumLogical THEN p ELSE (p - NumLogical) % NumLogical

\* Mutant: the mapping has the logical experts only.
EntriesOfLogical(t) ==
  IF t.expert = All
    THEN IF t.proj = "down" THEN {<<0, "w2">>} ELSE {<<0, "w1">>, <<1, "w3">>}
    ELSE {t.expert} \X
           CASE t.proj = "gate" -> {"w1"} [] t.proj = "up" -> {"w3"}
             [] t.proj = "down" -> {"w2"} [] t.proj = "gate_up" -> {"w1", "w3"}

\* The first entries are those of fused tensors: their expert_id is the half
\* of the tensor a shard is in.
Entries(t) ==
  IF t.expert = All
    THEN IF t.proj = "down" THEN {<<0, "w2">>} ELSE {<<0, "w1">>, <<1, "w3">>}
    ELSE {p \in 0 .. NumPhysical - 1 : PhysicalToLogical(p) = t.expert} \X
           CASE t.proj = "gate" -> {"w1"} [] t.proj = "up" -> {"w3"}
             [] t.proj = "down" -> {"w2"} [] t.proj = "gate_up" -> {"w1", "w3"}

-----------------------------------------------------------------------------
(***************************************************************************)
(* load_weights: what an entry of the mapping passes to the loader.        *)
(***************************************************************************)

\* _orient_fused_weight: block scales share the layout of the weight.
Oriented(x) ==
  LET uses_weight_layout == kind \notin {"channel_scale", "tensor_scale"}
  IN IF transposed /\ uses_weight_layout THEN Transpose(x) ELSE x

\* chunk(2) of the rows.
Chunk(x, i) ==
  LET n == x.rows \div 2
  IN [rows |-> n, cols |-> x.cols,
      at |-> [c \in Cells(n, x.cols) |-> x.at[<<i * n + c[1], c[2]>>]]]

\* loaded_experts and the ids they are enumerated with.
LoadedExperts(t, entry) ==
  LET shard == entry[2]
      x(e) == StoredIn(t.proj, e)
  IN IF t.expert = All
       THEN {[expert |-> e, shard |-> shard,
              weight |-> IF shard = "w2" THEN Oriented(x(e)) ELSE Chunk(Oriented(x(e)), entry[1])]
             : e \in 0 .. NumLogical - 1}
       ELSE {[expert |-> entry[1], shard |-> shard,
              weight |-> IF t.proj = "gate_up"
                           THEN Chunk(x(t.expert), IF shard = "w1" THEN 0 ELSE 1)
                           ELSE x(t.expert)]}

-----------------------------------------------------------------------------
(***************************************************************************)
(* weight_loader.  It returns the new cells of the parameter of one local  *)
(* expert, or Refused.                                                     *)
(***************************************************************************)
Refused == <<>>

\* The experts of a rank are whole under expert parallelism.
TpRank == IF EpSize > 1 THEN 0 ELSE rank

\* map_global_to_local.
LocalExpertId(p) ==
  LET n == NumPhysical \div EpSize
  IN CASE EpSize = 1 -> p
       [] EpSize > 1 /\ placement = "linear" -> IF p \div n = rank THEN p % n ELSE -1
       [] EpSize > 1 /\ placement = "round_robin" -> IF p % EpSize = rank THEN p \div EpSize ELSE -1

\* The rows and columns of the parameter of one expert.
ParamRows(name) ==
  LET out == IF name = "w13" THEN 2 * PaddedIntermediate ELSE PaddedHidden
  IN CASE kind \in {"weight", "bias", "channel_scale"} -> out
       [] kind = "block_scale" -> out \div RefinedBlock
       [] kind = "tensor_scale" -> IF name = "w13" THEN 2 ELSE 1
ParamCols(name) ==
  LET in == IF name = "w13" THEN PaddedHidden ELSE PaddedIntermediate
  IN CASE kind = "weight" -> in
       [] kind = "block_scale" -> in \div RefinedBlock
       [] OTHER -> 1

\* Store the block of x that starts at `from`, of `size`, into the place that
\* starts at row `to` and has room for `room`, which is narrowed to it.
Store(cells, x, from, size, to, room) ==
  IF size[1] <= room[1] /\ size[2] <= room[2]
    THEN [c \in DOMAIN cells |->
            IF c[1] \in to .. to + size[1] - 1 /\ c[2] < size[2]
              THEN x.at[<<from[1] + c[1] - to, from[2] + c[2]>>] ELSE cells[c]]
    ELSE Refused

\* _load_w13.
LoadW13(cells, shard, x) ==
  LET shard_size == ParamRows("w13") \div 2
      per_rank == x.rows \div TpSize
      start == per_rank * TpRank
  IN IF x.rows - start <= 0 THEN cells
     ELSE Store(cells, x, <<start, 0>>, <<per_rank, x.cols>>,
                IF shard = "w1" THEN 0 ELSE shard_size, <<shard_size, ParamCols("w13")>>)

\* _load_w2.
LoadW2(cells, x) ==
  LET per_rank == x.cols \div TpSize
      start == per_rank * TpRank
  IN IF x.cols - start <= 0 THEN cells
     ELSE Store(cells, x, <<0, start>>, <<x.rows, per_rank>>, 0,
                <<ParamRows("w2"), ParamCols("w2")>>)

\* A bias or a channel scale of w2 is not split.
LoadFullW2(cells, x) ==
  Store(cells, x, <<0, 0>>, <<x.rows, x.cols>>, 0, <<ParamRows("w2"), ParamCols("w2")>>)

\* _load_per_tensor_weight_scale.
LoadScalar(cells, shard, x) ==
  [cells EXCEPT ![<<IF shard = "w3" THEN 1 ELSE 0, 0>>] = x.at[<<0, 0>>]]

\* Mutant: the scales of the blocks are tiled.
RefinedTiled(x) ==
  LET f == Block \div RefinedBlock
  IN [rows |-> f * x.rows, cols |-> f * x.cols,
      at |-> [c \in Cells(f * x.rows, f * x.cols) |-> x.at[<<c[1] % x.rows, c[2] % x.cols>>]]]

\* repeat_interleave of a block scale to the grid of the parameters.
Refined(x) ==
  LET f == Block \div RefinedBlock
  IN [rows |-> f * x.rows, cols |-> f * x.cols,
      at |-> [c \in Cells(f * x.rows, f * x.cols) |-> x.at[<<c[1] \div f, c[2] \div f>>]]]

WeightLoader(cells, shard, x) ==
  CASE kind = "tensor_scale" -> LoadScalar(cells, shard, x)
    [] kind \in {"bias", "channel_scale"} /\ shard = "w2" -> LoadFullW2(cells, x)
    [] kind \in {"bias", "channel_scale"} /\ shard # "w2" -> LoadW13(cells, shard, x)
    [] kind = "weight" -> IF shard = "w2" THEN LoadW2(cells, x) ELSE LoadW13(cells, shard, x)
    [] kind = "block_scale" ->
         IF shard = "w2" THEN LoadW2(cells, Refined(x)) ELSE LoadW13(cells, shard, Refined(x))

-----------------------------------------------------------------------------
\* The kinds of tensors that exist in a layout.
Supported(f, k) ==
  CASE f = "per_expert" -> TRUE
    [] f = "per_expert_fused" -> k \notin {"tensor_scale", "input_scale"}
    [] f = "fused_3d" -> k \in {"weight", "channel_scale", "block_scale"}

Init ==
  /\ config \in Configs
  /\ format \in config.formats /\ kind \in {k \in config.kinds : Supported(format, k)}
  /\ transposed \in (IF format = "fused_3d" THEN BOOLEAN ELSE {FALSE})
  /\ num_redundant \in config.redundancies
  /\ placement \in (IF EpSize > 1 /\ num_redundant = 0 THEN {"linear", "round_robin"} ELSE {"linear"})
  /\ rank \in 0 .. (IF EpSize > 1 THEN EpSize ELSE TpSize) - 1
  /\ input_value \in
       IF kind = "input_scale" THEN [0 .. NumLogical - 1 -> [Shards -> config.input_scales]] ELSE {<<>>}
  /\ todo = Checkpoint
  /\ param = IF kind = "input_scale" \/ (kind = "bias" /\ ~HasBias) THEN <<>>
             ELSE [name \in Names |-> [l \in LocalExperts |->
                     [c \in Cells(ParamRows(name), ParamCols(name)) |-> Empty]]]
  /\ input_scale = [name \in Names |-> [l \in LocalExperts |-> 1]]
  /\ failed = FALSE

Take(t) == t \in todo /\ ~failed /\ todo' = todo \ {t} /\ UNCHANGED choices

\* The layer has no biases.
SkipBias(t) ==
  /\ kind = "bias" /\ ~HasBias
  /\ Take(t)
  /\ UNCHANGED <<param, input_scale, failed>>

\* The cells of local expert l with what a tensor brings of a shard.
WithPart(t, cells, l, shard) ==
  LET loaded == {x \in UNION {LoadedExperts(t, entry) : entry \in Entries(t)} :
                   LocalExpertId(x.expert) = l /\ x.shard = shard}
  IN IF loaded = {} \/ cells = Refused THEN cells
     ELSE WeightLoader(cells, shard, (CHOOSE x \in loaded : TRUE).weight)

\* Each local expert gets its shards of the tensor, w1 before w3; those of
\* other ranks are dropped.  An exception ends the loading.
LoadTensor(t) ==
  /\ kind # "input_scale" /\ (kind = "bias" => HasBias)
  /\ Take(t)
  /\ LET w13(l) == WithPart(t, WithPart(t, param["w13"][l], l, "w1"), l, "w3")
         w2(l) == WithPart(t, param["w2"][l], l, "w2")
     IN IF \E l \in LocalExperts : Refused \in {w13(l), w2(l)}
          THEN failed' = TRUE /\ UNCHANGED param
          ELSE /\ param' = [w13 |-> [l \in LocalExperts |-> w13(l)],
                            w2 |-> [l \in LocalExperts |-> w2(l)]]
               /\ UNCHANGED failed
  /\ UNCHANGED input_scale

\* Mutant: the later input scale wins.
LoadInputScaleAlways(t) ==
  /\ kind = "input_scale"
  /\ Take(t)
  /\ LET places == {<<NameOf(entry[2]), LocalExpertId(entry[1])>> : entry \in Entries(t)}
         value == input_value[t.expert][CASE t.proj = "gate" -> "w1" [] t.proj = "up" -> "w3"
                                          [] t.proj = "down" -> "w2"]
     IN input_scale' = [name \in Names |-> [l \in LocalExperts |->
          IF <<name, l>> \in places THEN value ELSE input_scale[name][l]]]
  /\ UNCHANGED <<param, failed>>

\* The input scale of compressed-tensors: w1 and w3 share a parameter, which
\* is 1 before either has come.
LoadInputScale(t) ==
  /\ kind = "input_scale"
  /\ Take(t)
  /\ LET places == {<<NameOf(entry[2]), LocalExpertId(entry[1])>> :
                      entry \in {e \in Entries(t) : LocalExpertId(e[1]) # -1}}
         value == input_value[t.expert][CASE t.proj = "gate" -> "w1" [] t.proj = "up" -> "w3"
                                          [] t.proj = "down" -> "w2"]
     IN IF \E p \in places : input_scale[p[1]][p[2]] \notin {1, value}
          THEN failed' = TRUE /\ UNCHANGED input_scale
          ELSE /\ input_scale' = [name \in Names |-> [l \in LocalExperts |->
                    IF <<name, l>> \in places THEN value ELSE input_scale[name][l]]]
               /\ UNCHANGED failed
  /\ UNCHANGED param

\* The layer is loaded, or an exception stopped the engine.
Stop ==
  /\ todo = {} \/ failed
  /\ UNCHANGED vars

Next ==
  \/ \E t \in todo : SkipBias(t) \/ LoadTensor(t) \/ LoadInputScale(t)
  \/ Stop

Spec == Init /\ [][Next]_vars

-----------------------------------------------------------------------------
(***************************************************************************)
(* What the kernels read, whatever the layout of the checkpoint was.       *)
(***************************************************************************)

\* The logical expert a local expert stands for.
LogicalExpert(l) ==
  PhysicalToLogical(
    IF EpSize = 1 THEN l
    ELSE IF placement = "linear" THEN rank * (NumPhysical \div EpSize) + l
    ELSE l * EpSize + rank)

\* Feature f of the intermediate features of this rank in the whole model, and
\* whether it is one, as the parameters are padded.
Feature(f) == (IF EpSize > 1 THEN 0 ELSE rank * (Intermediate \div TpSize)) + f
IsFeature(f) == f < Intermediate \div TpSize

\* Where cell c of a parameter must come from: padding from nowhere.
SourceOf(name, l, c) ==
  LET e == LogicalExpert(l)
      grid == IF kind = "block_scale" THEN RefinedBlock ELSE 1
      coarse == IF kind = "block_scale" THEN Block ELSE 1
      up == c[1] * grid >= PaddedIntermediate
      n == (c[1] * grid) - (IF up THEN PaddedIntermediate ELSE 0)
  IN CASE kind = "tensor_scale" ->
            <<e, IF name = "w2" THEN "w2" ELSE IF c[1] = 0 THEN "w1" ELSE "w3", 0, 0>>
       [] kind # "tensor_scale" /\ name = "w13" ->
            IF ~IsFeature(n) \/ c[2] * grid >= Hidden THEN Empty
            ELSE <<e, IF up THEN "w3" ELSE "w1", Feature(n) \div coarse, (c[2] * grid) \div coarse>>
       [] kind \in {"bias", "channel_scale"} /\ name = "w2" ->
            IF c[1] >= Hidden THEN Empty ELSE <<e, "w2", c[1], 0>>
       [] OTHER ->
            IF c[1] * grid >= Hidden \/ ~IsFeature(c[2] * grid) THEN Empty
            ELSE <<e, "w2", (c[1] * grid) \div coarse, Feature(c[2] * grid) \div coarse>>

\* In whatever layout and order the tensors come, a cell of a parameter holds
\* what belongs there or nothing yet, and padding stays untouched.
CellsAreTheirSources ==
  \A name \in DOMAIN param : \A l \in LocalExperts : \A c \in DOMAIN param[name][l] :
    param[name][l][c] \in {Empty, SourceOf(name, l, c)}

\* No tensor is refused, and when the checkpoint is exhausted every cell of
\* every local expert, redundant ones included, is there.
LayerIsComplete ==
  kind # "input_scale" =>
    /\ ~failed
    /\ todo = {} =>
         \A name \in DOMAIN param : \A l \in LocalExperts : \A c \in DOMAIN param[name][l] :
           param[name][l][c] = SourceOf(name, l, c)

\* A layer is loaded with the input scales of its experts, and only if those
\* of w1 and w3 are equal.
UnequalInputScalesAreRefused ==
  todo = {} /\ ~failed /\ kind = "input_scale" =>
    \A l \in LocalExperts :
      LET value == input_value[LogicalExpert(l)]
      IN /\ value["w1"] = value["w3"]
         /\ input_scale["w13"][l] = value["w1"] /\ input_scale["w2"][l] = value["w2"]
=============================================================================
