---------------------------- MODULE MCFormats -------------------------------
(* Every layout and kind of tensor on tensor-parallel ranks, with padding;    *)
(* physical and logical experts on expert-parallel ranks; input scales.       *)
EXTENDS ExpertFormats

TensorParallel ==
  [formats |-> {"per_expert", "per_expert_fused", "fused_3d"},
   kinds |-> {"weight", "bias", "channel_scale", "block_scale", "tensor_scale"},
   has_bias |-> TRUE, num_logical |-> 2, redundancies |-> {0}, ep_size |-> 1, tp_size |-> 2,
   intermediate |-> 4, hidden |-> 8, padded_intermediate |-> 4, padded_hidden |-> 10,
   block |-> 4, refined_block |-> 2, input_scales |-> {}]
ExpertParallel ==
  [TensorParallel EXCEPT
     !.formats = {"per_expert", "per_expert_fused"}, !.kinds = {"weight"},
     !.num_logical = 4, !.redundancies = {0, 2}, !.ep_size = 2, !.tp_size = 1,
     !.intermediate = 2, !.hidden = 2, !.padded_intermediate = 2, !.padded_hidden = 3,
     !.block = 1, !.refined_block = 1]
Scales ==
  [TensorParallel EXCEPT
     !.formats = {"per_expert"}, !.kinds = {"input_scale", "bias"}, !.has_bias = FALSE,
     !.redundancies = {2}, !.ep_size = 2, !.tp_size = 1, !.input_scales = {2, 3}]
MCConfigs == {TensorParallel, ExpertParallel, Scales}
=============================================================================
