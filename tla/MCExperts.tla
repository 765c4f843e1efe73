---------------------------- MODULE MCExperts ------------------------------
(* One configuration for each case of the loader: zeros and scales repeated  *)
(* to fit smaller groups under tensor parallelism, whole experts of several  *)
(* ranks, a symmetric checkpoint of 8 bits, and one of AWQ whose zeros have  *)
(* no parameter.                                                             *)
EXTENDS ExpertLoading

MCMinGroupSize == 2

Base ==
  [num_experts |-> 1, ep_size |-> 1, tp_size |-> 2, intermediate |-> 8, hidden |-> 8,
   group_size |-> 8, method |-> "awq", bits |-> 4, has_zp |-> TRUE,
   suffixes |-> {"qweight", "scales", "qzeros"}]
MCConfigs ==
  {[Base EXCEPT !.method = "gptq", !.suffixes = @ \union {"weight"}],
   [Base EXCEPT !.num_experts = 2, !.ep_size = 2, !.tp_size = 1, !.intermediate = 4, !.hidden = 4,
                !.group_size = 2, !.suffixes = {"qweight", "qzeros"}],
   [Base EXCEPT !.intermediate = 12, !.group_size = 4, !.method = "gptq", !.bits = 8,
                !.has_zp = FALSE, !.suffixes = @ \union {"g_idx"}],
   [Base EXCEPT !.intermediate = 4, !.hidden = 4, !.group_size = 2, !.has_zp = FALSE,
                !.suffixes = {"qweight", "qzeros"}]}
Zeros8Configs ==
  {[Base EXCEPT !.group_size = 4, !.method = "gptq", !.bits = 8, !.suffixes = {"qweight", "qzeros"}]}

MCRows == 8
MCOutputs == 16
MCCells == (0 .. MCRows - 1) \X (0 .. MCOutputs - 1)

\* Tensors that differ from a uniform one in a single cell, and one whose
\* neighbours all differ.
MCTensors ==
  {[c \in MCCells |-> IF c = odd THEN v ELSE u] : odd \in MCCells, v \in {0, 15, 255}, u \in {1, 15}}
  \union {[c \in MCCells |-> ((7 * c[1] + c[2]) % 15) + 1]}
=============================================================================
