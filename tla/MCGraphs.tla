----------------------------- MODULE MCGraphs -------------------------------
(* FULL and PIECEWISE graphs for decodes of three tokens, varlen decode       *)
(* graphs with LoRA, many small graphs whose cost is extrapolated, sizes too  *)
(* small for any graph; and the two configurations of the findings.           *)
EXTENDS CudaGraphs

Uniform ==
  [mode |-> "FULL_AND_PIECEWISE", sizes |-> {1, 4, 8, 10}, max_reqs |-> 4, query_len |-> 3,
   query_lens |-> {3}, varlen |-> FALSE, loras |-> {0}, speculator |-> TRUE, longest |-> 4,
   per_token |-> [FULL |-> 2, PIECEWISE |-> 3], fixed_costs |-> {1}]
Varlen ==
  [Uniform EXCEPT !.mode = "FULL_DECODE_ONLY", !.sizes = {1, 3, 6}, !.max_reqs = 3, !.query_len = 2,
                  !.query_lens = {2}, !.varlen = TRUE, !.loras = {0, 2}, !.longest = 3,
                  !.speculator = FALSE]
Costs ==
  {[Uniform EXCEPT !.mode = mode, !.sizes = sizes, !.max_reqs = 2, !.query_len = 1,
                   !.query_lens = {1}, !.loras = loras, !.longest = 1, !.fixed_costs = {0, 1, 3},
                   !.per_token.PIECEWISE = piecewise] :
     mode \in {"PIECEWISE", "FULL", "FULL_DECODE_ONLY", "FULL_AND_PIECEWISE"},
     sizes \in {{1}, {1, 2}, {1, 2, 4}}, loras \in {{0}, {0, 1}}, piecewise \in {1, 3}}
TooSmall == [Uniform EXCEPT !.mode = "FULL_DECODE_ONLY", !.sizes = {1}]
MCConfigs == {Uniform, Varlen, TooSmall} \union Costs

DynamicConfigs ==
  {[Uniform EXCEPT !.mode = "FULL_DECODE_ONLY", !.sizes = {1, 2, 4, 8}, !.query_lens = {1, 2, 3},
                   !.longest = 3]}
WarmupConfigs == {[Uniform EXCEPT !.sizes = {1, 2, 4, 8}]}
=============================================================================
