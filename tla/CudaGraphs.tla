----------------------------- MODULE CudaGraphs -----------------------------
(***************************************************************************)
(* CUDA graphs at startup and at run time: which graphs                    *)
(* CudaGraphManager captures, which one dispatch finds for a batch, and    *)
(* the profiling pass of profile_cudagraph_memory, which captures into a   *)
(* throwaway pool and throws everything away before the real capture.      *)
(*                                                                         *)
(* A captured graph is its descriptor with the memory pool and the KV      *)
(* cache it was captured against.  Graphs live in the manager (FULL), in   *)
(* the wrappers of compiled submodules (PIECEWISE) and in the speculator.  *)
(*                                                                         *)
(* The memory pool is external: a graph needs activations in proportion to *)
(* its tokens, which graphs of one pool share, and `fixed` bytes of its    *)
(* own.  This is what the comment of capture and the docstring of          *)
(* _extrapolate_full_graph_memory say of it.                               *)
(***************************************************************************)
EXTENDS Integers, Sequences, FiniteSets, FiniteSetsExt, SequencesExt

CONSTANTS
  Configs,       \* the configurations of the engine
  MinPerGraph,   \* _MIN_PER_GRAPH_BYTES
  None

(***************************************************************************)
(* A configuration: mode is the cudagraph_mode, sizes are the              *)
(* cudagraph_capture_sizes, max_reqs is max_num_seqs, query_len the        *)
(* decode_query_len and query_lens those of dynamic speculative decoding,  *)
(* or its only one; varlen is varlen_decode, loras the lora_capture_cases, *)
(* speculator says whether there is one.  longest bounds the longest query *)
(* of a batch.  per_token[m] are the activations of a token in a graph of  *)
(* mode m, fixed_costs the costs of a graph besides them to try.           *)
(***************************************************************************)
ASSUME ModeAssumption == \A c \in Configs :
  c.mode \in {"NONE", "PIECEWISE", "FULL", "FULL_DECODE_ONLY", "FULL_AND_PIECEWISE"}
ASSUME CaptureAssumption == \A c \in Configs :
  /\ c.sizes \subseteq Nat \ {0} /\ c.sizes # {} /\ IsFiniteSet(c.sizes)
  /\ {c.max_reqs, c.query_len, c.longest} \subseteq Nat \ {0}
  /\ c.query_lens \subseteq 1 .. c.query_len /\ c.query_lens # {}
  /\ c.varlen \in BOOLEAN /\ c.speculator \in BOOLEAN
  /\ c.loras \subseteq Nat /\ c.loras # {} /\ IsFiniteSet(c.loras)
ASSUME NoneAssumption == None \notin Nat
ASSUME MemoryAssumption ==
  /\ MinPerGraph \in Nat
  /\ \A c \in Configs : /\ c.per_token.FULL \in Nat /\ c.per_token.PIECEWISE \in Nat
                         /\ c.fixed_costs \subseteq Nat

VARIABLES
  config,       \* a member of Configs
  descs,        \* _capture_descs, which the configuration determines
  fixed,        \* the cost of a graph besides its activations
  phase,        \* how far startup is
  global_pool,  \* the pool the platform hands out
  wrapper_pool, \* the pool bound by the wrappers of compiled submodules
  kv,           \* the KV cache that exists: none, minimal or real
  manager,      \* the cudagraph manager of the runner, or None
  warmed,       \* the token counts the attention kernel was tuned at, eagerly
  graphs,       \* graphs[holder]: the captured graphs it would replay
  todo,         \* the descriptors still to capture
  high,         \* the activations the pool in use holds
  used,         \* the bytes the pool in use holds
  samples,      \* mem_samples of the profiling pass
  estimate,     \* what profile_cudagraph_memory returned, or None
  step          \* the batch just dispatched and the descriptor found, or None

choices == <<config, descs, fixed>>
memory == <<high, used, samples, estimate>>
vars == <<choices, phase, global_pool, wrapper_pool, kv, warmed, manager, graphs, todo, memory, step>>

CUDAGraphMode == config.mode
CaptureSizes == config.sizes
MaxNumReqs == config.max_reqs
DecodeQueryLen == config.query_len
DecodeQueryLens == config.query_lens
VarlenDecode == config.varlen
LoraCases == config.loras
MaxQueryLen == config.longest

-----------------------------------------------------------------------------
(***************************************************************************)
(* CudaGraphManager._init_candidates                                       *)
(***************************************************************************)
DecodeMode == CASE CUDAGraphMode \in {"FULL_DECODE_ONLY", "FULL_AND_PIECEWISE"} -> "FULL"
                [] OTHER -> CUDAGraphMode
MixedMode == CASE CUDAGraphMode = "FULL_DECODE_ONLY" -> "NONE"
               [] CUDAGraphMode = "FULL_AND_PIECEWISE" -> "PIECEWISE"
               [] OTHER -> CUDAGraphMode
SeparateRoutine == CUDAGraphMode \in {"FULL_DECODE_ONLY", "FULL_AND_PIECEWISE"}

\* max_cudagraph_capture_size is the largest of the capture sizes.
MaxCaptureSize == Max(CaptureSizes)
MaxDecodeTokens == MaxNumReqs * DecodeQueryLen
AtMostReqs(n) == Min({n, MaxNumReqs})
RoundUp(n, q) == ((n + q - 1) \div q) * q

\* BatchExecutionDescriptor.
Desc(mode, num_tokens, num_reqs, uniform, query_len, loras) ==
  [cg_mode |-> mode, num_tokens |-> num_tokens, num_reqs |-> num_reqs,
   uniform_token_count |-> uniform, max_query_len |-> query_len,
   num_active_loras |-> loras]

\* Any mix of 1 .. DecodeQueryLen tokens per request.
VarlenDescs ==
  IF ~(SeparateRoutine /\ VarlenDecode) THEN {}
  ELSE { Desc(DecodeMode, n, AtMostReqs(n), None, DecodeQueryLen, l) :
           n \in {m \in CaptureSizes : m <= MaxDecodeTokens}, l \in LoraCases }

\* The same number of tokens for every request.
UniformDescs ==
  IF ~SeparateRoutine \/ VarlenDecode THEN {}
  ELSE UNION { { Desc(DecodeMode, RoundUp(n, q), RoundUp(n, q) \div q, q, None, l) :
                   n \in { m \in CaptureSizes :
                             /\ RoundUp(m, q) <= Min({MaxDecodeTokens, MaxCaptureSize})
                             /\ RoundUp(m, q) \div q <= MaxNumReqs },
                   l \in LoraCases } : q \in DecodeQueryLens }

MixedDescs ==
  IF MixedMode = "NONE" THEN {}
  ELSE { Desc(MixedMode, n, IF MixedMode = "FULL" THEN AtMostReqs(n) ELSE None, None, None, l) :
           n \in CaptureSizes, l \in LoraCases }

CaptureDescs(mode) == {d \in descs : d.cg_mode = mode}

\* Mutant: a range starts behind the graph whose size is its first key.
CandidatesAbove(mode, num_tokens, loras) ==
  LET large == {d \in CaptureDescs(mode) : d.num_active_loras = loras /\ d.num_tokens > num_tokens}
  IN {d \in large : \A e \in large : d.num_tokens <= e.num_tokens}

\* The descriptors of the first token count of a mode that holds the batch.
Candidates(mode, num_tokens, loras) ==
  LET large == {d \in CaptureDescs(mode) : d.num_active_loras = loras /\ d.num_tokens >= num_tokens}
  IN {d \in large : \A e \in large : d.num_tokens <= e.num_tokens}

-----------------------------------------------------------------------------
(***************************************************************************)
(* CudaGraphManager.dispatch                                               *)
(***************************************************************************)

\* _resolve_effective_loras: the smallest case that serves them, or the last.
EffectiveLoras(n) ==
  LET cases == LoraCases \ {0}
  IN IF n = 0 \/ cases = {} THEN n
     ELSE IF n > Max(cases) THEN Max(cases) ELSE Min({c \in cases : c >= n})

\* Mutant: a caller that does not track the longest query matches any graph.
IsCompatibleUntracked(d, b, loras) ==
  /\ d.uniform_token_count \in {None, b.uniform_token_count}
  /\ d.max_query_len # None /\ b.max_query_len # None => d.max_query_len >= b.max_query_len
  /\ d.num_reqs # None => d.num_reqs >= b.num_reqs
  /\ d.num_tokens >= b.num_tokens
  /\ d.num_active_loras = loras

IsCompatible(d, b, loras) ==
  /\ d.uniform_token_count \in {None, b.uniform_token_count}
  /\ d.max_query_len # None => b.max_query_len # None /\ d.max_query_len >= b.max_query_len
  /\ d.num_reqs # None => d.num_reqs >= b.num_reqs
  /\ d.num_tokens >= b.num_tokens
  /\ d.num_active_loras = loras

Eager(b) == Desc("NONE", b.num_tokens, b.num_reqs, None, None, EffectiveLoras(b.num_active_loras))

\* FULL candidates come before PIECEWISE ones.
DispatchesTo(b, captured) ==
  LET loras == EffectiveLoras(b.num_active_loras)
      found(mode) == {d \in Candidates(mode, b.num_tokens, loras) : IsCompatible(d, b, loras)}
  IN IF ~captured THEN {Eager(b)}
     ELSE IF found("FULL") # {} THEN found("FULL")
     ELSE IF found("PIECEWISE") # {} THEN found("PIECEWISE")
     ELSE {Eager(b)}

\* The batches of the runner.  The longest query is `longest`, which the
\* caller may or may not track.
Batch ==
  { b \in [num_reqs : 1 .. MaxNumReqs, num_tokens : 1 .. MaxNumReqs * MaxQueryLen,
           longest : 1 .. MaxQueryLen, num_active_loras : 0 .. Max(LoraCases) + 1,
           uniform_token_count : {None} \union 1 .. MaxQueryLen,
           max_query_len : {None} \union 1 .. MaxQueryLen] :
      /\ b.num_tokens \in b.num_reqs + b.longest - 1 .. b.num_reqs * b.longest
      /\ b.uniform_token_count = IF b.num_tokens = b.num_reqs * b.longest THEN b.longest ELSE None
      /\ b.max_query_len \in {None, b.longest} }

-----------------------------------------------------------------------------
(***************************************************************************)
(* Startup.                                                                *)
(***************************************************************************)
Holder == {"manager", "wrapper", "speculator"}

\* _FULL_GRAPH_PROFILING_SAMPLES
ProfilingSamples == 2

Init ==
  /\ config \in Configs
  /\ descs = VarlenDescs \union UniformDescs \union MixedDescs
  /\ fixed \in config.fixed_costs
  /\ phase = "boot"
  /\ global_pool = "global" /\ wrapper_pool = "global"
  /\ kv = "none"
  /\ warmed = {}
  /\ manager = None
  /\ graphs = [h \in Holder |-> {}]
  /\ todo = {}
  /\ high = 0 /\ used = 0 /\ samples = <<>> /\ estimate = None
  /\ step = None

\* Mutant: the sample size of profiling caps the real capture too.
CappedManager(pool) == [pool |-> pool, captured |-> FALSE, cap |-> ProfilingSamples, hidden |-> 0]

\* A manager takes the pool the platform hands out when it is made.
NewManager(pool) == [pool |-> pool, captured |-> FALSE, cap |-> None, hidden |-> 0]

\* profile_cudagraph_memory points the platform at a throwaway pool, and
\* initializes a minimal KV cache, which makes a manager.
ProfileBegin ==
  /\ phase = "boot" /\ CUDAGraphMode # "NONE"
  /\ phase' = "minimal"
  /\ global_pool' = "throwaway"
  /\ kv' = "minimal"
  /\ manager' = NewManager("throwaway")
  /\ UNCHANGED <<choices, memory, wrapper_pool, warmed, graphs, todo>>
  /\ step' = None

\* Mutant: the kernel is tuned at one size.
WarmLargest == {Max(CaptureSizes)}

\* qwen4_exp_amd_qsa_triton_warmup_runner: eager runs at the capture sizes.
\* An invalid candidate of the autotuner is harmless here, fatal in a capture.
WarmSizes == CaptureSizes

WarmUp ==
  /\ \/ phase = "minimal" /\ phase' = "profile"
     \/ phase = "initialized" /\ phase' = "warm"
  /\ warmed' = warmed \union WarmSizes
  /\ UNCHANGED <<choices, memory, global_pool, wrapper_pool, kv, manager, graphs, todo>>
  /\ step' = None

\* An exception before there is anything to capture.
ProfileFails ==
  /\ phase \in {"minimal", "profile"}
  /\ phase' = "failed"
  /\ global_pool' = "global"
  /\ UNCHANGED <<choices, memory, wrapper_pool, kv, warmed, manager, graphs, todo>>
  /\ step' = None

\* runner.capture_model() of the profiling pass.
ProfileCapture ==
  /\ phase = "profile" /\ descs # {}
  /\ phase' = "profile_capture"
  /\ wrapper_pool' = "throwaway"
  /\ manager' = [manager EXCEPT !.pool = "throwaway", !.cap = ProfilingSamples]
  /\ todo' = descs
  /\ UNCHANGED <<choices, memory, global_pool, kv, warmed, graphs>>
  /\ step' = None

\* Mutant: the smallest first.
SmallestToCapture ==
  LET piecewise == {d \in todo : d.cg_mode = "PIECEWISE"}
      next == IF piecewise # {} THEN piecewise
              ELSE IF manager.cap # None /\ Cardinality(graphs["manager"]) >= manager.cap
                THEN {} ELSE todo
  IN {d \in next : \A e \in next : e.num_tokens >= d.num_tokens}

\* The largest first: PIECEWISE, then FULL, at most `cap` of the latter.
NextToCapture ==
  LET piecewise == {d \in todo : d.cg_mode = "PIECEWISE"}
      next == IF piecewise # {} THEN piecewise
              ELSE IF manager.cap # None /\ Cardinality(graphs["manager"]) >= manager.cap
                THEN {} ELSE todo
  IN {d \in next : \A e \in next : e.num_tokens <= d.num_tokens}

\* A graph is captured into the pool that holds `high` activations already.
Cost(d) ==
  LET activations == config.per_token[d.cg_mode] * d.num_tokens
  IN fixed + (Max({activations, high}) - high)

\* The first forward of all, a warmup, allocates the buffer of the hidden
\* states that every FULL graph writes its output to.  A wrapper replays the
\* graph it has instead of capturing another.
CaptureOne ==
  /\ phase \in {"profile_capture", "capture"}
  /\ \E d \in NextToCapture :
       LET holder == IF d.cg_mode = "FULL" THEN "manager" ELSE "wrapper"
           pool == IF d.cg_mode = "FULL" THEN manager.pool ELSE wrapper_pool
           is_new == ~\E g \in graphs[holder] : g.desc = d
       IN /\ todo' = todo \ {d}
          /\ manager' = [manager EXCEPT !.hidden = IF @ = 0 THEN d.num_tokens ELSE @]
          /\ graphs' = [graphs EXCEPT ![holder] =
               IF is_new THEN @ \union {[desc |-> d, pool |-> pool, kv |-> kv]} ELSE @]
          /\ used' = used + (IF is_new THEN Cost(d) ELSE 0)
          /\ high' = high + (IF is_new THEN Cost(d) - fixed ELSE 0)
          /\ samples' = IF manager.cap # None /\ d.cg_mode = "FULL"
                          THEN Append(samples, Cost(d)) ELSE samples
  /\ UNCHANGED <<choices, estimate, phase, global_pool, wrapper_pool, kv, warmed>>
  /\ step' = None

\* capture_model is done with the graphs of the model; the speculator, if
\* there is one, captures graphs of its own then.  It does nothing at all when
\* the manager needs no capture.
ModelIsCaptured == phase \in {"profile_capture", "capture"} /\ NextToCapture = {}
CaptureIsComplete == ModelIsCaptured /\ (config.speculator /\ descs # {} => graphs["speculator"] # {})

SpeculatorCaptures ==
  /\ ModelIsCaptured /\ ~CaptureIsComplete
  /\ graphs' = [graphs EXCEPT !["speculator"] =
       {[desc |-> Desc("FULL", 1, 1, None, None, 0), pool |-> global_pool, kv |-> kv]}]
  /\ used' = used + fixed
  /\ UNCHANGED <<choices, high, samples, estimate, phase, global_pool, wrapper_pool, kv, warmed,
                 manager, todo>>
  /\ step' = None

\* Mutant: the graphs of the wrappers are kept.
DiscardRunnerState ==
  /\ global_pool' = "global"
  /\ wrapper_pool' = "global"
  /\ graphs' = [graphs EXCEPT !["manager"] = {}, !["speculator"] = {}]
  /\ kv' = "none"
  /\ manager' = None
  /\ todo' = {}
  /\ high' = 0 /\ used' = 0 /\ samples' = <<>>
  /\ step' = None

\* The two finally blocks and _teardown_profiling_state.
Discard ==
  /\ global_pool' = "global"
  /\ wrapper_pool' = "global"
  /\ graphs' = [h \in Holder |-> {}]
  /\ kv' = "none"
  /\ manager' = None
  /\ todo' = {}
  /\ high' = 0 /\ used' = 0 /\ samples' = <<>>
  /\ step' = None

\* Mutant: the baseline counts for every graph.
ExtrapolateFirst(mem_samples, total_graphs) ==
  IF mem_samples = <<>> THEN 0
  ELSE mem_samples[1] + (total_graphs - 1) * Max({mem_samples[1], MinPerGraph})

\* _extrapolate_full_graph_memory.
ExtrapolateFullGraphMemory(mem_samples, total_graphs) ==
  IF mem_samples = <<>> THEN 0
  ELSE mem_samples[1] +
       (total_graphs - 1) * (IF Len(mem_samples) > 1 THEN Max({mem_samples[2], MinPerGraph}) ELSE 0)

\* measured - sum(mem_samples) + full_estimate
Estimate ==
  LET full == ExtrapolateFullGraphMemory(samples, Cardinality(CaptureDescs("FULL")))
  IN Max({used - FoldSeq(+, 0, samples) + full, 0})

\* Capture ends, or raises after any number of graphs.
ProfileEnd ==
  /\ \/ /\ phase = "profile" /\ descs = {}
        /\ phase' = "profiled" /\ estimate' = 0
     \/ /\ phase = "profile_capture" /\ CaptureIsComplete
        /\ phase' = "profiled" /\ estimate' = Estimate
     \/ /\ phase = "profile_capture"
        /\ phase' = "failed" /\ UNCHANGED estimate
  /\ Discard
  /\ UNCHANGED <<choices, warmed>>

\* The real initialize_kv_cache; memory profiling may have been skipped.
InitializeKVCache ==
  /\ phase \in {"boot", "profiled"}
  /\ phase' = "initialized"
  /\ kv' = "real"
  /\ manager' = NewManager(global_pool)
  /\ UNCHANGED <<choices, memory, global_pool, wrapper_pool, warmed, graphs, todo>>
  /\ step' = None

Capture ==
  /\ phase = "warm"
  /\ phase' = "capture"
  /\ todo' = descs
  /\ UNCHANGED <<choices, memory, global_pool, wrapper_pool, kv, warmed, manager, graphs>>
  /\ step' = None

CaptureEnd ==
  /\ phase = "capture" /\ CaptureIsComplete
  /\ phase' = "serving"
  /\ manager' = [manager EXCEPT !.captured = TRUE]
  /\ UNCHANGED <<choices, memory, global_pool, wrapper_pool, kv, warmed, graphs, todo>>
  /\ step' = None

\* A batch, or a dummy run before capture.
Dispatch ==
  /\ phase \in {"profile", "initialized", "warm", "serving"}
  /\ \E b \in Batch : \E d \in DispatchesTo(b, manager.captured) :
       step' = [batch |-> b, desc |-> d]
  /\ UNCHANGED <<choices, memory, phase, global_pool, wrapper_pool, kv, warmed, manager, graphs, todo>>

\* The exception ended the engine.
Stopped ==
  /\ phase = "failed"
  /\ UNCHANGED vars

Next ==
  \/ ProfileBegin \/ WarmUp \/ ProfileFails \/ ProfileCapture \/ ProfileEnd
  \/ InitializeKVCache \/ Capture \/ CaptureOne \/ SpeculatorCaptures \/ CaptureEnd
  \/ Dispatch \/ Stopped

Spec == Init /\ [][Next]_vars

-----------------------------------------------------------------------------
Serving == phase = "serving" /\ step # None

\* run_fullgraph: the graph a batch is sent to was captured by this very
\* manager, against the real KV cache and in the pool that lives on; a
\* capture cut short to a sample of the descriptors would leave some out.
ReplayHasItsGraph ==
  Serving /\ step.desc.cg_mode = "FULL" =>
    [desc |-> step.desc, pool |-> "global", kv |-> "real"] \in graphs["manager"]

\* The persistent buffer holds the output of every FULL graph captured: it is
\* allocated once, by whatever is captured first.
HiddenStatesHoldEveryGraph ==
  manager # None => \A g \in graphs["manager"] : g.desc.num_tokens <= manager.hidden

\* Outside the profiling pass, ended or failed at any point, no pool is the
\* throwaway one and no graph recorded against it can be replayed.
NothingOutlivesProfiling ==
  phase \notin {"minimal", "profile", "profile_capture"} =>
    /\ global_pool = "global" /\ wrapper_pool = "global"
    /\ \A h \in Holder : \A g \in graphs[h] : g.pool = "global" /\ g.kv = "real"

\* Every configured size that a graph is captured at was run by the warmup of
\* the attention kernel before, though profiling may be skipped and its own
\* warmup with it.
ConfiguredSizesAreWarm ==
  \A h \in {"manager", "wrapper"} : \A g \in graphs[h] :
    g.desc.num_tokens \in CaptureSizes => g.desc.num_tokens \in warmed

\* The warmup of the attention kernel ran at every batch size graph capture
\* uses, before the first capture: it is there so that the autotuner has its
\* answer by then.
CaptureSizesAreWarm ==
  \A h \in {"manager", "wrapper"} : \A g \in graphs[h] : g.desc.num_tokens \in warmed

\* The rows of the graph hold the requests of the batch as they really are,
\* whether or not the caller tracked its longest query: a prefill batch never
\* runs in a graph captured for decodes.
GraphFitsBatch ==
  Serving /\ step.desc.cg_mode = "FULL" =>
    /\ step.desc.num_reqs >= step.batch.num_reqs
    /\ step.desc.max_query_len # None => step.batch.longest <= step.desc.max_query_len
    /\ step.desc.uniform_token_count # None =>
         step.batch.num_tokens = step.batch.num_reqs * step.desc.uniform_token_count

Fitting(mode) ==
  {d \in CaptureDescs(mode) : IsCompatible(d, step.batch, EffectiveLoras(step.batch.num_active_loras))}

\* dispatch looks at one token count only, yet finds the least padded graph of
\* all that fit the batch, a FULL one if any, and runs eagerly if there is none.
LeastPaddedGraph ==
  Serving =>
    LET best == IF Fitting("FULL") # {} THEN Fitting("FULL") ELSE Fitting("PIECEWISE")
    IN IF best = {} THEN step.desc.cg_mode = "NONE"
       ELSE step.desc \in best /\ \A d \in best : step.desc.num_tokens <= d.num_tokens

\* Dynamic speculative decoding: a decode batch that a FULL graph was captured
\* for runs in a FULL graph, whatever query length the scheduler chose.
DecodeFindsItsGraph ==
  Serving /\ Fitting("FULL") # {} => step.desc.cg_mode = "FULL"

\* The graphs of the real capture fit in the memory set aside for them, though
\* only two of the FULL ones were ever captured before.
EstimateCoversCapture ==
  estimate # None /\ phase \in {"capture", "serving"} => used <= estimate

\* Too much is set aside only by the floor of the cost of a graph: the pool
\* baseline is not counted for every graph.
EstimateIsClose ==
  estimate # None /\ phase = "serving" =>
    estimate <= used + Cardinality(CaptureDescs("FULL")) * MinPerGraph
=============================================================================
