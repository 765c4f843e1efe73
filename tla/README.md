# A TLA+ verification of the Qwen3.8 RDNA4 serving patches

The repository holds modified vLLM source files that make one model family
(n-gram embeddings, a per-layer-embedding short convolution, WNA16 mixture of
experts, QSA attention) run on RDNA4 GPUs, with scripts that launch and measure
it. This directory holds TLA+ models of the parts of that code that keep state,
the TLC configurations that check them on small instances, and TLAPS proofs
of most of their properties for instances of any size.

## 1. Inventory

| Component | Source | State | Operations |
|---|---|---|---|
| PLE short convolution, cached rows | `src/ple_layer.py:455-1070` | one row of `conv_state_len + num_spec` inputs per cache block | prefill, decode and speculative forwards |
| PLE short convolution, flat batch | same lines | the tensors of one call: packed rows, outputs per path | split, pack, convolve, unpack, write back, merge |
| N-gram embedding | `src/ple_layer.py:73-430` | hash multipliers, vocabulary layout, embedding table | shift within EOS segments, hash, look up, load buffers and shards |
| PLE embedding on the host | `src/ple_cpu.py` | a vocabulary shard in host memory | masked gather, all-reduce |
| MoE expert loading | `src/moe_wna16.py`, `src/routed_experts.py` | parameters of the local experts | map a name, convert, slice, store |
| CUDA graph manager | `src/cudagraph_utils.py` | candidate descriptors, captured graphs, pools | capture, dispatch, replay, memory profiling |
| QSA attention warmup | `src/qwen4_exp_amd_qsa_warmup.py`, `src/kernel_warmup.py` | the autotuner's answers | eager runs at the capture sizes |
| FlashInfer autotune | `src/kernel_warmup.py:299-367` | a cache file per rank, a process group | tune on the leader, broadcast, write, barrier |
| Run-time quantization, routing | `src/moe_wna16.py`, `src/routed_experts.py` | none | calls to kernels of vLLM |
| Patches, launch, measurement | `src/*.patch`, `src/tools`, `src/*.sh`, `src/analyze_divergence.py` | none | start containers, send requests, print figures |

How they interact. At startup the runner loads the checkpoint (expert loading,
embedding shards), may profile the memory of CUDA graphs (the manager, after
the QSA warmup, against a minimal KV cache and a throwaway pool), initializes
the real KV cache, warms the kernels up and captures the graphs. At run time a
batch is dispatched to a captured graph, or runs eagerly; the batch is padded to
the size of its graph, so the short convolution sees rows that belong to no
request. The convolution's cache rows are owned by requests through cache
blocks, which the scheduler of vLLM hands out and takes back.

What is hard about each, and what makes it correct:

* **Cached rows.** A block passes from one owner to the next without being
  cleared. A speculative step writes inputs that may not count, and the verdict
  arrives later. Correct means: the outputs of a request are those of one causal
  convolution over the inputs it really consumed, whatever the chunks, paths,
  verdicts and former owners; and the reserved block never changes.
* **Flat batch.** Three paths share one tensor; boundaries are found with
  `searchsorted`; padding rows share a block; empty chunks must do nothing.
  Correct means: the call does to each request what it would do to it alone.
* **Expert loading.** Two kinds of ranks, global and local expert numbers,
  packed bytes, groups made smaller to fit a shard, tensors in any order, tensors
  that only one of the methods has a parameter for.
  Correct means: the number, scale and zero the kernel uses for a weight are
  those of that weight, nothing is missing and nothing is overwritten.
* **CUDA graphs.** The profiling pass captures graphs that must not survive it,
  and may raise anywhere; candidates are found by token count only. Correct
  means: a replayed graph belongs to the live manager, KV cache and pool; it
  fits the batch; and no better graph was passed over.
* **N-gram embedding.** Tokens arrive in chunks, flat, beside other requests and
  padding; sizes come from a probabilistic prime test; the hash multiplies in
  words that wrap; a checkpoint may bring the buffers of another configuration.
  Correct means: the n-gram of a token is the one it has in its whole request;
  every head has its own rows; a hash does not depend on the width of the word;
  and the table is read at the rows its writer meant.
* **Host embedding.** Shards of a checkpoint cross the boundaries of ranks; a
  rank gathers a row for ids that are not its own. Correct means: to its callers
  the table is one table, and every look-up is answered.
* **Autotune.** Several ranks, a file per host, collectives, a kill while a file
  is being written. Correct means: ranks tune the same operations together and
  end with the same answers, a start always ends, and a torn file is replaced.

The hazards, each at its line with the properties that would catch it, are the
`hazards` of `PROJECT.json`.

## 2. Modules

| Module | Models | Lines of code |
|---|---|---|
| `ConvShape` | the sizes of the convolution | constructor, 457-503 |
| `ConvStream` | the convolution on whole streams, without a cache | `_short_conv_fallback`, 542-546 |
| `CausalConv` | **abstract specification**: requests feed inputs, verdicts keep a prefix, outputs are those of one causal convolution | states the promise of `_short_conv` |
| `ConvRow` | one cache row: what each path reads from it and leaves in it | 579-940 |
| `ShortConv` | the rows of all requests over their life; refines `CausalConv` | `_short_conv` and its metadata |
| `ShortConvDispatch` | one call on a flat batch, path by path | `_short_conv_dilated_*` |
| `ExpertLoading` | one rank loading the WNA16 experts of one layer | `create_weights`, the WNA16 loader, `weight_loader` |
| `ExpertFormats` | one rank loading any kind of tensor from any of three layouts of a checkpoint | `load_weights`, `weight_loader`, the mapping of names |
| `WeightFormat` | operators: the bytes of AWQ and GPTQ tensors, converted; `ExpertLoading` extends it | `convert_awq_tensor`, `convert_gptq_int4_qzeros` |
| `CudaGraphs` | candidates, capture, profiling and its estimate, warmup, dispatch | `cudagraph_utils.py`, the QSA warmup |
| `NgramShape` | the length of an n-gram, shared by shift and hash | `ngram_size` |
| `NgramStream` | **abstract specification**: each token gets the n-gram of its own request | states the promise of the n-gram shift |
| `NgramEmbedding` | one call: pack, shift within segments, read back; refines `NgramStream` | `Qwen4ExpNGramEmbedding.forward` |
| `NgramLayout` | prime test, sizes, offsets, padding | `_is_prime_64`, `_make_vocab_layout` |
| `NgramHash` | multipliers, the buffers a checkpoint brings, ids, on a layout that `NgramLayout` has finished | `_make_layer_multipliers`, `load_weights`, the hash |
| `EmbeddingLookup` | **abstract specification**: a table answers every look-up with its row | states the promise of the host embedding |
| `HostEmbedding` | shards loaded, rows gathered and added up; refines `EmbeddingLookup` | `ple_cpu.py`, `load_weights` |
| `Autotune` | the ranks of an engine, their cache files, barriers and restarts | `kernel_warmup`, `flashinfer_autotune` |
| `ShortConvProofs`, `ShortConvDispatchProofs`, `NgramProofs`, `HostEmbeddingProofs`, `ExpertLoadingProofs`, `ExpertFormatsProofs`, `CudaGraphsProofs`, `AutotuneProofs` | theorems about `ShortConv`, `ShortConvDispatch`, `NgramEmbedding` with `NgramLayout` and `NgramHash`, `HostEmbedding`, `ExpertLoading` with `WeightFormat`, `ExpertFormats`, `CudaGraphs` and `Autotune` | |
| `MCShortConv`, `MCShortConvDispatch`, `MCExperts`, `MCFormats`, `MCGraphs`, `MCNgramHash`, `MCHost` | the instances for TLC | |

Several modules have a constant `Configs`, a set of records, and a variable
`config` that a behaviour chooses from it once: one run then covers every
configuration of the program that asks the same question.

The exact lines of every definition are in the `map` of `PROJECT.json`. The
operators named "Mutant" in comments are deliberate errors: each shows that some
property fails when the code is changed that way.

### Short convolution

The data never matters, only where it ends up. An input is a value; an output is
the tuple of the inputs under the taps of the kernel; weights and activation
are a function of that tuple and are left out.

`ShortConv` has the cache (`conv_state`), the blocks in use (`live`), and for
each request its consumed inputs (`stream`), the speculative ones awaiting their
verdict (`draft`), the outputs of its last forward (`out`) and
`num_accepted_tokens`. Only `conv_state` and `num_accepted_tokens` exist in the
code; the others are history, and no forward reads them except `stream # << >>`,
which is `has_initial_states`. One `Forward` is one call of
`_short_conv_dilated_dispatch`: every block of the batch gets a job (idle,
prefill, decode, speculative), padding rows included, and all rows change at
once. `Accept` is the verdict, `Release` the end or preemption of a request at
any moment, `Admit` a new owner of a block whose row is still the last owner's.

Taken for granted of vLLM, which is not in the repository:

* a request is given the decode or prefill path only when
  `num_accepted_tokens = 1` (those paths read the front of the row; without
  this guard `WindowIsEndOfStream` fails), and the speculative path only after
  it has consumed something;
* a verdict keeps between one and all of the candidates;
* requests of a batch own distinct blocks; padding names `NULL_BLOCK_ID`;
* `has_initial_states_d` may be absent only if every decode continues a stream;
* plain decodes are one token long.

`ShortConvDispatch` takes one batch through the call: the speculative path, the
decode path, the prefill path packed or request by request, the merge. Its
properties compare the result with the operators of `ConvRow` applied to each
row alone, which is exactly what `ShortConv` does: together they say that one
`Forward` of `ShortConv` is what the flat code computes. When padding rows share
block 0, `index_copy_` may let any of them win; the model allows each.

### Expert loading

A tensor of the checkpoint arrives in the standard format (rows, columns,
`pack` numbers to a byte); each of its cells is a distinct value, so a parameter
shows where every byte came from. The actions are the outcomes of the loader for
one tensor: skipped as spurious, skipped as unused (`g_idx`, zeros of a symmetric
checkpoint), skipped as another rank's, or stored by one of four routines.
`failed` is an exception. Only GPTQ registers the empty parameters that the names
of unused tensors resolve to; with AWQ the loader raises on such a name before
its method could skip it (`RaiseUnregistered`). One rank is modelled and its number is
chosen at the start: ranks share nothing while loading.

`ExpertFormats` has the rest of the general loader. A behaviour takes one kind
of tensor (weights, biases, channel, block or tensor scales, input scales) from
one layout (a tensor per expert, gate and up fused per expert, all experts in
three dimensions) to the padded parameters of one rank, with redundant experts
and both placements of experts. `Entries` is the mapping from names to experts,
`WeightLoader` the branches on the kind. Round-robin placement is taken only
without redundancy, as vLLM does.

`WeightFormat` is what happens to the numbers of one tensor: packed as AutoAWQ or
GPTQ pack them (taken for granted; GPTQ stores a zero less one, so a zero is
never 0), converted step by step, read by the kernel. `ExpertLoading` converts
whole cells and extends it; `NumbersSurvive` says that what it does with cells is
right for the numbers in them.

### CUDA graphs

A graph is its descriptor with the pool and the KV cache it was captured
against. `phase` follows startup: profiling (optional, may raise at any point),
the real KV cache, warmup, capture, serving. `Discard` is the two `finally`
blocks with the teardown they call. `Dispatch` sends any batch the runner could
build, its longest query tracked or not.

Taken for granted: the largest capture size is `max_cudagraph_capture_size`; the
modes split into decode and mixed routines as in vLLM's `CUDAGraphMode`;
`enable_jit_warmup` is on; initializing the KV cache makes a new manager; the
speculator captures at least one graph of its own, after the model's.

Memory is counted with a pool that is external: a graph costs a fixed amount,
and activations in proportion to its tokens which the graphs of one pool share
(`high`, `used`, `samples`, `estimate`). This is what the comments of `capture`
and the docstring of `_extrapolate_full_graph_memory` say of the pool.

### N-gram embedding

`NgramEmbedding` has for each request the tokens it fed and the n-grams they
got; both are history, as the layer itself keeps nothing: the runner hands it
the last `NgramSize - 1` tokens of each request. `Forward` is a call on a batch:
rows found with `searchsorted`, tokens packed behind their context, the last
EOS before each column, the shifted values. `Retract` is the rejection of drafts
or the end of a request. `NgramLayout` runs the search for primes candidate by
candidate; `NgramHash` draws the multipliers, any that the bound of the code
allows, instead of the bits of `splitmix64`, and registers the buffers. Then the
tensors of a checkpoint come in any order: each buffer is copied over the
constructed one if it has its length, the table is accepted if it has as many
rows as the one that was made, and one n-gram is hashed.

Taken for granted of the checkpoint: a model with this code wrote it, for a
vocabulary no larger than allows its multipliers; it holds all three buffers or
none; its table is split in as many parts as the configuration says. Its base,
seed, number of heads and length of n-grams may be others. The tensors
`load_weights` skips (`hashstats_*`, `token_lookup`) are left out.

### Host embedding

Rows are named by their ids and a sum is the set of its terms that are not zero,
so that a row added twice, from the wrong rank or not at all shows. The copy of
a shard into a partition and the partition of the table are vLLM's.

### Autotune

`pc` is where each rank is in `kernel_warmup`; `file` the cache file of each
host. A write is two steps, and a file between them is torn; a torn file loads
as nothing; both are taken for granted of vLLM's and FlashInfer's file handling,
as is that all ranks run the same operations in the same order. `Raise` is an
exception in a warmup or dummy run of one rank, `Crash` the end of the engine at
any moment, after which it starts with the files it left. The caller requires a
device capability that RDNA4 does not report, so on these GPUs the code is not
reached; it is modelled because the repository carries it.

## 3. What is checked

Most properties are safety properties: state invariants, action properties and
refinements. Fairness is assumed in two modules, and nowhere else: the rest are
sequential calls made by an engine that is not in the repository and that
promises nothing.

* `Autotune`: weak fairness of each rank's next step and of the average. Each
  rank is a process that runs straight through `flashinfer_autotune`; it waits
  only in collectives, which are steps that are disabled until the others come.
  A restart after a rank raised is fair too: the ranks that wait for it never
  come on by themselves, and whoever runs the engine ends them. Nothing obliges
  an engine to crash.
* `HostEmbedding`: weak fairness of each rank's gather and of the all-reduce.
  Each rank runs the forwards it is sent; nothing obliges anyone to send one.

| Run | Instance | Shows |
|---|---|---|
| `conv_one_block` | 1 block beside the reserved one, 2 inputs, kernel 2, dilation 2, 2 drafts, streams to 5, chunks to 3 | types; the window a request reads next is the end of its own stream; every verdict has its window; padding leaves the reserved block alone; refinement of `CausalConv` |
| `dispatch` | up to 3 requests of any path with chunks of 0-3, and up to 5 prefills of 0-1 tokens; 0-2 padding rows | outputs and rows are those of each request alone; padding is zero |
| `experts` | 2 tensor-parallel ranks (4 bits, zeros, group size halved); 2 expert-parallel ranks; 8 bits without zeros, several groups per row; AWQ and GPTQ; symmetric AWQ with zeros; the smallest group size is 2 instead of 32 | every cell from its own weight; nothing missing or overwritten; nothing refused that has a parameter; the kernel reads each number where it belongs |
| `formats` | 2 tensor-parallel ranks, three layouts, five kinds, padding, scale blocks refined by 2; 4 logical experts, 0 or 2 redundant, 2 expert-parallel ranks, both placements; input scales 2 and 3 | every cell from its own source, padding untouched, the layer whole; a layer with two different input scales is refused |
| `graphs` | FULL_AND_PIECEWISE with query length 3; FULL_DECODE_ONLY, varlen, with LoRA; 48 small configurations with 3 costs each; sizes too small for any graph | nothing outlives profiling; every replay has its graph, which fits the batch with the least padding; the hidden-states buffer holds every graph; the configured sizes are warm; the estimate covers the capture and exceeds it only by the floor |
| `ngram` | 2 requests, streams to 3 tokens with EOS, n-grams of 3, padding rows | types; refinement of `NgramStream` |
| `ngram_ids` | 2 layers of 4 heads from 13 bases; words of 5 bits, all multipliers, all windows; checkpoints of the same configuration or of another base, seed, number of heads or length, with the buffers or without | the sizes are the next primes; rows are partitioned; no product wraps; ids are rows of the table; the table is read as it was written |
| `host` | 1 rank with 5 rows and 2 ranks with 10, in 4 parts; checkpoints in that and other numbers of parts | refinement of `EmbeddingLookup`; rows in their places; the expected split is accepted |
| `autotune` | 3 ranks on 2 hosts, 2 operations of which one is skipped, 2 tactics, any old caches, 1 crash | the file loaded is the one broadcast; same collectives; same answers; every start ends; a torn file is replaced |
| `experts_zeros8`, `graphs_dynamic`, `graphs_warmup` | | violations, section 5 |

Deadlock is checked everywhere but in `host`, where it is quiet when nobody asks
for a row, and in `autotune`, where the startup ends and serving is not modelled.

Why the bounds are enough. A row of the convolution holds the last
`ConvStateLen` inputs and `NumSpec` more; a stream longer than `ConvStateLen +
NumSpec` has pushed out everything that was there before, and a chunk longer
than `ConvStateLen` has replaced the whole window. In `conv_one_block` streams
reach 5 and chunks 3 with a window of 2 and room for 2 drafts, so a window can
lie wholly in the padding, across it, in older inputs, and across a chunk
boundary; two inputs suffice to tell a shifted window from the right one. There
is one block besides the reserved one; that a request never sees the inputs in
another's block is `Refinement`, proved for any number of blocks, and the proofs
of section 4 remove the other bounds too. Three requests of a flat batch suffice
to have a first, a middle and a last row in every path. A packed prefill stays
within its budget with an empty chunk only from five requests on (`n - 1` chunks
of the same length, and `n * len <= (n - 1) * len * 5 / 4`), hence the second
bound of `dispatch`. Blocks are interchangeable, so the `i`-th request owns
block `i`. Two ranks suffice for a wrong rank; in the symmetric configuration a
halved group size gives each rank three new groups, cut from two old ones of
which one straddles the boundary between the ranks. The graph sizes include one
that is not a multiple of the query length, one that is rounded above the
largest, and a batch larger than every graph.

N-grams of three have a shift that stays in a chunk, one that reaches into the
context and one that passes an EOS in either; three tokens hold a context of two
and a chunk of one, a context of one and a chunk of two, and a whole chunk; two
requests put the end of one beside the start of the other. The bases of
`ngram_ids` lie just below squares of primes above 37 and products of two of
them, the only composites of that size that reach the Miller-Rabin part; no
64-bit composite passes all of its bases. Padded to 128 rows, the tables from
bases 3 and 5 have the same size and those from 3 and 66 do not; a checkpoint of
other heads or another length fails on its buffers. Words of 5 bits with
vocabularies up to 16 reach both ends of the bound on multipliers. Ten rows in
four parts on two ranks have a part across the boundary and a short last one;
five rows in four parts have an empty one. Three ranks on two hosts have a pair
that shares a file and a rank that does not share the leader's. One crash can
fall on every step of the first start; a second would start from the same files,
which the initial states already take as arbitrary.

## 4. What is proved

The theorems hold for every value of the constants that satisfies the
assumptions (`ASSUME`) of the modules, which TLC evaluates for each run. Each
proof has the same shape: an inductive invariant `IInv`, that `Init` implies it
and every action keeps it (one lemma per action), and that it implies the
property. TLC checked each `IInv` before it was proved.

| Module | Theorem | Statement |
|---|---|---|
| `ShortConvProofs` | `TypeCorrect` | `Spec => []TypeOK` |
| | `WindowCorrect` | `Spec => []WindowIsEndOfStream` |
| | `VerdictsCorrect` | `Spec => []EveryVerdictHasAWindow` |
| | `NullBlockCorrect` | `Spec => NullBlockUntouched` |
| | `Refinement` | `Spec => ImplementsCausalConv` |
| `ShortConvDispatchProofs` | `OutputCorrect` | `Spec => []OutputIsPerRequest` |
| | `StateCorrect` | `Spec => []StateIsPerRequest` |
| | `PaddingCorrect` | `Spec => []PaddingIsZero` |
| `ExpertLoadingProofs` | `SourcesCorrect` | `Spec => []OnlyItsOwnSource` |
| | `NothingMissing` | `Spec => []NothingIsMissing` |
| | `FitsCorrect` | `Spec => [](NoZerosOf8Bits => EveryTensorFits)` |
| | `StoredOnce` | `Spec => NeverOverwritten` |
| | `FormatCorrect` | every number of every AWQ or GPTQ tensor survives its conversion |
| | `NumbersCorrect` | `Spec => []NumbersSurvive` |
| `ExpertFormatsProofs` | `CellsCorrect` | `Spec => []CellsAreTheirSources` |
| | `LayerCorrect` | `Spec => [](AllAreNamed => LayerIsComplete)` |
| | `ScalesCorrect` | `Spec => [](1 \notin config.input_scales => UnequalInputScalesAreRefused)` |
| `CudaGraphsProofs` | `ProfilingIsUndone` | `Spec => []NothingOutlivesProfiling` |
| | `ReplayCorrect` | `Spec => []ReplayHasItsGraph` |
| | `HiddenStatesCorrect` | `Spec => []HiddenStatesHoldEveryGraph` |
| | `WarmupCorrect` | `Spec => []ConfiguredSizesAreWarm` |
| | `FitCorrect` | `Spec => []GraphFitsBatch` |
| | `DispatchCorrect` | `Spec => [](OneQueryLength => LeastPaddedGraph)` |
| | `EstimateCovers` | `Spec => []EstimateCoversCapture` |
| | `EstimateClose` | `Spec => []EstimateIsClose` |
| `NgramProofs` | `TypeCorrect` | `Spec => []TypeOK` |
| | `Refinement` | `Spec => ImplementsNgramStream` |
| | `PartitionCorrect` | `HashSpec => []RowsArePartitioned` |
| | `SizesCorrect` | `HashSpec => [](TestIsExact => SizesAreTheNextPrimes)` |
| | `HashCorrect` | `HashSpec => []HashIsExact` |
| | `IdsCorrect` | `HashSpec => []IdsAreRowsOfTable` |
| | `TableCorrect` | `HashSpec => []TableIsReadAsWritten` |
| `HostEmbeddingProofs` | `PlacesCorrect` | `Spec => []RowsAreInTheirPlaces` |
| | `OwnSplitCorrect` | `Spec => []OwnSplitIsAccepted` |
| | `Refinement` | `Spec => LookupSafety`, which is `ImplementsLookup` without its fairness |
| `AutotuneProofs` | `TypeCorrect` | `Spec => []TypeOK` |
| | `LoadCorrect` | `Spec => []LoadsWhatWasBroadcast` |
| | `CollectivesCorrect` | `Spec => []CollectivesMatch` |
| | `TunedCorrect` | `Spec => []TunedAlike` |

Five theorems have a hypothesis. Of four the property is false without it:
`OneQueryLength` (run `graphs_dynamic`), `NoZerosOf8Bits` (run `experts_zeros8`),
`AllAreNamed`, that a three-dimensional checkpoint meets no redundant experts,
and no input scale of 1 (section 6 for both). The fifth is a fact of number
theory: `TestIsExact` says that `_is_prime_64` tells primes from composites
among the numbers a search goes through. That seven bases are enough below 2^64
was established by enumeration of pseudoprimes, which no prover here can repeat;
run `ngram_ids` checks the property itself, without the hypothesis. All five
are conditions on the configuration, not on the course of the behaviour, and
the passing runs contain the configurations that satisfy them. Two properties
carry a condition themselves: `EveryTensorFits` that no unused tensor is in an
AWQ checkpoint, `TableIsReadAsWritten` that the checkpoint holds its buffers or
is of the very configuration.

**Short convolution.** `IInv` is
`TypeOK /\ WindowIsEndOfStream /\ EveryVerdictHasAWindow`. Neither half is
inductive alone. A verdict establishes the window from the row as the
speculative forward left it, so the window needs `EveryVerdictHasAWindow`; a
speculative forward leaves a window for each verdict only if it started from the
right one, so that needs `WindowIsEndOfStream`. The types bound
`num_accepted_tokens` and the drafts, so that every index stays within the row.

The argument for a forward is about one row: `HistoryContinues` and its
companions show that what a path reads continues the end of the request's
stream, and that the row it leaves is the end of the longer stream (plain
paths), or holds the end after each accepted prefix (speculative path). The
refinement needs one more fact, `FreeIsEmpty`: a block without an owner has an
empty stream and no drafts, so that `Admit`, which clears nothing in the code,
maps to the abstract `Admit`, which starts a request afresh. Every step of
`ShortConv` then maps to the step of the same name of `CausalConv`.

**Flat batch.** `DispatchInv` says at each `pc` which requests are done: the
rows of the paths that have run are as those requests would have left them
alone and all other blocks are untouched (`StateInv`), the output of a path
holds the outputs of its requests at the places of its tokens (`SpecInv`,
`DecodeInv`, `PrefillInv`; in the per-request loop, of the requests before
`request`). The three properties speak of the end only. The steps rest on lemmas
about offsets. The prefix sums of `QueryStartLoc` are a recursive function;
that it satisfies its equation, and is the only one to do so, is shown from a
least counterexample. Then: the segments of a batch are disjoint and cover it;
`searchsorted` finds the row of every token, empty requests or not; the sorted
index of a path lists its tokens row by row, with the decodes before the
prefills (`TokensInOrder`), so that a place within a path is a place in the
batch; packing puts each token in its own cell; scattering back hits each token
once. Two rows that name one block are padding and name the reserved one, so it
does not matter which write of `index_copy_` wins.

**Expert loading.** `CellInv` says of each cell which tensor it comes from
(`TensorOf`) and what that tensor has for it (`Content`), both functions of the
configuration alone: a cell is empty while its tensor is to come and holds its
content afterwards. That is stronger than `OnlyItsOwnSource`, which allows
"empty or right" and so would not survive a tensor that comes twice. The work is
in two lemmas about arithmetic: the rows of a parameter that a tensor is stored
to are those whose `TensorOf` it is (`TensorGoesTo`), and the cell that the
kernel reads for a weight has that weight's number as its content
(`KernelReadsItsSource`), through the slices of the ranks, the packing and the
halved groups. `GroupsAssumption` is what makes it true: rows of a checkpoint
are whole groups, and groups are whole bytes for every halving that
`create_weights` may choose. `FormatCorrect` has no state: it follows one number
of an arbitrary tensor through the packing, the conversion and the kernel.

**Layouts.** `ParamInv` gives the whole content of every parameter in every
state: a cell holds its source if a tensor that brings it has come and its
source is not padding. A tensor may bring a cell to several local experts
(redundant copies) and a fused one both halves of `w13`; the lemmas go from the
entries of the mapping to `Brings`, then from the slices, the padding and the
refined scale blocks to the source of each cell. `ScaleInv` is about input
scales alone and says that a shard that has come keeps its scale.

**CUDA graphs.** `IInv` describes what each phase has: the pools of platform and
wrappers, the manager, the holders of graphs and their pool and cache, what has
been warmed. `NothingOutlivesProfiling` is not inductive, as it says nothing of
the phases in which graphs of the profiling pass do exist and from which they
must be cleared, whichever capture raised. `NothingIsSkipped` (a FULL graph is
captured or still to do) and `HiddenIsLargest` (the first graph captured has
most tokens) are what replay and the buffer need. Dispatch is about the
candidates: the least size not below the batch exists because sizes are natural
numbers (`Least`, from the well-foundedness theorems of the library), and with
one query length its group holds a graph that fits if any group does.
`MemInv` counts the graphs of each holder by the cardinality of the sets left
to capture and gives the pool's use in closed form; both estimates follow by
comparing two such forms.

**N-grams.** `IInv` says that the n-grams of a request are those of its stream;
its strength is in the lemmas about one call: `searchsorted` finds the row of
each token though empty requests share boundaries, the packed row around a
token ends like its stream, and the nearest EOS before it in the row is the
nearest in the stream when it is near enough to matter.

`HashInv` is about layout and hash. The heads of a layer, finished or not, are
`Stacked`: each offset is the offset of the head before it plus its size, from
which rows are disjoint and cover the table; a layout that is made stays.
`BuffersInv` says of each buffer that it has the constructed length and is the
constructor's, or the checkpoint's once that was loaded; and of the table that
once accepted it has the constructed number of rows. So every head, of whichever
layout, lies in the table, and when the checkpoint holds all buffers they are
all its own at the end. Multipliers are at most `2 * HalfBound - 1`, so a product of
a token and a multiplier is below `2 ^ (Width - 1)`. The exclusive or of two
such numbers is one again and is the same in any wider word (`XorOfSmall`), so
every intermediate value of the hash is what it would be in unbounded integers.
The recursive functions (powers, bits, the hash itself) are handled by
`RecursionExists` and `RecursionIsUnique`, for steps given as functions.
`PrimesInv` counts: what the search has found is the `found`-th prime from the
base on and no number between it and the candidate is prime, all under the
assumption that the test was exact on the numbers so far.

**Host embedding.** The loader stores a shard as soon as it comes and checks its
number of rows only, so the invariant cannot say that rows are in place while a
foreign checkpoint is being copied. `FirstShardTells` is the missing fact: who
has accepted shard 0 has a checkpoint with the configured shard size, and then
every shard taken is in place (`TakenIsPlaced`). The refinement needs that ranks
answer in step and that a partial result holds this rank's row or nothing.

**Autotune.** `FileInv` follows the file: behind the broadcast every rank has
the same contents, so that ranks which write one path write the same thing, a
rank loads only when all have passed the barrier, and the leader saves only when
all have met again, hence after every load. `TuningInv` follows the answers:
all ranks have those of the file for what is not yet measured and the same ones
for what is; between the places of two ranks there is nothing to measure, so
they meet in the same averages.

Only model-checked:

* liveness under fairness, which is out of the prover's reach:
  `EveryoneReturns`, `TornFileIsRepaired` and the fairness in
  `ImplementsLookup`;
* that the prime test with its seven bases is exact on the numbers searched,
  which `SizesCorrect` assumes: number theory, not a fact about this program;
* the violations of section 5, which are counterexamples.

## 5. Findings

* **8-bit zeros with `has_zp`** (`experts_zeros8`). The wrapper slices
  `w13_qzeros` at `shard_size // 2`, which is right only when two numbers share
  a byte. With 8-bit weights and zero points, which the loader accepts, the
  slice and the tensor differ in size and the assignment raises
  (`src/moe_wna16.py:645`).
* **Dynamic speculative decoding** (`graphs_dynamic`). Graphs are captured for
  every query length the scheduler may choose, but a batch is only looked up
  under the next captured token count. Three requests of one token find the
  graph of one request of three tokens, and run without a FULL graph although
  one that fits was captured (`src/cudagraph_utils.py:316`).
* **Warmup sizes** (`graphs_warmup`). The warmup runs at the configured sizes;
  uniform decode graphs are captured at those sizes rounded up to a multiple of
  the query length (`src/qwen4_exp_amd_qsa_warmup.py:71`).

## 6. Not modelled, and why

Numerical values (convolution weights, activations, quantized arithmetic):
kernels, outside the repository. Errors on metadata of the wrong type or size.
Run-time quantization and routing: no state. The loader's branches for ModelOpt,
gpt-oss and GGUF, parameters stored transposed and the `g_idx` of act-order: the
checkpoints of this model family do not take them.

Two configurations are kept out of the runs of `ExpertFormats` and are excluded
by the hypotheses of its theorems, because there the code does not do what the
properties say: redundant experts with a three-dimensional checkpoint, whose
experts are numbered by position and the numbers used as physical ids, so that
the redundant ones are never loaded (`AllAreNamed`; `src/routed_experts.py:993`;
WNA16 refuses EPLB and cannot meet it); and a first input scale of exactly 1,
which counts as not loaded and is replaced by the second
(`src/routed_experts.py:725`).

The memory a packed prefill takes: beside the tokens that `OverBudget` counts,
each row has the columns of its history, and several copies of the whole are
made (`src/ple_layer.py:762`); the guard bounds only the first. Nor does the
memory profile bound it, as the layer takes its fallback there
(`src/ple_layer.py:1069`). How much that is next to the rest of a forward is not
a question for a state machine.

A checkpoint written without buffers, by another base or seed whose table has as
many rows, is accepted and read at the wrong rows: nothing in it tells. It is
outside the condition of `TableIsReadAsWritten`.

The views through which EPLB moves experts after loading: the mover is not in the
repository. Data and pipeline parallelism in the graph manager, and the building
of attention metadata: the collectives and the builders are vLLM's. The bits of
`splitmix64`: no property depends on them. Patches repeat the sources; scripts
are input and output only.

## 7. Plan

Done: the short convolution, abstract, cached, flat; expert loading in all
layouts and formats; CUDA graphs and their memory; the n-gram embedding and the
host table, each with its abstract specification; autotune; and the theorems of
section 4. Every invariant that a passing run checks is now a theorem, under
the hypotheses that section 4 names. What could
come next are theorems of type correctness for the components whose invariants
carry their types implicitly (`CudaGraphs`, `ExpertLoading`, `ExpertFormats`);
liveness stays with TLC.
