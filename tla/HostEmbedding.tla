--------------------------- MODULE HostEmbedding ----------------------------
(***************************************************************************)
(* The n-gram table in host memory: the constructor of                     *)
(* Qwen4ExpNGramEmbedding sizes it, its load_weights puts the shards of a  *)
(* checkpoint in the partitions of the ranks, and the forward of           *)
(* PLECpuOffloadEmbedding gathers a row on each rank and adds them up.     *)
(*                                                                         *)
(* A row is named by the id that reads it; what is in a partition is the   *)
(* name of the checkpoint row that was copied there.  Adding up is kept    *)
(* symbolic: a sum is the set of its terms that are not zero, each with    *)
(* the rank it comes from.                                                 *)
(***************************************************************************)
EXTENDS Integers, Sequences, FiniteSets

CONSTANTS
  Configs,      \* the configurations of the table and of its checkpoint
  MaxAsked      \* bound of the model: the forwards

(***************************************************************************)
(* A configuration: tp_size, org_vocab_size (the rows of the table with    *)
(* their padding), split_ngram_parts, and ckpt_parts, the numbers of parts *)
(* a checkpoint may have been split in.                                    *)
(***************************************************************************)
ASSUME VocabAssumption ==
  /\ MaxAsked \in Nat
  /\ \A c \in Configs : /\ {c.tp_size, c.org_vocab_size, c.split_ngram_parts} \subseteq Nat \ {0}
                         /\ c.org_vocab_size % c.tp_size = 0
                         /\ c.ckpt_parts \subseteq Nat \ {0}

\* The ranks and ids of all configurations.
AllRanks == UNION {0 .. c.tp_size - 1 : c \in Configs}
AllIds == UNION {0 .. c.org_vocab_size - 1 : c \in Configs}

Empty == -1
Scale == -2  \* the name of the weight_scale tensor among the shards

VARIABLES
  config,      \* a member of Configs
  ckpt_parts,  \* in how many parts the checkpoint was split
  todo,        \* the tensors each rank has still to load
  failed,      \* the ranks whose load_weights raised
  weight,      \* the partition of each rank
  scale,       \* the ranks whose weight_scale is loaded
  asked,       \* the ids of the forwards so far
  partial,     \* what each rank has taken into the all-reduce: no or one sum
  answers      \* what each rank got

vars == <<config, ckpt_parts, todo, failed, weight, scale, asked, partial, answers>>

TpSize == config.tp_size
OrgVocab == config.org_vocab_size
Parts == config.split_ngram_parts
Rank == 0 .. TpSize - 1
Id == 0 .. OrgVocab - 1

-----------------------------------------------------------------------------
(***************************************************************************)
(* VocabParallelEmbedding: the rows of a rank.                             *)
(***************************************************************************)
PerPartition == OrgVocab \div TpSize
StartIndex(r) == r * PerPartition
EndIndex(r) == StartIndex(r) + PerPartition

CeilDiv(n, d) == (n + d - 1) \div d

\* The rows a checkpoint split in n parts has in shard k.
CkptRows(n, k) ==
  {row \in Id : row \div CeilDiv(OrgVocab, n) = k}

-----------------------------------------------------------------------------
(***************************************************************************)
(* load_weights                                                            *)
(***************************************************************************)

ShardSize == CeilDiv(OrgVocab, Parts)

\* Mutant: every shard but the last has the size of a shard.
ExpectedRowsButLast(k) == IF k = Parts - 1 THEN OrgVocab - k * ShardSize ELSE ShardSize

ExpectedRows(k) ==
  LET left == OrgVocab - k * ShardSize
      rows == IF ShardSize < left THEN ShardSize ELSE left
  IN IF rows < 0 THEN 0 ELSE rows

\* Mutant: the start of a short shard is counted in its own rows.
StartByRows(k) == k * ExpectedRows(k)

\* checkpoint_start
CheckpointStart(k) == k * ShardSize

\* copy_ple_embedding_shard_: the rows of a shard that starts at row `start`
\* and lie in the partition go to their places in it.
CopyShard(r, shard, start) ==
  [i \in 0 .. PerPartition - 1 |->
     LET row == StartIndex(r) + i
     IN IF row \in start .. start + Cardinality(shard) - 1
          THEN CHOOSE x \in shard : Cardinality({y \in shard : y < x}) = row - start
          ELSE weight[r][i]]

Loaded == \A r \in Rank : todo[r] = {} /\ r \notin failed

LoadShard(r, k) ==
  /\ r \notin failed /\ k \in todo[r] \ {Scale}
  /\ LET shard == CkptRows(ckpt_parts, k)
     IN IF k >= Parts \/ Cardinality(shard) # ExpectedRows(k)
          THEN failed' = failed \union {r} /\ UNCHANGED <<todo, weight>>
          ELSE /\ weight' = [weight EXCEPT ![r] = CopyShard(r, shard, CheckpointStart(k))]
               /\ todo' = [todo EXCEPT ![r] = @ \ {k}]
               /\ UNCHANGED failed
  /\ UNCHANGED <<config, ckpt_parts, scale, asked, partial, answers>>

\* The scale of the whole table, the same on every rank.
LoadScale(r) ==
  /\ r \notin failed /\ Scale \in todo[r]
  /\ scale' = scale \union {r}
  /\ todo' = [todo EXCEPT ![r] = @ \ {Scale}]
  /\ UNCHANGED <<config, ckpt_parts, failed, weight, asked, partial, answers>>

-----------------------------------------------------------------------------
(***************************************************************************)
(* forward                                                                 *)
(***************************************************************************)
\* The engine starts when every rank has loaded its weights.
Ask(id) ==
  /\ Loaded /\ Len(asked) < MaxAsked
  /\ asked' = Append(asked, id)
  /\ UNCHANGED <<config, ckpt_parts, todo, failed, weight, scale, partial, answers>>

NextId(r) == asked[Len(answers[r]) + 1]

\* get_masked_input_and_mask: the row to gather, and whether to erase it.
InPartition(r, id) == StartIndex(r) <= id /\ id < EndIndex(r)
MaskedInput(r, id) == IF InPartition(r, id) THEN id - StartIndex(r) ELSE 0

\* _dequant: a row times the scale, which is zero until it is loaded.
Dequantized(r, i) == IF r \in scale THEN {<<r, weight[r][i]>>} ELSE {}

\* Mutant: the rows of the other ranks are not erased.
OutputUnmasked(r, id) == Dequantized(r, MaskedInput(r, id))

\* output_parallel, after masked_fill_.
OutputParallel(r, id) ==
  IF InPartition(r, id) THEN Dequantized(r, MaskedInput(r, id)) ELSE {}

\* Mutant: params_dtype is still that of the table when the output is made.
ParamsDtypeOfTable == "float8"

\* The output buffer of the lookup has the dtype in params_dtype, which the
\* constructor sets back when the table is made.
ParamsDtype == "bfloat16"

\* output.copy_(result): a sum of one term is a row; any other sum is not,
\* nor is one that is cast back to the dtype of the table without its scale.
Output(sum) ==
  IF Cardinality(sum) = 1 /\ ParamsDtype = "bfloat16"
    THEN (CHOOSE term \in sum : TRUE)[2] ELSE Empty

\* With a single rank the rows are gathered without a mask.
ForwardAlone(r) ==
  /\ r \in Rank /\ TpSize = 1 /\ Len(answers[r]) < Len(asked)
  /\ answers' = [answers EXCEPT ![r] = Append(@, Output(Dequantized(r, NextId(r))))]
  /\ UNCHANGED <<config, ckpt_parts, todo, failed, weight, scale, asked, partial>>

Gather(r) ==
  /\ r \in Rank /\ TpSize > 1 /\ partial[r] = <<>> /\ Len(answers[r]) < Len(asked)
  /\ partial' = [partial EXCEPT ![r] = <<OutputParallel(r, NextId(r))>>]
  /\ UNCHANGED <<config, ckpt_parts, todo, failed, weight, scale, asked, answers>>

\* tensor_model_parallel_all_reduce returns when every rank has called it.
AllReduce ==
  /\ \A r \in Rank : partial[r] # <<>>
  /\ LET sum == UNION {partial[r][1] : r \in Rank}
     IN answers' = [r \in Rank |-> Append(answers[r], Output(sum))]
  /\ partial' = [r \in Rank |-> <<>>]
  /\ UNCHANGED <<config, ckpt_parts, todo, failed, weight, scale, asked>>

-----------------------------------------------------------------------------
Init ==
  /\ config \in Configs
  /\ ckpt_parts \in config.ckpt_parts
  /\ todo = [r \in Rank |-> {Scale} \union 0 .. ckpt_parts - 1]
  /\ failed = {}
  /\ weight = [r \in Rank |-> [i \in 0 .. PerPartition - 1 |-> Empty]]
  /\ scale = {}
  /\ asked = <<>>
  /\ partial = [r \in Rank |-> <<>>]
  /\ answers = [r \in Rank |-> <<>>]

Next ==
  \/ AllReduce
  \/ \E r \in Rank : LoadScale(r) \/ ForwardAlone(r) \/ Gather(r) \/ \E k \in todo[r] : LoadShard(r, k)
  \/ \E id \in Id : Ask(id)

\* A rank runs the forwards it is sent; nothing obliges anyone to send one.
Fairness ==
  /\ \A r \in AllRanks : WF_vars(ForwardAlone(r)) /\ WF_vars(Gather(r))
  /\ WF_vars(AllReduce)

Spec == Init /\ [][Next]_vars /\ Fairness

-----------------------------------------------------------------------------
\* A checkpoint is refused, or leaves in every place of every partition the
\* row of that place, however many parts it has, wherever its shards cross
\* the boundary of two ranks, and though its last shards are short or empty.
RowsAreInTheirPlaces ==
  Loaded => \A r \in Rank, i \in 0 .. PerPartition - 1 : weight[r][i] = StartIndex(r) + i

\* A checkpoint split as the configuration says is not refused.
OwnSplitIsAccepted == ckpt_parts = Parts => failed = {}

\* Masked, gathered and added up over the ranks, the table is one table: each
\* rank gets the row of each id, dequantized once, and no rank waits forever.
Table == INSTANCE EmbeddingLookup
           WITH Id <- AllIds, TpSizes <- {c.tp_size : c \in Configs}
ImplementsLookup == Table!Spec
=============================================================================
