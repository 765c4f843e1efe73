------------------------ MODULE HostEmbeddingProofs -------------------------
(***************************************************************************)
(* Proofs about HostEmbedding, for every table, every number of ranks and  *)
(* every split of the checkpoint: what a rank has loaded is in its place,  *)
(* the configured split is accepted, and the masked sums over the ranks    *)
(* are the rows that were asked for.                                       *)
(***************************************************************************)
EXTENDS HostEmbedding, FiniteSetTheorems, SequenceTheorems, TLAPS

-----------------------------------------------------------------------------
(***************************************************************************)
(* Products and quotients.                                                 *)
(***************************************************************************)
LEMMA Quotient ==
  ASSUME NEW v \in Nat, NEW c \in Nat \ {0}, NEW k \in Nat
  PROVE  /\ v \div c \in Nat
         /\ (v \div c = k) <=> (k * c <= v /\ v < (k + 1) * c)
OBVIOUS

LEMMA CeilDivIs ==
  ASSUME NEW n \in Nat \ {0}, NEW d \in Nat \ {0}
  PROVE  CeilDiv(n, d) \in Nat \ {0} /\ n <= CeilDiv(n, d) * d /\ CeilDiv(n, d) <= n
<1> DEFINE c == (n + d - 1) \div d
<1>1. c \in Nat /\ c * d <= n + d - 1 /\ n + d - 1 < (c + 1) * d
  BY Quotient
<1> HIDE DEF c
<1>2. (c + 1) * d = c * d + d /\ c * d \in Nat
  BY <1>1
<1>3. n <= c * d
  BY <1>1, <1>2
<1>4. c # 0
  BY <1>3
<1>5. c <= n
  <2> SUFFICES ASSUME c >= n + 1 PROVE FALSE
    BY <1>1
  <2>1. c * d >= (n + 1) * d
    BY <1>1
  <2>2. (n + 1) * d = n * d + d /\ n * d >= n
    OBVIOUS
  <2> QED BY <1>1, <1>2, <2>1, <2>2
<1> QED BY <1>1, <1>3, <1>4, <1>5 DEF c, CeilDiv

-----------------------------------------------------------------------------
(***************************************************************************)
(* The sizes of a table.                                                   *)
(***************************************************************************)
LEMMA Sizes ==
  ASSUME config \in Configs
  PROVE  /\ TpSize \in Nat \ {0} /\ OrgVocab \in Nat \ {0} /\ Parts \in Nat \ {0}
         /\ config.ckpt_parts \subseteq Nat \ {0}
         /\ PerPartition \in Nat \ {0} /\ PerPartition * TpSize = OrgVocab
<1>1. /\ TpSize \in Nat \ {0} /\ OrgVocab \in Nat \ {0} /\ Parts \in Nat \ {0}
      /\ OrgVocab % TpSize = 0 /\ config.ckpt_parts \subseteq Nat \ {0}
  BY VocabAssumption DEF TpSize, OrgVocab, Parts
<1>2. PerPartition \in Nat /\ PerPartition * TpSize = OrgVocab
  BY <1>1 DEF PerPartition
<1>3. PerPartition # 0
  BY <1>1, <1>2
<1> QED BY <1>1, <1>2, <1>3

\* The rank of a row, and its place in the partition of the rank.
LEMMA Places ==
  ASSUME config \in Configs
  PROVE  /\ \A r \in Rank, i \in 0 .. PerPartition - 1 : StartIndex(r) + i \in Id
         /\ \A id \in Id : \E r \in Rank :
              /\ InPartition(r, id) /\ id - StartIndex(r) \in 0 .. PerPartition - 1
              /\ \A s \in Rank : InPartition(s, id) => s = r
<1> USE Sizes DEF Rank, Id
<1>1. ASSUME NEW r \in Rank, NEW i \in 0 .. PerPartition - 1 PROVE StartIndex(r) + i \in Id
  <2>1. (r + 1) * PerPartition <= TpSize * PerPartition
    OBVIOUS
  <2>2. (r + 1) * PerPartition = r * PerPartition + PerPartition /\ r * PerPartition \in Nat
    OBVIOUS
  <2> QED BY <2>1, <2>2 DEF StartIndex
<1>2. ASSUME NEW id \in Id
      PROVE  \E r \in Rank : /\ InPartition(r, id) /\ id - StartIndex(r) \in 0 .. PerPartition - 1
                             /\ \A s \in Rank : InPartition(s, id) => s = r
  <2>1. PICK r \in Nat : r = id \div PerPartition
    BY Quotient
  <2>2. r * PerPartition <= id /\ id < (r + 1) * PerPartition
    BY <2>1, Quotient
  <2>3. (r + 1) * PerPartition = r * PerPartition + PerPartition /\ r * PerPartition \in Nat
    OBVIOUS
  <2>4. r \in Rank
    <3> SUFFICES ASSUME r >= TpSize PROVE FALSE
      OBVIOUS
    <3>1. r * PerPartition >= TpSize * PerPartition
      OBVIOUS
    <3> QED BY <2>2, <3>1
  <2>5. InPartition(r, id) /\ id - StartIndex(r) \in 0 .. PerPartition - 1
    BY <2>2, <2>3 DEF InPartition, StartIndex, EndIndex
  <2>6. ASSUME NEW s \in Rank, InPartition(s, id) PROVE s = r
    <3>1. s * PerPartition <= id /\ id < s * PerPartition + PerPartition
      BY <2>6 DEF InPartition, StartIndex, EndIndex
    <3>2. (s + 1) * PerPartition = s * PerPartition + PerPartition
      OBVIOUS
    <3> QED BY <2>1, <3>1, <3>2, Quotient
  <2> QED BY <2>4, <2>5, <2>6
<1> QED BY <1>1, <1>2

-----------------------------------------------------------------------------
(***************************************************************************)
(* The shards of a checkpoint.                                             *)
(***************************************************************************)
\* The rows of shard k where every shard but the last has c.
RowsOfShard(c, k) ==
  IF OrgVocab <= k * c THEN 0 ELSE IF c < OrgVocab - k * c THEN c ELSE OrgVocab - k * c

LEMMA IntervalSize ==
  ASSUME NEW a \in Int, NEW n \in Nat PROVE Cardinality(a .. a + n - 1) = n
<1>1. a + n - 1 \in Int /\ (a > a + n - 1 <=> n = 0) /\ a + n - 1 - a + 1 = n
  OBVIOUS
<1>2. Cardinality(a .. a + n - 1) = IF a > a + n - 1 THEN 0 ELSE a + n - 1 - a + 1
  BY <1>1, FS_Interval
<1> QED BY <1>1, <1>2

LEMMA ShardIsInterval ==
  ASSUME config \in Configs, NEW n \in Nat \ {0}, NEW k \in Nat
  PROVE  LET c == CeilDiv(OrgVocab, n)
         IN /\ CkptRows(n, k) = k * c .. k * c + RowsOfShard(c, k) - 1
            /\ Cardinality(CkptRows(n, k)) = RowsOfShard(c, k)
            /\ RowsOfShard(c, k) \in Nat
<1> DEFINE c == CeilDiv(OrgVocab, n)
<1>1. c \in Nat \ {0} /\ OrgVocab \in Nat \ {0}
  BY Sizes, CeilDivIs
<1> HIDE DEF c
<1>2. k * c \in Nat /\ (k + 1) * c = k * c + c
  BY <1>1
<1>3. RowsOfShard(c, k) \in Nat
  BY <1>1, <1>2 DEF RowsOfShard
<1>4. ASSUME NEW row \in Int
      PROVE  row \in CkptRows(n, k) <=> row \in k * c .. k * c + RowsOfShard(c, k) - 1
  <2>1. row \in CkptRows(n, k) <=> row \in 0 .. OrgVocab - 1 /\ row \div c = k
    BY DEF CkptRows, Id, c
  <2>2. row \in Nat => (row \div c = k <=> k * c <= row /\ row < k * c + c)
    BY <1>1, <1>2, Quotient
  <2> QED BY <1>1, <1>2, <1>3, <2>1, <2>2 DEF RowsOfShard
<1>5. CkptRows(n, k) \subseteq Int /\ k * c .. k * c + RowsOfShard(c, k) - 1 \subseteq Int
  BY DEF CkptRows, Id
<1>6. CkptRows(n, k) = k * c .. k * c + RowsOfShard(c, k) - 1
  BY <1>4, <1>5, Zenon
<1>7. Cardinality(CkptRows(n, k)) = RowsOfShard(c, k)
  BY <1>2, <1>3, <1>6, IntervalSize
<1> QED BY <1>3, <1>6, <1>7 DEF c

LEMMA ExpectedRowsIs ==
  ASSUME config \in Configs, NEW k \in Nat
  PROVE  ExpectedRows(k) = RowsOfShard(ShardSize, k)
<1>1. ShardSize \in Nat \ {0} /\ OrgVocab \in Nat \ {0} /\ k * ShardSize \in Nat
  BY Sizes, CeilDivIs DEF ShardSize
<1> QED BY <1>1 DEF ExpectedRows, RowsOfShard

\* The x-th row of an interval.
LEMMA NthOfInterval ==
  ASSUME NEW a \in Int, NEW n \in Nat, NEW j \in 0 .. n - 1
  PROVE  (CHOOSE x \in a .. a + n - 1 : Cardinality({y \in a .. a + n - 1 : y < x}) = j) = a + j
<1>1. ASSUME NEW x \in a .. a + n - 1
      PROVE  Cardinality({y \in a .. a + n - 1 : y < x}) = x - a
  <2>1. {y \in a .. a + n - 1 : y < x} = a .. a + (x - a) - 1
    OBVIOUS
  <2>2. x - a \in Nat
    OBVIOUS
  <2>3. Cardinality(a .. a + (x - a) - 1) = x - a
    BY <2>2, IntervalSize
  <2> QED BY <2>1, <2>3
<1>2. a + j \in a .. a + n - 1
  OBVIOUS
<1>3. \A x \in a .. a + n - 1 :
        Cardinality({y \in a .. a + n - 1 : y < x}) = j <=> x = a + j
  BY <1>1
<1> QED BY <1>2, <1>3

\* What the copy of a shard puts in a partition.
LEMMA CopyShardIs ==
  ASSUME config \in Configs, NEW n \in Nat \ {0}, NEW k \in Nat,
         NEW r \in Rank, NEW i \in 0 .. PerPartition - 1
  PROVE  LET c == CeilDiv(OrgVocab, n)
             row == StartIndex(r) + i
             start == CheckpointStart(k)
         IN CopyShard(r, CkptRows(n, k), start)[i] =
              IF row \in start .. start + RowsOfShard(c, k) - 1 THEN k * c + (row - start)
              ELSE weight[r][i]
<1> DEFINE c == CeilDiv(OrgVocab, n)
           row == StartIndex(r) + i
           start == CheckpointStart(k)
           size == RowsOfShard(c, k)
           shard == CkptRows(n, k)
<1>1. /\ shard = k * c .. k * c + size - 1 /\ Cardinality(shard) = size /\ size \in Nat
  BY ShardIsInterval
<1>2. k * c \in Int /\ row \in Int /\ start \in Int
  <2>1. c \in Int /\ ShardSize \in Int
    BY Sizes, CeilDivIs DEF ShardSize
  <2>2. row \in Id
    BY Places
  <2>3. start = k * ShardSize
    BY DEF CheckpointStart
  <2> HIDE DEF c, row, start
  <2> QED BY <2>1, <2>2, <2>3 DEF Id
<1>3. CopyShard(r, shard, start)[i] =
        IF row \in start .. start + Cardinality(shard) - 1
          THEN CHOOSE x \in shard : Cardinality({y \in shard : y < x}) = row - start
          ELSE weight[r][i]
  BY DEF CopyShard
<1> HIDE DEF c, row, start, size, shard
<1>4. CASE row \in start .. start + size - 1
  <2>1. row - start \in 0 .. size - 1
    BY <1>1, <1>2, <1>4
  <2>2. (CHOOSE x \in shard : Cardinality({y \in shard : y < x}) = row - start) = k * c + (row - start)
    <3>1. (CHOOSE x \in k * c .. k * c + size - 1 :
             Cardinality({y \in k * c .. k * c + size - 1 : y < x}) = row - start) = k * c + (row - start)
      BY <1>1, <1>2, <2>1, NthOfInterval
    <3> QED BY <1>1, <3>1, Zenon
  <2>3. CopyShard(r, shard, start)[i] = k * c + (row - start)
    BY <1>1, <1>3, <1>4, <2>2
  <2> QED BY <1>4, <2>3 DEF c, row, start, size, shard
<1>5. CASE row \notin start .. start + size - 1
  <2>1. CopyShard(r, shard, start)[i] = weight[r][i]
    BY <1>1, <1>3, <1>5
  <2> QED BY <1>5, <2>1 DEF c, row, start, size, shard
<1> QED BY <1>4, <1>5
-----------------------------------------------------------------------------
(***************************************************************************)
(* The inductive invariant.                                                *)
(***************************************************************************)
Shards == 0 .. ckpt_parts - 1

TypeOK ==
  /\ config \in Configs
  /\ ckpt_parts \in config.ckpt_parts
  /\ todo \in [Rank -> SUBSET ({Scale} \union Shards)]
  /\ failed \in SUBSET Rank
  /\ weight \in [Rank -> [0 .. PerPartition - 1 -> Int]]
  /\ scale \in SUBSET Rank
  /\ asked \in Seq(Id)
  /\ partial \in [Rank -> Seq(SUBSET (Rank \X Id))]
  /\ answers \in [Rank -> Seq(Id)]

\* The checkpoint has shards as long as those of the configuration.
SameShards == CeilDiv(OrgVocab, ckpt_parts) = ShardSize

\* The first shard is as long as all but the last: a rank that took it has a
\* checkpoint that was split as it should.
FirstShardTells ==
  \A r \in Rank : 0 \notin todo[r] => SameShards

\* Then the rows of a shard that was taken are in their places.
TakenIsPlaced ==
  SameShards =>
    \A r \in Rank, i \in 0 .. PerPartition - 1 :
      (StartIndex(r) + i) \div ShardSize \notin todo[r] => weight[r][i] = StartIndex(r) + i

ScaleIsTaken ==
  \A r \in Rank : Scale \notin todo[r] => r \in scale

LoadInv == /\ FirstShardTells /\ TakenIsPlaced /\ ScaleIsTaken /\ OwnSplitIsAccepted

\* Nothing is asked before everything is loaded.
AskedWhenLoaded == asked # <<>> => Loaded

\* The ranks have answered the same forwards.
InStep ==
  /\ \A r, s \in Rank : Len(answers[r]) = Len(answers[s])
  /\ \A r \in Rank : Len(answers[r]) <= Len(asked)

\* What a rank takes into the sum: the row, if it is one of its own.
PartialIsRow ==
  \A r \in Rank : partial[r] # <<>> =>
    /\ TpSize > 1
    /\ Len(answers[r]) < Len(asked)
    /\ partial[r] = <<IF InPartition(r, NextId(r)) THEN {<<r, NextId(r)>>} ELSE {}>>

AskInv == AskedWhenLoaded /\ InStep /\ PartialIsRow

IInv == TypeOK /\ LoadInv /\ AskInv

LEMMA SameTable ==
  ASSUME config' = config, ckpt_parts' = ckpt_parts
  PROVE  /\ Rank' = Rank /\ Id' = Id /\ PerPartition' = PerPartition /\ TpSize' = TpSize
         /\ ShardSize' = ShardSize /\ Shards' = Shards /\ OrgVocab' = OrgVocab /\ Parts' = Parts
         /\ (SameShards' <=> SameShards)
         /\ \A r : StartIndex(r)' = StartIndex(r) /\ \A id : InPartition(r, id)' <=> InPartition(r, id)
BY DEF Rank, Id, PerPartition, TpSize, ShardSize, Shards, OrgVocab, Parts, SameShards, CeilDiv,
       StartIndex, EndIndex, InPartition

LEMMA LoadUnchanged ==
  ASSUME IInv, UNCHANGED <<config, ckpt_parts, todo, failed, weight, scale>>
  PROVE  LoadInv' /\ (Loaded' <=> Loaded)
BY SameTable DEF IInv, LoadInv, FirstShardTells, TakenIsPlaced, ScaleIsTaken, OwnSplitIsAccepted, Loaded

LEMMA AskUnchanged ==
  ASSUME IInv, UNCHANGED <<config, ckpt_parts, asked, partial, answers>>
  PROVE  InStep' /\ PartialIsRow'
BY SameTable DEF IInv, AskInv, InStep, PartialIsRow, NextId

\* A rank that still loads has not been asked anything.
LEMMA NothingAskedYet ==
  ASSUME IInv, NEW r \in Rank, todo[r] # {} PROVE asked = <<>>
BY DEF IInv, AskInv, AskedWhenLoaded, Loaded

-----------------------------------------------------------------------------
(***************************************************************************)
(* Loading.                                                                *)
(***************************************************************************)
LEMMA ShardSizes ==
  ASSUME IInv
  PROVE  /\ config \in Configs /\ ckpt_parts \in Nat \ {0}
         /\ CeilDiv(OrgVocab, ckpt_parts) \in 1 .. OrgVocab
         /\ ShardSize \in 1 .. OrgVocab /\ OrgVocab \in Nat
<1>1. config \in Configs /\ ckpt_parts \in Nat \ {0}
  BY Sizes DEF IInv, TypeOK
<1>2. OrgVocab \in Nat \ {0} /\ Parts \in Nat \ {0}
  BY <1>1, Sizes
<1>3. /\ CeilDiv(OrgVocab, ckpt_parts) \in Nat \ {0} /\ CeilDiv(OrgVocab, ckpt_parts) <= OrgVocab
      /\ ShardSize \in Nat \ {0} /\ ShardSize <= OrgVocab
  BY <1>1, <1>2, CeilDivIs DEF ShardSize
<1> QED BY <1>1, <1>2, <1>3

\* A shard of the configured split has the rows it should.
LEMMA OwnShardIsAccepted ==
  ASSUME IInv, NEW k \in Shards, ckpt_parts = Parts
  PROVE  k < Parts /\ Cardinality(CkptRows(ckpt_parts, k)) = ExpectedRows(k)
<1>1. k \in Nat /\ k < Parts
  BY ShardSizes DEF Shards
<1>2. ShardSize = CeilDiv(OrgVocab, ckpt_parts)
  BY DEF ShardSize
<1> QED BY <1>1, <1>2, ShardSizes, ShardIsInterval, ExpectedRowsIs

\* If the first shard has the rows it should, all but the last have as many.
LEMMA FirstShardDecides ==
  ASSUME IInv, Cardinality(CkptRows(ckpt_parts, 0)) = ExpectedRows(0)
  PROVE  SameShards
<1> DEFINE c == CeilDiv(OrgVocab, ckpt_parts)
<1>1. c \in 1 .. OrgVocab /\ ShardSize \in 1 .. OrgVocab /\ OrgVocab \in Nat
  BY ShardSizes
<1>2. Cardinality(CkptRows(ckpt_parts, 0)) = RowsOfShard(c, 0)
  BY ShardSizes, ShardIsInterval
<1>3. ExpectedRows(0) = RowsOfShard(ShardSize, 0)
  BY ShardSizes, ExpectedRowsIs
<1> HIDE DEF c
<1>4. \A d \in 1 .. OrgVocab : RowsOfShard(d, 0) = d
  <2>1. \A d \in Int : 0 * d = 0
    OBVIOUS
  <2> QED BY <1>1, <2>1 DEF RowsOfShard
<1>5. c = ShardSize
  BY <1>1, <1>2, <1>3, <1>4
<1> QED BY <1>5 DEF SameShards, c

\* The copy of a shard puts its rows, and no others, in their places.
LEMMA CopyIsPlaced ==
  ASSUME IInv, SameShards, NEW k \in Shards, NEW r \in Rank, NEW i \in 0 .. PerPartition - 1
  PROVE  CopyShard(r, CkptRows(ckpt_parts, k), CheckpointStart(k))[i] =
           IF (StartIndex(r) + i) \div ShardSize = k THEN StartIndex(r) + i ELSE weight[r][i]
<1> DEFINE row == StartIndex(r) + i
           copied == CopyShard(r, CkptRows(ckpt_parts, k), CheckpointStart(k))[i]
<1>1. /\ k \in Nat /\ ckpt_parts \in Nat \ {0} /\ config \in Configs
      /\ ShardSize \in Nat \ {0} /\ OrgVocab \in Nat
      /\ CeilDiv(OrgVocab, ckpt_parts) = ShardSize
  BY ShardSizes DEF Shards, SameShards
<1>2. row \in 0 .. OrgVocab - 1
  BY <1>1, Places DEF Id
<1>3. copied = IF row \in CheckpointStart(k) .. CheckpointStart(k) + RowsOfShard(ShardSize, k) - 1
                 THEN k * ShardSize + (row - CheckpointStart(k)) ELSE weight[r][i]
  BY <1>1, CopyShardIs
<1>4. CheckpointStart(k) = k * ShardSize
  BY DEF CheckpointStart
<1> HIDE DEF row, copied
<1>5. row \div ShardSize = k <=> row \in k * ShardSize .. k * ShardSize + RowsOfShard(ShardSize, k) - 1
  <2>1. (k + 1) * ShardSize = k * ShardSize + ShardSize /\ k * ShardSize \in Nat
    BY <1>1
  <2>2. row \div ShardSize = k <=> k * ShardSize <= row /\ row < k * ShardSize + ShardSize
    <3>1. row \in Nat
      BY <1>2
    <3>2. row \div ShardSize = k <=> k * ShardSize <= row /\ row < (k + 1) * ShardSize
      BY <1>1, <3>1, Quotient
    <3> QED BY <2>1, <3>2
  <2> QED BY <1>1, <1>2, <2>1, <2>2 DEF RowsOfShard
<1>6. k * ShardSize + (row - k * ShardSize) = row
  BY <1>1, <1>2
<1>7. copied = IF row \div ShardSize = k THEN row ELSE weight[r][i]
  BY <1>3, <1>4, <1>5, <1>6, Zenon
<1> QED BY <1>7 DEF row, copied

LEMMA CopyType ==
  ASSUME IInv, NEW k \in Shards, NEW r \in Rank
  PROVE  CopyShard(r, CkptRows(ckpt_parts, k), CheckpointStart(k)) \in [0 .. PerPartition - 1 -> Int]
<1> DEFINE copied == CopyShard(r, CkptRows(ckpt_parts, k), CheckpointStart(k))
<1>1. copied = [i \in 0 .. PerPartition - 1 |-> copied[i]]
  BY DEF CopyShard
<1>2. ASSUME NEW i \in 0 .. PerPartition - 1 PROVE copied[i] \in Int
  <2> DEFINE c == CeilDiv(OrgVocab, ckpt_parts)
             row == StartIndex(r) + i
             start == CheckpointStart(k)
  <2>1. /\ k \in Nat /\ ckpt_parts \in Nat \ {0} /\ config \in Configs
        /\ c \in Nat /\ ShardSize \in Nat
    BY ShardSizes DEF Shards
  <2>2. row \in Int
    BY <2>1, Places DEF Id
  <2>3. start \in Int
    BY <2>1 DEF CheckpointStart
  <2>4. weight[r][i] \in Int
    BY DEF IInv, TypeOK
  <2>5. copied[i] = IF row \in start .. start + RowsOfShard(c, k) - 1 THEN k * c + (row - start) ELSE weight[r][i]
    BY <2>1, CopyShardIs
  <2> HIDE DEF c, row, start, copied
  <2>6. k * c + (row - start) \in Int
    BY <2>1, <2>2, <2>3
  <2> QED BY <2>4, <2>5, <2>6
<1> HIDE DEF copied
<1>3. copied \in [0 .. PerPartition - 1 -> Int]
  BY <1>1, <1>2
<1> QED BY <1>3 DEF copied

LEMMA LoadShardStep ==
  ASSUME IInv, NEW r \in Rank, NEW k \in todo[r], LoadShard(r, k)
  PROVE  IInv'
<1>1. k \in Shards /\ UNCHANGED <<config, ckpt_parts, scale, asked, partial, answers>>
  BY DEF LoadShard, IInv, TypeOK
<1>2. AskInv'
  <2>1. asked' = <<>>
    BY <1>1, NothingAskedYet
  <2> QED BY <1>1, <2>1, AskUnchanged DEF AskInv, AskedWhenLoaded
<1>3. CASE k >= Parts \/ Cardinality(CkptRows(ckpt_parts, k)) # ExpectedRows(k)
  <2>1. failed' = failed \union {r} /\ UNCHANGED <<todo, weight>>
    BY <1>3 DEF LoadShard
  <2>2. ckpt_parts # Parts
    <3> SUFFICES ASSUME ckpt_parts = Parts PROVE FALSE
      OBVIOUS
    <3>1. k < Parts /\ Cardinality(CkptRows(ckpt_parts, k)) = ExpectedRows(k)
      BY <1>1, OwnShardIsAccepted
    <3>2. k \in Int /\ Parts \in Int
      BY <1>1, Sizes, ShardSizes DEF Shards
    <3> QED BY <1>3, <3>1, <3>2
  <2>3. TypeOK'
    BY <1>1, <2>1, SameTable DEF IInv, TypeOK
  <2>4. LoadInv'
    BY <1>1, <2>1, <2>2, SameTable
       DEF IInv, LoadInv, FirstShardTells, TakenIsPlaced, ScaleIsTaken, OwnSplitIsAccepted
  <2> QED BY <1>2, <2>3, <2>4 DEF IInv
<1>4. CASE ~(k >= Parts \/ Cardinality(CkptRows(ckpt_parts, k)) # ExpectedRows(k))
  <2> DEFINE copied == CopyShard(r, CkptRows(ckpt_parts, k), CheckpointStart(k))
  <2>1. /\ weight' = [weight EXCEPT ![r] = copied]
        /\ todo' = [todo EXCEPT ![r] = @ \ {k}] /\ failed' = failed
    BY <1>4 DEF LoadShard
  <2>2. copied \in [0 .. PerPartition - 1 -> Int]
    BY <1>1, CopyType
  <2>3. k = 0 => SameShards
    BY <1>4, FirstShardDecides
  <2>4. SameShards => \A i \in 0 .. PerPartition - 1 :
          copied[i] = IF (StartIndex(r) + i) \div ShardSize = k THEN StartIndex(r) + i ELSE weight[r][i]
    BY <1>1, CopyIsPlaced
  <2> HIDE DEF copied
  <2>5. TypeOK'
    BY <1>1, <2>1, <2>2, SameTable DEF IInv, TypeOK
  <2>6. \A s \in Rank : todo'[s] = (IF s = r THEN todo[r] \ {k} ELSE todo[s])
                       /\ weight'[s] = (IF s = r THEN copied ELSE weight[s])
    BY <2>1 DEF IInv, TypeOK
  <2>7. FirstShardTells'
    BY <1>1, <2>3, <2>6, SameTable DEF IInv, LoadInv, FirstShardTells
  <2>8. TakenIsPlaced'
    <3> SUFFICES ASSUME SameShards, NEW s \in Rank, NEW i \in 0 .. PerPartition - 1,
                        (StartIndex(s) + i) \div ShardSize \notin todo'[s]
                 PROVE  weight'[s][i] = StartIndex(s) + i
      BY <1>1, SameTable DEF TakenIsPlaced
    <3> QED BY <2>4, <2>6 DEF IInv, LoadInv, TakenIsPlaced
  <2>9. ScaleIsTaken'
    <3>1. k # Scale
      BY DEF LoadShard
    <3> QED BY <1>1, <2>6, <3>1, SameTable DEF IInv, LoadInv, ScaleIsTaken
  <2>10. OwnSplitIsAccepted'
    BY <1>1, <2>1, SameTable DEF IInv, LoadInv, OwnSplitIsAccepted
  <2> QED BY <1>2, <2>5, <2>7, <2>8, <2>9, <2>10 DEF IInv, LoadInv
<1> QED BY <1>3, <1>4

LEMMA LoadScaleStep ==
  ASSUME IInv, NEW r \in Rank, LoadScale(r)
  PROVE  IInv'
<1>1. /\ UNCHANGED <<config, ckpt_parts, failed, weight, asked, partial, answers>>
      /\ scale' = scale \union {r} /\ todo' = [todo EXCEPT ![r] = @ \ {Scale}]
  BY DEF LoadScale
<1>2. AskInv'
  <2>1. asked' = <<>>
    BY <1>1, NothingAskedYet DEF LoadScale
  <2> QED BY <1>1, <2>1, AskUnchanged DEF AskInv, AskedWhenLoaded
<1>3. TypeOK'
  BY <1>1, SameTable DEF IInv, TypeOK
<1>4. \A s \in Rank : todo'[s] = IF s = r THEN todo[r] \ {Scale} ELSE todo[s]
  BY <1>1 DEF IInv, TypeOK
<1>5. \A s \in Rank, k \in Nat : k \in todo'[s] <=> k \in todo[s]
  BY <1>4 DEF Scale
<1>6. FirstShardTells'
  BY <1>1, <1>5, SameTable DEF IInv, LoadInv, FirstShardTells
<1>7. TakenIsPlaced'
  <2> SUFFICES ASSUME SameShards, NEW s \in Rank, NEW i \in 0 .. PerPartition - 1,
                      (StartIndex(s) + i) \div ShardSize \notin todo'[s]
               PROVE  weight[s][i] = StartIndex(s) + i
    BY <1>1, SameTable DEF TakenIsPlaced
  <2>1. (StartIndex(s) + i) \div ShardSize \in Nat
    <3>1. StartIndex(s) + i \in Nat /\ ShardSize \in Nat \ {0}
      BY ShardSizes, Places DEF Id
    <3> QED BY <3>1, Quotient
  <2> QED BY <1>5, <2>1 DEF IInv, LoadInv, TakenIsPlaced
<1>8. ScaleIsTaken' /\ OwnSplitIsAccepted'
  BY <1>1, <1>4, SameTable DEF IInv, LoadInv, ScaleIsTaken, OwnSplitIsAccepted
<1> QED BY <1>2, <1>3, <1>6, <1>7, <1>8 DEF IInv, LoadInv
-----------------------------------------------------------------------------
(***************************************************************************)
(* The forwards.                                                           *)
(***************************************************************************)
LEMMA LoadedIsPlaced == IInv => RowsAreInTheirPlaces
<1> SUFFICES ASSUME IInv, Loaded, NEW r \in Rank, NEW i \in 0 .. PerPartition - 1
             PROVE  weight[r][i] = StartIndex(r) + i
  BY DEF RowsAreInTheirPlaces
<1>1. todo[r] = {}
  BY DEF Loaded
<1>2. SameShards
  BY <1>1 DEF IInv, LoadInv, FirstShardTells
<1> QED BY <1>1, <1>2 DEF IInv, LoadInv, TakenIsPlaced

\* A rank that has a row gathers that row, scaled.
LEMMA RowIsGathered ==
  ASSUME IInv, Loaded, NEW r \in Rank, NEW id \in Id, InPartition(r, id)
  PROVE  Dequantized(r, id - StartIndex(r)) = {<<r, id>>}
<1>1. config \in Configs
  BY ShardSizes
<1>2. id - StartIndex(r) \in 0 .. PerPartition - 1 /\ StartIndex(r) + (id - StartIndex(r)) = id
  <2>1. PICK s \in Rank : /\ id - StartIndex(s) \in 0 .. PerPartition - 1
                          /\ \A t \in Rank : InPartition(t, id) => t = s
    BY <1>1, Places
  <2>2. StartIndex(r) \in Int
    <3>1. r \in Int /\ PerPartition \in Int
      BY <1>1, Sizes DEF Rank
    <3> QED BY <3>1 DEF StartIndex
  <2>3. id \in Int
    BY DEF Id
  <2> QED BY <2>1, <2>2, <2>3
<1>3. r \in scale
  BY DEF IInv, LoadInv, ScaleIsTaken, Loaded
<1>4. weight[r][id - StartIndex(r)] = StartIndex(r) + (id - StartIndex(r))
  BY <1>2, LoadedIsPlaced DEF RowsAreInTheirPlaces
<1> QED BY <1>2, <1>3, <1>4 DEF Dequantized

LEMMA OutputOfOne ==
  ASSUME NEW r, NEW id PROVE Output({<<r, id>>}) = id
<1>1. Cardinality({<<r, id>>}) = 1
  BY FS_Singleton
<1>2. (CHOOSE term \in {<<r, id>>} : TRUE) = <<r, id>>
  OBVIOUS
<1> QED BY <1>1, <1>2 DEF Output, ParamsDtype

\* A rank that is behind has an id to answer, and all is loaded.
LEMMA NextIdIsAsked ==
  ASSUME IInv, NEW r \in Rank, Len(answers[r]) < Len(asked)
  PROVE  /\ Loaded /\ NextId(r) \in Id
         /\ answers[r] \in Seq(Id) /\ Len(answers[r]) + 1 \in 1 .. Len(asked)
<1>1. answers[r] \in Seq(Id) /\ asked \in Seq(Id)
  BY DEF IInv, TypeOK
<1>2. Len(answers[r]) + 1 \in 1 .. Len(asked)
  BY <1>1, LenProperties
<1>3. NextId(r) \in Id
  BY <1>1, <1>2, ElementOfSeq DEF NextId
<1>4. asked # <<>>
  BY <1>1, <1>2, EmptySeq
<1> QED BY <1>1, <1>2, <1>3, <1>4 DEF IInv, AskInv, AskedWhenLoaded

LEMMA AskStep ==
  ASSUME IInv, NEW id \in Id, Ask(id)
  PROVE  IInv' /\ Table!Ask
<1>1. /\ Loaded /\ asked' = Append(asked, id)
      /\ UNCHANGED <<config, ckpt_parts, todo, failed, weight, scale, partial, answers>>
  BY DEF Ask
<1>2. asked \in Seq(Id) /\ Len(asked) \in Nat
  BY LenProperties DEF IInv, TypeOK
<1>3. /\ asked' \in Seq(Id) /\ Len(asked') = Len(asked) + 1
      /\ \A i \in 1 .. Len(asked) : asked'[i] = asked[i]
  BY <1>1, <1>2, AppendProperties
<1>4. TypeOK'
  BY <1>1, <1>3, SameTable DEF IInv, TypeOK
<1>5. LoadInv' /\ AskedWhenLoaded'
  BY <1>1, LoadUnchanged, SameTable DEF AskedWhenLoaded, Loaded
<1>6. InStep'
  <2>1. ASSUME NEW r \in Rank PROVE Len(answers[r]) <= Len(asked')
    <3>1. Len(answers[r]) <= Len(asked) /\ Len(answers[r]) \in Nat
      BY LenProperties DEF IInv, TypeOK, AskInv, InStep
    <3> QED BY <1>2, <1>3, <3>1
  <2> QED BY <1>1, <2>1, SameTable DEF IInv, AskInv, InStep
<1>7. PartialIsRow'
  <2>1. ASSUME NEW r \in Rank, partial[r] # <<>>
        PROVE  NextId(r)' = NextId(r) /\ Len(answers[r]) < Len(asked')
    <3>1. Len(answers[r]) < Len(asked)
      BY <2>1 DEF IInv, AskInv, PartialIsRow
    <3>2. Len(answers[r]) + 1 \in 1 .. Len(asked)
      BY <3>1, NextIdIsAsked
    <3>3. NextId(r)' = NextId(r)
      BY <1>1, <1>3, <3>2 DEF NextId
    <3>4. Len(answers[r]) \in Nat
      BY LenProperties DEF IInv, TypeOK
    <3> QED BY <1>2, <1>3, <3>1, <3>3, <3>4
  <2> QED BY <1>1, <2>1, SameTable DEF IInv, AskInv, PartialIsRow
<1>8. Table!Ask
  <2>1. id \in AllIds
    BY DEF IInv, TypeOK, AllIds, Id, OrgVocab
  <2> QED BY <1>1, <2>1 DEF Table!Ask
<1> QED BY <1>4, <1>5, <1>6, <1>7, <1>8 DEF IInv, AskInv

\* All ranks get the next row.
LEMMA AnswerStep ==
  ASSUME IInv, UNCHANGED <<config, ckpt_parts, todo, failed, weight, scale, asked>>,
         \A r \in Rank : Len(answers[r]) < Len(asked),
         answers' = [r \in Rank |-> Append(answers[r], NextId(r))],
         partial' = [r \in Rank |-> <<>>]
  PROVE  IInv' /\ Table!Answer
<1>1. asked \in Seq(Id) /\ Len(asked) \in Nat
  BY LenProperties DEF IInv, TypeOK
<1>2. ASSUME NEW r \in Rank
      PROVE  /\ answers'[r] \in Seq(Id) /\ Len(answers'[r]) = Len(answers[r]) + 1
             /\ Len(answers[r]) \in Nat
  <2>1. answers[r] \in Seq(Id) /\ NextId(r) \in Id
    BY NextIdIsAsked
  <2>2. /\ Append(answers[r], NextId(r)) \in Seq(Id)
        /\ Len(Append(answers[r], NextId(r))) = Len(answers[r]) + 1
    BY <2>1, AppendProperties
  <2>3. answers'[r] = Append(answers[r], NextId(r))
    OBVIOUS
  <2>4. Len(answers[r]) \in Nat
    BY <2>1, LenProperties
  <2> QED BY <2>2, <2>3, <2>4, Zenon
<1>3. TypeOK'
  <2>1. answers' \in [Rank -> Seq(Id)] /\ partial' \in [Rank -> Seq(SUBSET (Rank \X Id))]
    BY <1>2
  <2> QED BY <2>1, SameTable DEF IInv, TypeOK
<1>4. LoadInv' /\ AskedWhenLoaded'
  BY LoadUnchanged DEF IInv, AskInv, AskedWhenLoaded
<1>5. InStep'
  <2>1. \A r, s \in Rank : Len(answers'[r]) = Len(answers'[s])
    BY <1>2 DEF IInv, AskInv, InStep
  <2>2. \A r \in Rank : Len(answers'[r]) <= Len(asked)
    BY <1>1, <1>2
  <2> QED BY <2>1, <2>2, SameTable DEF InStep
<1>6. PartialIsRow'
  BY SameTable DEF PartialIsRow
<1>7. Table!Answer
  <2>1. DOMAIN answers = Rank
    BY DEF IInv, TypeOK
  <2> QED BY <2>1 DEF Table!Answer, NextId
<1> QED BY <1>3, <1>4, <1>5, <1>6, <1>7 DEF IInv, AskInv

LEMMA ForwardAloneStep ==
  ASSUME IInv, NEW r \in Rank, ForwardAlone(r)
  PROVE  IInv' /\ Table!Answer
<1>1. /\ TpSize = 1 /\ Len(answers[r]) < Len(asked)
      /\ answers' = [answers EXCEPT ![r] = Append(@, Output(Dequantized(r, NextId(r))))]
      /\ UNCHANGED <<config, ckpt_parts, todo, failed, weight, scale, asked, partial>>
  BY DEF ForwardAlone
<1>2. Rank = {0} /\ r = 0
  BY <1>1 DEF Rank
<1>3. NextId(r) \in Id /\ Loaded
  BY <1>1, NextIdIsAsked
<1>4. StartIndex(r) = 0 /\ InPartition(r, NextId(r))
  <2>1. config \in Configs
    BY ShardSizes
  <2>2. PICK s \in Rank : InPartition(s, NextId(r))
    BY <1>3, <2>1, Places
  <2>3. StartIndex(r) = 0
    BY <1>2, <2>1, Sizes DEF StartIndex
  <2> QED BY <1>2, <2>2, <2>3
<1>5. Output(Dequantized(r, NextId(r))) = NextId(r)
  <2>1. NextId(r) - StartIndex(r) = NextId(r)
    BY <1>3, <1>4 DEF Id
  <2>2. Dequantized(r, NextId(r) - StartIndex(r)) = {<<r, NextId(r)>>}
    BY <1>3, <1>4, RowIsGathered
  <2> QED BY <2>1, <2>2, OutputOfOne
<1>6. answers' = [s \in Rank |-> Append(answers[s], NextId(s))]
  <2>1. answers' = [answers EXCEPT ![r] = Append(answers[r], NextId(r))]
    BY <1>1, <1>5
  <2> QED BY <1>2, <2>1 DEF IInv, TypeOK
<1>7. partial' = [s \in Rank |-> <<>>]
  <2>1. \A s \in Rank : partial[s] = <<>>
    BY <1>1 DEF IInv, AskInv, PartialIsRow
  <2>2. partial = [s \in Rank |-> partial[s]]
    BY DEF IInv, TypeOK
  <2> QED BY <1>1, <2>1, <2>2
<1>8. \A s \in Rank : Len(answers[s]) < Len(asked)
  BY <1>1, <1>2
<1> QED BY <1>1, <1>6, <1>7, <1>8, AnswerStep

LEMMA GatherStep ==
  ASSUME IInv, NEW r \in Rank, Gather(r)
  PROVE  IInv'
<1>1. /\ TpSize > 1 /\ Len(answers[r]) < Len(asked)
      /\ partial' = [partial EXCEPT ![r] = <<OutputParallel(r, NextId(r))>>]
      /\ UNCHANGED <<config, ckpt_parts, todo, failed, weight, scale, asked, answers>>
  BY DEF Gather
<1>2. NextId(r) \in Id /\ Loaded
  BY <1>1, NextIdIsAsked
<1>3. OutputParallel(r, NextId(r)) = IF InPartition(r, NextId(r)) THEN {<<r, NextId(r)>>} ELSE {}
  BY <1>2, RowIsGathered DEF OutputParallel, MaskedInput
<1>4. TypeOK'
  <2>1. OutputParallel(r, NextId(r)) \in SUBSET (Rank \X Id)
    BY <1>2, <1>3
  <2>2. partial' \in [Rank -> Seq(SUBSET (Rank \X Id))]
    BY <1>1, <2>1 DEF IInv, TypeOK
  <2> QED BY <1>1, <2>2, SameTable DEF IInv, TypeOK
<1>5. LoadInv' /\ AskedWhenLoaded'
  BY <1>1, LoadUnchanged DEF IInv, AskInv, AskedWhenLoaded
<1>6. InStep'
  BY <1>1, SameTable DEF IInv, AskInv, InStep
<1>7. PartialIsRow'
  <2>1. \A s \in Rank : NextId(s)' = NextId(s)
    BY <1>1 DEF NextId
  <2>2. \A s \in Rank : partial'[s] = IF s = r THEN <<OutputParallel(r, NextId(r))>> ELSE partial[s]
    BY <1>1 DEF IInv, TypeOK
  <2> QED BY <1>1, <1>3, <2>1, <2>2, SameTable DEF IInv, AskInv, PartialIsRow
<1> QED BY <1>4, <1>5, <1>6, <1>7 DEF IInv, AskInv

LEMMA AllReduceStep ==
  ASSUME IInv, AllReduce
  PROVE  IInv' /\ Table!Answer
<1> DEFINE sum == UNION {partial[r][1] : r \in Rank}
<1>1. /\ \A r \in Rank : partial[r] # <<>>
      /\ answers' = [r \in Rank |-> Append(answers[r], Output(sum))]
      /\ partial' = [r \in Rank |-> <<>>]
      /\ UNCHANGED <<config, ckpt_parts, todo, failed, weight, scale, asked>>
  BY DEF AllReduce
<1>2. \A r \in Rank :
        /\ Len(answers[r]) < Len(asked)
        /\ partial[r] = <<IF InPartition(r, NextId(r)) THEN {<<r, NextId(r)>>} ELSE {}>>
  BY <1>1 DEF IInv, AskInv, PartialIsRow
<1>3. config \in Configs /\ 0 \in Rank
  BY ShardSizes, Sizes DEF Rank
<1> DEFINE id == NextId(0)
<1>4. \A r \in Rank : NextId(r) = id
  BY <1>3 DEF IInv, AskInv, InStep, NextId
<1>5. id \in Id
  BY <1>2, <1>3, NextIdIsAsked
<1> HIDE DEF id
<1>6. PICK owner \in Rank :
        InPartition(owner, id) /\ \A s \in Rank : InPartition(s, id) => s = owner
  BY <1>3, <1>5, Places
<1>7. \A r \in Rank : partial[r][1] = IF r = owner THEN {<<owner, id>>} ELSE {}
  <2> SUFFICES ASSUME NEW r \in Rank PROVE partial[r][1] = IF r = owner THEN {<<owner, id>>} ELSE {}
    OBVIOUS
  <2> DEFINE row == IF InPartition(r, id) THEN {<<r, id>>} ELSE {}
  <2>1. partial[r] = <<row>>
    BY <1>2, <1>4, Zenon
  <2> HIDE DEF row
  <2>2. partial[r][1] = row
    BY <2>1
  <2> QED BY <1>6, <2>2 DEF row
<1>8. sum = {<<owner, id>>}
  BY <1>7
<1> HIDE DEF sum
<1>9. Output(sum) = id
  BY <1>8, OutputOfOne
<1>10. answers' = [r \in Rank |-> Append(answers[r], NextId(r))]
  BY <1>1, <1>4, <1>9
<1> QED BY <1>1, <1>2, <1>10, AnswerStep

LEMMA InvInit == Init => IInv /\ Table!Init
<1> SUFFICES ASSUME Init PROVE IInv /\ Table!Init
  OBVIOUS
<1>1. /\ config \in Configs /\ ckpt_parts \in config.ckpt_parts
      /\ todo = [r \in Rank |-> {Scale} \union 0 .. ckpt_parts - 1]
      /\ failed = {} /\ scale = {} /\ asked = <<>>
      /\ weight = [r \in Rank |-> [i \in 0 .. PerPartition - 1 |-> Empty]]
      /\ partial = [r \in Rank |-> <<>>] /\ answers = [r \in Rank |-> <<>>]
  BY DEF Init
<1>2. ckpt_parts \in Nat \ {0}
  BY <1>1, Sizes
<1>3. Empty \in Int
  BY DEF Empty
<1>4. TypeOK
  BY <1>1, <1>3 DEF TypeOK, Shards
<1>5. FirstShardTells /\ ScaleIsTaken /\ OwnSplitIsAccepted
  BY <1>1, <1>2 DEF FirstShardTells, ScaleIsTaken, OwnSplitIsAccepted
<1>6. TakenIsPlaced
  <2> SUFFICES ASSUME SameShards, NEW r \in Rank, NEW i \in 0 .. PerPartition - 1
               PROVE  (StartIndex(r) + i) \div ShardSize \in todo[r]
    BY DEF TakenIsPlaced
  <2> DEFINE row == StartIndex(r) + i
             k == row \div ShardSize
  <2>1. OrgVocab \in Nat \ {0} /\ Parts \in Nat \ {0}
    BY <1>1, Sizes
  <2>2. ShardSize \in Nat \ {0} /\ OrgVocab <= ShardSize * ckpt_parts
    BY <1>2, <2>1, CeilDivIs DEF SameShards
  <2>3. row \in 0 .. OrgVocab - 1
    BY <1>1, Places DEF Id
  <2> HIDE DEF row
  <2>4. k \in Nat /\ k * ShardSize <= row
    BY <2>2, <2>3, Quotient
  <2> HIDE DEF k
  <2>5. k < ckpt_parts
    <3> SUFFICES ASSUME k >= ckpt_parts PROVE FALSE
      BY <1>2, <2>4
    <3>1. PICK size \in Nat \ {0} : size = ShardSize
      BY <2>2
    <3>2. PICK parts \in Nat \ {0} : parts = ckpt_parts
      BY <1>2
    <3>3. PICK vocab \in Nat \ {0} : vocab = OrgVocab
      BY <2>1
    <3>4. vocab <= size * parts /\ row < vocab /\ k * size <= row /\ k >= parts
      BY <2>2, <2>3, <2>4, <3>1, <3>2, <3>3
    <3>5. k * size >= parts * size /\ parts * size = size * parts
      BY <2>4, <3>4
    <3>6. k * size \in Nat /\ size * parts \in Nat /\ row \in Int
      BY <2>3, <2>4
    <3> QED BY <3>4, <3>5, <3>6
  <2>6. k \in 0 .. ckpt_parts - 1
    BY <1>2, <2>4, <2>5
  <2> QED BY <1>1, <2>6 DEF k, row
<1>7. AskedWhenLoaded /\ InStep /\ PartialIsRow
  BY <1>1 DEF AskedWhenLoaded, InStep, PartialIsRow
<1>8. Table!Init
  BY <1>1 DEF Table!Init, Rank, TpSize
<1> QED BY <1>4, <1>5, <1>6, <1>7, <1>8 DEF IInv, LoadInv, AskInv

LEMMA InvStep ==
  ASSUME IInv, [Next]_vars
  PROVE  IInv' /\ [Table!Next]_Table!vars
<1>1. CASE AllReduce
  BY <1>1, AllReduceStep DEF Table!Next
<1>2. ASSUME NEW r \in Rank, LoadScale(r) PROVE IInv' /\ UNCHANGED Table!vars
  BY <1>2, LoadScaleStep DEF LoadScale, Table!vars
<1>3. ASSUME NEW r \in Rank, ForwardAlone(r) PROVE IInv' /\ Table!Next
  BY <1>3, ForwardAloneStep DEF Table!Next
<1>4. ASSUME NEW r \in Rank, Gather(r) PROVE IInv' /\ UNCHANGED Table!vars
  BY <1>4, GatherStep DEF Gather, Table!vars
<1>5. ASSUME NEW r \in Rank, NEW k \in todo[r], LoadShard(r, k) PROVE IInv' /\ UNCHANGED Table!vars
  BY <1>5, LoadShardStep DEF LoadShard, Table!vars
<1>6. ASSUME NEW id \in Id, Ask(id) PROVE IInv' /\ Table!Next
  BY <1>6, AskStep DEF Table!Next
<1>7. CASE UNCHANGED vars
  <2>1. UNCHANGED <<config, ckpt_parts, todo, failed, weight, scale, asked, partial, answers>>
    BY <1>7 DEF vars
  <2>2. LoadInv' /\ AskInv'
    BY <2>1, LoadUnchanged, AskUnchanged DEF IInv, AskInv, AskedWhenLoaded
  <2>3. TypeOK'
    BY <2>1, SameTable DEF IInv, TypeOK
  <2> QED BY <2>1, <2>2, <2>3 DEF IInv, Table!vars
<1> QED BY <1>1, <1>2, <1>3, <1>4, <1>5, <1>6, <1>7 DEF Next

-----------------------------------------------------------------------------
(***************************************************************************)
(* The theorems.                                                           *)
(***************************************************************************)
LEMMA Invariance == Spec => []IInv
<1>1. Init => IInv
  BY InvInit
<1>2. IInv /\ [Next]_vars => IInv'
  BY InvStep
<1> QED BY <1>1, <1>2, PTL DEF Spec

\* copy_ple_embedding_shard_, with the check of the rows of each shard, leaves
\* every row in its place, for any numbers of ranks and parts, or refuses the
\* checkpoint.
THEOREM PlacesCorrect == Spec => []RowsAreInTheirPlaces
BY Invariance, LoadedIsPlaced, PTL

\* load_weights does not refuse a checkpoint that is split as configured,
\* however short or empty its last parts are.
THEOREM OwnSplitCorrect == Spec => []OwnSplitIsAccepted
<1>1. IInv => OwnSplitIsAccepted
  BY DEF IInv, LoadInv
<1> QED BY <1>1, Invariance, PTL

\* What the masked lookup and the sum over the ranks may answer: EmbeddingLookup
\* without its promise that an answer comes.
LookupSafety == Table!Init /\ [][Table!Next]_Table!vars

\* Every step of the ranks is a step of the one table they stand for, or none:
\* each rank gets, for each forward in turn, the row of its id, once and scaled.
THEOREM Refinement == Spec => LookupSafety
<1>1. Init => IInv /\ Table!Init
  BY InvInit
<1>2. IInv /\ [Next]_vars => IInv' /\ [Table!Next]_Table!vars
  BY InvStep
<1> QED BY <1>1, <1>2, PTL DEF Spec, LookupSafety
=============================================================================
