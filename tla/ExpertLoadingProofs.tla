------------------------ MODULE ExpertLoadingProofs -------------------------
(***************************************************************************)
(* Proofs about ExpertLoading, for every number of experts and of ranks    *)
(* and every size the kernel supports.                                     *)
(***************************************************************************)
EXTENDS ExpertLoading, WellFoundedInduction, TLAPS

-----------------------------------------------------------------------------
(***************************************************************************)
(* Quotients.                                                              *)
(***************************************************************************)
LEMMA Quotient ==
  ASSUME NEW v \in Nat, NEW c \in Nat \ {0}, NEW k \in Nat
  PROVE  /\ v \div c \in Nat
         /\ (v \div c = k) <=> (k * c <= v /\ v < (k + 1) * c)
OBVIOUS

LEMMA WholeQuotient ==
  ASSUME NEW v \in Nat, NEW c \in Nat \ {0}, v % c = 0
  PROVE  v \div c \in Nat /\ (v \div c) * c = v
OBVIOUS

LEMMA MultipleQuotient ==
  ASSUME NEW m \in Nat, NEW c \in Nat \ {0}
  PROVE  (m * c) \div c = m /\ (m * c) % c = 0
OBVIOUS

LEMMA NestedQuotient ==
  ASSUME NEW v \in Nat, NEW b \in Nat \ {0}, NEW c \in Nat \ {0}
  PROVE  v \div (b * c) = (v \div b) \div c
OBVIOUS

LEMMA SumQuotient ==
  ASSUME NEW u \in Nat, NEW m \in Nat, NEW v \in Nat, NEW c \in Nat \ {0}, u = m * c
  PROVE  (u + v) \div c = m + (v \div c)
OBVIOUS

LEMMA QuotientBound ==
  ASSUME NEW v \in Nat, NEW m \in Nat, NEW c \in Nat \ {0}, v < m * c
  PROVE  v \div c \in 0 .. m - 1
OBVIOUS

LEMMA SmallerDivisor ==
  ASSUME NEW v \in Nat, NEW b \in Nat \ {0}, NEW c \in Nat \ {0}, b <= c
  PROVE  v \div c <= v \div b
OBVIOUS

-----------------------------------------------------------------------------
(***************************************************************************)
(* The sizes of the parameters, in groups and in bytes.                    *)
(***************************************************************************)
LEMMA ConfigSizes ==
  ASSUME config \in Configs
  PROVE  /\ {NumExperts, EpSize, TpSize, Intermediate, Hidden, CkptGroupSize} \subseteq Nat \ {0}
         /\ IntermediatePerPartition \in Nat \ {0}
         /\ IntermediatePerPartition * TpSize = Intermediate
         /\ NumExperts % EpSize = 0 /\ (EpSize = 1 \/ TpSize = 1)
         /\ Hidden % CkptGroupSize = 0 /\ Intermediate % CkptGroupSize = 0
         /\ Pack \in {1, 2} /\ (Pack = 1 <=> config.bits = 8)
<1>1. /\ {NumExperts, EpSize, TpSize, Intermediate, Hidden, CkptGroupSize} \subseteq Nat \ {0}
      /\ NumExperts % EpSize = 0 /\ Intermediate % TpSize = 0 /\ (EpSize = 1 \/ TpSize = 1)
  BY SizesAssumption DEF Sizes, NumExperts, EpSize, TpSize, Intermediate, Hidden, CkptGroupSize
<1>2. Hidden % CkptGroupSize = 0 /\ Intermediate % CkptGroupSize = 0
  BY GroupsAssumption DEF Hidden, Intermediate, CkptGroupSize
<1>3. Pack \in {1, 2} /\ (Pack = 1 <=> config.bits = 8)
  BY FormatAssumption DEF Pack, BytePack
<1>4. IntermediatePerPartition \in Nat /\ IntermediatePerPartition * TpSize = Intermediate
  BY <1>1, WholeQuotient DEF IntermediatePerPartition
<1>5. IntermediatePerPartition # 0
  BY <1>1, <1>4
<1> QED BY <1>1, <1>2, <1>3, <1>4, <1>5

LEMMA GroupSizes ==
  ASSUME config \in Configs, GroupSizeIsSupported
  PROVE  /\ GroupSizeDivFactor \in Nat \ {0} /\ GroupSize \in Nat \ {0}
         /\ GroupSize * GroupSizeDivFactor = CkptGroupSize
         /\ IntermediatePerPartition % GroupSize = 0 /\ Hidden % GroupSize = 0
         /\ GroupSize % Pack = 0
<1> DEFINE n == CkptGroupSize
<1> DEFINE Fit == {d \in Halvings(n) : Divides(d)}
<1>1. n \in Nat \ {0}
  BY ConfigSizes
<1>2. PICK e \in Halvings(n) : Divides(e) /\ IsSupported(n, e)
  BY DEF GroupSizeIsSupported
<1>3. Fit \subseteq Nat \ {0} /\ e \in Fit
  BY <1>1, <1>2 DEF Halvings
<1>4. \E d \in Fit : \A f \in Fit : ~(f < d)
  <2>1. IsWellFoundedOn(OpToRel(<, Nat), Nat)
    BY NatLessThanWellFounded
  <2>2. \E d \in Fit : \A f \in Fit : ~(<<f, d>> \in OpToRel(<, Nat))
    BY <1>3, <2>1, WFMin, Zenon
  <2> QED BY <1>3, <2>2 DEF OpToRel
<1>5. /\ GroupSizeDivFactor \in Halvings(n) /\ Divides(GroupSizeDivFactor)
      /\ \A f \in Halvings(n) : f < GroupSizeDivFactor => ~Divides(f)
  BY <1>4 DEF GroupSizeDivFactor
<1> DEFINE d == GroupSizeDivFactor
<1>6. d \in Nat \ {0} /\ d <= e
  BY <1>1, <1>2, <1>3, <1>5 DEF Halvings
<1>7. IsSupported(n, d)
  <2> SUFFICES ASSUME d > 1 PROVE n \div d >= MinGroupSize
    BY DEF IsSupported
  <2>1. n \div e >= MinGroupSize
    BY <1>1, <1>2, <1>3, <1>6 DEF IsSupported
  <2>2. n \div e <= n \div d
    BY <1>1, <1>3, <1>6, SmallerDivisor
  <2>3. n \div e \in Nat /\ n \div d \in Nat /\ MinGroupSize \in Nat
    BY <1>1, <1>3, <1>6, Quotient, SizesAssumption
  <2> QED BY <2>1, <2>2, <2>3
<1>8. n % d = 0 /\ (n \div d) % Pack = 0
  BY <1>5, <1>7, GroupsAssumption DEF CkptGroupSize, Pack
<1>9. GroupSize \in Nat /\ GroupSize * d = n
  BY <1>1, <1>6, <1>8, WholeQuotient DEF GroupSize
<1>10. GroupSize # 0
  BY <1>1, <1>6, <1>9
<1> QED BY <1>5, <1>6, <1>8, <1>9, <1>10 DEF Divides, GroupSize

\* The rows of one half, and the columns, of a parameter.
Half(name) == Shape[name][1] \div 2
Columns(name) == Shape[name][2]
W13 == {"w13_qweight", "w13_scales", "w13_qzeros"}
W2 == {"w2_qweight", "w2_scales", "w2_qzeros"}
SuffixOf(name) ==
  CASE name \in {"w13_qweight", "w2_qweight"} -> "qweight"
    [] name \in {"w13_scales", "w2_scales"} -> "scales"
    [] name \in {"w13_qzeros", "w2_qzeros"} -> "qzeros"

\* Bytes and groups of the features of a rank.
IntermediateBytes == IntermediatePerPartition \div Pack
IntermediateGroups == IntermediatePerPartition \div GroupSize
HiddenBytes == Hidden \div Pack
HiddenGroups == Hidden \div GroupSize

LEMMA WholeBytesAndGroups ==
  ASSUME config \in Configs, GroupSizeIsSupported
  PROVE  /\ {IntermediateBytes, IntermediateGroups, HiddenBytes, HiddenGroups} \subseteq Nat
         /\ IntermediateBytes * Pack = IntermediatePerPartition
         /\ IntermediateGroups * GroupSize = IntermediatePerPartition
         /\ HiddenBytes * Pack = Hidden
         /\ HiddenGroups * GroupSize = Hidden
<1>1. /\ IntermediatePerPartition \in Nat /\ Hidden \in Nat
      /\ Pack \in Nat \ {0} /\ GroupSize \in Nat \ {0}
      /\ IntermediatePerPartition % GroupSize = 0 /\ Hidden % GroupSize = 0 /\ GroupSize % Pack = 0
  BY ConfigSizes, GroupSizes
<1>2. /\ IntermediateGroups \in Nat /\ IntermediateGroups * GroupSize = IntermediatePerPartition
      /\ HiddenGroups \in Nat /\ HiddenGroups * GroupSize = Hidden
  BY <1>1, WholeQuotient DEF IntermediateGroups, HiddenGroups
<1>3. ASSUME NEW m \in Nat, m % GroupSize = 0 PROVE m % Pack = 0
  <2>1. PICK a \in Nat : m = a * GroupSize
    BY <1>1, <1>3, WholeQuotient
  <2>2. PICK b \in Nat : GroupSize = b * Pack
    BY <1>1, WholeQuotient
  <2>3. PICK c \in Nat : c = a * b
    BY <2>1, <2>2
  <2>4. a * (b * Pack) = (a * b) * Pack
    BY <1>1, <2>1, <2>2
  <2>5. m = c * Pack
    BY <2>1, <2>2, <2>3, <2>4
  <2> QED BY <1>1, <2>5, MultipleQuotient
<1>4. IntermediatePerPartition % Pack = 0 /\ Hidden % Pack = 0
  BY <1>1, <1>3
<1>5. /\ IntermediateBytes \in Nat /\ IntermediateBytes * Pack = IntermediatePerPartition
      /\ HiddenBytes \in Nat /\ HiddenBytes * Pack = Hidden
  BY <1>1, <1>4, WholeQuotient DEF IntermediateBytes, HiddenBytes
<1> QED BY <1>2, <1>5

\* The same of the tensors of a checkpoint, in the groups of the layer.
LEMMA CheckpointBytesAndGroups ==
  ASSUME config \in Configs, GroupSizeIsSupported
  PROVE  /\ Intermediate \div Pack = TpSize * IntermediateBytes
         /\ Hidden \div Pack = HiddenBytes
         /\ Intermediate \div CkptGroupSize \in Nat /\ Hidden \div CkptGroupSize \in Nat
         /\ (Intermediate \div CkptGroupSize) * GroupSizeDivFactor = TpSize * IntermediateGroups
         /\ (Hidden \div CkptGroupSize) * GroupSizeDivFactor = HiddenGroups
<1> DEFINE f == GroupSizeDivFactor
           g == GroupSize
<1>1. /\ {IntermediateBytes, IntermediateGroups, HiddenBytes, HiddenGroups} \subseteq Nat
      /\ Pack \in Nat \ {0} /\ f \in Nat \ {0} /\ g \in Nat \ {0} /\ TpSize \in Nat \ {0}
      /\ {Intermediate, Hidden, CkptGroupSize, IntermediatePerPartition} \subseteq Nat \ {0}
  BY ConfigSizes, GroupSizes, WholeBytesAndGroups
<1>2. /\ IntermediateBytes * Pack = IntermediatePerPartition
      /\ IntermediateGroups * g = IntermediatePerPartition
      /\ HiddenGroups * g = Hidden /\ g * f = CkptGroupSize
      /\ IntermediatePerPartition * TpSize = Intermediate
      /\ Hidden % CkptGroupSize = 0 /\ Intermediate % CkptGroupSize = 0
  BY ConfigSizes, GroupSizes, WholeBytesAndGroups
<1> HIDE DEF f, g
<1>3. Intermediate \div Pack = TpSize * IntermediateBytes
  <2>1. (TpSize * IntermediateBytes) * Pack = (IntermediateBytes * Pack) * TpSize
    BY <1>1
  <2>2. PICK m \in Nat : m = TpSize * IntermediateBytes
    BY <1>1
  <2>3. m * Pack = Intermediate
    BY <1>2, <2>1, <2>2
  <2> QED BY <1>1, <2>2, <2>3, MultipleQuotient
<1>4. ASSUME NEW v \in Nat, NEW m \in Nat, v = m * g, v % CkptGroupSize = 0
      PROVE  v \div CkptGroupSize \in Nat /\ (v \div CkptGroupSize) * f = m
  <2>1. PICK k \in Nat : k = v \div CkptGroupSize /\ k * CkptGroupSize = v
    BY <1>1, <1>4, WholeQuotient
  <2>2. PICK n \in Nat : n = k * f
    BY <1>1, <2>1
  <2>3. k * (g * f) = (k * f) * g
    BY <1>1, <2>1
  <2>4. n * g = m * g
    BY <1>2, <1>4, <2>1, <2>2, <2>3
  <2>5. n = m
    BY <1>1, <2>2, <2>4
  <2> QED BY <2>1, <2>2, <2>5
<1>5. /\ Intermediate \div CkptGroupSize \in Nat
      /\ (Intermediate \div CkptGroupSize) * f = TpSize * IntermediateGroups
  <2>1. (TpSize * IntermediateGroups) * g = (IntermediateGroups * g) * TpSize
    BY <1>1
  <2>2. PICK m \in Nat : m = TpSize * IntermediateGroups
    BY <1>1
  <2>3. Intermediate = m * g
    BY <1>2, <2>1, <2>2
  <2> QED BY <1>1, <1>2, <1>4, <2>2, <2>3
<1>6. Hidden \div CkptGroupSize \in Nat /\ (Hidden \div CkptGroupSize) * f = HiddenGroups
  BY <1>1, <1>2, <1>4
<1> QED BY <1>3, <1>5, <1>6 DEF HiddenBytes, f

LEMMA Shapes ==
  ASSUME config \in Configs, GroupSizeIsSupported
  PROVE  /\ Shape.w13_qweight = <<2 * IntermediatePerPartition, HiddenBytes>>
         /\ Shape.w13_scales = <<2 * IntermediatePerPartition, HiddenGroups>>
         /\ Shape.w13_qzeros = <<2 * IntermediateBytes, HiddenGroups>>
         /\ Shape.w2_qweight = <<Hidden, IntermediateBytes>>
         /\ Shape.w2_scales = <<Hidden, IntermediateGroups>>
         /\ Shape.w2_qzeros = <<HiddenBytes, IntermediateGroups>>
         /\ Half("w13_qweight") = IntermediatePerPartition
         /\ Half("w13_scales") = IntermediatePerPartition
         /\ Half("w13_qzeros") = IntermediateBytes
<1>1. (2 * IntermediatePerPartition) \div Pack = 2 * IntermediateBytes
  <2>1. /\ IntermediateBytes \in Nat /\ Pack \in {1, 2}
        /\ IntermediateBytes * Pack = IntermediatePerPartition
    BY ConfigSizes, WholeBytesAndGroups
  <2> QED BY <2>1
<1>2. IntermediatePerPartition \in Nat /\ IntermediateBytes \in Nat
  BY ConfigSizes, WholeBytesAndGroups
<1>3. /\ (2 * IntermediatePerPartition) \div 2 = IntermediatePerPartition
      /\ (2 * IntermediateBytes) \div 2 = IntermediateBytes
  BY <1>2
<1> QED BY <1>1, <1>3 DEF Shape, Half, HiddenBytes, HiddenGroups, IntermediateBytes, IntermediateGroups

LEMMA Names ==
  ASSUME NEW t, t.shard \in Shards, ParamName(t) \in Registered
  PROVE  /\ ParamName(t) \in (IF t.shard = "w2" THEN W2 ELSE W13)
         /\ SuffixOf(ParamName(t)) = t.suffix
         /\ t.suffix \in {"qweight", "scales", "qzeros"}
<1>1. ParamName(t) # "none"
  BY DEF Registered
<1> QED BY <1>1 DEF ParamName, Shards, W13, W2, SuffixOf

\* The column of the checkpoint a column of a parameter repeats.
Coarse(suffix, k) == IF suffix = "qweight" THEN k ELSE k \div GroupSizeDivFactor

\* A tensor holds the rows, or the columns, of all the ranks.
LEMMA TensorIs ==
  ASSUME config \in Configs, GroupSizeIsSupported, NEW t, t.shard \in Shards,
         ParamName(t) \in Registered
  PROVE  LET x == Repeated(t)
             name == ParamName(t)
         IN /\ t.shard # "w2" => x.rows = TpSize * Half(name) /\ x.cols = Columns(name)
            /\ t.shard = "w2" => x.rows = Shape[name][1] /\ x.cols = TpSize * Columns(name)
            /\ \A c \in Block(x.rows, x.cols) :
                 x.at[c] = <<t, c[1], Coarse(t.suffix, c[2])>>
<1> DEFINE x == Repeated(t)
           y == Tensor(t)
           name == ParamName(t)
           f == GroupSizeDivFactor
           Repeats == (f > 1 /\ t.suffix = "qzeros") \/ t.suffix = "scales"
<1>1. /\ name \in (IF t.shard = "w2" THEN W2 ELSE W13)
      /\ SuffixOf(name) = t.suffix /\ t.suffix \in {"qweight", "scales", "qzeros"}
  BY Names
<1>2. /\ TpSize \in Nat \ {0} /\ f \in Nat \ {0}
      /\ {IntermediatePerPartition, Intermediate, Hidden, IntermediateBytes, HiddenBytes,
          IntermediateGroups, HiddenGroups} \subseteq Nat
      /\ TpSize * IntermediatePerPartition = Intermediate
  BY ConfigSizes, GroupSizes, WholeBytesAndGroups
<1>3. y.rows \in Nat /\ y.cols \in Nat
      /\ y.rows = CkptShape(t)[1] /\ y.cols = CkptShape(t)[2]
      /\ y.at = [c \in Block(y.rows, y.cols) |-> <<t, c[1], c[2]>>]
  <2>1. CkptShape(t)[1] \in Nat /\ CkptShape(t)[2] \in Nat
    BY <1>1, <1>2, CheckpointBytesAndGroups DEF CkptShape, OutFeatures, InFeatures, Shards
  <2> QED BY <2>1 DEF Tensor
<1>4. /\ x.rows = y.rows /\ x.cols = IF Repeats THEN y.cols * f ELSE y.cols
      /\ \A c \in Block(x.rows, x.cols) :
           x.at[c] = IF Repeats THEN y.at[<<c[1], c[2] \div f>>] ELSE y.at[c]
  BY DEF Repeated
<1>5. /\ t.shard # "w2" => x.rows = TpSize * Half(name) /\ x.cols = Columns(name)
      /\ t.shard = "w2" => x.rows = Shape[name][1] /\ x.cols = TpSize * Columns(name)
  <2>1. f = 1 => y.cols * f = y.cols
    BY <1>3
  <2>2. f > 1 \/ f = 1
    BY <1>2
  <2>3. CASE t.suffix = "qweight"
    <3>1. name = IF t.shard = "w2" THEN "w2_qweight" ELSE "w13_qweight"
      BY <1>1, <2>3 DEF W2, W13, SuffixOf
    <3> QED BY <1>2, <1>3, <1>4, <2>3, <3>1, Shapes, CheckpointBytesAndGroups
            DEF CkptShape, OutFeatures, InFeatures, Columns
  <2>4. CASE t.suffix = "scales"
    <3>1. name = IF t.shard = "w2" THEN "w2_scales" ELSE "w13_scales"
      BY <1>1, <2>4 DEF W2, W13, SuffixOf
    <3> QED BY <1>2, <1>3, <1>4, <2>4, <3>1, Shapes, CheckpointBytesAndGroups
            DEF CkptShape, OutFeatures, InFeatures, Columns
  <2>5. CASE t.suffix = "qzeros"
    <3>1. name = IF t.shard = "w2" THEN "w2_qzeros" ELSE "w13_qzeros"
      BY <1>1, <2>5 DEF W2, W13, SuffixOf
    <3>2. x.cols = y.cols * f
      BY <1>4, <2>1, <2>2, <2>5
    <3> QED BY <1>2, <1>3, <1>4, <2>5, <3>1, <3>2, Shapes, CheckpointBytesAndGroups
            DEF CkptShape, OutFeatures, InFeatures, Columns
  <2> QED BY <1>1, <2>3, <2>4, <2>5
<1>6. ASSUME NEW c \in Block(x.rows, x.cols)
      PROVE  x.at[c] = <<t, c[1], Coarse(t.suffix, c[2])>>
  <2>1. PICK r \in 0 .. x.rows - 1, k \in 0 .. x.cols - 1 : c = <<r, k>>
    BY <1>6 DEF Block
  <2>2. CASE Repeats
    <3>1. k \in Nat /\ k < y.cols * f
      BY <1>2, <1>3, <1>4, <2>1, <2>2
    <3>2. k \div f \in 0 .. y.cols - 1
      BY <1>2, <1>3, <3>1, QuotientBound
    <3>3. <<r, k \div f>> \in Block(y.rows, y.cols)
      BY <1>4, <2>1, <3>2 DEF Block
    <3>4. x.at[c] = y.at[<<r, k \div f>>]
      BY <1>4, <1>6, <2>1, <2>2
    <3>5. y.at[<<r, k \div f>>] = <<t, r, k \div f>>
      BY <1>3, <3>3
    <3>6. Coarse(t.suffix, k) = k \div f
      BY <2>2 DEF Coarse
    <3> QED BY <2>1, <3>4, <3>5, <3>6
  <2>3. CASE ~Repeats
    <3>1. x.at[c] = <<t, r, k>>
      BY <1>3, <1>4, <1>6, <2>1, <2>3
    <3>2. t.suffix = "qweight" \/ f = 1
      BY <1>1, <1>2, <2>3
    <3>3. k \in Nat
      BY <2>1
    <3>4. Coarse(t.suffix, k) = k
      BY <3>2, <3>3 DEF Coarse
    <3> QED BY <2>1, <3>1, <3>4
  <2> QED BY <2>2, <2>3
<1> QED BY <1>5, <1>6

-----------------------------------------------------------------------------
(***************************************************************************)
(* Experts and ranks.                                                      *)
(***************************************************************************)
IsRank(r) == r \in 0 .. (IF EpSize > 1 THEN EpSize ELSE TpSize) - 1

LEMMA RankIs ==
  ASSUME config \in Configs, IsRank(rank)
  PROVE  /\ TpRank \in 0 .. TpSize - 1
         /\ FirstFeature = TpRank * IntermediatePerPartition
<1>1. EpSize \in Nat \ {0} /\ TpSize \in Nat \ {0} /\ (EpSize = 1 \/ TpSize = 1)
      /\ IntermediatePerPartition \in Nat
  BY ConfigSizes
<1>2. TpRank \in 0 .. TpSize - 1
  BY <1>1 DEF TpRank, IsRank
<1>3. FirstFeature = TpRank * IntermediatePerPartition
  <2>1. CASE TpSize > 1
    BY <1>1, <2>1 DEF FirstFeature, TpRank
  <2>2. CASE TpSize = 1
    <3>1. TpRank = 0
      BY <1>2, <2>2
    <3> QED BY <1>1, <2>2, <3>1 DEF FirstFeature
  <2> QED BY <1>1, <2>1, <2>2
<1> QED BY <1>2, <1>3

\* The experts of a rank are numbered without gaps.
LEMMA ExpertsAreNumbered ==
  ASSUME config \in Configs, IsRank(rank)
  PROVE  /\ \A l \in LocalExperts : /\ GlobalExpert(l) \in 0 .. NumExperts - 1
                                    /\ LocalExpertId(GlobalExpert(l)) = l
                                    /\ l # -1
         /\ \A e \in 0 .. NumExperts - 1 :
              LocalExpertId(e) # -1 => LocalExpertId(e) \in LocalExperts
                                       /\ GlobalExpert(LocalExpertId(e)) = e
<1> DEFINE n == NumExperts \div EpSize
           first == IF EpSize > 1 THEN rank * n ELSE 0
<1>1. EpSize \in Nat \ {0} /\ NumExperts \in Nat \ {0} /\ NumExperts % EpSize = 0
  BY ConfigSizes
<1>2. n \in Nat /\ n * EpSize = NumExperts
  BY <1>1, WholeQuotient
<1>3. first \in Nat /\ first + n <= NumExperts
  <2>1. CASE EpSize > 1
    <3>1. rank \in Nat /\ rank + 1 <= EpSize
      BY <1>1, <2>1 DEF IsRank
    <3>2. (rank + 1) * n <= EpSize * n /\ (rank + 1) * n = rank * n + n /\ rank * n \in Nat
      BY <1>1, <1>2, <3>1
    <3>3. EpSize * n = NumExperts
      BY <1>1, <1>2
    <3> QED BY <2>1, <3>2, <3>3
  <2>2. CASE EpSize = 1
    BY <1>1, <1>2, <2>2
  <2> QED BY <1>1, <2>1, <2>2
<1>4. \A l : GlobalExpert(l) = IF EpSize > 1 THEN first + l ELSE l
  BY DEF GlobalExpert
<1>5. \A e : LocalExpertId(e) = IF e \in first .. first + n - 1 THEN e - first ELSE -1
  BY DEF LocalExpertId
<1>6. LocalExperts = 0 .. n - 1
  BY DEF LocalExperts
<1>7. ~(EpSize > 1) => first = 0
  OBVIOUS
<1> HIDE DEF n, first
<1> QED BY <1>1, <1>2, <1>3, <1>4, <1>5, <1>6, <1>7

-----------------------------------------------------------------------------
(***************************************************************************)
(* Where the cells of the parameters come from.                            *)
(***************************************************************************)
ShardOf(name, c) ==
  IF name \in W2 THEN "w2" ELSE IF c[1] < Half(name) THEN "w1" ELSE "w3"
TensorOf(name, l, c) ==
  [expert |-> GlobalExpert(l), shard |-> ShardOf(name, c), suffix |-> SuffixOf(name)]

\* The row and the column of the tensor.
RowOf(name, c) ==
  IF name \in W2 THEN c[1]
  ELSE TpRank * Half(name) + (IF c[1] < Half(name) THEN c[1] ELSE c[1] - Half(name))
ColumnOf(name, c) ==
  Coarse(SuffixOf(name), IF name \in W2 THEN TpRank * Columns(name) + c[2] ELSE c[2])
Content(name, l, c) == <<TensorOf(name, l, c), RowOf(name, c), ColumnOf(name, c)>>

CellsOf(name) == Block(Shape[name][1], Shape[name][2])

\* The number, the scale and the zero the kernel reads for a weight are the
\* cells of that weight.
LEMMA KernelReadsItsSource ==
  ASSUME config \in Configs, GroupSizeIsSupported, IsRank(rank),
         NEW w \in Weights, NEW s \in Needed
  PROVE  LET name == Part(w, s)
             c == CellOf(w, s)
         IN /\ name \in Registered /\ w.expert \in LocalExperts /\ c \in CellsOf(name)
            /\ TensorOf(name, w.expert, c) \in Checkpoint
            /\ Content(name, w.expert, c) = SourceOf(w, s)
<1> DEFINE name == Part(w, s)
           c == CellOf(w, s)
           ipp == IntermediatePerPartition
<1>1. s \in {"qweight", "scales", "qzeros"} /\ s \in config.suffixes /\ (s = "qzeros" => HasZeroPoint)
  BY DEF Needed
<1>2. /\ w.expert \in LocalExperts /\ w.shard \in Shards
      /\ w.n \in Nat /\ w.k \in Nat
      /\ w.shard = "w2" => w.n < Hidden /\ w.k < ipp
      /\ w.shard # "w2" => w.n < ipp /\ w.k < Hidden
  BY ConfigSizes DEF Weights, Shards
<1>3. /\ name = IF w.shard = "w2"
                  THEN IF s = "qweight" THEN "w2_qweight" ELSE IF s = "scales" THEN "w2_scales" ELSE "w2_qzeros"
                  ELSE IF s = "qweight" THEN "w13_qweight" ELSE IF s = "scales" THEN "w13_scales" ELSE "w13_qzeros"
      /\ SuffixOf(name) = s /\ (name \in W2 <=> w.shard = "w2") /\ name \in Registered
  BY <1>1 DEF Part, SuffixOf, W2, Registered
<1>4. /\ {ipp, Hidden, IntermediateBytes, IntermediateGroups, HiddenBytes, HiddenGroups} \subseteq Nat
      /\ IntermediateBytes * Pack = ipp /\ IntermediateGroups * GroupSize = ipp
      /\ HiddenBytes * Pack = Hidden /\ HiddenGroups * GroupSize = Hidden
      /\ Pack \in Nat \ {0} /\ GroupSize \in Nat \ {0} /\ GroupSizeDivFactor \in Nat \ {0}
      /\ GroupSize * GroupSizeDivFactor = CkptGroupSize
      /\ TpRank \in Nat /\ FirstFeature = TpRank * ipp /\ TpSize \in Nat \ {0}
  BY ConfigSizes, GroupSizes, WholeBytesAndGroups, RankIs
<1> HIDE DEF name, c, ipp
\* A feature in bytes, in groups of the layer and in groups of the checkpoint.
<1>5. ASSUME NEW v \in Nat, v < ipp
      PROVE  /\ v \div Pack \in 0 .. IntermediateBytes - 1
             /\ v \div GroupSize \in 0 .. IntermediateGroups - 1
             /\ (FirstFeature + v) \div Pack = TpRank * IntermediateBytes + (v \div Pack)
             /\ (FirstFeature + v) \div CkptGroupSize
                  = (TpRank * IntermediateGroups + (v \div GroupSize)) \div GroupSizeDivFactor
  <2>1. /\ v \div Pack \in 0 .. IntermediateBytes - 1
        /\ v \div GroupSize \in 0 .. IntermediateGroups - 1
    BY <1>4, <1>5, QuotientBound
  <2>2. PICK a \in Nat : a = TpRank * IntermediateBytes
    BY <1>4
  <2>3. PICK b \in Nat : b = TpRank * IntermediateGroups
    BY <1>4
  <2>4. TpRank * (IntermediateBytes * Pack) = (TpRank * IntermediateBytes) * Pack
    BY <1>4
  <2>5. TpRank * (IntermediateGroups * GroupSize) = (TpRank * IntermediateGroups) * GroupSize
    BY <1>4
  <2>6. FirstFeature = a * Pack /\ FirstFeature = b * GroupSize
    BY <1>4, <2>2, <2>3, <2>4, <2>5
  <2>7. /\ (FirstFeature + v) \div Pack = a + (v \div Pack)
        /\ (FirstFeature + v) \div GroupSize = b + (v \div GroupSize)
    <3>1. PICK u \in Nat : u = FirstFeature
      BY <1>4, <2>2, <2>6
    <3>2. Pack \in Nat \ {0} /\ GroupSize \in Nat \ {0} /\ u = a * Pack /\ u = b * GroupSize
      BY <1>4, <2>6, <3>1
    <3>3. PICK p \in Nat \ {0} : p = Pack
      BY <3>2
    <3>4. PICK g \in Nat \ {0} : g = GroupSize
      BY <3>2
    <3>5. u = a * p /\ u = b * g
      BY <3>2, <3>3, <3>4
    <3>6. (u + v) \div p = a + (v \div p) /\ (u + v) \div g = b + (v \div g)
      BY <3>5, SumQuotient
    <3> QED BY <3>1, <3>3, <3>4, <3>6, Zenon
  <2>8. FirstFeature + v \in Nat
    BY <1>4, <2>2, <2>6
  <2>9. (FirstFeature + v) \div CkptGroupSize = ((FirstFeature + v) \div GroupSize) \div GroupSizeDivFactor
    BY <1>4, <2>8, NestedQuotient
  <2> QED BY <2>1, <2>2, <2>3, <2>7, <2>9
<1>6. ASSUME NEW v \in Nat, v < Hidden
      PROVE  /\ v \div Pack \in 0 .. HiddenBytes - 1
             /\ v \div GroupSize \in 0 .. HiddenGroups - 1
             /\ v \div CkptGroupSize = (v \div GroupSize) \div GroupSizeDivFactor
  BY <1>4, <1>6, QuotientBound, NestedQuotient, ZenonT(40)
<1>7. (ipp + w.n) \div Pack = IntermediateBytes + (w.n \div Pack)
  <2>1. PICK p \in Nat \ {0} : p = Pack
    BY <1>4
  <2>2. PICK u \in Nat, m \in Nat, v \in Nat : u = ipp /\ m = IntermediateBytes /\ v = w.n
    BY <1>2, <1>4
  <2>3. u = m * p
    BY <1>4, <2>1, <2>2
  <2>4. (u + v) \div p = m + (v \div p)
    BY <2>3, SumQuotient
  <2> QED BY <2>1, <2>2, <2>4, Zenon
<1>8. c \in CellsOf(name) /\ ShardOf(name, c) = w.shard
      /\ RowOf(name, c) = (IF s = "qzeros" THEN GlobalN(w) \div Pack ELSE GlobalN(w))
      /\ ColumnOf(name, c) = (IF s = "qweight" THEN GlobalK(w) \div Pack ELSE GlobalK(w) \div CkptGroupSize)
  <2>1. CASE w.shard = "w2"
    <3>1. GlobalN(w) = w.n /\ GlobalK(w) = FirstFeature + w.k /\ Row(w) = w.n
      BY <2>1 DEF GlobalN, GlobalK, Row
    <3>2. ShardOf(name, c) = "w2" /\ RowOf(name, c) = c[1]
          /\ ColumnOf(name, c) = Coarse(s, TpRank * Columns(name) + c[2])
      BY <1>3, <2>1 DEF ShardOf, RowOf, ColumnOf
    <3>3. w.n < Hidden /\ w.k < ipp
      BY <1>2, <2>1
    <3>4. CASE s = "qweight"
      <4>1. c = <<w.n, w.k \div Pack>> /\ Shape[name] = <<Hidden, IntermediateBytes>>
        BY <1>3, <2>1, <3>1, <3>4, Shapes DEF CellOf, c
      <4> QED BY <1>2, <1>4, <1>5, <2>1, <3>1, <3>2, <3>3, <3>4, <4>1 DEF CellsOf, Block, Columns, Coarse
    <3>5. CASE s = "scales"
      <4>1. c = <<w.n, w.k \div GroupSize>> /\ Shape[name] = <<Hidden, IntermediateGroups>>
        BY <1>3, <2>1, <3>1, <3>5, Shapes DEF CellOf, c
      <4> QED BY <1>2, <1>4, <1>5, <2>1, <3>1, <3>2, <3>3, <3>5, <4>1 DEF CellsOf, Block, Columns, Coarse
    <3>6. CASE s = "qzeros"
      <4>1. c = <<w.n \div Pack, w.k \div GroupSize>> /\ Shape[name] = <<HiddenBytes, IntermediateGroups>>
        BY <1>3, <2>1, <3>1, <3>6, Shapes DEF CellOf, c
      <4> QED BY <1>2, <1>4, <1>5, <1>6, <2>1, <3>1, <3>2, <3>3, <3>6, <4>1 DEF CellsOf, Block, Columns, Coarse
    <3> QED BY <1>1, <3>4, <3>5, <3>6
  <2>2. CASE w.shard # "w2"
    <3>1. /\ GlobalN(w) = FirstFeature + w.n /\ GlobalK(w) = w.k
          /\ Row(w) = IF w.shard = "w3" THEN ipp + w.n ELSE w.n
          /\ w.shard \in {"w1", "w3"}
      BY <1>2, <2>2 DEF GlobalN, GlobalK, Row, Shards, ipp
    <3>2. /\ ShardOf(name, c) = IF c[1] < Half(name) THEN "w1" ELSE "w3"
          /\ RowOf(name, c) = TpRank * Half(name) + (IF c[1] < Half(name) THEN c[1] ELSE c[1] - Half(name))
          /\ ColumnOf(name, c) = Coarse(s, c[2])
      BY <1>3, <2>2 DEF ShardOf, RowOf, ColumnOf
    <3>3. w.n < ipp /\ w.k < Hidden
      BY <1>2, <2>2
    <3>4. CASE s = "qweight"
      <4>1. c = <<Row(w), w.k \div Pack>> /\ Shape[name] = <<2 * ipp, HiddenBytes>> /\ Half(name) = ipp
        BY <1>3, <2>2, <3>4, Shapes DEF CellOf, c, ipp
      <4>2. /\ c[1] = Row(w) /\ c[1] \in 0 .. 2 * ipp - 1
            /\ c[1] < ipp <=> w.shard = "w1"
            /\ w.n = IF c[1] < ipp THEN c[1] ELSE c[1] - ipp
        BY <1>2, <1>4, <3>1, <3>3, <4>1
      <4>3. ShardOf(name, c) = w.shard /\ RowOf(name, c) = GlobalN(w)
        BY <1>4, <3>1, <3>2, <4>1, <4>2
      <4>4. c[2] = w.k \div Pack /\ w.k \in Nat
        BY <1>2, <4>1
      <4>5. c \in CellsOf(name)
        BY <1>6, <3>3, <4>1, <4>2, <4>4 DEF CellsOf, Block
      <4> QED BY <1>6, <3>1, <3>2, <3>3, <3>4, <4>3, <4>4, <4>5 DEF Coarse
    <3>5. CASE s = "scales"
      <4>1. c = <<Row(w), w.k \div GroupSize>> /\ Shape[name] = <<2 * ipp, HiddenGroups>> /\ Half(name) = ipp
        BY <1>3, <2>2, <3>5, Shapes DEF CellOf, c, ipp
      <4>2. /\ c[1] = Row(w) /\ c[1] \in 0 .. 2 * ipp - 1
            /\ c[1] < ipp <=> w.shard = "w1"
            /\ w.n = IF c[1] < ipp THEN c[1] ELSE c[1] - ipp
        BY <1>2, <1>4, <3>1, <3>3, <4>1
      <4>3. ShardOf(name, c) = w.shard /\ RowOf(name, c) = GlobalN(w)
        BY <1>4, <3>1, <3>2, <4>1, <4>2
      <4>4. c[2] = w.k \div GroupSize /\ w.k \in Nat
        BY <1>2, <4>1
      <4>5. c \in CellsOf(name)
        BY <1>6, <3>3, <4>1, <4>2, <4>4 DEF CellsOf, Block
      <4> QED BY <1>6, <3>1, <3>2, <3>3, <3>5, <4>3, <4>4, <4>5 DEF Coarse
    <3>6. CASE s = "qzeros"
      <4>1. /\ c = <<Row(w) \div Pack, w.k \div GroupSize>>
            /\ Shape[name] = <<2 * IntermediateBytes, HiddenGroups>> /\ Half(name) = IntermediateBytes
        BY <1>3, <2>2, <3>6, Shapes DEF CellOf, c
      <4>2. Row(w) \div Pack = IF w.shard = "w3" THEN IntermediateBytes + (w.n \div Pack) ELSE w.n \div Pack
        BY <1>7, <3>1
      <4>3. PICK x \in 0 .. IntermediateBytes - 1 : x = w.n \div Pack
        BY <1>2, <1>5, <3>3, Zenon
      <4>4. PICK half \in Nat : half = IntermediateBytes
        BY <1>4, Zenon
      <4>5. PICK row : row = Row(w) \div Pack
        OBVIOUS
      <4>6. row = IF w.shard = "w3" THEN half + x ELSE x
        BY <4>2, <4>3, <4>4, <4>5, Zenon
      <4>7. x \in 0 .. half - 1 /\ row \in 0 .. 2 * half - 1
        BY <2>2, <4>3, <4>4, <4>6
      <4>8. /\ row < half <=> w.shard = "w1"
            /\ x = IF row < half THEN row ELSE row - half
        BY <3>1, <4>6, <4>7
      <4>9. c[1] = row /\ c[2] = w.k \div GroupSize
        BY <4>1, <4>5
      <4>10. ShardOf(name, c) = w.shard
        <5>1. ShardOf(name, c) = IF row < half THEN "w1" ELSE "w3"
          BY <3>2, <4>1, <4>4, <4>9
        <5> QED BY <3>1, <4>8, <5>1
      <4>11. c \in CellsOf(name)
        <5>1. c = <<row, w.k \div GroupSize>> /\ Shape[name] = <<2 * half, HiddenGroups>>
          BY <4>1, <4>4, <4>5
        <5>2. w.k \div GroupSize \in 0 .. HiddenGroups - 1
          BY <1>2, <1>6, <3>3
        <5> QED BY <4>7, <5>1, <5>2 DEF CellsOf, Block
      <4>12. RowOf(name, c) = GlobalN(w) \div Pack
        <5>1. RowOf(name, c) = TpRank * half + x
          BY <3>2, <4>1, <4>4, <4>8, <4>9, Zenon
        <5>2. GlobalN(w) \div Pack = TpRank * half + x
          BY <1>2, <1>5, <3>1, <3>3, <4>3, <4>4
        <5> QED BY <5>1, <5>2
      <4>13. ColumnOf(name, c) = GlobalK(w) \div CkptGroupSize
        BY <1>2, <1>6, <3>1, <3>2, <3>3, <3>6, <4>9 DEF Coarse
      <4> QED BY <3>6, <4>10, <4>11, <4>12, <4>13
    <3> QED BY <1>1, <3>4, <3>5, <3>6
  <2> QED BY <2>1, <2>2
<1>9. TensorOf(name, w.expert, c) = [expert |-> GlobalExpert(w.expert), shard |-> w.shard, suffix |-> s]
  BY <1>3, <1>8 DEF TensorOf
<1>10. TensorOf(name, w.expert, c) \in Checkpoint
  BY <1>1, <1>2, <1>9, ExpertsAreNumbered DEF Checkpoint
<1>11. Content(name, w.expert, c) = SourceOf(w, s)
  BY <1>1, <1>8, <1>9 DEF Content, SourceOf
<1> QED BY <1>2, <1>3, <1>8, <1>10, <1>11 DEF name, c

-----------------------------------------------------------------------------
(***************************************************************************)
(* The inductive invariant.                                                *)
(***************************************************************************)
TypeInv ==
  /\ config \in Configs /\ GroupSizeIsSupported /\ IsRank(rank)
  /\ todo \subseteq Checkpoint /\ failed \in BOOLEAN
  /\ DOMAIN param = Registered
  /\ \A name \in Registered :
       /\ DOMAIN param[name] = LocalExperts
       /\ \A l \in LocalExperts : DOMAIN param[name][l] = CellsOf(name)

\* A cell is empty until the tensor it comes from has been taken, and holds
\* what that tensor has for it from then on, unless the loading failed.
CellInv(name, l, c) ==
  LET t == TensorOf(name, l, c)
  IN \/ param[name][l][c] = Empty /\ (failed \/ t \notin Checkpoint \/ t \in todo)
     \/ param[name][l][c] = Content(name, l, c) /\ t \notin todo

\* What the loader may fail on.
Failures == failed => (config.bits = 8 /\ HasZeroPoint) \/ ~UnusedAreRegistered

IInv ==
  /\ TypeInv
  /\ Failures
  /\ \A name \in Registered, l \in LocalExperts : \A c \in CellsOf(name) : CellInv(name, l, c)

-----------------------------------------------------------------------------
(***************************************************************************)
(* Storing a tensor.                                                       *)
(***************************************************************************)

\* The cells of a local expert with what tensor t has for them.
With(t, name, l) ==
  [c \in CellsOf(name) |->
     IF ShardOf(name, c) = t.shard THEN Content(name, l, c) ELSE param[name][l][c]]

\* What a tensor is for.
LEMMA TensorGoesTo ==
  ASSUME TypeInv, NEW t \in Checkpoint, ParamName(t) \in Registered, LocalExpertId(t.expert) # -1
  PROVE  LET name == ParamName(t)
             l == LocalExpertId(t.expert)
         IN /\ l \in LocalExperts /\ t.shard \in Shards /\ name \in (IF t.shard = "w2" THEN W2 ELSE W13)
            /\ \A c \in CellsOf(name) : ShardOf(name, c) = t.shard => TensorOf(name, l, c) = t
<1> DEFINE name == ParamName(t)
           l == LocalExpertId(t.expert)
<1>1. /\ t.expert \in 0 .. NumExperts - 1 /\ t.shard \in Shards
      /\ t = [expert |-> t.expert, shard |-> t.shard, suffix |-> t.suffix]
  BY DEF Checkpoint
<1>2. l \in LocalExperts /\ GlobalExpert(l) = t.expert
  BY <1>1, ExpertsAreNumbered DEF TypeInv
<1>3. name \in (IF t.shard = "w2" THEN W2 ELSE W13) /\ SuffixOf(name) = t.suffix
  BY <1>1, Names
<1> QED BY <1>1, <1>2, <1>3 DEF TensorOf

LEMMA SizesOfCells ==
  ASSUME config \in Configs, GroupSizeIsSupported, NEW name \in W13 \union W2
  PROVE  /\ Shape[name][1] \in Nat /\ Columns(name) \in Nat
         /\ name \in W13 => Half(name) \in Nat /\ Shape[name][1] = 2 * Half(name)
<1>1. {IntermediatePerPartition, Hidden, IntermediateBytes, HiddenBytes, IntermediateGroups, HiddenGroups}
        \subseteq Nat
  BY ConfigSizes, WholeBytesAndGroups
<1> QED BY <1>1, Shapes DEF W13, W2, Columns

LEMMA HalfIsStored ==
  ASSUME TypeInv, NEW t \in Checkpoint, ParamName(t) \in Registered, LocalExpertId(t.expert) # -1,
         t.shard # "w2"
  PROVE  LET name == ParamName(t)
             l == LocalExpertId(t.expert)
             half == Half(name)
         IN Stored(param[name][l], Repeated(t), <<half * TpRank, 0>>, <<half, Columns(name)>>,
                   <<IF t.shard = "w1" THEN 0 ELSE half, 0>>)
              = With(t, name, l)
<1> DEFINE name == ParamName(t)
           l == LocalExpertId(t.expert)
           half == Half(name)
           x == Repeated(t)
           to == IF t.shard = "w1" THEN 0 ELSE half
           from == half * TpRank
           cols == Columns(name)
<1>1. /\ l \in LocalExperts /\ t.shard \in {"w1", "w3"} /\ name \in W13
      /\ \A c \in CellsOf(name) : ShardOf(name, c) = t.shard => TensorOf(name, l, c) = t
  BY TensorGoesTo DEF Shards
<1>2. /\ half \in Nat /\ cols \in Nat /\ CellsOf(name) = (0 .. 2 * half - 1) \X (0 .. cols - 1)
  BY <1>1, SizesOfCells DEF CellsOf, Block, Columns, TypeInv
<1>3. /\ x.rows = TpSize * half /\ x.cols = cols
      /\ \A c \in Block(x.rows, x.cols) : x.at[c] = <<t, c[1], Coarse(t.suffix, c[2])>>
  BY <1>1, TensorIs DEF TypeInv, Shards
<1>4. TpRank \in Nat /\ TpRank + 1 <= TpSize /\ TpSize \in Nat
  BY RankIs, ConfigSizes DEF TypeInv
<1>5. DOMAIN param[name][l] = CellsOf(name)
  BY <1>1 DEF TypeInv
<1>6. SuffixOf(name) = t.suffix /\ name \notin W2
  BY <1>1, Names DEF Shards, W13, W2
<1>7. from \in Nat /\ from + half <= TpSize * half /\ from = TpRank * half
  <2>1. (TpRank + 1) * half <= TpSize * half /\ (TpRank + 1) * half = half * TpRank + half
    BY <1>2, <1>4
  <2> QED BY <1>2, <1>4, <2>1
<1> HIDE DEF name, l, half, x, cols, from
<1>8. ASSUME NEW c \in CellsOf(name)
      PROVE  (IF c[1] \in to .. to + half - 1 /\ c[2] \in 0 .. 0 + cols - 1
                THEN x.at[<<from + c[1] - to, 0 + c[2] - 0>>] ELSE param[name][l][c])
             = (IF ShardOf(name, c) = t.shard THEN Content(name, l, c) ELSE param[name][l][c])
  <2>1. PICK r \in 0 .. 2 * half - 1, k \in 0 .. cols - 1 : c = <<r, k>>
    BY <1>2, <1>8
  <2>2. ShardOf(name, c) = IF r < half THEN "w1" ELSE "w3"
    BY <1>6, <2>1 DEF ShardOf, half
  <2>3. r \in to .. to + half - 1 <=> ShardOf(name, c) = t.shard
    BY <1>1, <1>2, <2>1, <2>2
  <2>4. ASSUME ShardOf(name, c) = t.shard
        PROVE  x.at[<<from + r - to, k>>] = Content(name, l, c)
    <3>1. from + r - to = RowOf(name, c)
      BY <1>1, <1>2, <1>6, <1>7, <2>1, <2>2, <2>4 DEF RowOf, half
    <3>2. from + r - to \in 0 .. x.rows - 1
      <4>1. PICK all \in Nat : all = TpSize * half
        BY <1>2, <1>4
      <4>2. from + half <= all /\ x.rows = all
        BY <1>3, <1>7, <4>1
      <4> QED BY <1>2, <1>7, <2>1, <2>3, <2>4, <4>2
    <3>3. <<from + r - to, k>> \in Block(x.rows, x.cols)
      BY <1>3, <2>1, <3>2 DEF Block
    <3>4. ColumnOf(name, c) = Coarse(t.suffix, k)
      BY <1>6, <2>1 DEF ColumnOf
    <3> QED BY <1>1, <1>3, <1>8, <2>4, <3>1, <3>3, <3>4 DEF Content
  <2>5. 0 + k - 0 = k /\ k \in 0 .. 0 + cols - 1 /\ c[1] = r /\ c[2] = k
    BY <1>2, <2>1
  <2> HIDE DEF to
  <2> QED BY <2>3, <2>4, <2>5
<1> QED BY <1>5, <1>8 DEF Stored, With, name, l, half, x, cols, from

LEMMA ColumnsAreStored ==
  ASSUME TypeInv, NEW t \in Checkpoint, ParamName(t) \in Registered, LocalExpertId(t.expert) # -1,
         t.shard = "w2"
  PROVE  LET name == ParamName(t)
             l == LocalExpertId(t.expert)
         IN Stored(param[name][l], Repeated(t), <<0, Columns(name) * TpRank>>,
                   <<Shape[name][1], Columns(name)>>, <<0, 0>>)
              = With(t, name, l)
<1> DEFINE name == ParamName(t)
           l == LocalExpertId(t.expert)
           x == Repeated(t)
           rows == Shape[name][1]
           cols == Columns(name)
           from == cols * TpRank
<1>1. /\ l \in LocalExperts /\ name \in W2
      /\ \A c \in CellsOf(name) : ShardOf(name, c) = t.shard => TensorOf(name, l, c) = t
  BY TensorGoesTo
<1>2. /\ rows \in Nat /\ cols \in Nat /\ CellsOf(name) = (0 .. rows - 1) \X (0 .. cols - 1)
  BY <1>1, SizesOfCells DEF CellsOf, Block, Columns, TypeInv
<1>3. /\ x.rows = rows /\ x.cols = TpSize * cols
      /\ \A c \in Block(x.rows, x.cols) : x.at[c] = <<t, c[1], Coarse(t.suffix, c[2])>>
  BY <1>1, TensorIs DEF TypeInv, Shards
<1>4. TpRank \in Nat /\ TpRank + 1 <= TpSize /\ TpSize \in Nat
  BY RankIs, ConfigSizes DEF TypeInv
<1>5. DOMAIN param[name][l] = CellsOf(name)
  BY <1>1 DEF TypeInv
<1>6. SuffixOf(name) = t.suffix
  BY <1>1, Names DEF Shards
<1>7. from \in Nat /\ from + cols <= TpSize * cols /\ from = TpRank * cols
  <2>1. (TpRank + 1) * cols <= TpSize * cols /\ (TpRank + 1) * cols = cols * TpRank + cols
    BY <1>2, <1>4
  <2> QED BY <1>2, <1>4, <2>1
<1> HIDE DEF name, l, x, rows, cols, from
<1>8. ASSUME NEW c \in CellsOf(name)
      PROVE  (IF c[1] \in 0 .. 0 + rows - 1 /\ c[2] \in 0 .. 0 + cols - 1
                THEN x.at[<<0 + c[1] - 0, from + c[2] - 0>>] ELSE param[name][l][c])
             = (IF ShardOf(name, c) = t.shard THEN Content(name, l, c) ELSE param[name][l][c])
  <2>1. PICK r \in 0 .. rows - 1, k \in 0 .. cols - 1 : c = <<r, k>>
    BY <1>2, <1>8
  <2>2. ShardOf(name, c) = t.shard
    BY <1>1 DEF ShardOf
  <2>3. from + k \in 0 .. x.cols - 1
    <3>1. PICK all \in Nat : all = TpSize * cols
      BY <1>2, <1>4
    <3>2. from + cols <= all /\ x.cols = all
      BY <1>3, <1>7, <3>1
    <3> QED BY <1>2, <1>7, <2>1, <3>2
  <2>4. <<r, from + k>> \in Block(x.rows, x.cols)
    BY <1>3, <2>1, <2>3 DEF Block
  <2>5. RowOf(name, c) = r /\ ColumnOf(name, c) = Coarse(t.suffix, from + k)
    BY <1>1, <1>6, <1>7, <2>1 DEF RowOf, ColumnOf, cols
  <2>6. x.at[<<r, from + k>>] = Content(name, l, c)
    BY <1>1, <1>3, <1>8, <2>2, <2>4, <2>5 DEF Content
  <2>7. /\ 0 + r - 0 = r /\ from + k - 0 = from + k /\ c[1] = r /\ c[2] = k
        /\ r \in 0 .. 0 + rows - 1 /\ k \in 0 .. 0 + cols - 1
    BY <1>2, <1>7, <2>1
  <2> QED BY <2>2, <2>6, <2>7
<1> QED BY <1>5, <1>8 DEF Stored, With, name, l, x, rows, cols, from

\* What LoadTensor does: all that belongs to the tensor is stored, or, of a
\* checkpoint with zeros of 8 bits, nothing.
LEMMA LoadsAll ==
  ASSUME TypeInv, NEW t \in todo, LoadTensor(t)
  PROVE  LET name == ParamName(t)
             l == LocalExpertId(t.expert)
         IN \/ param' = [param EXCEPT ![name][l] = With(t, name, l)] /\ failed' = failed
            \/ param' = param /\ failed' = TRUE /\ config.bits = 8 /\ HasZeroPoint
<1> DEFINE name == ParamName(t)
           l == LocalExpertId(t.expert)
           half == Half(name)
           x == Repeated(t)
           cols == Columns(name)
           AllStored == param' = [param EXCEPT ![name][l] = With(t, name, l)] /\ failed' = failed
<1>1. t \in Checkpoint /\ name \in Registered /\ l # -1
  BY DEF LoadTensor, TypeInv
<1>2. /\ l \in LocalExperts /\ t.shard \in Shards
      /\ name \in (IF t.shard = "w2" THEN W2 ELSE W13)
  BY <1>1, TensorGoesTo
<1>3. /\ t.shard # "w2" => x.rows = TpSize * half /\ x.cols = cols
      /\ t.shard = "w2" => x.rows = Shape[name][1] /\ x.cols = TpSize * cols
  BY <1>1, <1>2, TensorIs DEF TypeInv
<1>4. /\ TpSize \in Nat \ {0} /\ TpRank \in Nat /\ cols \in Nat /\ Shape[name][1] \in Nat
      /\ t.shard # "w2" => half \in Nat /\ Shape[name][1] = 2 * half
  BY <1>2, ConfigSizes, RankIs, SizesOfCells DEF TypeInv
<1>5. /\ t.shard # "w2" => x.rows \div TpSize = half /\ x.rows % TpSize = 0
      /\ t.shard = "w2" => x.cols \div TpSize = cols /\ x.cols % TpSize = 0
  <2>1. ASSUME NEW m \in Nat, NEW v, v = TpSize * m PROVE v \div TpSize = m /\ v % TpSize = 0
    <3>1. PICK c \in Nat \ {0} : c = TpSize
      BY <1>4
    <3>2. v = m * c
      BY <2>1, <3>1
    <3>3. (m * c) \div c = m /\ (m * c) % c = 0
      BY MultipleQuotient
    <3> QED BY <3>1, <3>2, <3>3, Zenon
  <2> HIDE DEF name, half, x, cols
  <2> QED BY <1>3, <1>4, <2>1
<1>6. Shape[name][2] = cols /\ (t.shard # "w2" => Shape[name][1] \div 2 = half)
  BY DEF Columns, Half
<1> HIDE DEF name, l, half, x, cols
<1>7. CASE t.shard # "w2" /\ name # "w13_qzeros"
  <2>1. name \in {"w13_qweight", "w13_scales"}
    BY <1>2, <1>7 DEF W13
  <2>2. LoadW13(name, l, t.shard, x)
    BY <2>1 DEF LoadTensor, name, l, x
  <2>3. Fits(<<half, cols>>, <<half, cols>>)
    BY <1>4, <1>7 DEF Fits
  <2>4. Store(name, l, x, <<half * TpRank, 0>>, <<half, cols>>,
              <<IF t.shard = "w1" THEN 0 ELSE half, 0>>, TRUE)
    BY <1>3, <1>5, <1>6, <1>7, <2>2, <2>3 DEF LoadW13
  <2>5. Stored(param[name][l], x, <<half * TpRank, 0>>, <<half, cols>>,
               <<IF t.shard = "w1" THEN 0 ELSE half, 0>>) = With(t, name, l)
    BY <1>1, <1>7, HalfIsStored DEF name, l, half, x, cols
  <2>6. AllStored
    BY <2>4, <2>5 DEF Store
  <2> QED BY <2>6 DEF name, l
<1>8. CASE t.shard # "w2" /\ name = "w13_qzeros"
  <2>1. LoadW13Zeros(l, t.shard, x)
    BY <1>8 DEF LoadTensor, name, l, x
  <2>2. /\ half = IntermediateBytes /\ HasZeroPoint
        /\ Pack \in {1, 2} /\ (Pack = 1 <=> config.bits = 8)
        /\ IntermediateBytes * Pack = IntermediatePerPartition
        /\ IntermediatePerPartition \in Nat \ {0} /\ IntermediateBytes \in Nat
    BY <1>1, <1>8, Shapes, ConfigSizes, WholeBytesAndGroups DEF half, name, Registered, TypeInv
  <2> DEFINE slice == IntermediatePerPartition \div 2
             room == IF t.shard = "w1" THEN slice ELSE 2 * half - slice
  <2>3. Store("w13_qzeros", l, x, <<half * TpRank, 0>>, <<half, cols>>,
              <<IF t.shard = "w1" THEN 0 ELSE slice, 0>>, <<half, cols>> = <<room, cols>>)
    <3>1. Shape["w13_qzeros"] [1] = 2 * half /\ Shape["w13_qzeros"] [2] = cols
      BY <1>4, <1>6, <1>8
    <3> QED BY <1>3, <1>5, <1>8, <2>1, <3>1 DEF LoadW13Zeros
  <2>4. CASE Pack = 2
    <3>1. slice = half /\ room = half
      BY <2>2, <2>4
    <3>2. Stored(param[name][l], x, <<half * TpRank, 0>>, <<half, cols>>,
                 <<IF t.shard = "w1" THEN 0 ELSE half, 0>>) = With(t, name, l)
      BY <1>1, <1>8, HalfIsStored DEF name, l, half, x, cols
    <3> HIDE DEF slice, room
    <3>3. AllStored
      BY <1>8, <2>3, <3>1, <3>2 DEF Store
    <3> QED BY <3>3 DEF name, l
  <2>5. CASE Pack = 1
    <3>1. half # room
      BY <2>2, <2>5
    <3> HIDE DEF slice, room
    <3> QED BY <2>2, <2>3, <2>5, <3>1 DEF Store
  <2> QED BY <2>2, <2>4, <2>5
<1>9. CASE t.shard = "w2"
  <2>1. Store(name, l, x, <<0, cols * TpRank>>, <<Shape[name][1], cols>>, <<0, 0>>, TRUE)
    <3>1. CASE name = "w2_qzeros"
      <4>1. LoadW2Zeros(l, x)
        BY <3>1 DEF LoadTensor, name, l, x
      <4>2. Shape[name] = <<Shape[name][1], cols>>
        BY <1>6, <3>1 DEF Shape
      <4> QED BY <1>3, <1>5, <1>9, <3>1, <4>1, <4>2 DEF LoadW2Zeros
    <3>2. CASE name # "w2_qzeros"
      <4>1. name \in {"w2_qweight", "w2_scales"}
        BY <1>2, <1>9, <3>2 DEF W2
      <4>2. LoadW2(name, l, x)
        BY <4>1 DEF LoadTensor, name, l, x
      <4>3. Fits(<<Shape[name][1], cols>>, Shape[name])
        BY <1>4, <1>6 DEF Fits
      <4> QED BY <1>3, <1>5, <1>9, <4>2, <4>3 DEF LoadW2
    <3> QED BY <3>1, <3>2
  <2>2. Stored(param[name][l], x, <<0, cols * TpRank>>, <<Shape[name][1], cols>>, <<0, 0>>)
          = With(t, name, l)
    BY <1>1, <1>9, ColumnsAreStored DEF name, l, x, cols
  <2>3. AllStored
    BY <2>1, <2>2 DEF Store
  <2> QED BY <2>3 DEF name, l
<1> QED BY <1>7, <1>8, <1>9

-----------------------------------------------------------------------------
(***************************************************************************)
(* The invariant is inductive.                                             *)
(***************************************************************************)
LEMMA Outside ==
  ASSUME config' = config, rank' = rank
  PROVE  /\ Registered' = Registered /\ LocalExperts' = LocalExperts /\ Checkpoint' = Checkpoint
         /\ GroupSizeIsSupported' = GroupSizeIsSupported /\ IsRank(rank)' = IsRank(rank)
         /\ \A name : CellsOf(name)' = CellsOf(name)
         /\ \A name, c : ShardOf(name, c)' = ShardOf(name, c)
         /\ \A name, l, c : TensorOf(name, l, c)' = TensorOf(name, l, c)
         /\ \A name, l, c : Content(name, l, c)' = Content(name, l, c)
<1>1. /\ IntermediatePerPartition' = IntermediatePerPartition /\ Hidden' = Hidden
      /\ CkptGroupSize' = CkptGroupSize /\ EpSize' = EpSize /\ TpSize' = TpSize
      /\ NumExperts' = NumExperts /\ Pack' = Pack /\ HasZeroPoint' = HasZeroPoint
  BY DEF IntermediatePerPartition, Intermediate, Hidden, CkptGroupSize, EpSize, TpSize,
         NumExperts, Pack, HasZeroPoint
<1>2. \A d : Divides(d)' = Divides(d)
  BY <1>1 DEF Divides
<1>3. GroupSizeIsSupported' = GroupSizeIsSupported /\ GroupSizeDivFactor' = GroupSizeDivFactor
  BY <1>1, <1>2 DEF GroupSizeIsSupported, GroupSizeDivFactor
<1>4. GroupSize' = GroupSize
  BY <1>1, <1>3 DEF GroupSize
<1>5. Shape' = Shape
  BY <1>1, <1>4 DEF Shape
<1>6. /\ Registered' = Registered /\ LocalExperts' = LocalExperts /\ Checkpoint' = Checkpoint
      /\ IsRank(rank)' = IsRank(rank) /\ TpRank' = TpRank
  BY <1>1 DEF Registered, LocalExperts, Checkpoint, IsRank, TpRank
<1>7. \A name : /\ Half(name)' = Half(name) /\ Columns(name)' = Columns(name)
                /\ CellsOf(name)' = CellsOf(name)
  BY <1>5 DEF Half, Columns, CellsOf
<1>8. \A l : GlobalExpert(l)' = GlobalExpert(l)
  BY <1>1 DEF GlobalExpert
<1>9. \A suffix, k : Coarse(suffix, k)' = Coarse(suffix, k)
  BY <1>3 DEF Coarse
<1>10. \A name, c : ShardOf(name, c)' = ShardOf(name, c)
  BY <1>7 DEF ShardOf
<1>11. \A name, l, c : TensorOf(name, l, c)' = TensorOf(name, l, c)
  BY <1>8, <1>10 DEF TensorOf
<1>12. \A name, c : RowOf(name, c)' = RowOf(name, c) /\ ColumnOf(name, c)' = ColumnOf(name, c)
  BY <1>6, <1>7, <1>9 DEF RowOf, ColumnOf
<1>13. \A name, l, c : Content(name, l, c)' = Content(name, l, c)
  BY <1>11, <1>12 DEF Content
<1> QED BY <1>3, <1>6, <1>7, <1>10, <1>11, <1>13

LEMMA InitInv == Init => IInv
<1> SUFFICES ASSUME Init PROVE IInv
  OBVIOUS
<1>1. TypeInv
  BY DEF Init, TypeInv, IsRank, CellsOf
<1>2. ASSUME NEW name \in Registered, NEW l \in LocalExperts, NEW c \in CellsOf(name)
      PROVE  CellInv(name, l, c)
  BY <1>2 DEF Init, CellInv, CellsOf
<1> QED BY <1>1, <1>2 DEF IInv, Failures, Init

\* The configuration decides which tensors have no parameter.
LEMMA UnusedFrame ==
  ASSUME config' = config
  PROVE  UnusedAreRegistered' <=> UnusedAreRegistered
<1>1. \A t : Unused(t)' <=> Unused(t)
  BY DEF Unused, HasZeroPoint
<1>2. Checkpoint' = Checkpoint
  BY DEF Checkpoint, NumExperts
<1> QED BY <1>1, <1>2 DEF UnusedAreRegistered

\* The steps that store nothing, of a tensor that no cell comes from.
LEMMA SkippedTensor ==
  ASSUME IInv, NEW t \in todo, Take(t), param' = param,
         failed' = failed \/ (failed' = TRUE /\ ~UnusedAreRegistered),
         \A name \in Registered, l \in LocalExperts : \A c \in CellsOf(name) : TensorOf(name, l, c) # t
  PROVE  IInv'
<1>1. config' = config /\ rank' = rank /\ todo' = todo \ {t} /\ param' = param /\ ~failed
  BY DEF Take
<1>2. TypeInv'
  BY <1>1, Outside DEF IInv, TypeInv
<1>3. Failures'
  BY <1>1, UnusedFrame DEF Failures, HasZeroPoint
<1>4. ASSUME NEW name \in Registered, NEW l \in LocalExperts, NEW c \in CellsOf(name)
      PROVE  CellInv(name, l, c)'
  <2>1. CellInv(name, l, c) /\ TensorOf(name, l, c) # t
    BY DEF IInv
  <2>2. TensorOf(name, l, c)' = TensorOf(name, l, c) /\ Content(name, l, c)' = Content(name, l, c)
        /\ Checkpoint' = Checkpoint
    BY <1>1, Outside
  <2> QED BY <1>1, <2>1, <2>2 DEF CellInv
<1>5. Registered' = Registered /\ LocalExperts' = LocalExperts /\ \A name : CellsOf(name)' = CellsOf(name)
  BY <1>1, Outside
<1> QED BY <1>2, <1>3, <1>4, <1>5 DEF IInv

\* A registered name has one of the three suffixes, and zeros are registered
\* only with a zero point.
LEMMA CellsHaveATensor ==
  ASSUME TypeInv, NEW name \in Registered, NEW l \in LocalExperts, NEW c \in CellsOf(name)
  PROVE  LET t == TensorOf(name, l, c)
         IN /\ t.suffix \in {"qweight", "scales", "qzeros"} /\ (t.suffix = "qzeros" => HasZeroPoint)
            /\ LocalExpertId(t.expert) = l /\ l # -1
            /\ ParamName(t) = name
<1>1. SuffixOf(name) \in {"qweight", "scales", "qzeros"} /\ (SuffixOf(name) = "qzeros" => HasZeroPoint)
  BY DEF SuffixOf, Registered
<1>2. LocalExpertId(GlobalExpert(l)) = l /\ l # -1
  BY ExpertsAreNumbered DEF TypeInv
<1>3. ASSUME NEW t, t.suffix = SuffixOf(name), t.shard = ShardOf(name, c) PROVE ParamName(t) = name
  BY <1>3 DEF ParamName, ShardOf, SuffixOf, Registered, W2
<1> QED BY <1>1, <1>2, <1>3 DEF TensorOf

LEMMA LoadedTensor ==
  ASSUME IInv, NEW t \in todo, LoadTensor(t)
  PROVE  /\ IInv'
         /\ \A name \in Registered, l \in LocalExperts : \A c \in CellsOf(name) :
              param[name][l][c] # Empty => param'[name][l][c] = param[name][l][c]
<1> DEFINE n == ParamName(t)
           e == LocalExpertId(t.expert)
<1>1. config' = config /\ rank' = rank /\ todo' = todo \ {t}
  BY DEF LoadTensor, Take
<1>2. t \in Checkpoint /\ n \in Registered /\ e # -1 /\ ~failed
  BY DEF LoadTensor, Take, IInv, TypeInv
<1>3. e \in LocalExperts
  BY <1>2, TensorGoesTo DEF IInv
<1>4. \A c \in CellsOf(n) : ShardOf(n, c) = t.shard <=> TensorOf(n, e, c) = t
  <2>1. \A c \in CellsOf(n) : ShardOf(n, c) = t.shard => TensorOf(n, e, c) = t
    BY <1>2, TensorGoesTo DEF IInv
  <2> QED BY <2>1 DEF TensorOf
<1>5. \/ param' = [param EXCEPT ![n][e] = With(t, n, e)] /\ failed' = failed
      \/ param' = param /\ failed' = TRUE /\ config.bits = 8 /\ HasZeroPoint
  BY LoadsAll DEF IInv
<1>6. /\ DOMAIN param = Registered
      /\ \A name \in Registered : DOMAIN param[name] = LocalExperts
      /\ \A name \in Registered, l \in LocalExperts : DOMAIN param[name][l] = CellsOf(name)
  BY DEF IInv, TypeInv
<1>7. /\ DOMAIN With(t, n, e) = CellsOf(n)
      /\ \A c \in CellsOf(n) :
           With(t, n, e)[c] = IF TensorOf(n, e, c) = t THEN Content(n, e, c) ELSE param[n][e][c]
  BY <1>4 DEF With
<1> HIDE DEF n, e
<1>8. /\ DOMAIN param' = Registered
      /\ \A name \in Registered : DOMAIN param'[name] = LocalExperts
      /\ \A name \in Registered, l \in LocalExperts :
           DOMAIN param'[name][l] = CellsOf(name)
  BY <1>2, <1>3, <1>5, <1>6, <1>7
<1>9. ASSUME NEW name \in Registered, NEW l \in LocalExperts
      PROVE  \/ param'[name][l] = param[name][l] /\ (name = n /\ l = e => failed')
             \/ name = n /\ l = e /\ param'[name][l] = With(t, n, e) /\ ~failed'
  BY <1>2, <1>3, <1>5, <1>6
<1>10. \A name \in Registered, l \in LocalExperts : \A c \in CellsOf(name) :
         TensorOf(name, l, c) = t => name = n /\ l = e
  BY CellsHaveATensor DEF IInv, n, e
<1>11. TypeInv'
  <2>1. failed' \in BOOLEAN
    BY <1>5 DEF IInv, TypeInv
  <2> QED BY <1>1, <1>8, <2>1, Outside DEF IInv, TypeInv
<1>12. Failures'
  BY <1>1, <1>2, <1>5, UnusedFrame DEF Failures, HasZeroPoint
<1>13. ASSUME NEW name \in Registered, NEW l \in LocalExperts, NEW c \in CellsOf(name)
       PROVE  /\ CellInv(name, l, c)'
              /\ param[name][l][c] # Empty => param'[name][l][c] = param[name][l][c]
  <2>1. CellInv(name, l, c)
    BY DEF IInv
  <2>2. TensorOf(name, l, c)' = TensorOf(name, l, c) /\ Content(name, l, c)' = Content(name, l, c)
        /\ Checkpoint' = Checkpoint
    BY <1>1, Outside
  <2>3. CASE TensorOf(name, l, c) # t
    <3>1. param'[name][l][c] = param[name][l][c]
      BY <1>7, <1>9, <2>3
    <3>2. failed => failed'
      BY <1>2
    <3> QED BY <1>1, <2>1, <2>2, <2>3, <3>1, <3>2 DEF CellInv
  <2>4. CASE TensorOf(name, l, c) = t
    <3>1. name = n /\ l = e
      BY <1>10, <2>4
    <3>2. param[name][l][c] = Empty
      BY <2>1, <2>4 DEF CellInv
    <3>3. \/ param'[name][l][c] = Empty /\ failed'
          \/ param'[name][l][c] = Content(name, l, c)
      BY <1>7, <1>9, <2>4, <3>1, <3>2
    <3>4. t \notin todo'
      BY <1>1
    <3> QED BY <2>2, <2>4, <3>2, <3>3, <3>4 DEF CellInv
  <2> QED BY <2>3, <2>4
<1>14. Registered' = Registered /\ LocalExperts' = LocalExperts /\ \A name : CellsOf(name)' = CellsOf(name)
  BY <1>1, Outside
<1> QED BY <1>11, <1>12, <1>13, <1>14 DEF IInv

LEMMA StepInv == IInv /\ [Next]_vars => IInv'
<1> SUFFICES ASSUME IInv, [Next]_vars PROVE IInv'
  OBVIOUS
<1>1. ASSUME NEW t \in todo, SkipSpurious(t) PROVE IInv'
  <2>1. t.suffix \notin {"qweight", "scales", "qzeros"}
    BY <1>1 DEF SkipSpurious
  <2> QED BY <1>1, <2>1, CellsHaveATensor, SkippedTensor DEF SkipSpurious, IInv
<1>2. ASSUME NEW t \in todo, SkipUnused(t) PROVE IInv'
  <2>1. t.suffix \notin {"qweight", "scales"} /\ (t.suffix = "qzeros" => ~HasZeroPoint)
    BY <1>2 DEF SkipUnused, Unused
  <2> QED BY <1>2, <2>1, CellsHaveATensor, SkippedTensor DEF SkipUnused, IInv
<1>3. ASSUME NEW t \in todo, SkipRemote(t) PROVE IInv'
  <2>1. LocalExpertId(t.expert) = -1
    BY <1>3 DEF SkipRemote
  <2> QED BY <1>3, <2>1, CellsHaveATensor, SkippedTensor DEF SkipRemote, IInv
<1>4. ASSUME NEW t \in todo, LoadTensor(t) PROVE IInv'
  BY <1>4, LoadedTensor
<1>5. ASSUME NEW t \in todo, RaiseUnregistered(t) PROVE IInv'
  <2>1. t.suffix \notin {"qweight", "scales"} /\ (t.suffix = "qzeros" => ~HasZeroPoint)
    BY <1>5 DEF RaiseUnregistered, Unused
  <2>2. Take(t) /\ param' = param /\ failed' = TRUE /\ ~UnusedAreRegistered
    <3>1. t \in Checkpoint /\ Unused(t) /\ config.method # "gptq"
      BY <1>5 DEF RaiseUnregistered, IInv, TypeInv
    <3> QED BY <1>5, <3>1 DEF RaiseUnregistered, UnusedAreRegistered
  <2>3. \A name \in Registered, l \in LocalExperts : \A c \in CellsOf(name) : TensorOf(name, l, c) # t
    BY <2>1, CellsHaveATensor DEF IInv
  <2> QED BY <2>2, <2>3, SkippedTensor
<1>6. CASE Stop \/ UNCHANGED vars
  <2>1. /\ config' = config /\ rank' = rank /\ todo' = todo /\ param' = param /\ failed' = failed
    BY <1>6 DEF Stop, vars
  <2>2. TypeInv'
    BY <2>1, Outside DEF IInv, TypeInv
  <2>3. Failures'
    BY <2>1, UnusedFrame DEF IInv, Failures, HasZeroPoint
  <2>4. ASSUME NEW name \in Registered, NEW l \in LocalExperts, NEW c \in CellsOf(name)
        PROVE  CellInv(name, l, c)'
    <3>1. TensorOf(name, l, c)' = TensorOf(name, l, c) /\ Content(name, l, c)' = Content(name, l, c)
          /\ Checkpoint' = Checkpoint
      BY <2>1, Outside
    <3> QED BY <2>1, <3>1 DEF IInv, CellInv
  <2>5. Registered' = Registered /\ LocalExperts' = LocalExperts /\ \A name : CellsOf(name)' = CellsOf(name)
    BY <2>1, Outside
  <2> QED BY <2>2, <2>3, <2>4, <2>5 DEF IInv
<1> QED BY <1>1, <1>2, <1>3, <1>4, <1>6, <1>5 DEF Next

\* The invariant the theorems below follow from.
THEOREM Invariance == Spec => []IInv
<1> QED BY InitInv, StepInv, PTL DEF Spec

-----------------------------------------------------------------------------
(***************************************************************************)
(* What the kernel reads.                                                  *)
(***************************************************************************)

\* In whatever order load_weights is given the tensors of a checkpoint, the
\* number, the scale and the zero the kernel reads for a weight are those of
\* that weight, for every division of experts and of features among ranks.
THEOREM SourcesCorrect == Spec => []OnlyItsOwnSource
<1>1. IInv => OnlyItsOwnSource
  <2> SUFFICES ASSUME IInv, NEW w \in Weights, NEW s \in Needed
               PROVE  param[Part(w, s)][w.expert][CellOf(w, s)] \in {Empty, SourceOf(w, s)}
    BY DEF OnlyItsOwnSource
  <2> QED BY KernelReadsItsSource DEF IInv, TypeInv, CellInv
<1> QED BY <1>1, Invariance, PTL

\* Once the checkpoint is exhausted and no store has raised, create_weights
\* has made no cell that the kernel reads and load_weights has not filled.
THEOREM NothingMissing == Spec => []NothingIsMissing
<1>1. IInv => NothingIsMissing
  <2> SUFFICES ASSUME IInv, todo = {}, ~failed, NEW w \in Weights, NEW s \in Needed
               PROVE  param[Part(w, s)][w.expert][CellOf(w, s)] # Empty
    BY DEF NothingIsMissing
  <2> DEFINE name == Part(w, s)
             l == w.expert
             c == CellOf(w, s)
  <2>1. name \in Registered /\ l \in LocalExperts /\ c \in CellsOf(name) /\ TensorOf(name, l, c) \in Checkpoint
    BY KernelReadsItsSource DEF IInv, TypeInv
  <2>2. param[name][l][c] = Content(name, l, c)
    BY <2>1 DEF IInv, CellInv
  <2>3. Content(name, l, c) # Empty
    BY DEF Content, Empty
  <2> QED BY <2>2, <2>3
<1> QED BY <1>1, Invariance, PTL

\* Where every tensor has a parameter, the only checkpoints the loader may
\* fail on are those with zero points of 8 bits, which the code accepts: the
\* shapes create_weights gives the parameters are those of the slices.
NoZerosOf8Bits == config.bits = 8 => ~HasZeroPoint
THEOREM FitsCorrect == Spec => [](NoZerosOf8Bits => EveryTensorFits)
<1>1. IInv => (NoZerosOf8Bits => EveryTensorFits)
  BY DEF IInv, Failures, NoZerosOf8Bits, EveryTensorFits
<1> QED BY <1>1, Invariance, PTL

\* No two tensors have a cell in common: what one has stored no later one
\* overwrites.
THEOREM StoredOnce == Spec => NeverOverwritten
<1> DEFINE Kept == \A name \in Registered, l \in LocalExperts :
                     \A c \in DOMAIN param[name][l] :
                       param[name][l][c] # Empty => param'[name][l][c] = param[name][l][c]
<1>1. IInv /\ [Next]_vars => [Kept]_vars
  <2> SUFFICES ASSUME IInv, Next PROVE Kept
    OBVIOUS
  <2>1. \A name \in Registered, l \in LocalExperts : DOMAIN param[name][l] = CellsOf(name)
    BY DEF IInv, TypeInv
  <2>2. ASSUME NEW t \in todo, LoadTensor(t) PROVE Kept
    BY <2>1, <2>2, LoadedTensor
  <2>3. CASE Stop
    BY <2>3 DEF Stop, vars
  <2>4. ASSUME NEW t \in todo, SkipSpurious(t) \/ SkipUnused(t) \/ RaiseUnregistered(t) \/ SkipRemote(t)
        PROVE  Kept
    BY <2>4 DEF SkipSpurious, SkipUnused, RaiseUnregistered, SkipRemote
  <2> QED BY <2>2, <2>3, <2>4 DEF Next
<1>2. Spec => [][Kept]_vars
  <2> HIDE DEF Kept
  <2> QED BY <1>1, Invariance, PTL DEF Spec
<1> QED BY <1>2 DEF NeverOverwritten

-----------------------------------------------------------------------------
(***************************************************************************)
(* The conversions of WeightFormat.                                        *)
(***************************************************************************)
LEMMA Eighths ==
  ASSUME NEW n \in Nat, n % 8 = 0, NEW v \in 0 .. n - 1
  PROVE  /\ v \div 8 \in 0 .. (n \div 8) - 1 /\ v % 8 \in 0 .. 7 /\ v = 8 * (v \div 8) + (v % 8)
         /\ v \div 4 \in 0 .. (n \div 4) - 1 /\ v % 4 \in 0 .. 3 /\ v = 4 * (v \div 4) + (v % 4)
         /\ v \div 2 \in 0 .. (n \div 2) - 1 /\ 2 * (v \div 2) \in 0 .. n - 1
         /\ 2 * (v \div 2) + 1 \in 0 .. n - 1
         /\ (v % 2 = 0 /\ v = 2 * (v \div 2)) \/ (v % 2 = 1 /\ v = 2 * (v \div 2) + 1)
<1>1. PICK m \in Nat : n = 8 * m
  <2>1. n = 8 * (n \div 8) /\ n \div 8 \in Nat
    OBVIOUS
  <2> QED BY <2>1
<1>2. n \div 8 = m /\ n \div 4 = 2 * m /\ n \div 2 = 4 * m
  BY <1>1
<1>3. /\ v % 8 \in 0 .. 7 /\ v = 8 * (v \div 8) + (v % 8) /\ v \div 8 \in Nat
      /\ v % 4 \in 0 .. 3 /\ v = 4 * (v \div 4) + (v % 4) /\ v \div 4 \in Nat
      /\ v % 2 \in 0 .. 1 /\ v = 2 * (v \div 2) + (v % 2) /\ v \div 2 \in Nat
  OBVIOUS
<1>4. v \in Nat /\ v < 8 * m
  BY <1>1
<1> QED BY <1>1, <1>2, <1>3, <1>4

LEMMA Quarters ==
  ASSUME NEW n \in Nat, n % 8 = 0, NEW b \in 0 .. (n \div 2) - 1
  PROVE  /\ b \div 4 \in 0 .. (n \div 8) - 1 /\ b % 4 \in 0 .. 3
         /\ 8 * (b \div 4) + 2 * (b % 4) = 2 * b
<1>1. PICK m \in Nat : n = 8 * m
  <2>1. n = 8 * (n \div 8) /\ n \div 8 \in Nat
    OBVIOUS
  <2> QED BY <2>1
<1>2. n \div 8 = m /\ n \div 2 = 4 * m
  BY <1>1
<1>3. b \in Nat /\ b < 4 * m
  BY <1>2
<1>4. b % 4 \in 0 .. 3 /\ b = 4 * (b \div 4) + (b % 4) /\ b \div 4 \in Nat
  OBVIOUS
<1> QED BY <1>2, <1>3, <1>4

LEMMA Nibbles ==
  ASSUME NEW a \in 0 .. 15, NEW b \in 0 .. 15
  PROVE  /\ Nibble(a + 16 * b, 0) = a /\ Nibble(a + 16 * b, 1) = b
         /\ Nibble(Repack(a, b), 0) = a /\ Nibble(Repack(a, b), 1) = b
BY DEF Nibble, Repack

\* A tensor of the checkpoint: numbers of 4 or of 8 bits.
IsTensor(numbers, bits) ==
  numbers \in [Cells -> 0 .. (IF bits = 4 THEN 15 ELSE 255)]

LEMMA CellIs ==
  ASSUME NEW c \in Cells
  PROVE  /\ c[1] \in 0 .. Rows - 1 /\ c[2] \in 0 .. Outputs - 1 /\ c = <<c[1], c[2]>>
         /\ Rows \in Nat /\ Rows % 8 = 0 /\ Outputs \in Nat /\ Outputs % 8 = 0
BY ShapeAssumption DEF Cells

\* The nibbles of an int32 of AWQ, put back in order.
LEMMA AwqUnpacked ==
  ASSUME NEW numbers, IsTensor(numbers, 4), NEW r \in 0 .. Rows - 1, NEW m \in 0 .. Outputs - 1
  PROVE  LET p == 8 * (m \div 8) + ReverseAwqPackOrder[(m % 8) + 1]
         IN Nibble(AwqInts(numbers)[<<r, (p \div 2) \div 4>>][(p \div 2) % 4], p % 2) = numbers[<<r, m>>]
<1> DEFINE x == AwqInts(numbers)
<1>1. Outputs \in Nat /\ Outputs % 8 = 0 /\ Rows \in Nat
  BY ShapeAssumption
<1>2. PICK i \in 0 .. (Outputs \div 8) - 1, k \in 0 .. 7 : m = 8 * i + k
  <2>1. m \div 8 \in 0 .. (Outputs \div 8) - 1 /\ m % 8 \in 0 .. 7 /\ m = 8 * (m \div 8) + (m % 8)
    BY <1>1, Eighths
  <2> QED BY <2>1
<1>3. m \div 8 = i /\ m % 8 = k
  BY <1>2
<1>4. ASSUME NEW j \in 0 .. 3
      PROVE  /\ Nibble(x[<<r, i>>][j], 0) = numbers[<<r, 8 * i + AwqOrder[2 * j + 1]>>]
             /\ Nibble(x[<<r, i>>][j], 1) = numbers[<<r, 8 * i + AwqOrder[2 * j + 2]>>]
  <2> DEFINE a == numbers[<<r, 8 * i + AwqOrder[2 * j + 1]>>]
             b == numbers[<<r, 8 * i + AwqOrder[2 * j + 2]>>]
  <2>1. AwqOrder[2 * j + 1] \in 0 .. 7 /\ AwqOrder[2 * j + 2] \in 0 .. 7
    BY DEF AwqOrder
  <2>2. a \in 0 .. 15 /\ b \in 0 .. 15
    BY <1>1, <2>1 DEF IsTensor, Cells
  <2>3. x[<<r, i>>][j] = a + 16 * b
    BY DEF AwqInts
  <2> HIDE DEF a, b
  <2>4. Nibble(x[<<r, i>>][j], 0) = a /\ Nibble(x[<<r, i>>][j], 1) = b
    BY <2>2, <2>3, Nibbles
  <2> QED BY <2>4 DEF a, b
<1> DEFINE p == 8 * i + ReverseAwqPackOrder[k + 1]
<1> HIDE DEF x
<1>5. Nibble(x[<<r, (p \div 2) \div 4>>][(p \div 2) % 4], p % 2) = numbers[<<r, 8 * i + k>>]
  <2> DEFINE o == ReverseAwqPackOrder[k + 1]
  <2>1. o \in 0 .. 7 /\ AwqOrder[o + 1] = k
    BY DEF ReverseAwqPackOrder, AwqOrder
  <2> HIDE DEF o
  <2>2. p = 8 * i + o
    BY DEF o
  <2>3. (p \div 2) \div 4 = i /\ (p \div 2) % 4 = o \div 2 /\ p % 2 = o % 2
    BY <2>1, <2>2
  <2>4. PICK j \in 0 .. 3 : j = o \div 2
    BY <2>1
  <2>5. CASE o % 2 = 0
    <3>1. o + 1 = 2 * j + 1
      BY <2>1, <2>4, <2>5
    <3> QED BY <1>4, <2>1, <2>3, <2>4, <2>5, <3>1
  <2>6. CASE o % 2 = 1
    <3>1. o + 1 = 2 * j + 2
      BY <2>1, <2>4, <2>6
    <3> QED BY <1>4, <2>1, <2>3, <2>4, <2>6, <3>1
  <2> QED BY <2>1, <2>5, <2>6
<1> QED BY <1>2, <1>3, <1>5 DEF x

LEMMA AwqSurvives ==
  ASSUME NEW numbers, IsTensor(numbers, 4), NEW kind \in {"qweight", "qzeros"}, NEW c \in Cells
  PROVE  ReadBack(4, kind, ConvertAwqTensor(kind, AwqInts(numbers)), c[1], c[2]) = numbers[c]
<1> DEFINE r == c[1]
           n == c[2]
           x == ConvertAwqTensor(kind, AwqInts(numbers))
           p(m) == 8 * (m \div 8) + ReverseAwqPackOrder[(m % 8) + 1]
           t(m, i) == Nibble(AwqInts(numbers)[<<i, (p(m) \div 2) \div 4>>][(p(m) \div 2) % 4], p(m) % 2)
<1>1. /\ r \in 0 .. Rows - 1 /\ n \in 0 .. Outputs - 1 /\ c = <<r, n>>
      /\ Rows \in Nat /\ Rows % 8 = 0 /\ Outputs \in Nat /\ Outputs % 8 = 0
  BY CellIs
<1>2. \A m \in 0 .. Outputs - 1, i \in 0 .. Rows - 1 :
        t(m, i) = numbers[<<i, m>>] /\ numbers[<<i, m>>] \in 0 .. 15
  BY AwqUnpacked DEF IsTensor, Cells
<1>3. x = IF kind = "qweight"
            THEN [d \in (0 .. Outputs - 1) \X (0 .. (Rows \div 2) - 1) |->
                    Repack(t(d[1], 2 * d[2]), t(d[1], 2 * d[2] + 1))]
            ELSE [d \in (0 .. (Outputs \div 2) - 1) \X (0 .. Rows - 1) |->
                    Repack(t(2 * d[1], d[2]), t(2 * d[1] + 1, d[2]))]
  BY DEF ConvertAwqTensor
<1> HIDE DEF x, r, n, t
<1>4. CASE kind = "qweight"
  <2>1. PICK b \in 0 .. (Rows \div 2) - 1 :
          /\ b = r \div 2 /\ 2 * b \in 0 .. Rows - 1 /\ 2 * b + 1 \in 0 .. Rows - 1
          /\ (r % 2 = 0 /\ r = 2 * b) \/ (r % 2 = 1 /\ r = 2 * b + 1)
    BY <1>1, Eighths
  <2>2. x[<<n, b>>] = Repack(t(n, 2 * b), t(n, 2 * b + 1))
    BY <1>1, <1>3, <1>4
  <2>3. /\ t(n, 2 * b) = numbers[<<2 * b, n>>] /\ numbers[<<2 * b, n>>] \in 0 .. 15
        /\ t(n, 2 * b + 1) = numbers[<<2 * b + 1, n>>] /\ numbers[<<2 * b + 1, n>>] \in 0 .. 15
    BY <1>1, <1>2, <2>1
  <2>4. Nibble(x[<<n, b>>], 0) = numbers[<<2 * b, n>>] /\ Nibble(x[<<n, b>>], 1) = numbers[<<2 * b + 1, n>>]
    BY <2>2, <2>3, Nibbles
  <2>5. Nibble(x[<<n, r \div 2>>], r % 2) = numbers[<<r, n>>]
    <3>1. (r % 2 = 0 /\ r = 2 * b) \/ (r % 2 = 1 /\ r = 2 * b + 1)
      BY <1>1, <2>1
    <3> QED BY <2>1, <2>4, <3>1
  <2> QED BY <1>1, <1>4, <2>5 DEF ReadBack, x, r, n
<1>5. CASE kind = "qzeros"
  <2>1. PICK b \in 0 .. (Outputs \div 2) - 1 :
          /\ b = n \div 2 /\ 2 * b \in 0 .. Outputs - 1 /\ 2 * b + 1 \in 0 .. Outputs - 1
          /\ (n % 2 = 0 /\ n = 2 * b) \/ (n % 2 = 1 /\ n = 2 * b + 1)
    BY <1>1, Eighths
  <2>2. x[<<b, r>>] = Repack(t(2 * b, r), t(2 * b + 1, r))
    BY <1>1, <1>3, <1>5
  <2>3. /\ t(2 * b, r) = numbers[<<r, 2 * b>>] /\ numbers[<<r, 2 * b>>] \in 0 .. 15
        /\ t(2 * b + 1, r) = numbers[<<r, 2 * b + 1>>] /\ numbers[<<r, 2 * b + 1>>] \in 0 .. 15
    BY <1>1, <1>2, <2>1
  <2>4. Nibble(x[<<b, r>>], 0) = numbers[<<r, 2 * b>>] /\ Nibble(x[<<b, r>>], 1) = numbers[<<r, 2 * b + 1>>]
    BY <2>2, <2>3, Nibbles
  <2>5. Nibble(x[<<n \div 2, r>>], n % 2) = numbers[<<r, n>>]
    <3>1. (n % 2 = 0 /\ n = 2 * b) \/ (n % 2 = 1 /\ n = 2 * b + 1)
      BY <1>1, <2>1
    <3> QED BY <2>1, <2>4, <3>1
  <2> QED BY <1>1, <1>5, <2>5 DEF ReadBack, x, r, n
<1> QED BY <1>4, <1>5

LEMMA GptqWeightSurvives ==
  ASSUME NEW bits \in {4, 8}, NEW numbers, IsTensor(numbers, bits), NEW c \in Cells
  PROVE  ReadBack(bits, "qweight", ConvertGptqWeight(bits, GptqWeightInts(bits, numbers)), c[1], c[2])
           = numbers[c]
<1> DEFINE r == c[1]
           n == c[2]
           x == GptqWeightInts(bits, numbers)
           y == ConvertGptqWeight(bits, x)
<1>1. /\ r \in 0 .. Rows - 1 /\ n \in 0 .. Outputs - 1 /\ c = <<r, n>>
      /\ Rows \in Nat /\ Rows % 8 = 0
  BY CellIs
<1>2. \A i \in 0 .. Rows - 1 : numbers[<<i, n>>] \in 0 .. (IF bits = 4 THEN 15 ELSE 255)
  BY <1>1 DEF IsTensor, Cells
<1>3. CASE bits = 8
  <2>1. r \div 4 \in 0 .. (Rows \div 4) - 1 /\ r % 4 \in 0 .. 3 /\ 4 * (r \div 4) + (r % 4) = r
    BY <1>1, Eighths
  <2>2. x[<<r \div 4, n>>][r % 4] = numbers[<<4 * (r \div 4) + (r % 4), n>>]
    <3>1. ASSUME NEW q \in 0 .. (Rows \div 4) - 1, NEW j \in 0 .. 3
          PROVE  x[<<q, n>>][j] = numbers[<<4 * q + j, n>>]
      <4>1. x = [d \in (0 .. (Rows \div 4) - 1) \X (0 .. Outputs - 1) |->
                   [i \in 0 .. 3 |-> numbers[<<4 * d[1] + i, d[2]>>]]]
        BY <1>3 DEF GptqWeightInts, IntPack
      <4> HIDE DEF x, r, n
      <4> QED BY <1>1, <4>1
    <3> QED BY <2>1, <3>1
  <2>3. y[<<n, r>>] = x[<<r \div 4, n>>][r % 4]
    BY <1>1, <1>3 DEF ConvertGptqWeight, BytePack
  <2>4. y[<<n, r>>] = numbers[<<r, n>>]
    BY <2>1, <2>2, <2>3
  <2> QED BY <1>1, <1>3, <2>4 DEF ReadBack
<1>4. CASE bits = 4
  <2>1. PICK b \in 0 .. (Rows \div 2) - 1 :
          /\ b = r \div 2 /\ 2 * b \in 0 .. Rows - 1 /\ 2 * b + 1 \in 0 .. Rows - 1
          /\ (r % 2 = 0 /\ r = 2 * b) \/ (r % 2 = 1 /\ r = 2 * b + 1)
    BY <1>1, Eighths
  <2>2. b \div 4 \in 0 .. (Rows \div 8) - 1 /\ b % 4 \in 0 .. 3
        /\ 8 * (b \div 4) + 2 * (b % 4) = 2 * b
    BY <1>1, Quarters
  <2>3. y[<<n, b>>] = x[<<b \div 4, n>>][b % 4]
    BY <1>1, <1>4, <2>1 DEF ConvertGptqWeight, BytePack
  <2>4. x[<<b \div 4, n>>][b % 4]
          = numbers[<<8 * (b \div 4) + 2 * (b % 4), n>>] + 16 * numbers[<<8 * (b \div 4) + 2 * (b % 4) + 1, n>>]
    <3>1. ASSUME NEW q \in 0 .. (Rows \div 8) - 1, NEW j \in 0 .. 3
          PROVE  x[<<q, n>>][j] = numbers[<<8 * q + 2 * j, n>>] + 16 * numbers[<<8 * q + 2 * j + 1, n>>]
      <4>1. x = [d \in (0 .. (Rows \div 8) - 1) \X (0 .. Outputs - 1) |->
                   [i \in 0 .. 3 |-> numbers[<<8 * d[1] + 2 * i, d[2]>>]
                                     + 16 * numbers[<<8 * d[1] + 2 * i + 1, d[2]>>]]]
        BY <1>4 DEF GptqWeightInts, IntPack
      <4> HIDE DEF x, r, n
      <4> QED BY <1>1, <4>1
    <3> QED BY <2>2, <3>1
  <2>5. y[<<n, b>>] = numbers[<<2 * b, n>>] + 16 * numbers[<<2 * b + 1, n>>]
    BY <2>2, <2>3, <2>4
  <2>6. Nibble(y[<<n, b>>], 0) = numbers[<<2 * b, n>>] /\ Nibble(y[<<n, b>>], 1) = numbers[<<2 * b + 1, n>>]
    BY <1>2, <1>4, <2>1, <2>5, Nibbles
  <2>7. (r % 2 = 0 /\ r = 2 * b) \/ (r % 2 = 1 /\ r = 2 * b + 1)
    BY <1>1, <2>1
  <2>8. Nibble(y[<<n, r \div 2>>], r % 2) = numbers[<<r, n>>]
    BY <2>1, <2>6, <2>7
  <2> QED BY <1>1, <1>4, <2>8 DEF ReadBack
<1> QED BY <1>3, <1>4

\* The checkpoint stores a zero less one; no carry reaches its neighbour.
LEMMA GptqZerosSurvive ==
  ASSUME NEW bits \in {4, 8}, NEW numbers, IsTensor(numbers, bits), \A d \in Cells : numbers[d] > 0,
         NEW c \in Cells
  PROVE  ReadBack(bits, "qzeros", ConvertGptqZeros(bits, GptqZeroInts(bits, numbers)), c[1], c[2])
           = numbers[c]
<1> DEFINE r == c[1]
           n == c[2]
           x == GptqZeroInts(bits, numbers)
           y == ConvertGptqZeros(bits, x)
<1>1. /\ r \in 0 .. Rows - 1 /\ n \in 0 .. Outputs - 1 /\ c = <<r, n>>
      /\ Outputs \in Nat /\ Outputs % 8 = 0
  BY CellIs
<1>2. \A i \in 0 .. Outputs - 1 : numbers[<<r, i>>] \in 1 .. (IF bits = 4 THEN 15 ELSE 255)
  <2>1. \A i \in 0 .. Outputs - 1 : <<r, i>> \in Cells
    BY <1>1 DEF Cells
  <2> QED BY <2>1 DEF IsTensor
<1>3. CASE bits = 8
  <2>1. n \div 4 \in 0 .. (Outputs \div 4) - 1 /\ n % 4 \in 0 .. 3 /\ 4 * (n \div 4) + (n % 4) = n
    BY <1>1, Eighths
  <2>2. x[<<r, n \div 4>>][n % 4] = numbers[<<r, 4 * (n \div 4) + (n % 4)>>] - 1
    <3>1. ASSUME NEW q \in 0 .. (Outputs \div 4) - 1, NEW j \in 0 .. 3
          PROVE  x[<<r, q>>][j] = numbers[<<r, 4 * q + j>>] - 1
      <4>1. x = [d \in (0 .. Rows - 1) \X (0 .. (Outputs \div 4) - 1) |->
                   [i \in 0 .. 3 |-> numbers[<<d[1], 4 * d[2] + i>>] - 1]]
        BY <1>3 DEF GptqZeroInts, IntPack
      <4> HIDE DEF x, r, n
      <4> QED BY <1>1, <4>1
    <3> QED BY <2>1, <3>1
  <2>3. y[<<n, r>>] = (x[<<r, n \div 4>>][n % 4] + 1) % 256
    BY <1>1, <1>3 DEF ConvertGptqZeros, BytePack
  <2>4. PICK v \in 1 .. 255 : v = numbers[<<r, n>>]
    BY <1>1, <1>2, <1>3
  <2>5. y[<<n, r>>] = ((v - 1) + 1) % 256
    BY <2>1, <2>2, <2>3, <2>4
  <2>6. y[<<n, r>>] = numbers[<<r, n>>]
    BY <2>4, <2>5
  <2> QED BY <1>1, <1>3, <2>6 DEF ReadBack
<1>4. CASE bits = 4
  <2>1. PICK b \in 0 .. (Outputs \div 2) - 1 :
          /\ b = n \div 2 /\ 2 * b \in 0 .. Outputs - 1 /\ 2 * b + 1 \in 0 .. Outputs - 1
          /\ (n % 2 = 0 /\ n = 2 * b) \/ (n % 2 = 1 /\ n = 2 * b + 1)
    BY <1>1, Eighths
  <2>2. b \div 4 \in 0 .. (Outputs \div 8) - 1 /\ b % 4 \in 0 .. 3
        /\ 8 * (b \div 4) + 2 * (b % 4) = 2 * b
    BY <1>1, Quarters
  <2> DEFINE byte == x[<<r, b \div 4>>][b % 4]
  <2>3. y[<<b, r>>] = Repack(Nibble(byte, 0) + 1, Nibble(byte, 1) + 1)
    BY <1>1, <1>4, <2>1 DEF ConvertGptqZeros, BytePack
  <2>4. byte = (numbers[<<r, 8 * (b \div 4) + 2 * (b % 4)>>] - 1)
               + 16 * (numbers[<<r, 8 * (b \div 4) + 2 * (b % 4) + 1>>] - 1)
    <3>1. ASSUME NEW q \in 0 .. (Outputs \div 8) - 1, NEW j \in 0 .. 3
          PROVE  x[<<r, q>>][j] = (numbers[<<r, 8 * q + 2 * j>>] - 1)
                                  + 16 * (numbers[<<r, 8 * q + 2 * j + 1>>] - 1)
      <4>1. x = [d \in (0 .. Rows - 1) \X (0 .. (Outputs \div 8) - 1) |->
                   [i \in 0 .. 3 |-> (numbers[<<d[1], 8 * d[2] + 2 * i>>] - 1)
                                     + 16 * (numbers[<<d[1], 8 * d[2] + 2 * i + 1>>] - 1)]]
        BY <1>4 DEF GptqZeroInts, IntPack
      <4> HIDE DEF x, r, n
      <4> QED BY <1>1, <4>1
    <3> QED BY <2>2, <3>1
  <2>5. PICK u \in 1 .. 15, v \in 1 .. 15 : u = numbers[<<r, 2 * b>>] /\ v = numbers[<<r, 2 * b + 1>>]
    BY <1>2, <1>4, <2>1
  <2>6. byte = (u - 1) + 16 * (v - 1)
    BY <2>2, <2>4, <2>5
  <2> HIDE DEF byte
  <2>7. Nibble(byte, 0) = u - 1 /\ Nibble(byte, 1) = v - 1
    BY <2>6, Nibbles
  <2>8. y[<<b, r>>] = Repack(u, v)
    BY <2>3, <2>7
  <2>9. Nibble(y[<<b, r>>], 0) = u /\ Nibble(y[<<b, r>>], 1) = v
    BY <2>8, Nibbles
  <2>10. (n % 2 = 0 /\ n = 2 * b) \/ (n % 2 = 1 /\ n = 2 * b + 1)
    BY <1>1, <2>1
  <2>11. Nibble(y[<<n \div 2, r>>], n % 2) = numbers[<<r, n>>]
    BY <2>1, <2>5, <2>9, <2>10
  <2> QED BY <1>1, <1>4, <2>11 DEF ReadBack
<1> QED BY <1>3, <1>4

LEMMA ScalesSurvive ==
  ASSUME NEW numbers, NEW bits, NEW c \in Cells
  PROVE  ReadBack(bits, "scales", ConvertScales(numbers), c[1], c[2]) = numbers[c]
BY CellIs DEF ReadBack, ConvertScales

\* moe_wna16_weight_loader brings every tensor of AWQ or GPTQ, of any numbers
\* and of any size, into the format the kernel reads: the theorem is about all
\* the tensors and not those of a run.
THEOREM FormatCorrect ==
  ASSUME NEW method \in {"awq", "gptq"}, NEW bits \in {4, 8}, method = "awq" => bits = 4,
         NEW kind \in {"qweight", "scales", "qzeros"},
         NEW numbers \in Representable(method, bits, kind), NEW c \in Cells
  PROVE  ReadBack(bits, kind, Converted(method, bits, kind, numbers), c[1], c[2]) = numbers[c]
<1>1. numbers \in [Cells -> 0 .. 255] /\ \A d \in Cells : numbers[d] < (IF bits = 4 THEN 16 ELSE 256)
  BY TensorsAssumption DEF Representable
<1>2. IsTensor(numbers, bits)
  BY <1>1 DEF IsTensor
<1>3. CASE kind = "scales"
  BY <1>3, ScalesSurvive DEF Converted
<1>4. CASE kind # "scales" /\ method = "awq"
  BY <1>2, <1>4, AwqSurvives DEF Converted
<1>5. CASE kind = "qweight" /\ method = "gptq"
  BY <1>2, <1>5, GptqWeightSurvives DEF Converted
<1>6. CASE kind = "qzeros" /\ method = "gptq"
  <2>1. \A d \in Cells : numbers[d] > 0
    BY <1>6 DEF Representable
  <2> QED BY <1>2, <1>6, <2>1, GptqZerosSurvive DEF Converted
<1> QED BY <1>3, <1>4, <1>5, <1>6

\* Whatever the loader does with it, a converted tensor reads back as the
\* checkpoint's numbers, for the formats and widths of every configuration.
THEOREM NumbersCorrect == Spec => []NumbersSurvive
<1>1. IInv => NumbersSurvive
  <2> SUFFICES ASSUME config \in Configs, NEW kind \in Needed,
                      NEW numbers \in Representable(config.method, config.bits, kind), NEW c \in Cells
               PROVE  ReadBack(config.bits, kind, Converted(config.method, config.bits, kind, numbers),
                               c[1], c[2]) = numbers[c]
    BY DEF NumbersSurvive, IInv, TypeInv
  <2>1. config.bits \in {4, 8} /\ config.method \in {"awq", "gptq"} /\ (config.method = "awq" => config.bits = 4)
    BY FormatAssumption
  <2>2. kind \in {"qweight", "scales", "qzeros"}
    BY DEF Needed
  <2> QED BY <2>1, <2>2, FormatCorrect
<1> QED BY <1>1, Invariance, PTL
=============================================================================
