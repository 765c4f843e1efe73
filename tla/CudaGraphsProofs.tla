-------------------------- MODULE CudaGraphsProofs ---------------------------
(***************************************************************************)
(* Proofs about CudaGraphs, for every configuration of the engine: nothing *)
(* of the profiling pass is left behind, every batch is sent to a graph    *)
(* that was captured, fits it and is, with one query length for decodes,   *)
(* the least padded one of all.                                            *)
(***************************************************************************)
EXTENDS CudaGraphs, FiniteSetTheorems, WellFoundedInduction, TLAPS

-----------------------------------------------------------------------------
(***************************************************************************)
(* The largest of some numbers, and the smaller of two.                    *)
(***************************************************************************)
LEMMA Least ==
  ASSUME NEW T \in SUBSET Nat, T # {}
  PROVE  \E m \in T : \A k \in T : m <= k
<1> DEFINE R == {ss \in Nat \X Nat : ss[1] < ss[2]}
<1>1. IsWellFoundedOn(R, Nat)
  BY NatLessThanWellFounded, Zenon DEF OpToRel
<1> HIDE DEF R
<1>2. PICK m \in T : \A k \in T : ~(<<k, m>> \in R)
  BY <1>1, WFMin
<1>3. \A k \in T : ~(k < m)
  BY <1>2 DEF R
<1> QED BY <1>3

\* By the least number of elements that have no bound.
LEMMA FiniteIsBounded ==
  ASSUME NEW S \in SUBSET Nat, IsFiniteSet(S)
  PROVE  \E b \in Nat : \A x \in S : x <= b
<1>1. PICK n \in Nat : ExistsSurjection(1 .. n, S)
  BY FS_NatSurjection
<1>2. PICK f \in [1 .. n -> S] : \A x \in S : \E i \in 1 .. n : f[i] = x
  BY <1>1 DEF ExistsSurjection, Surjection
<1> DEFINE Bounds(b, k) == \A i \in 1 .. n : i <= k => f[i] <= b
           unbounded == {k \in Nat : ~\E b \in Nat : Bounds(b, k)}
<1>3. \A i \in 1 .. n : f[i] \in Nat
  OBVIOUS
<1>4. 0 \notin unbounded
  <2>1. Bounds(0, 0)
    OBVIOUS
  <2> QED BY <2>1
<1>5. ASSUME NEW k \in Nat, k \notin unbounded PROVE k + 1 \notin unbounded
  <2>1. PICK b \in Nat : Bounds(b, k)
    BY <1>5
  <2>2. PICK c \in Nat : b <= c /\ (k + 1 <= n => f[k + 1] <= c)
    <3>1. CASE k + 1 <= n /\ f[k + 1] > b
      <4>1. f[k + 1] \in Nat
        BY <1>3, <3>1
      <4> QED BY <3>1, <4>1
    <3>2. CASE ~(k + 1 <= n /\ f[k + 1] > b)
      <4>1. k + 1 <= n => f[k + 1] \in Nat
        BY <1>3
      <4> QED BY <3>2, <4>1
    <3> QED BY <3>1, <3>2
  <2>3. Bounds(c, k + 1)
    <3> SUFFICES ASSUME NEW i \in 1 .. n, i <= k + 1 PROVE f[i] <= c
      OBVIOUS
    <3>1. f[i] \in Nat
      BY <1>3
    <3>2. CASE i <= k
      BY <2>1, <2>2, <3>1, <3>2
    <3>3. CASE i = k + 1
      BY <2>2, <3>3
    <3> QED BY <3>2, <3>3
  <2> QED BY <2>3
<1> HIDE DEF Bounds
<1>6. unbounded = {}
  <2> SUFFICES ASSUME unbounded # {} PROVE FALSE
    OBVIOUS
  <2>1. unbounded \in SUBSET Nat
    OBVIOUS
  <2> HIDE DEF unbounded
  <2>2. PICK k \in unbounded : \A l \in unbounded : k <= l
    BY <2>1, Least
  <2>3. k \in Nat /\ k # 0
    BY <1>4, <2>1
  <2>4. k - 1 \in Nat /\ k - 1 \notin unbounded
    BY <2>2, <2>3
  <2> QED BY <1>5, <2>3, <2>4
<1>7. PICK b \in Nat : Bounds(b, n)
  BY <1>6
<1>8. \A i \in 1 .. n : f[i] <= b
  BY <1>7 DEF Bounds
<1> QED BY <1>2, <1>8

LEMMA Greatest ==
  ASSUME NEW S \in SUBSET Nat, S # {}, NEW n \in Nat, \A x \in S : x <= n
  PROVE  \E m \in S : \A x \in S : x <= m
<1> DEFINE bounds == {b \in Nat : \A x \in S : x <= b}
<1>1. PICK m \in bounds : \A b \in bounds : m <= b
  BY Least
<1>2. m \in S
  <2> SUFFICES ASSUME m \notin S PROVE FALSE
    OBVIOUS
  <2>1. m \in Nat /\ \A x \in S : x \in Nat /\ x < m
    BY <1>1
  <2>2. PICK x \in S : TRUE
    OBVIOUS
  <2>3. m - 1 \in Nat /\ \A y \in S : y <= m - 1
    BY <2>1, <2>2
  <2> QED BY <1>1, <2>1, <2>3
<1> QED BY <1>1, <1>2

LEMMA MaxIsGreatest ==
  ASSUME NEW S \in SUBSET Nat, S # {}, IsFiniteSet(S)
  PROVE  Max(S) \in S /\ \A x \in S : x <= Max(S)
<1>1. PICK m \in S : \A x \in S : m >= x
  BY FiniteIsBounded, Greatest
<1> QED BY <1>1 DEF Max

LEMMA MinOfTwo ==
  ASSUME NEW m \in Nat, NEW n \in Nat
  PROVE  Min({m, n}) = IF m <= n THEN m ELSE n
<1> DEFINE S == {m, n}
<1>1. PICK l \in S : l = IF m <= n THEN m ELSE n
  OBVIOUS
<1>2. l \in Nat /\ \A x \in S : l <= x
  BY <1>1
<1>3. \A x \in S : (\A y \in S : x <= y) => x = l
  BY <1>2
<1>4. Min(S) = l
  BY <1>2, <1>3 DEF Min
<1> QED BY <1>1, <1>4

-----------------------------------------------------------------------------
(***************************************************************************)
(* The inductive invariant.                                                *)
(***************************************************************************)
Profiling == {"minimal", "profile", "profile_capture"}
WithGraphs == {"profile_capture", "capture", "serving"}
Phase == {"boot", "profiled", "initialized", "warm", "failed"} \union Profiling \union WithGraphs

SpeculatorDesc == Desc("FULL", 1, 1, None, None, 0)
Graph == [desc : descs \union {SpeculatorDesc}, pool : {"global", "throwaway"},
          kv : {"none", "minimal", "real"}]

TypeOK ==
  /\ config \in Configs
  /\ descs = VarlenDescs \union UniformDescs \union MixedDescs
  /\ phase \in Phase
  /\ kv \in {"none", "minimal", "real"}
  /\ graphs \in [Holder -> SUBSET Graph]
  /\ todo \in SUBSET descs

PoolsOfPhase ==
  /\ global_pool = IF phase \in Profiling THEN "throwaway" ELSE "global"
  /\ wrapper_pool = IF phase = "profile_capture" THEN "throwaway" ELSE "global"
  /\ phase \in Profiling => kv = "minimal"
  /\ phase \in {"initialized", "warm", "capture", "serving"} => kv = "real"

ManagerOfPhase ==
  /\ phase \in {"minimal", "profile"} => manager = NewManager("throwaway")
  /\ phase \in {"initialized", "warm"} => manager = NewManager("global")
  /\ phase = "profile_capture" =>
       manager \in [pool : {"throwaway"}, captured : {FALSE}, cap : {ProfilingSamples}, hidden : Nat]
  /\ phase \in {"capture", "serving"} =>
       manager \in [pool : {"global"}, captured : {phase = "serving"}, cap : {None}, hidden : Nat]

\* Graphs live in the phases that capture, and in serving, with the pool and
\* the cache of that phase; those of the model are of the descriptors.
GraphsOfPhase ==
  /\ phase \notin WithGraphs => graphs = [h \in Holder |-> {}]
  /\ \A h \in Holder : \A g \in graphs[h] : g.pool = global_pool /\ g.kv = kv
  /\ \A h \in {"manager", "wrapper"} : \A g \in graphs[h] : g.desc \in descs

\* What the real capture has not captured it has still to capture.
NothingIsSkipped ==
  phase \in {"capture", "serving"} =>
    \A d \in CaptureDescs("FULL") :
      \/ phase = "capture" /\ d \in todo
      \/ [desc |-> d, pool |-> "global", kv |-> "real"] \in graphs["manager"]

\* The first graph captured is the largest of all.
HiddenIsLargest ==
  phase \in WithGraphs =>
    IF manager.hidden = 0 THEN todo = descs /\ graphs["manager"] = {}
    ELSE \A d \in descs : d.num_tokens <= manager.hidden

WarmedByNow ==
  phase \in {"profile", "warm"} \union WithGraphs => CaptureSizes \subseteq warmed

StepIsDispatch ==
  Serving => step.batch \in Batch /\ step.desc \in DispatchesTo(step.batch, TRUE)

IInv == /\ TypeOK /\ PoolsOfPhase /\ ManagerOfPhase /\ GraphsOfPhase
        /\ NothingIsSkipped /\ HiddenIsLargest /\ WarmedByNow /\ StepIsDispatch

-----------------------------------------------------------------------------
(***************************************************************************)
(* The configuration and its descriptors.                                  *)
(***************************************************************************)
LEMMA ConfigIs ==
  ASSUME config \in Configs
  PROVE  /\ CaptureSizes \in SUBSET Nat /\ \A n \in CaptureSizes : n >= 1
         /\ MaxNumReqs \in Nat \ {0} /\ DecodeQueryLen \in Nat \ {0} /\ MaxQueryLen \in Nat \ {0}
         /\ DecodeQueryLens \subseteq Nat \ {0}
         /\ MaxCaptureSize \in CaptureSizes /\ \A n \in CaptureSizes : n <= MaxCaptureSize
<1>1. CaptureSizes \subseteq Nat \ {0} /\ CaptureSizes # {} /\ IsFiniteSet(CaptureSizes)
  BY CaptureAssumption DEF CaptureSizes
<1>2. MaxCaptureSize \in CaptureSizes /\ \A n \in CaptureSizes : n <= MaxCaptureSize
  BY <1>1, MaxIsGreatest DEF MaxCaptureSize
<1>3. MaxNumReqs \in Nat \ {0} /\ DecodeQueryLen \in Nat \ {0} /\ MaxQueryLen \in Nat \ {0}
  BY CaptureAssumption DEF MaxNumReqs, DecodeQueryLen, MaxQueryLen
<1>4. DecodeQueryLens \subseteq 1 .. DecodeQueryLen
  BY CaptureAssumption DEF DecodeQueryLens, DecodeQueryLen
<1> QED BY <1>1, <1>2, <1>3, <1>4

LEMMA Modes ==
  ASSUME config \in Configs
  PROVE  /\ SeparateRoutine => DecodeMode = "FULL" /\ MixedMode \in {"NONE", "PIECEWISE"}
         /\ ~SeparateRoutine => MixedMode \in {"NONE", "PIECEWISE", "FULL"}
BY ModeAssumption DEF SeparateRoutine, DecodeMode, MixedMode, CUDAGraphMode

IsVarlenDesc(d) ==
  /\ SeparateRoutine /\ VarlenDecode
  /\ d.cg_mode = "FULL" /\ d.num_tokens \in CaptureSizes /\ d.num_reqs = AtMostReqs(d.num_tokens)
  /\ d.uniform_token_count = None /\ d.max_query_len = DecodeQueryLen

IsUniformDesc(d) ==
  /\ SeparateRoutine /\ ~VarlenDecode
  /\ d.cg_mode = "FULL" /\ d.uniform_token_count \in DecodeQueryLens
  /\ d.num_tokens \in 1 .. MaxCaptureSize /\ d.num_reqs \in Nat
  /\ d.num_tokens = d.num_reqs * d.uniform_token_count
  /\ d.max_query_len = None

IsMixedDesc(d) ==
  /\ MixedMode # "NONE" /\ d.cg_mode = MixedMode /\ d.num_tokens \in CaptureSizes
  /\ d.num_reqs = IF MixedMode = "FULL" THEN AtMostReqs(d.num_tokens) ELSE None
  /\ d.uniform_token_count = None /\ d.max_query_len = None

LEMMA RoundUpIs ==
  ASSUME NEW n \in Nat, n >= 1, NEW q \in Nat \ {0}
  PROVE  /\ RoundUp(n, q) \in Nat /\ n <= RoundUp(n, q)
         /\ RoundUp(n, q) \div q \in Nat
         /\ RoundUp(n, q) = (RoundUp(n, q) \div q) * q
<1>1. PICK k \in Nat : k = (n + q - 1) \div q
  OBVIOUS
<1>2. k * q <= n + q - 1 /\ n + q - 1 < (k + 1) * q
  BY <1>1
<1>3. (k + 1) * q = k * q + q /\ k * q \in Nat
  OBVIOUS
<1>4. (k * q) \div q = k
  OBVIOUS
<1>5. RoundUp(n, q) = k * q
  BY <1>1 DEF RoundUp
<1> QED BY <1>2, <1>3, <1>4, <1>5

LEMMA DescIs ==
  ASSUME TypeOK, NEW d \in descs
  PROVE  IsVarlenDesc(d) \/ IsUniformDesc(d) \/ IsMixedDesc(d)
<1>1. config \in Configs
  BY DEF TypeOK
<1>2. CASE d \in VarlenDescs
  BY <1>1, <1>2, Modes DEF VarlenDescs, Desc, IsVarlenDesc
<1>3. CASE d \in UniformDescs
  <2>1. /\ SeparateRoutine /\ ~VarlenDecode
        /\ \E q \in DecodeQueryLens, n \in CaptureSizes, l \in LoraCases :
             /\ RoundUp(n, q) <= Min({MaxDecodeTokens, MaxCaptureSize})
             /\ d = Desc(DecodeMode, RoundUp(n, q), RoundUp(n, q) \div q, q, None, l)
    BY <1>3 DEF UniformDescs
  <2>2. PICK q \in DecodeQueryLens, n \in CaptureSizes, l \in LoraCases :
             /\ RoundUp(n, q) <= Min({MaxDecodeTokens, MaxCaptureSize})
             /\ d = Desc(DecodeMode, RoundUp(n, q), RoundUp(n, q) \div q, q, None, l)
    BY <2>1
  <2>3. MaxDecodeTokens \in Nat /\ MaxCaptureSize \in Nat
    BY <1>1, ConfigIs DEF MaxDecodeTokens
  <2>4. n \in Nat /\ n >= 1 /\ q \in Nat \ {0}
    BY <1>1, ConfigIs
  <2>5. /\ RoundUp(n, q) \in Nat /\ n <= RoundUp(n, q) /\ RoundUp(n, q) \div q \in Nat
        /\ RoundUp(n, q) = (RoundUp(n, q) \div q) * q
    BY <2>4, RoundUpIs
  <2>6. RoundUp(n, q) \in 1 .. MaxCaptureSize
    BY <2>2, <2>3, <2>4, <2>5, MinOfTwo
  <2>7. /\ d.cg_mode = "FULL" /\ d.uniform_token_count = q /\ d.num_tokens = RoundUp(n, q)
        /\ d.num_reqs = RoundUp(n, q) \div q /\ d.max_query_len = None
    BY <1>1, <2>1, <2>2, Modes DEF Desc
  <2> QED BY <2>1, <2>5, <2>6, <2>7 DEF IsUniformDesc
<1>4. CASE d \in MixedDescs
  BY <1>4 DEF MixedDescs, Desc, IsMixedDesc
<1> QED BY <1>2, <1>3, <1>4 DEF TypeOK

LEMMA TokensOfDesc ==
  ASSUME TypeOK, NEW d \in descs
  PROVE  d.num_tokens \in 1 .. MaxCaptureSize /\ d.cg_mode \in {"FULL", "PIECEWISE"}
<1>1. config \in Configs
  BY DEF TypeOK
<1>2. CASE IsVarlenDesc(d)
  BY <1>1, <1>2, ConfigIs DEF IsVarlenDesc
<1>3. CASE IsUniformDesc(d)
  BY <1>3 DEF IsUniformDesc
<1>4. CASE IsMixedDesc(d)
  BY <1>1, <1>4, ConfigIs, Modes DEF IsMixedDesc
<1> QED BY <1>2, <1>3, <1>4, DescIs

\* The requests a FULL graph holds are a number.
LEMMA ReqsOfDesc ==
  ASSUME TypeOK, NEW d \in CaptureDescs("FULL")
  PROVE  /\ d.num_reqs \in Nat
         /\ d.uniform_token_count = None => d.num_reqs = AtMostReqs(d.num_tokens)
<1>1. config \in Configs /\ d \in descs /\ d.cg_mode = "FULL"
  BY DEF TypeOK, CaptureDescs
<1>2. AtMostReqs(d.num_tokens) \in Nat
  BY <1>1, TokensOfDesc, ConfigIs, MinOfTwo DEF AtMostReqs
<1>3. CASE IsVarlenDesc(d)
  BY <1>2, <1>3 DEF IsVarlenDesc
<1>4. CASE IsUniformDesc(d)
  <2>1. d.uniform_token_count \in Nat
    BY <1>1, <1>4, ConfigIs DEF IsUniformDesc
  <2> QED BY <1>4, <2>1, NoneAssumption DEF IsUniformDesc
<1>5. CASE IsMixedDesc(d)
  BY <1>1, <1>2, <1>5 DEF IsMixedDesc
<1> QED BY <1>1, <1>3, <1>4, <1>5, DescIs

-----------------------------------------------------------------------------
(***************************************************************************)
(* The order of capture.                                                   *)
(***************************************************************************)
LEMMA LargestOfDescs ==
  ASSUME TypeOK, NEW some \in SUBSET descs, some # {}
  PROVE  \E d \in some : \A e \in some : e.num_tokens <= d.num_tokens
<1> DEFINE S == {d.num_tokens : d \in some}
<1>1. \A d \in some : d.num_tokens \in Nat /\ d.num_tokens <= MaxCaptureSize
  BY TokensOfDesc
<1>2. MaxCaptureSize \in Nat
  BY ConfigIs DEF TypeOK
<1>3. S \in SUBSET Nat /\ S # {} /\ \A x \in S : x <= MaxCaptureSize
  BY <1>1
<1> HIDE DEF S
<1>4. PICK m \in S : \A x \in S : x <= m
  BY <1>2, <1>3, Greatest
<1> QED BY <1>4 DEF S

\* Capture goes on while anything is left, and takes any mode's largest first.
LEMMA NextIs ==
  ASSUME TypeOK
  PROVE  /\ NextToCapture \subseteq todo
         /\ manager.cap = None /\ NextToCapture = {} => todo = {}
         /\ todo = descs => \A d \in NextToCapture : \A e \in descs : e.num_tokens <= d.num_tokens
<1> DEFINE piecewise == {d \in todo : d.cg_mode = "PIECEWISE"}
           capped == manager.cap # None /\ Cardinality(graphs["manager"]) >= manager.cap
           next == IF piecewise # {} THEN piecewise ELSE IF capped THEN {} ELSE todo
<1>1. NextToCapture = {d \in next : \A e \in next : e.num_tokens <= d.num_tokens}
  BY DEF NextToCapture
<1>2. next \subseteq todo /\ todo \subseteq descs
  BY DEF TypeOK
<1>3. ASSUME manager.cap = None, NextToCapture = {} PROVE todo = {}
  <2>1. next = {}
    BY <1>1, <1>2, <1>3, LargestOfDescs
  <2> QED BY <1>3, <2>1
<1>4. ASSUME todo = descs, NEW d \in NextToCapture, NEW e \in descs
      PROVE  e.num_tokens <= d.num_tokens
  <2>1. CASE piecewise = {}
    BY <1>1, <1>4, <2>1
  <2>2. CASE piecewise # {}
    <3>1. PICK p \in descs : p.cg_mode = "PIECEWISE"
      BY <1>4, <2>2
    <3>2. p \in MixedDescs
      <4>1. p \notin VarlenDescs /\ p \notin UniformDescs
        BY <3>1, Modes DEF TypeOK, VarlenDescs, UniformDescs, Desc
      <4> QED BY <4>1 DEF TypeOK
    <3>3. MixedMode = "PIECEWISE"
      BY <3>1, <3>2 DEF MixedDescs, Desc
    <3>4. PICK l \in LoraCases : TRUE
      BY <3>2 DEF MixedDescs
    <3> DEFINE largest == Desc("PIECEWISE", MaxCaptureSize, None, None, None, l)
    <3>5. MaxCaptureSize \in CaptureSizes
      BY ConfigIs DEF TypeOK
    <3>6. largest \in MixedDescs
      BY <3>3, <3>4, <3>5 DEF MixedDescs
    <3>7. largest \in piecewise /\ largest.num_tokens = MaxCaptureSize
      BY <1>4, <3>6 DEF TypeOK, Desc
    <3> HIDE DEF largest
    <3>8. d \in piecewise /\ largest.num_tokens <= d.num_tokens
      BY <1>1, <2>2, <3>7
    <3>9. e.num_tokens \in 1 .. MaxCaptureSize /\ d.num_tokens \in 1 .. MaxCaptureSize
      BY <1>4, <3>8, TokensOfDesc
    <3>10. MaxCaptureSize \in Nat
      BY ConfigIs DEF TypeOK
    <3> QED BY <3>7, <3>8, <3>9, <3>10
  <2> QED BY <2>1, <2>2
<1> QED BY <1>1, <1>2, <1>3, <1>4

-----------------------------------------------------------------------------
(***************************************************************************)
(* Dispatch.                                                               *)
(***************************************************************************)
LEMMA DispatchIs ==
  ASSUME NEW b, NEW d \in DispatchesTo(b, TRUE)
  PROVE  \/ d.cg_mode = "NONE"
         \/ /\ d \in descs /\ d.cg_mode \in {"FULL", "PIECEWISE"}
            /\ IsCompatible(d, b, EffectiveLoras(b.num_active_loras))
<1> DEFINE loras == EffectiveLoras(b.num_active_loras)
           found(mode) == {e \in Candidates(mode, b.num_tokens, loras) : IsCompatible(e, b, loras)}
<1>1. DispatchesTo(b, TRUE) = IF found("FULL") # {} THEN found("FULL")
                              ELSE IF found("PIECEWISE") # {} THEN found("PIECEWISE")
                              ELSE {Eager(b)}
  BY DEF DispatchesTo
<1>2. ASSUME NEW mode, d \in found(mode)
      PROVE  d \in descs /\ d.cg_mode = mode /\ IsCompatible(d, b, loras)
  BY <1>2 DEF Candidates, CaptureDescs
<1>3. Eager(b).cg_mode = "NONE"
  BY DEF Eager, Desc
<1> HIDE DEF loras, found
<1>4. d \in found("FULL") \/ d \in found("PIECEWISE") \/ d = Eager(b)
  BY <1>1
<1> QED BY <1>2, <1>3, <1>4 DEF loras

-----------------------------------------------------------------------------
(***************************************************************************)
(* What the steps preserve.                                                *)
(***************************************************************************)
LEMMA SameConfig ==
  ASSUME UNCHANGED <<config, descs>>
  PROVE  /\ CaptureSizes' = CaptureSizes
         /\ VarlenDescs' = VarlenDescs /\ UniformDescs' = UniformDescs /\ MixedDescs' = MixedDescs
         /\ Graph' = Graph /\ \A mode : CaptureDescs(mode)' = CaptureDescs(mode)
         /\ Batch' = Batch /\ \A b, c : DispatchesTo(b, c)' = DispatchesTo(b, c)
BY DEF CaptureSizes, VarlenDescs, UniformDescs, MixedDescs, SeparateRoutine, DecodeMode, MixedMode,
       CUDAGraphMode, MaxDecodeTokens, MaxCaptureSize, MaxNumReqs, DecodeQueryLen, DecodeQueryLens,
       VarlenDecode, LoraCases, AtMostReqs, Graph, SpeculatorDesc, CaptureDescs, Batch, MaxQueryLen,
       DispatchesTo, EffectiveLoras, Candidates, IsCompatible, Eager

\* The steps that neither capture nor throw away a graph.
LEMMA TypeIsKept ==
  ASSUME IInv, UNCHANGED <<config, descs>>, phase' \in Phase, kv' \in {"none", "minimal", "real"},
         graphs' = graphs, todo' \in SUBSET descs
  PROVE  TypeOK'
BY SameConfig DEF IInv, TypeOK

LEMMA NoStep ==
  ASSUME step' = None
  PROVE  StepIsDispatch'
BY DEF StepIsDispatch, Serving

LEMMA ProfileBeginStep ==
  ASSUME IInv, ProfileBegin
  PROVE  IInv'
<1>1. /\ phase = "boot" /\ phase' = "minimal" /\ global_pool' = "throwaway" /\ kv' = "minimal"
      /\ manager' = NewManager("throwaway") /\ step' = None
      /\ UNCHANGED <<config, descs, wrapper_pool, warmed, graphs, todo>>
  BY DEF ProfileBegin, choices
<1>2. TypeOK'
  BY <1>1, TypeIsKept DEF IInv, TypeOK, Phase, Profiling
<1>3. PoolsOfPhase'
  BY <1>1 DEF IInv, PoolsOfPhase, Profiling
<1>4. ManagerOfPhase'
  BY <1>1 DEF ManagerOfPhase
<1>5. GraphsOfPhase'
  BY <1>1 DEF IInv, GraphsOfPhase, WithGraphs, Holder
<1>6. NothingIsSkipped' /\ HiddenIsLargest' /\ WarmedByNow'
  BY <1>1 DEF NothingIsSkipped, HiddenIsLargest, WarmedByNow, WithGraphs
<1> QED BY <1>1, <1>2, <1>3, <1>4, <1>5, <1>6, NoStep DEF IInv

LEMMA WarmUpStep ==
  ASSUME IInv, WarmUp
  PROVE  IInv'
<1>1. /\ \/ phase = "minimal" /\ phase' = "profile"
         \/ phase = "initialized" /\ phase' = "warm"
      /\ warmed' = warmed \union CaptureSizes /\ step' = None
      /\ UNCHANGED <<config, descs, global_pool, wrapper_pool, kv, manager, graphs, todo>>
  BY DEF WarmUp, WarmSizes, choices
<1>2. TypeOK'
  BY <1>1, TypeIsKept DEF IInv, TypeOK, Phase, Profiling
<1>3. PoolsOfPhase'
  BY <1>1 DEF IInv, PoolsOfPhase, Profiling
<1>4. ManagerOfPhase'
  BY <1>1 DEF IInv, ManagerOfPhase, NewManager
<1>5. GraphsOfPhase'
  BY <1>1 DEF IInv, GraphsOfPhase, WithGraphs, Holder
<1>6. NothingIsSkipped' /\ HiddenIsLargest'
  BY <1>1 DEF NothingIsSkipped, HiddenIsLargest, WithGraphs
<1>7. WarmedByNow'
  BY <1>1, SameConfig DEF WarmedByNow
<1> QED BY <1>1, <1>2, <1>3, <1>4, <1>5, <1>6, <1>7, NoStep DEF IInv

LEMMA ProfileFailsStep ==
  ASSUME IInv, ProfileFails
  PROVE  IInv'
<1>1. /\ phase \in {"minimal", "profile"} /\ phase' = "failed" /\ global_pool' = "global"
      /\ step' = None
      /\ UNCHANGED <<config, descs, wrapper_pool, kv, warmed, manager, graphs, todo>>
  BY DEF ProfileFails, choices
<1>2. TypeOK'
  BY <1>1, TypeIsKept DEF IInv, TypeOK, Phase
<1>3. PoolsOfPhase' /\ ManagerOfPhase'
  BY <1>1 DEF IInv, PoolsOfPhase, Profiling, ManagerOfPhase
<1>4. GraphsOfPhase'
  BY <1>1 DEF IInv, GraphsOfPhase, WithGraphs, Holder
<1>5. NothingIsSkipped' /\ HiddenIsLargest' /\ WarmedByNow'
  BY <1>1 DEF NothingIsSkipped, HiddenIsLargest, WarmedByNow, WithGraphs
<1> QED BY <1>1, <1>2, <1>3, <1>4, <1>5, NoStep DEF IInv

LEMMA ProfileCaptureStep ==
  ASSUME IInv, ProfileCapture
  PROVE  IInv'
<1>1. /\ phase = "profile" /\ phase' = "profile_capture" /\ wrapper_pool' = "throwaway"
      /\ manager' = [manager EXCEPT !.pool = "throwaway", !.cap = ProfilingSamples]
      /\ todo' = descs /\ step' = None
      /\ UNCHANGED <<config, descs, global_pool, kv, warmed, graphs>>
  BY DEF ProfileCapture, choices
<1>2. TypeOK'
  BY <1>1, TypeIsKept DEF IInv, TypeOK, Phase, WithGraphs
<1>3. PoolsOfPhase'
  BY <1>1 DEF IInv, PoolsOfPhase, Profiling
<1>4. ManagerOfPhase' /\ manager'.hidden = 0
  <2>1. manager = [pool |-> "throwaway", captured |-> FALSE, cap |-> None, hidden |-> 0]
    BY <1>1 DEF IInv, ManagerOfPhase, NewManager
  <2>2. manager' = [pool |-> "throwaway", captured |-> FALSE, cap |-> ProfilingSamples, hidden |-> 0]
    BY <1>1, <2>1
  <2>3. manager' \in [pool : {"throwaway"}, captured : {FALSE}, cap : {ProfilingSamples}, hidden : Nat] /\ manager'.hidden = 0
    BY <2>2
  <2> QED BY <1>1, <2>3 DEF ManagerOfPhase
<1>5. graphs = [h \in Holder |-> {}]
  BY <1>1 DEF IInv, GraphsOfPhase, WithGraphs
<1>6. GraphsOfPhase'
  BY <1>1, <1>5 DEF GraphsOfPhase, WithGraphs, Holder
<1>7. NothingIsSkipped' /\ HiddenIsLargest'
  BY <1>1, <1>4, <1>5 DEF NothingIsSkipped, HiddenIsLargest, Holder
<1>8. WarmedByNow'
  BY <1>1, SameConfig DEF IInv, WarmedByNow
<1> QED BY <1>1, <1>2, <1>3, <1>4, <1>6, <1>7, <1>8, NoStep DEF IInv

\* The end of profiling, whether it succeeds or not: as at the beginning.
LEMMA ProfileEndStep ==
  ASSUME IInv, ProfileEnd
  PROVE  IInv'
<1>1. /\ phase' \in {"profiled", "failed"} /\ global_pool' = "global" /\ wrapper_pool' = "global"
      /\ graphs' = [h \in Holder |-> {}] /\ kv' = "none" /\ todo' = {} /\ step' = None
      /\ UNCHANGED <<config, descs, warmed>>
  BY DEF ProfileEnd, Discard, choices
<1>2. TypeOK'
  BY <1>1, SameConfig DEF IInv, TypeOK, Phase
<1>3. PoolsOfPhase' /\ ManagerOfPhase'
  BY <1>1 DEF PoolsOfPhase, Profiling, ManagerOfPhase
<1>4. GraphsOfPhase'
  BY <1>1 DEF GraphsOfPhase, WithGraphs, Holder
<1>5. NothingIsSkipped' /\ HiddenIsLargest' /\ WarmedByNow'
  BY <1>1 DEF NothingIsSkipped, HiddenIsLargest, WarmedByNow, WithGraphs
<1> QED BY <1>1, <1>2, <1>3, <1>4, <1>5, NoStep DEF IInv

LEMMA InitializeKVCacheStep ==
  ASSUME IInv, InitializeKVCache
  PROVE  IInv'
<1>1. /\ phase \in {"boot", "profiled"} /\ phase' = "initialized" /\ kv' = "real"
      /\ manager' = NewManager(global_pool) /\ step' = None
      /\ UNCHANGED <<config, descs, global_pool, wrapper_pool, warmed, graphs, todo>>
  BY DEF InitializeKVCache, choices
<1>2. TypeOK'
  BY <1>1, TypeIsKept DEF IInv, TypeOK, Phase
<1>3. PoolsOfPhase' /\ global_pool = "global"
  BY <1>1 DEF IInv, PoolsOfPhase, Profiling
<1>4. ManagerOfPhase'
  BY <1>1, <1>3 DEF ManagerOfPhase, NewManager
<1>5. GraphsOfPhase'
  BY <1>1 DEF IInv, GraphsOfPhase, WithGraphs, Holder
<1>6. NothingIsSkipped' /\ HiddenIsLargest' /\ WarmedByNow'
  BY <1>1 DEF NothingIsSkipped, HiddenIsLargest, WarmedByNow, WithGraphs
<1> QED BY <1>1, <1>2, <1>3, <1>4, <1>5, <1>6, NoStep DEF IInv

LEMMA CaptureStep ==
  ASSUME IInv, Capture
  PROVE  IInv'
<1>1. /\ phase = "warm" /\ phase' = "capture" /\ todo' = descs /\ step' = None
      /\ UNCHANGED <<config, descs, global_pool, wrapper_pool, kv, warmed, manager, graphs>>
  BY DEF Capture, choices
<1>2. TypeOK'
  BY <1>1, TypeIsKept DEF IInv, TypeOK, Phase, WithGraphs
<1>3. PoolsOfPhase'
  BY <1>1 DEF IInv, PoolsOfPhase, Profiling
<1>4. ManagerOfPhase' /\ manager'.hidden = 0
  <2>1. manager = [pool |-> "global", captured |-> FALSE, cap |-> None, hidden |-> 0]
    BY <1>1 DEF IInv, ManagerOfPhase, NewManager
  <2>2. manager' = [pool |-> "global", captured |-> FALSE, cap |-> None, hidden |-> 0]
    BY <1>1, <2>1
  <2>3. manager' \in [pool : {"global"}, captured : {FALSE}, cap : {None}, hidden : Nat] /\ manager'.hidden = 0
    BY <2>2
  <2> QED BY <1>1, <2>3 DEF ManagerOfPhase
<1>5. graphs = [h \in Holder |-> {}]
  BY <1>1 DEF IInv, GraphsOfPhase, WithGraphs
<1>6. GraphsOfPhase'
  BY <1>1, <1>5 DEF GraphsOfPhase, WithGraphs, Holder
<1>7. NothingIsSkipped'
  BY <1>1 DEF NothingIsSkipped, CaptureDescs
<1>8. HiddenIsLargest'
  BY <1>1, <1>4, <1>5 DEF HiddenIsLargest, Holder
<1>9. WarmedByNow'
  BY <1>1, SameConfig DEF IInv, WarmedByNow
<1> QED BY <1>1, <1>2, <1>3, <1>4, <1>6, <1>7, <1>8, <1>9, NoStep DEF IInv

\* The real capture has no cap, so that it ends when nothing is left.
LEMMA CaptureEndStep ==
  ASSUME IInv, CaptureEnd
  PROVE  IInv'
<1>1. /\ phase = "capture" /\ phase' = "serving" /\ NextToCapture = {} /\ step' = None
      /\ manager' = [manager EXCEPT !.captured = TRUE]
      /\ UNCHANGED <<config, descs, global_pool, wrapper_pool, kv, warmed, graphs, todo>>
  BY DEF CaptureEnd, CaptureIsComplete, ModelIsCaptured, choices
<1>2. TypeOK'
  BY <1>1, TypeIsKept DEF IInv, TypeOK, Phase, WithGraphs
<1>3. PoolsOfPhase'
  BY <1>1 DEF IInv, PoolsOfPhase, Profiling
<1>4. /\ manager \in [pool : {"global"}, captured : {FALSE}, cap : {None}, hidden : Nat]
      /\ manager'.hidden = manager.hidden /\ manager.cap = None
  BY <1>1 DEF IInv, ManagerOfPhase
<1>5. ManagerOfPhase'
  BY <1>1, <1>4 DEF ManagerOfPhase
<1>6. GraphsOfPhase'
  BY <1>1 DEF IInv, GraphsOfPhase, WithGraphs, Holder
<1>7. todo = {}
  BY <1>1, <1>4, NextIs DEF IInv
<1>8. NothingIsSkipped'
  BY <1>1, <1>7, SameConfig DEF IInv, NothingIsSkipped
<1>9. HiddenIsLargest'
  BY <1>1, <1>4 DEF IInv, HiddenIsLargest, WithGraphs
<1>10. WarmedByNow'
  BY <1>1, SameConfig DEF IInv, WarmedByNow, WithGraphs
<1> QED BY <1>1, <1>2, <1>3, <1>5, <1>6, <1>8, <1>9, <1>10, NoStep DEF IInv

LEMMA CaptureOneStep ==
  ASSUME IInv, CaptureOne
  PROVE  IInv'
<1>1. PICK d \in NextToCapture :
        LET holder == IF d.cg_mode = "FULL" THEN "manager" ELSE "wrapper"
            pool == IF d.cg_mode = "FULL" THEN manager.pool ELSE wrapper_pool
            is_new == ~\E g \in graphs[holder] : g.desc = d
        IN /\ todo' = todo \ {d}
           /\ manager' = [manager EXCEPT !.hidden = IF @ = 0 THEN d.num_tokens ELSE @]
           /\ graphs' = [graphs EXCEPT ![holder] =
                IF is_new THEN @ \union {[desc |-> d, pool |-> pool, kv |-> kv]} ELSE @]
  BY DEF CaptureOne
<1>2. /\ phase \in {"profile_capture", "capture"} /\ step' = None
      /\ UNCHANGED <<config, descs, phase, global_pool, wrapper_pool, kv, warmed>>
  BY DEF CaptureOne, choices
<1>3. d \in todo /\ d \in descs /\ d.num_tokens \in Nat \ {0}
  <2>1. d \in todo /\ d \in descs
    BY NextIs DEF IInv, TypeOK
  <2>2. d.num_tokens \in 1 .. MaxCaptureSize /\ MaxCaptureSize \in Nat
    BY <2>1, TokensOfDesc, ConfigIs DEF IInv, TypeOK
  <2> QED BY <2>1, <2>2
<1>4. /\ manager.hidden \in Nat /\ manager.pool = global_pool /\ wrapper_pool = global_pool
      /\ global_pool \in {"global", "throwaway"} /\ kv \in {"minimal", "real"}
  BY <1>2 DEF IInv, ManagerOfPhase, PoolsOfPhase, Profiling
<1> DEFINE holder == IF d.cg_mode = "FULL" THEN "manager" ELSE "wrapper"
           is_new == ~\E g \in graphs[holder] : g.desc = d
           graph == [desc |-> d, pool |-> global_pool, kv |-> kv]
<1>5. graphs' = [graphs EXCEPT ![holder] = IF is_new THEN @ \union {graph} ELSE @]
  BY <1>1, <1>4
<1>6. graph \in Graph /\ graph.pool = global_pool /\ graph.kv = kv /\ graph.desc = d
  BY <1>3, <1>4 DEF Graph
<1> HIDE DEF graph
<1>7. holder \in {"manager", "wrapper"} /\ holder \in Holder
  BY DEF Holder
<1>8. graphs \in [Holder -> SUBSET Graph]
  BY DEF IInv, TypeOK
<1>9. \A h \in Holder : graphs'[h] = IF h = holder /\ is_new THEN graphs[h] \union {graph} ELSE graphs[h]
  BY <1>5, <1>8
<1>10. graphs' \in [Holder -> SUBSET Graph]
  BY <1>5, <1>6, <1>7, <1>8
<1> HIDE DEF holder, is_new
<1>11. TypeOK'
  BY <1>1, <1>2, <1>10, SameConfig DEF IInv, TypeOK
<1>12. PoolsOfPhase'
  BY <1>2 DEF IInv, PoolsOfPhase
<1>13. manager'.hidden = IF manager.hidden = 0 THEN d.num_tokens ELSE manager.hidden
  BY <1>1, <1>2 DEF IInv, ManagerOfPhase
<1>14. ManagerOfPhase'
  <2>1. CASE phase = "profile_capture"
    <3>1. manager \in [pool : {"throwaway"}, captured : {FALSE}, cap : {ProfilingSamples}, hidden : Nat]
      BY <2>1 DEF IInv, ManagerOfPhase
    <3>2. manager' \in [pool : {"throwaway"}, captured : {FALSE}, cap : {ProfilingSamples}, hidden : Nat]
      BY <1>1, <1>3, <3>1
    <3> QED BY <1>2, <2>1, <3>2 DEF ManagerOfPhase
  <2>2. CASE phase = "capture"
    <3>1. manager \in [pool : {"global"}, captured : {FALSE}, cap : {None}, hidden : Nat]
      BY <2>2 DEF IInv, ManagerOfPhase
    <3>2. manager' \in [pool : {"global"}, captured : {FALSE}, cap : {None}, hidden : Nat]
      BY <1>1, <1>3, <3>1
    <3> QED BY <1>2, <2>2, <3>2 DEF ManagerOfPhase
  <2> QED BY <1>2, <2>1, <2>2
<1>15. GraphsOfPhase'
  <2>1. \A h \in Holder : \A g \in graphs'[h] : g \in graphs[h] \/ g = graph
    BY <1>9
  <2>2. \A h \in Holder : \A g \in graphs'[h] : g.pool = global_pool /\ g.kv = kv
    BY <1>6, <2>1 DEF IInv, GraphsOfPhase
  <2>3. \A h \in {"manager", "wrapper"} : \A g \in graphs'[h] : g.desc \in descs
    BY <1>3, <1>6, <2>1 DEF IInv, GraphsOfPhase, Holder
  <2> QED BY <1>2, <2>2, <2>3 DEF GraphsOfPhase, WithGraphs
<1>16. NothingIsSkipped'
  <2> SUFFICES ASSUME phase = "capture", NEW e \in CaptureDescs("FULL")
               PROVE  e \in todo' \/ [desc |-> e, pool |-> "global", kv |-> "real"] \in graphs'["manager"]
    BY <1>2, SameConfig DEF NothingIsSkipped
  <2>1. global_pool = "global" /\ kv = "real"
    BY DEF IInv, PoolsOfPhase, Profiling
  <2>2. "manager" \in Holder
    BY DEF Holder
  <2>3. CASE e # d
    BY <1>1, <1>9, <2>2, <2>3 DEF IInv, NothingIsSkipped
  <2>4. CASE e = d
    <3>1. holder = "manager"
      BY <2>4 DEF CaptureDescs, holder
    <3>2. graph = [desc |-> e, pool |-> "global", kv |-> "real"]
      BY <2>1, <2>4 DEF graph
    <3>3. CASE is_new
      BY <1>9, <2>2, <3>1, <3>2, <3>3
    <3>4. CASE ~is_new
      <4>1. PICK g \in graphs["manager"] : g.desc = d
        BY <3>1, <3>4 DEF is_new
      <4>2. g \in Graph /\ g.pool = "global" /\ g.kv = "real"
        BY <1>8, <2>1, <2>2 DEF IInv, GraphsOfPhase
      <4>3. g = [desc |-> e, pool |-> "global", kv |-> "real"]
        BY <2>4, <4>1, <4>2 DEF Graph
      <4> QED BY <1>9, <2>2, <4>3
    <3> QED BY <3>3, <3>4
  <2> QED BY <2>3, <2>4
<1>17. HiddenIsLargest'
  <2>1. manager'.hidden # 0
    BY <1>3, <1>4, <1>13
  <2>2. \A e \in descs : e.num_tokens <= manager'.hidden
    <3>1. CASE manager.hidden = 0
      <4>1. todo = descs
        BY <1>2, <3>1 DEF IInv, HiddenIsLargest, WithGraphs
      <4> QED BY <1>13, <3>1, <4>1, NextIs DEF IInv
    <3>2. CASE manager.hidden # 0
      BY <1>2, <1>13, <3>2 DEF IInv, HiddenIsLargest, WithGraphs
    <3> QED BY <3>1, <3>2
  <2> QED BY <1>2, <2>1, <2>2 DEF HiddenIsLargest
<1>18. WarmedByNow'
  BY <1>2, SameConfig DEF IInv, WarmedByNow
<1> QED BY <1>2, <1>11, <1>12, <1>14, <1>15, <1>16, <1>17, <1>18, NoStep DEF IInv

LEMMA SpeculatorCapturesStep ==
  ASSUME IInv, SpeculatorCaptures
  PROVE  IInv'
<1> DEFINE graph == [desc |-> SpeculatorDesc, pool |-> global_pool, kv |-> kv]
<1>1. /\ phase \in {"profile_capture", "capture"} /\ step' = None
      /\ graphs' = [graphs EXCEPT !["speculator"] = {graph}]
      /\ UNCHANGED <<config, descs, phase, global_pool, wrapper_pool, kv, warmed, manager, todo>>
  BY DEF SpeculatorCaptures, ModelIsCaptured, choices, SpeculatorDesc
<1>2. global_pool \in {"global", "throwaway"} /\ kv \in {"minimal", "real"}
  BY <1>1 DEF IInv, PoolsOfPhase, Profiling
<1>3. graph \in Graph /\ graph.pool = global_pool /\ graph.kv = kv
  BY <1>2 DEF Graph
<1> HIDE DEF graph
<1>4. graphs \in [Holder -> SUBSET Graph] /\ "speculator" \in Holder
  BY DEF IInv, TypeOK, Holder
<1>5. /\ graphs' \in [Holder -> SUBSET Graph]
      /\ graphs'["speculator"] = {graph}
      /\ \A h \in {"manager", "wrapper"} : graphs'[h] = graphs[h]
  BY <1>1, <1>3, <1>4 DEF Holder
<1>6. TypeOK'
  BY <1>1, <1>5, SameConfig DEF IInv, TypeOK
<1>7. PoolsOfPhase' /\ ManagerOfPhase'
  BY <1>1 DEF IInv, PoolsOfPhase, ManagerOfPhase
<1>8. GraphsOfPhase'
  BY <1>1, <1>3, <1>5 DEF IInv, GraphsOfPhase, WithGraphs, Holder
<1>9. NothingIsSkipped' /\ HiddenIsLargest' /\ WarmedByNow'
  BY <1>1, <1>5, SameConfig DEF IInv, NothingIsSkipped, HiddenIsLargest, WarmedByNow
<1> QED BY <1>1, <1>6, <1>7, <1>8, <1>9, NoStep DEF IInv

\* The variables but for the last step and the bookkeeping of the memory.
LEMMA AllKept ==
  ASSUME IInv, UNCHANGED <<config, descs, phase, global_pool, wrapper_pool, kv, warmed, manager,
                           graphs, todo>>
  PROVE  /\ TypeOK' /\ PoolsOfPhase' /\ ManagerOfPhase' /\ GraphsOfPhase'
         /\ NothingIsSkipped' /\ HiddenIsLargest' /\ WarmedByNow'
<1>1. TypeOK' /\ PoolsOfPhase'
  BY SameConfig DEF IInv, TypeOK, PoolsOfPhase
<1>2. ManagerOfPhase' /\ GraphsOfPhase'
  BY DEF IInv, ManagerOfPhase, GraphsOfPhase
<1>3. NothingIsSkipped' /\ HiddenIsLargest' /\ WarmedByNow'
  BY SameConfig DEF IInv, NothingIsSkipped, HiddenIsLargest, WarmedByNow
<1> QED BY <1>1, <1>2, <1>3

LEMMA DispatchStep ==
  ASSUME IInv, Dispatch
  PROVE  IInv'
<1>1. UNCHANGED <<config, descs, phase, global_pool, wrapper_pool, kv, warmed, manager, graphs, todo>>
  BY DEF Dispatch, choices
<1>2. PICK b \in Batch :
        \E d \in DispatchesTo(b, manager.captured) : step' = [batch |-> b, desc |-> d]
  BY DEF Dispatch
<1>3. PICK d \in DispatchesTo(b, manager.captured) : step'.batch = b /\ step'.desc = d
  BY <1>2
<1>4. StepIsDispatch'
  <2> SUFFICES ASSUME phase = "serving" PROVE b \in Batch /\ d \in DispatchesTo(b, TRUE)
    BY <1>1, <1>3, SameConfig DEF StepIsDispatch, Serving
  <2>1. manager.captured = TRUE
    BY DEF IInv, ManagerOfPhase
  <2> QED BY <1>3, <2>1
<1> QED BY <1>1, <1>4, AllKept DEF IInv

LEMMA InvInit == Init => IInv
<1> SUFFICES ASSUME Init PROVE IInv
  OBVIOUS
<1>1. TypeOK
  BY DEF Init, TypeOK, Phase
<1>2. PoolsOfPhase /\ ManagerOfPhase
  BY DEF Init, PoolsOfPhase, Profiling, ManagerOfPhase
<1>3. GraphsOfPhase
  BY DEF Init, GraphsOfPhase, WithGraphs, Holder
<1>4. NothingIsSkipped /\ HiddenIsLargest /\ WarmedByNow /\ StepIsDispatch
  BY DEF Init, NothingIsSkipped, HiddenIsLargest, WarmedByNow, WithGraphs, StepIsDispatch, Serving
<1> QED BY <1>1, <1>2, <1>3, <1>4 DEF IInv

LEMMA InvStep == IInv /\ [Next]_vars => IInv'
<1> SUFFICES ASSUME IInv, [Next]_vars PROVE IInv'
  OBVIOUS
<1>1. CASE UNCHANGED vars
  <2>1. /\ UNCHANGED <<config, descs, phase, global_pool, wrapper_pool, kv, warmed, manager, graphs, todo>>
        /\ step' = step
    BY <1>1 DEF vars, choices
  <2>2. StepIsDispatch'
    BY <2>1, SameConfig DEF IInv, StepIsDispatch, Serving
  <2> QED BY <2>1, <2>2, AllKept DEF IInv
<1>2. CASE Stopped
  BY <1>1, <1>2 DEF Stopped
<1> QED BY <1>1, <1>2, ProfileBeginStep, WarmUpStep, ProfileFailsStep, ProfileCaptureStep,
           ProfileEndStep, InitializeKVCacheStep, CaptureStep, CaptureOneStep,
           SpeculatorCapturesStep, CaptureEndStep, DispatchStep DEF Next

-----------------------------------------------------------------------------
(***************************************************************************)
(* The least padded graph.                                                 *)
(***************************************************************************)

\* Decodes have one query length, or graphs that take any: what dynamic
\* speculative decoding without varlen graphs does not have.
OneQueryLength == VarlenDecode \/ \A p, q \in DecodeQueryLens : p = q

LEMMA BatchIs ==
  ASSUME config \in Configs, NEW b \in Batch
  PROVE  /\ b.num_reqs \in Nat \ {0} /\ b.num_reqs <= MaxNumReqs
         /\ b.longest \in Nat \ {0}
         /\ b.num_tokens \in Nat /\ b.num_reqs <= b.num_tokens
         /\ b.uniform_token_count # None =>
              b.num_tokens = b.num_reqs * b.longest /\ b.uniform_token_count = b.longest
         /\ b.max_query_len # None => b.max_query_len = b.longest
<1>1. /\ b.num_reqs \in 1 .. MaxNumReqs /\ b.longest \in 1 .. MaxQueryLen
      /\ b.num_tokens \in 1 .. MaxNumReqs * MaxQueryLen
      /\ b.num_tokens \in b.num_reqs + b.longest - 1 .. b.num_reqs * b.longest
      /\ b.uniform_token_count = IF b.num_tokens = b.num_reqs * b.longest THEN b.longest ELSE None
      /\ b.max_query_len \in {None, b.longest}
  BY DEF Batch
<1>2. /\ b.num_reqs \in Nat \ {0} /\ b.num_reqs <= MaxNumReqs /\ b.longest \in Nat \ {0}
      /\ b.num_tokens \in Nat
  BY <1>1, ConfigIs
<1>3. b.num_tokens >= b.num_reqs + b.longest - 1
  BY <1>1, <1>2
<1> QED BY <1>1, <1>2, <1>3

\* A graph of the first size that has room is as good as any other that fits.
LEMMA FirstSizeFits ==
  ASSUME TypeOK, OneQueryLength, NEW b \in Batch, NEW loras, NEW mode \in {"FULL", "PIECEWISE"},
         NEW e \in CaptureDescs(mode), IsCompatible(e, b, loras),
         NEW d \in Candidates(mode, b.num_tokens, loras)
  PROVE  IsCompatible(d, b, loras)
<1>1. /\ d \in descs /\ d.cg_mode = mode /\ d.num_active_loras = loras /\ d.num_tokens >= b.num_tokens
      /\ e \in descs /\ e.cg_mode = mode /\ config \in Configs
  BY DEF Candidates, CaptureDescs, TypeOK
<1>2. /\ b.num_reqs \in Nat \ {0} /\ b.num_reqs <= MaxNumReqs /\ b.longest \in Nat \ {0}
      /\ b.num_tokens \in Nat /\ b.num_reqs <= b.num_tokens
      /\ b.uniform_token_count # None =>
           b.num_tokens = b.num_reqs * b.longest /\ b.uniform_token_count = b.longest
  BY <1>1, BatchIs
<1>3. /\ d.num_tokens \in Nat /\ MaxNumReqs \in Nat
  BY <1>1, ConfigIs, TokensOfDesc
<1>4. AtMostReqs(d.num_tokens) >= b.num_reqs
  BY <1>1, <1>2, <1>3, MinOfTwo DEF AtMostReqs
<1>5. CASE IsVarlenDesc(d)
  <2>1. IsVarlenDesc(e)
    BY <1>1, <1>5, DescIs, Modes DEF IsVarlenDesc, IsUniformDesc, IsMixedDesc
  <2> QED BY <1>1, <1>4, <1>5, <2>1 DEF IsVarlenDesc, IsCompatible
<1>6. CASE IsUniformDesc(d)
  <2>1. IsUniformDesc(e)
    BY <1>1, <1>6, DescIs, Modes DEF IsVarlenDesc, IsUniformDesc, IsMixedDesc
  <2>2. PICK q \in Nat \ {0} : q = d.uniform_token_count
    BY <1>1, <1>6, ConfigIs DEF IsUniformDesc
  <2>3. e.uniform_token_count = q /\ q # None
    BY <1>6, <2>1, <2>2, NoneAssumption DEF IsUniformDesc, OneQueryLength
  <2>4. b.uniform_token_count = q
    BY <2>3 DEF IsCompatible
  <2>5. b.num_tokens = b.num_reqs * q
    BY <1>2, <2>3, <2>4
  <2>6. d.num_reqs \in Nat /\ d.num_tokens = d.num_reqs * q
    BY <1>6, <2>2 DEF IsUniformDesc
  <2>7. d.num_reqs >= b.num_reqs
    <3> SUFFICES ASSUME d.num_reqs + 1 <= b.num_reqs PROVE FALSE
      BY <1>2, <2>6
    <3>1. PICK n \in Nat, m \in Nat : n = d.num_reqs /\ m = b.num_reqs
      BY <1>2, <2>6
    <3>2. n + 1 <= m
      BY <3>1
    <3>3. (n + 1) * q <= m * q
      BY <3>2
    <3>4. (n + 1) * q = n * q + q /\ n * q \in Nat /\ m * q \in Nat
      OBVIOUS
    <3>5. n * q >= m * q
      BY <1>1, <2>5, <2>6, <3>1
    <3> QED BY <3>3, <3>4, <3>5
  <2> QED BY <1>1, <1>6, <2>2, <2>4, <2>7 DEF IsUniformDesc, IsCompatible
<1>7. CASE IsMixedDesc(d)
  BY <1>1, <1>4, <1>7 DEF IsMixedDesc, IsCompatible
<1> QED BY <1>1, <1>5, <1>6, <1>7, DescIs

LEMMA CandidatesAre ==
  ASSUME TypeOK, NEW b \in Batch, NEW loras, NEW mode,
         NEW e \in CaptureDescs(mode), IsCompatible(e, b, loras)
  PROVE  /\ Candidates(mode, b.num_tokens, loras) # {}
         /\ \A d \in Candidates(mode, b.num_tokens, loras) : d.num_tokens <= e.num_tokens
<1> DEFINE large == {d \in CaptureDescs(mode) : d.num_active_loras = loras /\ d.num_tokens >= b.num_tokens}
           sizes == {d.num_tokens : d \in large}
<1>1. e \in large
  BY DEF IsCompatible
<1>2. \A d \in large : d.num_tokens \in Nat
  BY ConfigIs, TokensOfDesc DEF TypeOK, CaptureDescs
<1>3. sizes \in SUBSET Nat /\ sizes # {}
  BY <1>1, <1>2
<1>4. Candidates(mode, b.num_tokens, loras) = {d \in large : \A f \in large : d.num_tokens <= f.num_tokens}
  BY DEF Candidates
<1> HIDE DEF large
<1>5. PICK m \in sizes : \A k \in sizes : m <= k
  <2> HIDE DEF sizes
  <2> QED BY <1>3, Least
<1>6. PICK d \in large : d.num_tokens = m
  BY <1>5
<1>7. \A f \in large : d.num_tokens <= f.num_tokens
  BY <1>5, <1>6
<1> QED BY <1>1, <1>4, <1>7

LEMMA DispatchesToLeast ==
  ASSUME TypeOK, OneQueryLength, NEW b \in Batch, NEW d \in DispatchesTo(b, TRUE),
         NEW fits,
         fits = [mode \in {"FULL", "PIECEWISE"} |->
                   {e \in CaptureDescs(mode) : IsCompatible(e, b, EffectiveLoras(b.num_active_loras))}]
  PROVE  LET best == IF fits["FULL"] # {} THEN fits["FULL"] ELSE fits["PIECEWISE"]
         IN IF best = {} THEN d.cg_mode = "NONE"
            ELSE d \in best /\ \A e \in best : d.num_tokens <= e.num_tokens
<1> DEFINE loras == EffectiveLoras(b.num_active_loras)
           found(mode) == {e \in Candidates(mode, b.num_tokens, loras) : IsCompatible(e, b, loras)}
<1>1. DispatchesTo(b, TRUE) = IF found("FULL") # {} THEN found("FULL")
                              ELSE IF found("PIECEWISE") # {} THEN found("PIECEWISE")
                              ELSE {Eager(b)}
  BY DEF DispatchesTo
<1>2. Eager(b).cg_mode = "NONE"
  BY DEF Eager, Desc
<1>3. ASSUME NEW mode \in {"FULL", "PIECEWISE"}
      PROVE  /\ found(mode) \subseteq fits[mode]
             /\ fits[mode] # {} => found(mode) # {}
             /\ \A f \in found(mode), e \in fits[mode] : f.num_tokens <= e.num_tokens
  <2>1. fits[mode] = {e \in CaptureDescs(mode) : IsCompatible(e, b, loras)}
    OBVIOUS
  <2>2. found(mode) \subseteq fits[mode]
    BY <2>1 DEF Candidates
  <2>3. ASSUME NEW e \in fits[mode]
        PROVE  found(mode) # {} /\ \A f \in found(mode) : f.num_tokens <= e.num_tokens
    <3>1. e \in CaptureDescs(mode) /\ IsCompatible(e, b, loras)
      BY <2>1
    <3> HIDE DEF loras
    <3>2. /\ Candidates(mode, b.num_tokens, loras) # {}
          /\ \A f \in Candidates(mode, b.num_tokens, loras) : f.num_tokens <= e.num_tokens
      BY <3>1, CandidatesAre
    <3>3. \A f \in Candidates(mode, b.num_tokens, loras) : IsCompatible(f, b, loras)
      BY <3>1, FirstSizeFits
    <3> QED BY <3>2, <3>3
  <2> QED BY <2>2, <2>3
<1> HIDE DEF found, loras
<1>4. CASE fits["FULL"] # {}
  BY <1>1, <1>3, <1>4
<1>5. CASE fits["FULL"] = {} /\ fits["PIECEWISE"] # {}
  BY <1>1, <1>3, <1>5
<1>6. CASE fits["FULL"] = {} /\ fits["PIECEWISE"] = {}
  BY <1>1, <1>2, <1>3, <1>6
<1> QED BY <1>4, <1>5, <1>6

-----------------------------------------------------------------------------
(***************************************************************************)
(* The memory of a capture: what the estimate of profiling rests on.       *)
(***************************************************************************)
Mode == {"FULL", "PIECEWISE"}
HolderOf(mode) == IF mode = "FULL" THEN "manager" ELSE "wrapper"
Left(mode) == {d \in todo : d.cg_mode = mode}
Count(h) == Cardinality(graphs[h])
Total(mode) == Cardinality(CaptureDescs(mode))

\* The activations of the largest graph of a mode, and of all.
Peak(mode) ==
  IF CaptureDescs(mode) = {} THEN 0
  ELSE config.per_token[mode] * Max({d.num_tokens : d \in CaptureDescs(mode)})
Peaks == IF Peak("FULL") > Peak("PIECEWISE") THEN Peak("FULL") ELSE Peak("PIECEWISE")

\* A descriptor is either still to capture or captured, PIECEWISE ones first.
GraphsAreCounted ==
  phase \in WithGraphs =>
    /\ \A mode \in Mode :
         /\ IsFiniteSet(graphs[HolderOf(mode)])
         /\ Count(HolderOf(mode)) + Cardinality(Left(mode)) = Total(mode)
         /\ \A g \in graphs[HolderOf(mode)] : g.desc \notin todo
         /\ graphs[HolderOf(mode)] = {} => Left(mode) = CaptureDescs(mode)
    /\ graphs["manager"] # {} => Left("PIECEWISE") = {}
    /\ phase = "profile_capture" => Count("manager") <= ProfilingSamples
    /\ phase = "serving" => todo = {}

\* The speculator has its graph after the model has its own.
SpeculatorIsCounted ==
  phase \in WithGraphs =>
    \/ /\ graphs["speculator"] = {} /\ Count("speculator") = 0
       /\ phase = "serving" => ~(config.speculator /\ descs # {})
    \/ Count("speculator") = 1 /\ config.speculator /\ descs # {}

\* The pool holds the activations of the largest graph so far, and the fixed
\* part of every graph.
PoolIsCounted ==
  /\ phase \notin WithGraphs => high = 0 /\ used = 0 /\ samples = <<>>
  /\ phase \in WithGraphs =>
       /\ high = IF graphs["manager"] # {} THEN Peaks
                 ELSE IF graphs["wrapper"] # {} THEN Peak("PIECEWISE") ELSE 0
       /\ used = (Count("manager") + Count("wrapper") + Count("speculator")) * fixed + high

SamplesAre ==
  phase = "profile_capture" =>
    samples = [i \in 1 .. Count("manager") |->
                 IF i = 1 THEN fixed + (Peaks - Peak("PIECEWISE")) ELSE fixed]

\* What is set aside: for PIECEWISE graphs and the speculator what they take,
\* for FULL graphs but the first at least MinPerGraph.
SetAside ==
  (Total("PIECEWISE") + (IF config.speculator /\ descs # {} THEN 1 ELSE 0)) * fixed + Peaks +
  (IF Total("FULL") = 0 THEN 0
   ELSE fixed + (Total("FULL") - 1) * (IF fixed > MinPerGraph THEN fixed ELSE MinPerGraph))

EstimateIs ==
  /\ fixed \in config.fixed_costs
  /\ estimate # None => estimate = SetAside

MemInv == /\ GraphsAreCounted /\ SpeculatorIsCounted /\ PoolIsCounted /\ SamplesAre /\ EstimateIs

\* The samples of profiling are at most two.
LEMMA SumOfSamples ==
  ASSUME NEW q \in Seq(Int), Len(q) <= 2
  PROVE  FoldSeq(+, 0, q) = (IF Len(q) >= 1 THEN q[1] ELSE 0) + (IF Len(q) = 2 THEN q[2] ELSE 0)
<1> DEFINE D == DOMAIN q
           Chosen(s) == CHOOSE x \in s : TRUE
           Sums(iter) == iter = [s \in SUBSET D |->
                                   IF s = {} THEN 0 ELSE q[Chosen(s)] + iter[s \ {Chosen(s)}]]
           part == [s \in SUBSET D |-> (IF 1 \in s THEN q[1] ELSE 0) + (IF 2 \in s THEN q[2] ELSE 0)]
           sums == CHOOSE iter : Sums(iter)
<1>1. FoldSeq(+, 0, q) = sums[D]
  BY DEF FoldSeq, FoldFunction, FoldFunctionOnSet, MapThenFoldSet
<1> SUFFICES sums[D] = (IF Len(q) >= 1 THEN q[1] ELSE 0) + (IF Len(q) = 2 THEN q[2] ELSE 0)
  BY <1>1, Zenon
<1>2. D = 1 .. Len(q) /\ Len(q) \in {0, 1, 2} /\ \A x \in D : q[x] \in Int
  <2> HIDE DEF sums
  <2>1. DOMAIN q = 1 .. Len(q) /\ Len(q) \in Nat /\ \A x \in 1 .. Len(q) : q[x] \in Int
    OBVIOUS
  <2> QED BY <2>1
<1>3. \A s \in SUBSET D : s # {} => Chosen(s) \in s
  OBVIOUS
<1> HIDE DEF Chosen, D
<1>4. Sums(part)
  <2>1. ASSUME NEW s \in SUBSET D, s # {}
        PROVE  part[s] = q[Chosen(s)] + part[s \ {Chosen(s)}]
    <3>0. Chosen(s) \in s /\ Chosen(s) \in D /\ s \ {Chosen(s)} \in SUBSET D
      BY <1>3, <2>1, Zenon
    <3>1. Chosen(s) \in {1, 2} /\ Chosen(s) \in s /\ Chosen(s) \in D /\ s \ {Chosen(s)} \in SUBSET D
      BY <1>2, <3>0
    <3>2. part[s] = (IF 1 \in s THEN q[1] ELSE 0) + (IF 2 \in s THEN q[2] ELSE 0)
      OBVIOUS
    <3>3. part[s \ {Chosen(s)}] = (IF 1 \in s \ {Chosen(s)} THEN q[1] ELSE 0) +
                                  (IF 2 \in s \ {Chosen(s)} THEN q[2] ELSE 0)
      BY <3>1
    <3>4. (1 \in s => q[1] \in Int) /\ (2 \in s => q[2] \in Int)
      BY <1>2
    <3> HIDE DEF part
    <3>5. CASE Chosen(s) = 1
      BY <3>1, <3>2, <3>3, <3>4, <3>5
    <3>6. CASE Chosen(s) = 2
      BY <3>1, <3>2, <3>3, <3>4, <3>6
    <3> QED BY <3>1, <3>5, <3>6
  <2>2. part[{}] = 0
    OBVIOUS
  <2> QED BY <2>1, <2>2
<1>5. Sums(sums)
  <2> HIDE DEF Sums
  <2> QED BY <1>4
<1>6. \A s \in SUBSET D : sums[s] = IF s = {} THEN 0 ELSE q[Chosen(s)] + sums[s \ {Chosen(s)}]
  <2> HIDE DEF sums
  <2> QED BY <1>5
<1> HIDE DEF Sums, sums, part
<1>7. sums[{}] = 0
  BY <1>6
<1>8. \A x \in D : sums[{x}] = q[x]
  <2> SUFFICES ASSUME NEW x \in D PROVE sums[{x}] = q[x]
    OBVIOUS
  <2>1. Chosen({x}) = x /\ {x} \ {x} = {} /\ {x} # {}
    BY <1>3
  <2>2. sums[{x}] = q[x] + sums[{}]
    BY <1>6, <2>1
  <2> QED BY <1>2, <1>7, <2>2
<1>9. CASE Len(q) = 0
  BY <1>2, <1>7, <1>9
<1>10. CASE Len(q) = 1
  <2>1. D = {1}
    BY <1>2, <1>10
  <2> QED BY <1>2, <1>8, <1>10, <2>1
<1>11. CASE Len(q) = 2
  <2>1. D = {1, 2} /\ D # {}
    BY <1>2, <1>11
  <2>2. sums[D] = q[Chosen(D)] + sums[D \ {Chosen(D)}]
    BY <1>6, <2>1
  <2>3. Chosen(D) = 1 \/ Chosen(D) = 2
    BY <1>3, <2>1
  <2>4. D \ {1} = {2} /\ D \ {2} = {1} /\ 1 \in D /\ 2 \in D
    BY <2>1
  <2>5. sums[D] = q[1] + q[2]
    BY <1>2, <1>8, <2>2, <2>3, <2>4
  <2> QED BY <1>2, <1>11, <2>5
<1> QED BY <1>2, <1>9, <1>10, <1>11

LEMMA FiniteImage ==
  ASSUME NEW S, IsFiniteSet(S), NEW f, f \in [S -> {f[x] : x \in S}]
  PROVE  IsFiniteSet({f[x] : x \in S})
<1> DEFINE T == {f[x] : x \in S}
<1>1. f \in Surjection(S, T)
  BY DEF Surjection
<1> HIDE DEF T
<1>2. IsFiniteSet(T)
  BY <1>1, FS_Surjection
<1> QED BY <1>2 DEF T

LEMMA DescsAreFinite ==
  ASSUME TypeOK
  PROVE  IsFiniteSet(descs)
<1> DEFINE pairs == CaptureSizes \X LoraCases
<1>1. IsFiniteSet(CaptureSizes) /\ IsFiniteSet(LoraCases)
  BY CaptureAssumption DEF TypeOK, CaptureSizes, LoraCases
<1>2. IsFiniteSet(pairs)
  BY <1>1, FS_Product
<1>3. ASSUME NEW f, f = [p \in pairs |-> f[p]] PROVE IsFiniteSet({f[p] : p \in pairs})
  BY <1>2, <1>3, FiniteImage
<1> HIDE DEF pairs
<1>4. IsFiniteSet(VarlenDescs)
  <2> DEFINE f == [p \in pairs |-> Desc(DecodeMode, p[1], AtMostReqs(p[1]), None, DecodeQueryLen, p[2])]
  <2>1. IsFiniteSet({f[p] : p \in pairs})
    BY <1>3
  <2>2. ASSUME NEW d \in VarlenDescs PROVE \E p \in pairs : d = f[p]
    <3>1. PICK n \in CaptureSizes, l \in LoraCases :
            d = Desc(DecodeMode, n, AtMostReqs(n), None, DecodeQueryLen, l)
      BY DEF VarlenDescs
    <3>2. <<n, l>> \in pairs /\ d = f[<<n, l>>]
      BY <3>1 DEF pairs
    <3> QED BY <3>2
  <2> HIDE DEF f
  <2>3. VarlenDescs \subseteq {f[p] : p \in pairs}
    BY <2>2
  <2> QED BY <2>1, <2>3, FS_Subset
<1>5. IsFiniteSet(MixedDescs)
  <2> DEFINE f == [p \in pairs |-> Desc(MixedMode, p[1], IF MixedMode = "FULL" THEN AtMostReqs(p[1]) ELSE None,
                                        None, None, p[2])]
  <2>1. IsFiniteSet({f[p] : p \in pairs})
    BY <1>3
  <2>2. ASSUME NEW d \in MixedDescs PROVE \E p \in pairs : d = f[p]
    <3>1. PICK n \in CaptureSizes, l \in LoraCases :
            d = Desc(MixedMode, n, IF MixedMode = "FULL" THEN AtMostReqs(n) ELSE None, None, None, l)
      BY DEF MixedDescs
    <3>2. <<n, l>> \in pairs /\ d = f[<<n, l>>]
      BY <3>1 DEF pairs
    <3> QED BY <3>2
  <2> HIDE DEF f
  <2>3. MixedDescs \subseteq {f[p] : p \in pairs}
    BY <2>2
  <2> QED BY <2>1, <2>3, FS_Subset
<1>6. IsFiniteSet(UniformDescs)
  <2> DEFINE triples == pairs \X (1 .. DecodeQueryLen)
             f == [t \in triples |-> Desc(DecodeMode, RoundUp(t[1][1], t[2]), RoundUp(t[1][1], t[2]) \div t[2],
                                          t[2], None, t[1][2])]
  <2>1. IsFiniteSet(triples)
    <3>1. IsFiniteSet(1 .. DecodeQueryLen)
      BY ConfigIs, FS_Interval DEF TypeOK
    <3> QED BY <1>2, <3>1, FS_Product
  <2> HIDE DEF triples
  <2>2. IsFiniteSet({f[t] : t \in triples})
    BY <2>1, FiniteImage
  <2>3. \A q \in DecodeQueryLens : q \in 1 .. DecodeQueryLen
    BY CaptureAssumption DEF TypeOK, DecodeQueryLens, DecodeQueryLen
  <2>4. ASSUME NEW d \in UniformDescs PROVE \E t \in triples : d = f[t]
    <3>1. PICK q \in DecodeQueryLens, n \in CaptureSizes, l \in LoraCases :
            d = Desc(DecodeMode, RoundUp(n, q), RoundUp(n, q) \div q, q, None, l)
      BY DEF UniformDescs
    <3>2. <<<<n, l>>, q>> \in triples
      BY <2>3 DEF triples, pairs
    <3>3. d = f[<<<<n, l>>, q>>]
      BY <3>1, <3>2
    <3> QED BY <3>2, <3>3
  <2> HIDE DEF f
  <2>5. UniformDescs \subseteq {f[t] : t \in triples}
    BY <2>4
  <2> QED BY <2>2, <2>5, FS_Subset
<1> QED BY <1>4, <1>5, <1>6, FS_Union DEF TypeOK

LEMMA CostsAreNumbers ==
  ASSUME TypeOK, fixed \in config.fixed_costs
  PROVE  fixed \in Nat /\ MinPerGraph \in Nat /\ \A mode \in Mode : config.per_token[mode] \in Nat
BY MemoryAssumption DEF TypeOK, Mode

LEMMA PeakIs ==
  ASSUME TypeOK, EstimateIs, NEW mode \in Mode
  PROVE  /\ Peak(mode) \in Nat
         /\ \A d \in CaptureDescs(mode) : config.per_token[mode] * d.num_tokens \in Nat
         /\ \A d \in CaptureDescs(mode) : config.per_token[mode] * d.num_tokens <= Peak(mode)
         /\ \A d \in CaptureDescs(mode) :
              (\A e \in CaptureDescs(mode) : e.num_tokens <= d.num_tokens) =>
                config.per_token[mode] * d.num_tokens = Peak(mode)
<1>1. PICK c \in Nat : c = config.per_token[mode]
  BY CostsAreNumbers DEF EstimateIs
<1> DEFINE sizes == {d.num_tokens : d \in CaptureDescs(mode)}
<1>2. CASE CaptureDescs(mode) = {}
  BY <1>2 DEF Peak
<1>3. CASE CaptureDescs(mode) # {}
  <2>1. \A d \in CaptureDescs(mode) : d.num_tokens \in Nat /\ d.num_tokens <= MaxCaptureSize
    BY ConfigIs, TokensOfDesc DEF TypeOK, CaptureDescs
  <2>2. MaxCaptureSize \in Nat
    BY ConfigIs DEF TypeOK
  <2>3. sizes \in SUBSET Nat /\ sizes # {} /\ \A x \in sizes : x <= MaxCaptureSize
    BY <1>3, <2>1
  <2> HIDE DEF sizes
  <2>4. PICK m \in sizes : \A x \in sizes : x <= m
    BY <2>2, <2>3, Greatest
  <2>5. m \in Nat /\ \A x \in sizes : (\A y \in sizes : x >= y) => x = m
    BY <2>3, <2>4
  <2>6. Max(sizes) = m
    <3>1. \A y \in sizes : m >= y
      BY <2>3, <2>4
    <3> QED BY <2>5, <3>1 DEF Max
  <2>7. Peak(mode) = c * m
    BY <1>1, <1>3, <2>6 DEF Peak, sizes
  <2>8. \A d \in CaptureDescs(mode) : d.num_tokens \in sizes
    BY DEF sizes
  <2>9. \A d \in CaptureDescs(mode) : c * d.num_tokens \in Nat /\ c * d.num_tokens <= c * m
    BY <2>1, <2>4, <2>5, <2>8
  <2>10. ASSUME NEW d \in CaptureDescs(mode), \A e \in CaptureDescs(mode) : e.num_tokens <= d.num_tokens
         PROVE  d.num_tokens = m
    <3>1. \A x \in sizes : x <= d.num_tokens
      BY <2>10 DEF sizes
    <3>2. m <= d.num_tokens /\ d.num_tokens <= m /\ d.num_tokens \in Nat
      BY <2>1, <2>4, <2>8, <3>1
    <3> QED BY <2>5, <3>2
  <2>11. c * m \in Nat
    BY <2>5
  <2> QED BY <1>1, <2>7, <2>9, <2>10, <2>11
<1> QED BY <1>2, <1>3

LEMMA PeaksIs ==
  ASSUME TypeOK, EstimateIs
  PROVE  /\ Peak("FULL") \in Nat /\ Peak("PIECEWISE") \in Nat /\ Peaks \in Nat
         /\ Peak("FULL") <= Peaks /\ Peak("PIECEWISE") <= Peaks
         /\ Peaks \in {Peak("FULL"), Peak("PIECEWISE")}
<1>1. Peak("FULL") \in Nat /\ Peak("PIECEWISE") \in Nat
  BY PeakIs DEF Mode
<1> QED BY <1>1 DEF Peaks

LEMMA MaxOfTwo ==
  ASSUME NEW m \in Int, NEW n \in Int
  PROVE  Max({m, n}) = IF m >= n THEN m ELSE n
<1> DEFINE S == {m, n}
<1>1. PICK l \in S : l = IF m >= n THEN m ELSE n
  OBVIOUS
<1>2. l \in Int /\ \A x \in S : l >= x
  BY <1>1
<1>3. \A x \in S : (\A y \in S : x >= y) => x = l
  BY <1>2
<1>4. Max(S) = l
  BY <1>2, <1>3 DEF Max
<1> QED BY <1>1, <1>4

LEMMA CountsAreNumbers ==
  ASSUME TypeOK, GraphsAreCounted, NEW mode \in Mode
  PROVE  /\ IsFiniteSet(Left(mode)) /\ Cardinality(Left(mode)) \in Nat /\ Total(mode) \in Nat
         /\ phase \in WithGraphs => Count(HolderOf(mode)) \in Nat
         /\ phase \in WithGraphs => (Count(HolderOf(mode)) = 0 <=> graphs[HolderOf(mode)] = {})
         /\ Cardinality(Left(mode)) = 0 <=> Left(mode) = {}
         /\ Total(mode) = 0 <=> CaptureDescs(mode) = {}
<1>1. IsFiniteSet(descs) /\ Left(mode) \subseteq descs /\ CaptureDescs(mode) \subseteq descs
  BY DescsAreFinite DEF TypeOK, Left, CaptureDescs
<1>2. IsFiniteSet(Left(mode)) /\ IsFiniteSet(CaptureDescs(mode))
  BY <1>1, FS_Subset
<1>3. phase \in WithGraphs => IsFiniteSet(graphs[HolderOf(mode)])
  BY DEF GraphsAreCounted
<1> QED BY <1>2, <1>3, FS_CardinalityType, FS_EmptySet DEF Count, Total

LEMMA SameMemory ==
  ASSUME UNCHANGED <<config, descs>>
  PROVE  /\ \A mode : Total(mode)' = Total(mode) /\ Peak(mode)' = Peak(mode)
         /\ Peaks' = Peaks
         /\ fixed' = fixed => SetAside' = SetAside
BY DEF Total, CaptureDescs, Peak, Peaks, SetAside

\* The steps of startup that hold no graphs.
LEMMA MemoryOutside ==
  ASSUME MemInv, phase \notin WithGraphs, phase' \notin WithGraphs,
         UNCHANGED <<config, descs, fixed, memory>>
  PROVE  MemInv'
<1>1. GraphsAreCounted' /\ SpeculatorIsCounted' /\ PoolIsCounted' /\ SamplesAre'
  BY DEF MemInv, GraphsAreCounted, SpeculatorIsCounted, PoolIsCounted, SamplesAre, WithGraphs, memory
<1>2. EstimateIs'
  BY SameMemory DEF MemInv, EstimateIs, memory
<1> QED BY <1>1, <1>2 DEF MemInv

\* A capture begins with nothing captured.
LEMMA MemoryBegins ==
  ASSUME IInv, MemInv, phase \notin WithGraphs, phase' \in {"profile_capture", "capture"},
         UNCHANGED <<config, descs, fixed, memory, graphs>>, todo' = descs
  PROVE  MemInv'
<1>1. graphs' = [h \in Holder |-> {}]
  BY DEF IInv, GraphsOfPhase
<1>2. \A h \in Holder : graphs'[h] = {} /\ IsFiniteSet(graphs'[h]) /\ Count(h)' = 0
  BY <1>1, FS_EmptySet DEF Count
<1>3. phase' \in WithGraphs /\ phase' # "serving"
  BY DEF WithGraphs
<1>4. high' = 0 /\ used' = 0 /\ samples' = <<>> /\ estimate' = estimate
  BY DEF MemInv, PoolIsCounted, memory
<1>5. \A mode \in Mode : HolderOf(mode) \in Holder
  BY DEF HolderOf, Holder
<1>6. \A mode : Left(mode)' = CaptureDescs(mode)'
  BY DEF Left, CaptureDescs
<1>7. \A mode \in Mode : Total(mode)' \in Nat
  BY CountsAreNumbers, SameMemory DEF IInv, MemInv
<1>8. GraphsAreCounted'
  <2>1. ASSUME NEW mode \in Mode
        PROVE  /\ IsFiniteSet(graphs'[HolderOf(mode)]) /\ graphs'[HolderOf(mode)] = {}
               /\ Count(HolderOf(mode))' + Cardinality(Left(mode)') = Total(mode)'
    <3>1. Count(HolderOf(mode))' = 0
      BY <1>2, <1>5
    <3>2. Cardinality(Left(mode)') = Total(mode)'
      BY <1>6 DEF Total
    <3> QED BY <1>2, <1>5, <1>7, <3>1, <3>2
  <2>2. "manager" \in Holder /\ Count("manager")' = 0 /\ graphs'["manager"] = {}
    BY <1>2 DEF Holder
  <2> QED BY <1>3, <1>6, <2>1, <2>2 DEF GraphsAreCounted, ProfilingSamples
<1>9. SpeculatorIsCounted'
  BY <1>2, <1>3 DEF SpeculatorIsCounted, Holder
<1>10. PoolIsCounted'
  <2>1. fixed \in Nat /\ fixed' = fixed
    BY CostsAreNumbers DEF IInv, MemInv, EstimateIs
  <2>2. \A h \in Holder : Count(h)' = 0 /\ graphs'[h] = {}
    BY <1>2
  <2> QED BY <1>3, <1>4, <2>1, <2>2 DEF PoolIsCounted, Holder
<1>11. SamplesAre'
  BY <1>2, <1>4 DEF SamplesAre, Holder
<1>12. EstimateIs'
  BY <1>4, SameMemory DEF MemInv, EstimateIs
<1> QED BY <1>8, <1>9, <1>10, <1>11, <1>12 DEF MemInv

\* A step that leaves the graphs and the memory alone.
LEMMA MemoryKept ==
  ASSUME MemInv, UNCHANGED <<config, descs, fixed, memory, graphs, todo>>, phase' = phase
  PROVE  MemInv'
<1>1. /\ \A mode : Left(mode)' = Left(mode) /\ Cardinality(Left(mode))' = Cardinality(Left(mode))
      /\ \A mode : CaptureDescs(mode)' = CaptureDescs(mode) /\ HolderOf(mode)' = HolderOf(mode)
      /\ \A h : Count(h)' = Count(h)
  BY SameConfig DEF Left, Count
<1>2. GraphsAreCounted'
  BY <1>1, SameMemory DEF MemInv, GraphsAreCounted
<1>3. SpeculatorIsCounted'
  BY <1>1 DEF MemInv, SpeculatorIsCounted
<1>4. PoolIsCounted' /\ SamplesAre' /\ EstimateIs'
  BY <1>1, SameMemory DEF MemInv, PoolIsCounted, SamplesAre, EstimateIs, memory
<1> QED BY <1>2, <1>3, <1>4 DEF MemInv

LEMMA SpeculatorMemory ==
  ASSUME IInv, MemInv, SpeculatorCaptures
  PROVE  MemInv'
<1> DEFINE graph == [desc |-> SpeculatorDesc, pool |-> global_pool, kv |-> kv]
<1>1. /\ phase \in {"profile_capture", "capture"} /\ graphs["speculator"] = {}
      /\ config.speculator /\ descs # {}
      /\ graphs' = [graphs EXCEPT !["speculator"] = {graph}]
      /\ used' = used + fixed
      /\ UNCHANGED <<config, descs, fixed, phase, todo, high, samples, estimate>>
  BY DEF SpeculatorCaptures, ModelIsCaptured, CaptureIsComplete, choices, SpeculatorDesc
<1>2. phase \in WithGraphs
  BY <1>1 DEF WithGraphs
<1>3. graphs \in [Holder -> SUBSET Graph]
  BY DEF IInv, TypeOK
<1> HIDE DEF graph
<1>4. graphs'["speculator"] = {graph} /\ graphs'["manager"] = graphs["manager"]
      /\ graphs'["wrapper"] = graphs["wrapper"]
  BY <1>1, <1>3 DEF Holder
<1>5. /\ Count("speculator") = 0 /\ Count("speculator")' = 1
      /\ Count("manager")' = Count("manager") /\ Count("wrapper")' = Count("wrapper")
  <2>1. Cardinality({}) = 0 /\ Cardinality({graph}) = 1
    BY FS_EmptySet, FS_Singleton
  <2> QED BY <1>1, <1>4, <2>1 DEF Count
<1>6. \A mode \in Mode : /\ graphs'[HolderOf(mode)] = graphs[HolderOf(mode)]
                         /\ Count(HolderOf(mode))' = Count(HolderOf(mode))
                         /\ Left(mode)' = Left(mode)
                         /\ Cardinality(Left(mode))' = Cardinality(Left(mode))
                         /\ HolderOf(mode)' = HolderOf(mode)
  BY <1>1, <1>4, <1>5 DEF HolderOf, Left
<1>7. GraphsAreCounted'
  BY <1>1, <1>2, <1>4, <1>5, <1>6, SameMemory, SameConfig DEF MemInv, GraphsAreCounted, Mode
<1>8. SpeculatorIsCounted'
  BY <1>1, <1>5 DEF SpeculatorIsCounted
<1>9. PoolIsCounted'
  <2>1. Count("manager") \in Nat /\ Count("wrapper") \in Nat /\ fixed \in Nat
    BY <1>2, CountsAreNumbers, CostsAreNumbers DEF IInv, MemInv, EstimateIs, Mode, HolderOf
  <2>2. /\ high = IF graphs["manager"] # {} THEN Peaks
                  ELSE IF graphs["wrapper"] # {} THEN Peak("PIECEWISE") ELSE 0
        /\ used = (Count("manager") + Count("wrapper") + Count("speculator")) * fixed + high
    BY <1>2 DEF MemInv, PoolIsCounted
  <2>3. high \in Nat
    BY <2>2, PeaksIs DEF IInv, MemInv
  <2>4. PICK n \in Nat : n = Count("manager") + Count("wrapper")
    BY <2>1
  <2>5. used = n * fixed + high
    BY <1>5, <2>2, <2>4
  <2>6. (n + 1) * fixed = n * fixed + fixed /\ n * fixed \in Nat
    BY <2>1
  <2>7. used' = (n + 1) * fixed + high
    BY <1>1, <2>1, <2>3, <2>5, <2>6
  <2>8. n + 1 = Count("manager")' + Count("wrapper")' + Count("speculator")'
    BY <1>5, <2>4
  <2> QED BY <1>1, <1>2, <1>4, <2>2, <2>7, <2>8, SameMemory DEF PoolIsCounted
<1>10. SamplesAre' /\ EstimateIs'
  BY <1>1, <1>5, SameMemory DEF MemInv, SamplesAre, EstimateIs
<1> QED BY <1>7, <1>8, <1>9, <1>10 DEF MemInv

\* The mode whose turn it is.
LEMMA NextOfMode ==
  ASSUME IInv, MemInv, phase \in {"profile_capture", "capture"}, NEW d \in NextToCapture
  PROVE  /\ d \in todo /\ d \in descs /\ d.cg_mode \in Mode /\ d \in CaptureDescs(d.cg_mode)
         /\ d.cg_mode = "PIECEWISE" => graphs["manager"] = {}
         /\ d.cg_mode = "FULL" =>
              /\ Left("PIECEWISE") = {}
              /\ phase = "profile_capture" => Count("manager") < ProfilingSamples
         /\ graphs[HolderOf(d.cg_mode)] = {} =>
              \A e \in CaptureDescs(d.cg_mode) : e.num_tokens <= d.num_tokens
<1> DEFINE piecewise == {e \in todo : e.cg_mode = "PIECEWISE"}
           capped == manager.cap # None /\ Cardinality(graphs["manager"]) >= manager.cap
           next == IF piecewise # {} THEN piecewise ELSE IF capped THEN {} ELSE todo
<1>1. d \in next /\ \A e \in next : e.num_tokens <= d.num_tokens
  BY DEF NextToCapture
<1>2. d \in todo /\ d \in descs /\ d.cg_mode \in Mode /\ d \in CaptureDescs(d.cg_mode)
  BY <1>1, TokensOfDesc DEF IInv, TypeOK, Mode, CaptureDescs
<1>3. phase \in WithGraphs
  BY DEF WithGraphs
<1>4. ASSUME d.cg_mode = "PIECEWISE" PROVE graphs["manager"] = {} /\ Left("PIECEWISE") = next
  BY <1>2, <1>3, <1>4 DEF MemInv, GraphsAreCounted, Left
<1>5. ASSUME d.cg_mode = "FULL"
      PROVE  /\ Left("PIECEWISE") = {} /\ next = todo /\ ~capped
  BY <1>1, <1>5 DEF Left
<1>6. ASSUME d.cg_mode = "FULL", phase = "profile_capture" PROVE Count("manager") < ProfilingSamples
  <2>1. manager.cap = ProfilingSamples /\ ProfilingSamples \in Nat /\ ProfilingSamples # None
    BY <1>6, NoneAssumption DEF IInv, ManagerOfPhase, ProfilingSamples
  <2>2. Count("manager") \in Nat
    BY <1>3, CountsAreNumbers DEF IInv, MemInv, Mode, HolderOf
  <2> QED BY <1>5, <1>6, <2>1, <2>2 DEF Count
<1>7. ASSUME graphs[HolderOf(d.cg_mode)] = {}, NEW e \in CaptureDescs(d.cg_mode)
      PROVE  e.num_tokens <= d.num_tokens
  <2>1. Left(d.cg_mode) = CaptureDescs(d.cg_mode)
    BY <1>2, <1>3, <1>7 DEF MemInv, GraphsAreCounted
  <2>2. e \in todo /\ e \in Left(d.cg_mode)
    BY <2>1, <1>7 DEF Left
  <2> QED BY <1>1, <1>2, <1>4, <1>5, <2>2 DEF Mode
<1> QED BY <1>2, <1>4, <1>5, <1>6, <1>7

LEMMA CaptureOneMemory ==
  ASSUME IInv, MemInv, CaptureOne
  PROVE  MemInv'
<1> DEFINE New(d) == \A g \in graphs[HolderOf(d.cg_mode)] : g.desc # d
<1>1. PICK d \in NextToCapture :
        /\ todo' = todo \ {d}
        /\ \E pool : graphs' = [graphs EXCEPT ![HolderOf(d.cg_mode)] =
                        IF New(d) THEN @ \union {[desc |-> d, pool |-> pool, kv |-> kv]} ELSE @]
        /\ used' = used + (IF New(d) THEN Cost(d) ELSE 0)
        /\ high' = high + (IF New(d) THEN Cost(d) - fixed ELSE 0)
        /\ samples' = IF manager.cap # None /\ d.cg_mode = "FULL"
                        THEN Append(samples, Cost(d)) ELSE samples
  BY DEF CaptureOne, HolderOf
<1>2. /\ phase \in {"profile_capture", "capture"} /\ phase \in WithGraphs
      /\ UNCHANGED <<config, descs, fixed, phase, estimate>>
  BY DEF CaptureOne, choices, WithGraphs
<1> DEFINE mode == d.cg_mode
           holder == HolderOf(mode)
           other == IF mode = "FULL" THEN "PIECEWISE" ELSE "FULL"
<1>3. /\ d \in todo /\ d \in descs /\ mode \in Mode /\ d \in CaptureDescs(mode)
      /\ mode = "PIECEWISE" => graphs["manager"] = {}
      /\ mode = "FULL" => /\ Left("PIECEWISE") = {}
                          /\ phase = "profile_capture" => Count("manager") < ProfilingSamples
      /\ graphs[holder] = {} => \A e \in CaptureDescs(mode) : e.num_tokens <= d.num_tokens
  BY <1>2, NextOfMode
<1>4. New(d)
  BY <1>2, <1>3 DEF MemInv, GraphsAreCounted
<1>5. PICK graph : /\ graph.desc = d /\ graph \notin graphs[holder]
                   /\ graphs' = [graphs EXCEPT ![holder] = @ \union {graph}]
  <2>1. PICK pool : graphs' = [graphs EXCEPT ![holder] = @ \union {[desc |-> d, pool |-> pool, kv |-> kv]}]
    BY <1>1, <1>4
  <2>2. [desc |-> d, pool |-> pool, kv |-> kv].desc = d
    OBVIOUS
  <2>3. [desc |-> d, pool |-> pool, kv |-> kv] \notin graphs[holder]
    BY <1>4, <2>2
  <2> QED BY <2>1, <2>2, <2>3
<1>6. used' = used + Cost(d) /\ high' = high + (Cost(d) - fixed)
  BY <1>1, <1>4
<1> HIDE DEF New
<1>7. /\ holder \in {"manager", "wrapper"} /\ HolderOf(other) \in {"manager", "wrapper"}
      /\ holder # HolderOf(other) /\ Mode = {mode, other} /\ mode # other
  BY <1>3 DEF HolderOf, Mode
<1>8. /\ graphs'[holder] = graphs[holder] \union {graph}
      /\ \A h \in Holder : h # holder => graphs'[h] = graphs[h]
  BY <1>5, <1>7 DEF IInv, TypeOK, Holder
<1>9. /\ IsFiniteSet(graphs[holder]) /\ IsFiniteSet(graphs'[holder])
      /\ Count(holder)' = Count(holder) + 1 /\ Count(holder) \in Nat
  <2>1. IsFiniteSet(graphs[holder])
    BY <1>2, <1>3 DEF MemInv, GraphsAreCounted
  <2> QED BY <1>5, <1>8, <2>1, FS_AddElement, FS_CardinalityType DEF Count
<1>10. \A h \in Holder : h # holder => Count(h)' = Count(h)
  BY <1>8 DEF Count
<1>11. /\ Left(mode)' = Left(mode) \ {d} /\ Left(other)' = Left(other)
       /\ Cardinality(Left(mode)') = Cardinality(Left(mode)) - 1
       /\ Cardinality(Left(mode)) \in Nat
  <2>1. Left(mode)' = Left(mode) \ {d} /\ Left(other)' = Left(other) /\ d \in Left(mode)
    BY <1>1, <1>3, <1>7 DEF Left
  <2>2. IsFiniteSet(Left(mode))
    BY <1>3, CountsAreNumbers DEF IInv, MemInv
  <2> QED BY <2>1, <2>2, FS_RemoveElement, FS_CardinalityType
<1> HIDE DEF holder, mode, other
<1>12. "manager" \in Holder /\ "wrapper" \in Holder /\ "speculator" \in Holder /\ holder # "speculator"
  BY <1>7 DEF Holder
<1>13. mode = d.cg_mode /\ holder = HolderOf(mode)
  BY DEF mode, holder
<1>14. GraphsAreCounted'
  <2>1. ASSUME NEW m \in Mode
        PROVE  /\ IsFiniteSet(graphs'[HolderOf(m)])
               /\ Count(HolderOf(m))' + Cardinality(Left(m)') = Total(m)
               /\ \A g \in graphs'[HolderOf(m)] : g.desc \notin todo'
               /\ graphs'[HolderOf(m)] = {} => Left(m)' = CaptureDescs(m)
    <3>1. /\ IsFiniteSet(graphs[HolderOf(m)])
          /\ Count(HolderOf(m)) + Cardinality(Left(m)) = Total(m)
          /\ \A g \in graphs[HolderOf(m)] : g.desc \notin todo
          /\ graphs[HolderOf(m)] = {} => Left(m) = CaptureDescs(m)
      BY <1>2 DEF MemInv, GraphsAreCounted
    <3>2. CASE m = mode
      <4>1. \A g \in graphs'[holder] : g.desc \notin todo'
        BY <1>1, <1>5, <1>8, <1>13, <3>1, <3>2
      <4>2. HolderOf(m) = holder /\ graphs'[holder] # {}
        BY <1>8, <1>13, <3>2
      <4>3. Count(holder) + Cardinality(Left(mode)) = Total(mode)
        BY <3>1, <3>2, <4>2
      <4>4. Count(holder)' + Cardinality(Left(mode)') = Total(mode)
        BY <1>9, <1>11, <4>3
      <4> QED BY <1>9, <3>2, <4>1, <4>2, <4>4
    <3>3. CASE m = other
      <4>1. HolderOf(m) \in Holder /\ HolderOf(m) # holder
        BY <1>7, <1>12, <3>3
      <4>2. graphs'[HolderOf(m)] = graphs[HolderOf(m)] /\ Count(HolderOf(m))' = Count(HolderOf(m))
        BY <1>8, <1>10, <4>1
      <4> QED BY <1>1, <1>11, <3>1, <3>3, <4>2
    <3> QED BY <1>7, <3>2, <3>3
  <2>2. graphs'["manager"] # {} => Left("PIECEWISE")' = {}
    <3>1. CASE mode = "FULL"
      <4>1. other = "PIECEWISE" /\ Left("PIECEWISE") = {}
        BY <1>3, <1>7, <3>1 DEF Mode
      <4> QED BY <1>11, <4>1
    <3>2. CASE mode = "PIECEWISE"
      <4>1. holder = "wrapper" /\ graphs["manager"] = {}
        BY <1>3, <1>13, <3>2 DEF HolderOf
      <4> QED BY <1>8, <1>12, <4>1
    <3> QED BY <1>3, <3>1, <3>2 DEF Mode
  <2>3. phase = "profile_capture" => Count("manager")' <= ProfilingSamples
    <3>1. CASE mode = "FULL"
      <4>1. holder = "manager"
        BY <1>13, <3>1 DEF HolderOf
      <4> QED BY <1>3, <1>9, <3>1, <4>1 DEF ProfilingSamples
    <3>2. CASE mode = "PIECEWISE"
      <4>1. holder = "wrapper"
        BY <1>13, <3>2 DEF HolderOf
      <4> QED BY <1>2, <1>10, <1>12, <4>1 DEF MemInv, GraphsAreCounted
    <3> QED BY <1>3, <3>1, <3>2 DEF Mode
  <2>4. \A m \in Mode : HolderOf(m)' = HolderOf(m) /\ Total(m)' = Total(m)
                        /\ CaptureDescs(m)' = CaptureDescs(m)
    BY <1>2, SameMemory, SameConfig DEF HolderOf
  <2>5. \A m \in Mode : /\ IsFiniteSet(graphs'[HolderOf(m)'])
                        /\ Count(HolderOf(m))' + Cardinality(Left(m)') = Total(m)'
                        /\ \A g \in graphs'[HolderOf(m)'] : g.desc \notin todo'
                        /\ graphs'[HolderOf(m)'] = {} => Left(m)' = CaptureDescs(m)'
    BY <2>1, <2>4
  <2> QED BY <1>2, <2>2, <2>3, <2>5 DEF GraphsAreCounted
<1>15. SpeculatorIsCounted'
  BY <1>2, <1>8, <1>10, <1>12 DEF MemInv, SpeculatorIsCounted
<1>16. PICK act \in Nat : act = config.per_token[mode] * d.num_tokens
  BY <1>3, <1>13, PeakIs DEF IInv, MemInv
<1>17. /\ Peak("FULL") \in Nat /\ Peak("PIECEWISE") \in Nat /\ Peaks \in Nat /\ fixed \in Nat
       /\ Peak("FULL") <= Peaks /\ Peak("PIECEWISE") <= Peaks
       /\ Peaks = IF Peak("FULL") > Peak("PIECEWISE") THEN Peak("FULL") ELSE Peak("PIECEWISE")
       /\ act <= Peak(mode) /\ (graphs[holder] = {} => act = Peak(mode))
  BY <1>3, <1>13, <1>16, PeaksIs, PeakIs, CostsAreNumbers DEF IInv, MemInv, EstimateIs, Peaks
<1>18. /\ high = IF graphs["manager"] # {} THEN Peaks
                 ELSE IF graphs["wrapper"] # {} THEN Peak("PIECEWISE") ELSE 0
       /\ used = (Count("manager") + Count("wrapper") + Count("speculator")) * fixed + high
  BY <1>2 DEF MemInv, PoolIsCounted
<1>19. high \in Nat
  BY <1>17, <1>18
<1>20. Cost(d) = fixed + ((IF act >= high THEN act ELSE high) - high)
  <2>1. Max({act, high}) = IF act >= high THEN act ELSE high
    BY <1>19, MaxOfTwo
  <2> QED BY <1>13, <1>16, <2>1 DEF Cost
<1>21. /\ high' = (IF act >= high THEN act ELSE high)
       /\ used' = used + (fixed + (high' - high))
  <2>1. high' = (IF act >= high THEN act ELSE high)
    BY <1>6, <1>17, <1>19, <1>20
  <2> QED BY <1>6, <1>20, <2>1
<1>22. /\ mode = "FULL" => /\ holder = "manager"
                           /\ graphs["manager"] = {} => high = Peak("PIECEWISE")
                           /\ high' = Peaks
       /\ mode = "PIECEWISE" => /\ holder = "wrapper" /\ graphs["manager"] = {}
                                /\ high' = Peak("PIECEWISE")
  <2>1. ASSUME mode = "FULL", graphs["manager"] = {} PROVE high = Peak("PIECEWISE")
    <3>1. CASE graphs["wrapper"] # {}
      BY <1>18, <2>1, <3>1
    <3>2. CASE graphs["wrapper"] = {}
      <4>1. Left("PIECEWISE") = CaptureDescs("PIECEWISE")
        BY <1>2, <3>2 DEF MemInv, GraphsAreCounted, Mode, HolderOf
      <4>2. Peak("PIECEWISE") = 0
        BY <1>3, <2>1, <4>1 DEF Peak
      <4> QED BY <1>18, <2>1, <3>2, <4>2
    <3> QED BY <3>1, <3>2
  <2>2. CASE mode = "FULL"
    <3>1. holder = "manager"
      BY <1>13, <2>2 DEF HolderOf
    <3>2. high' = Peaks
      BY <1>17, <1>18, <1>19, <1>21, <2>1, <2>2, <3>1
    <3> QED BY <2>1, <2>2, <3>1, <3>2
  <2>3. CASE mode = "PIECEWISE"
    <3>1. holder = "wrapper" /\ graphs["manager"] = {}
      BY <1>3, <1>13, <2>3 DEF HolderOf
    <3> QED BY <1>17, <1>18, <1>19, <1>21, <2>3, <3>1
  <2> QED BY <1>3, <2>2, <2>3 DEF Mode
<1>23. /\ mode = "FULL" => graphs'["manager"] # {}
       /\ mode = "PIECEWISE" => graphs'["manager"] = {} /\ graphs'["wrapper"] # {}
  BY <1>8, <1>12, <1>22
<1>24. PoolIsCounted'
  <2>1. high' = IF graphs'["manager"] # {} THEN Peaks
                ELSE IF graphs'["wrapper"] # {} THEN Peak("PIECEWISE") ELSE 0
    BY <1>3, <1>22, <1>23 DEF Mode
  <2>2. Count("manager") \in Nat /\ Count("wrapper") \in Nat /\ Count("speculator") \in Nat
    BY <1>2, CountsAreNumbers DEF IInv, MemInv, Mode, HolderOf, SpeculatorIsCounted
  <2>3. PICK n \in Nat : n = Count("manager") + Count("wrapper") + Count("speculator")
    BY <2>2
  <2>4. Count("manager")' + Count("wrapper")' + Count("speculator")' = n + 1
    <3>1. CASE holder = "manager"
      BY <1>9, <1>10, <1>12, <2>2, <2>3, <3>1
    <3>2. CASE holder = "wrapper"
      BY <1>9, <1>10, <1>12, <2>2, <2>3, <3>2
    <3> QED BY <1>7, <1>13, <3>1, <3>2
  <2>5. n * fixed \in Nat /\ (n + 1) * fixed = n * fixed + fixed
    BY <1>17
  <2>6. high' \in Nat /\ used = n * fixed + high
    BY <1>16, <1>18, <1>19, <1>21, <2>3
  <2>7. used' = (n + 1) * fixed + high'
    BY <1>17, <1>19, <1>21, <2>5, <2>6
  <2>8. used' = (Count("manager")' + Count("wrapper")' + Count("speculator")') * fixed + high'
    BY <2>4, <2>7
  <2> QED BY <1>2, <2>1, <2>8, SameMemory DEF PoolIsCounted
<1>25. SamplesAre'
  <2> SUFFICES ASSUME phase = "profile_capture"
               PROVE  samples' = [i \in 1 .. Count("manager")' |->
                                    IF i = 1 THEN fixed + (Peaks - Peak("PIECEWISE")) ELSE fixed]
    BY <1>2, SameMemory DEF SamplesAre
  <2> DEFINE sample(i) == IF i = 1 THEN fixed + (Peaks - Peak("PIECEWISE")) ELSE fixed
  <2>1. samples = [i \in 1 .. Count("manager") |-> sample(i)]
    BY DEF MemInv, SamplesAre
  <2>2. manager.cap # None
    BY NoneAssumption DEF IInv, ManagerOfPhase, ProfilingSamples
  <2>3. CASE mode = "PIECEWISE"
    <3>1. samples' = samples /\ Count("manager")' = Count("manager")
      BY <1>1, <1>10, <1>12, <1>13, <1>22, <2>3
    <3> QED BY <2>1, <3>1
  <2>4. CASE mode = "FULL"
    <3>1. samples' = Append(samples, Cost(d)) /\ holder = "manager"
      BY <1>1, <1>13, <1>22, <2>2, <2>4
    <3>2. PICK n \in Nat : n = Count("manager")
      BY <1>9, <3>1
    <3>3. Count("manager")' = n + 1
      BY <1>9, <3>1, <3>2
    <3>4. n = 0 <=> graphs["manager"] = {}
      BY <1>2, <3>2, CountsAreNumbers DEF IInv, MemInv, Mode, HolderOf
    <3>5. Cost(d) = sample(n + 1)
      BY <1>16, <1>17, <1>18, <1>19, <1>20, <1>21, <1>22, <2>4, <3>4
    <3> HIDE DEF sample
    <3>6. samples' = [i \in 1 .. n + 1 |-> sample(i)]
      BY <2>1, <3>1, <3>2, <3>5
    <3> QED BY <3>3, <3>6 DEF sample
  <2> QED BY <1>3, <2>3, <2>4 DEF Mode
<1>26. EstimateIs'
  BY <1>2, SameMemory DEF MemInv, EstimateIs
<1> QED BY <1>14, <1>15, <1>24, <1>25, <1>26 DEF MemInv

LEMMA CaptureEndMemory ==
  ASSUME IInv, MemInv, CaptureEnd
  PROVE  MemInv'
<1>1. /\ phase = "capture" /\ phase' = "serving" /\ NextToCapture = {}
      /\ config.speculator /\ descs # {} => graphs["speculator"] # {}
      /\ UNCHANGED <<config, descs, fixed, memory, graphs, todo>>
  BY DEF CaptureEnd, CaptureIsComplete, ModelIsCaptured, choices
<1>2. manager.cap = None /\ phase \in WithGraphs /\ phase' \in WithGraphs
  BY <1>1 DEF IInv, ManagerOfPhase, WithGraphs
<1>3. todo = {}
  BY <1>1, <1>2, NextIs DEF IInv
<1>4. /\ \A mode : Left(mode)' = Left(mode) /\ Cardinality(Left(mode))' = Cardinality(Left(mode))
      /\ \A mode : CaptureDescs(mode)' = CaptureDescs(mode) /\ HolderOf(mode)' = HolderOf(mode)
      /\ \A h : Count(h)' = Count(h)
  BY <1>1, SameConfig DEF Left, Count
<1>5. GraphsAreCounted'
  BY <1>1, <1>2, <1>3, <1>4, SameMemory DEF MemInv, GraphsAreCounted
<1>6. SpeculatorIsCounted'
  BY <1>1, <1>2, <1>4 DEF MemInv, SpeculatorIsCounted
<1>7. PoolIsCounted' /\ SamplesAre' /\ EstimateIs'
  BY <1>1, <1>2, <1>4, SameMemory DEF MemInv, PoolIsCounted, SamplesAre, EstimateIs, memory
<1> QED BY <1>5, <1>6, <1>7 DEF MemInv

\* Profiling is done when all PIECEWISE graphs are captured and two FULL
\* ones, or as many as there are.
LEMMA ProfileIsDone ==
  ASSUME IInv, MemInv, phase = "profile_capture", NextToCapture = {}
  PROVE  /\ Left("PIECEWISE") = {}
         /\ Count("manager") \in {0, 1, 2}
         /\ Count("manager") < 2 => Left("FULL") = {}
<1> DEFINE piecewise == {d \in todo : d.cg_mode = "PIECEWISE"}
           capped == manager.cap # None /\ Cardinality(graphs["manager"]) >= manager.cap
           next == IF piecewise # {} THEN piecewise ELSE IF capped THEN {} ELSE todo
<1>1. next = {}
  <2>1. next \in SUBSET descs
    BY DEF IInv, TypeOK
  <2>2. NextToCapture = {d \in next : \A e \in next : e.num_tokens <= d.num_tokens}
    BY DEF NextToCapture
  <2> HIDE DEF next
  <2> QED BY <2>1, <2>2, LargestOfDescs DEF IInv
<1>2. phase \in WithGraphs
  BY DEF WithGraphs
<1>3. Count("manager") \in Nat /\ Count("manager") <= 2
  BY <1>2, CountsAreNumbers DEF IInv, MemInv, GraphsAreCounted, Mode, HolderOf, ProfilingSamples
<1>4. manager.cap = 2
  BY DEF IInv, ManagerOfPhase, ProfilingSamples
<1>5. piecewise = {} /\ (capped \/ todo = {})
  BY <1>1
<1>6. Count("manager") < 2 => todo = {}
  BY <1>3, <1>4, <1>5 DEF Count
<1> QED BY <1>3, <1>5, <1>6 DEF Left

LEMMA EstimateIsSetAside ==
  ASSUME IInv, MemInv, phase = "profile_capture", CaptureIsComplete
  PROVE  Estimate = SetAside
<1>1. /\ NextToCapture = {} /\ phase \in WithGraphs
      /\ config.speculator /\ descs # {} => graphs["speculator"] # {}
  BY DEF CaptureIsComplete, ModelIsCaptured, WithGraphs
<1> DEFINE a == Count("manager")
           sp == IF config.speculator /\ descs # {} THEN 1 ELSE 0
           q == Peak("PIECEWISE")
           floor == IF fixed > MinPerGraph THEN fixed ELSE MinPerGraph
           rest == (Total("PIECEWISE") + sp) * fixed
<1>2. Left("PIECEWISE") = {} /\ a \in {0, 1, 2} /\ (a < 2 => Left("FULL") = {})
  BY <1>1, ProfileIsDone
<1>3. /\ Total("FULL") \in Nat /\ Total("PIECEWISE") \in Nat
      /\ Cardinality(Left("FULL")) \in Nat
      /\ Left("FULL") = {} => Cardinality(Left("FULL")) = 0
      /\ Cardinality(Left("PIECEWISE")) = 0
      /\ Total("FULL") = 0 => CaptureDescs("FULL") = {}
      /\ Total("PIECEWISE") = 0 => CaptureDescs("PIECEWISE") = {}
      /\ Count("wrapper") \in Nat
      /\ a = 0 <=> graphs["manager"] = {}
      /\ Count("wrapper") = 0 <=> graphs["wrapper"] = {}
  BY <1>1, <1>2, CountsAreNumbers DEF IInv, MemInv, Mode, HolderOf
<1>4. /\ a + Cardinality(Left("FULL")) = Total("FULL")
      /\ Count("wrapper") + Cardinality(Left("PIECEWISE")) = Total("PIECEWISE")
  BY <1>1 DEF MemInv, GraphsAreCounted, Mode, HolderOf
<1>5. Count("wrapper") = Total("PIECEWISE") /\ (a < 2 => Total("FULL") = a) /\ Total("FULL") >= a
  BY <1>2, <1>3, <1>4
<1>6. Count("speculator") = sp
  BY <1>1 DEF MemInv, SpeculatorIsCounted
<1>7. /\ q \in Nat /\ Peak("FULL") \in Nat /\ Peaks \in Nat /\ fixed \in Nat /\ MinPerGraph \in Nat
      /\ q <= Peaks
      /\ Peaks = IF Peak("FULL") > q THEN Peak("FULL") ELSE q
  BY PeaksIs, CostsAreNumbers DEF IInv, MemInv, EstimateIs, Peaks
<1>8. high = Peaks
  <2>1. high = IF graphs["manager"] # {} THEN Peaks
               ELSE IF graphs["wrapper"] # {} THEN q ELSE 0
    BY <1>1 DEF MemInv, PoolIsCounted
  <2>2. ASSUME a = 0 PROVE Peaks = q
    <3>1. CaptureDescs("FULL") = {}
      BY <1>3, <1>5, <2>2
    <3>2. Peak("FULL") = 0
      BY <3>1 DEF Peak
    <3> QED BY <1>7, <3>2
  <2>3. ASSUME graphs["wrapper"] = {} PROVE q = 0
    BY <1>3, <1>5, <2>3 DEF Peak
  <2> QED BY <1>3, <2>1, <2>2, <2>3
<1>9. used = (a + Total("PIECEWISE") + sp) * fixed + Peaks
  BY <1>1, <1>5, <1>6, <1>8 DEF MemInv, PoolIsCounted
<1>10. samples = [i \in 1 .. a |-> IF i = 1 THEN fixed + (Peaks - q) ELSE fixed]
  BY DEF MemInv, SamplesAre
<1> HIDE DEF a, q, sp
<1>11. /\ samples \in Seq(Int) /\ Len(samples) = a
       /\ a >= 1 => samples[1] = fixed + (Peaks - q)
       /\ a = 2 => samples[2] = fixed
       /\ samples = <<>> <=> a = 0
  BY <1>2, <1>7, <1>10
<1> DEFINE sum == FoldSeq(+, 0, samples)
<1>12. sum = (IF a >= 1 THEN fixed + (Peaks - q) ELSE 0) + (IF a = 2 THEN fixed ELSE 0)
  <2>1. samples \in Seq(Int) /\ Len(samples) <= 2
    BY <1>2, <1>11
  <2>2. sum = (IF Len(samples) >= 1 THEN samples[1] ELSE 0) + (IF Len(samples) = 2 THEN samples[2] ELSE 0)
    BY <2>1, SumOfSamples, Zenon
  <2> HIDE DEF sum
  <2> QED BY <1>2, <1>11, <2>2
<1> DEFINE full == ExtrapolateFullGraphMemory(samples, Total("FULL"))
<1>13. Estimate = Max({used - sum + full, 0})
  BY Zenon DEF Estimate, Total
<1> HIDE DEF sum
<1>14. full = IF a = 0 THEN 0
              ELSE fixed + (Peaks - q) + (Total("FULL") - 1) * (IF a > 1 THEN floor ELSE 0)
  <2>1. a > 1 => Max({samples[2], MinPerGraph}) = floor
    <3>1. Max({fixed, MinPerGraph}) = floor
      BY <1>7, MaxOfTwo
    <3>2. a > 1 => samples[2] = fixed
      BY <1>2, <1>11
    <3> QED BY <3>1, <3>2, Zenon
  <2> HIDE DEF floor
  <2> QED BY <1>2, <1>11, <2>1 DEF ExtrapolateFullGraphMemory
<1> HIDE DEF full
<1>15. rest \in Nat /\ floor \in Nat
  BY <1>3, <1>7 DEF sp
<1>16. (a + Total("PIECEWISE") + sp) * fixed = rest + a * fixed
  <2>1. PICK n \in Nat : n = Total("PIECEWISE") + sp
    BY <1>3 DEF sp
  <2>2. sp \in Nat /\ a \in Nat
    BY <1>2 DEF sp
  <2>3. a + Total("PIECEWISE") + sp = n + a
    BY <1>3, <2>1, <2>2
  <2>4. (n + a) * fixed = n * fixed + a * fixed
    BY <1>7, <2>2
  <2> QED BY <2>1, <2>3, <2>4
<1>17. SetAside = rest + Peaks + (IF Total("FULL") = 0 THEN 0 ELSE fixed + (Total("FULL") - 1) * floor)
  BY DEF SetAside, sp
<1> HIDE DEF rest, floor
<1>18. used - sum + full = SetAside /\ SetAside \in Nat
  <2>1. used = rest + a * fixed + Peaks
    BY <1>9, <1>16
  <2>2. CASE a = 0
    <3>1. used = rest + Peaks /\ sum = 0 /\ full = 0 /\ SetAside = rest + Peaks
      BY <1>5, <1>7, <1>12, <1>14, <1>15, <1>17, <2>1, <2>2
    <3> QED BY <1>7, <1>15, <3>1
  <2>3. CASE a = 1
    <3>1. Total("FULL") = 1 /\ (Total("FULL") - 1) * floor = 0 /\ a * fixed = fixed
      BY <1>5, <1>7, <1>15, <2>3
    <3>2. used = rest + fixed + Peaks /\ sum = fixed + (Peaks - q) /\ full = fixed + (Peaks - q)
      BY <1>7, <1>12, <1>14, <1>15, <2>1, <2>3, <3>1
    <3>3. SetAside = rest + Peaks + fixed
      BY <1>7, <1>15, <1>17, <3>1
    <3> QED BY <1>7, <1>15, <3>2, <3>3
  <2>4. CASE a = 2
    <3>1. Total("FULL") - 1 \in Nat
      BY <1>3, <1>5, <2>4
    <3>2. PICK more \in Nat : more = (Total("FULL") - 1) * floor
      BY <1>15, <3>1
    <3>3. full = fixed + (Peaks - q) + more /\ SetAside = rest + Peaks + (fixed + more)
      BY <1>5, <1>3, <1>14, <1>17, <2>4, <3>2
    <3>4. sum = fixed + (Peaks - q) + fixed /\ a * fixed = fixed + fixed
      BY <1>7, <1>12, <2>4
    <3> QED BY <1>7, <1>15, <2>1, <3>3, <3>4
  <2> QED BY <1>2, <2>2, <2>3, <2>4
<1> QED BY <1>13, <1>18, MaxOfTwo

LEMMA ProfileEndMemory ==
  ASSUME IInv, MemInv, ProfileEnd
  PROVE  MemInv'
<1>1. /\ phase' \in {"profiled", "failed"} /\ high' = 0 /\ used' = 0 /\ samples' = <<>>
      /\ UNCHANGED <<config, descs, fixed>>
      /\ \/ descs = {} /\ estimate' = 0
         \/ phase = "profile_capture" /\ CaptureIsComplete /\ estimate' = Estimate
         \/ estimate' = estimate
  BY DEF ProfileEnd, Discard, choices
<1>2. GraphsAreCounted' /\ SpeculatorIsCounted' /\ PoolIsCounted' /\ SamplesAre'
  BY <1>1 DEF GraphsAreCounted, SpeculatorIsCounted, PoolIsCounted, SamplesAre, WithGraphs
<1>3. descs = {} => SetAside = 0
  <2> SUFFICES ASSUME descs = {} PROVE SetAside = 0
    OBVIOUS
  <2>1. CaptureDescs("FULL") = {} /\ CaptureDescs("PIECEWISE") = {}
    BY DEF CaptureDescs
  <2>2. Total("FULL") = 0 /\ Total("PIECEWISE") = 0 /\ Peaks = 0
    BY <2>1, FS_EmptySet DEF Total, Peaks, Peak
  <2>3. fixed \in Nat
    BY CostsAreNumbers DEF IInv, MemInv, EstimateIs
  <2> QED BY <2>2, <2>3 DEF SetAside
<1>4. EstimateIs'
  BY <1>1, <1>3, EstimateIsSetAside, SameMemory DEF MemInv, EstimateIs
<1> QED BY <1>2, <1>4 DEF MemInv

LEMMA MemInit == Init => MemInv
<1> SUFFICES ASSUME Init PROVE MemInv
  OBVIOUS
<1>1. GraphsAreCounted /\ SpeculatorIsCounted /\ PoolIsCounted /\ SamplesAre
  BY DEF Init, GraphsAreCounted, SpeculatorIsCounted, PoolIsCounted, SamplesAre, WithGraphs
<1>2. EstimateIs
  BY DEF Init, EstimateIs
<1> QED BY <1>1, <1>2 DEF MemInv

LEMMA MemStep == IInv /\ MemInv /\ [Next]_vars => MemInv'
<1> SUFFICES ASSUME IInv, MemInv, [Next]_vars PROVE MemInv'
  OBVIOUS
<1>1. CASE ProfileBegin \/ WarmUp \/ ProfileFails \/ InitializeKVCache
  <2>1. phase \notin WithGraphs /\ phase' \notin WithGraphs /\ UNCHANGED <<config, descs, fixed, memory>>
    BY <1>1 DEF ProfileBegin, WarmUp, ProfileFails, InitializeKVCache, choices, WithGraphs
  <2> QED BY <2>1, MemoryOutside
<1>2. CASE ProfileCapture \/ Capture
  <2>1. /\ phase \notin WithGraphs /\ phase' \in {"profile_capture", "capture"} /\ todo' = descs
        /\ UNCHANGED <<config, descs, fixed, memory, graphs>>
    BY <1>2 DEF ProfileCapture, Capture, choices, WithGraphs
  <2> QED BY <2>1, MemoryBegins
<1>3. CASE Dispatch \/ Stopped \/ UNCHANGED vars
  <2>1. UNCHANGED <<config, descs, fixed, memory, graphs, todo>> /\ phase' = phase
    BY <1>3 DEF Dispatch, Stopped, vars, choices
  <2> QED BY <2>1, MemoryKept
<1> QED BY <1>1, <1>2, <1>3, ProfileEndMemory, CaptureOneMemory, SpeculatorMemory, CaptureEndMemory DEF Next

\* The real capture, once it has come this far, against what was set aside.
LEMMA UsedIsSetAside ==
  ASSUME IInv, MemInv, phase \in {"capture", "serving"}
  PROVE  /\ used <= SetAside
         /\ phase = "serving" => SetAside <= used + Total("FULL") * MinPerGraph
<1> DEFINE a == Count("manager")
           w == Count("wrapper")
           s == Count("speculator")
           sp == IF config.speculator /\ descs # {} THEN 1 ELSE 0
           q == Peak("PIECEWISE")
           floor == IF fixed > MinPerGraph THEN fixed ELSE MinPerGraph
           nF == Total("FULL")
           nP == Total("PIECEWISE")
<1>1. phase \in WithGraphs
  BY DEF WithGraphs
<1>2. /\ nF \in Nat /\ nP \in Nat /\ a \in Nat /\ w \in Nat
      /\ Cardinality(Left("FULL")) \in Nat /\ Cardinality(Left("PIECEWISE")) \in Nat
      /\ Left("FULL") = {} => Cardinality(Left("FULL")) = 0
      /\ Left("PIECEWISE") = {} => Cardinality(Left("PIECEWISE")) = 0
      /\ nF = 0 <=> CaptureDescs("FULL") = {}
      /\ nP = 0 <=> CaptureDescs("PIECEWISE") = {}
      /\ a = 0 <=> graphs["manager"] = {}
      /\ w = 0 <=> graphs["wrapper"] = {}
  BY <1>1, CountsAreNumbers DEF IInv, MemInv, Mode, HolderOf
<1>3. a + Cardinality(Left("FULL")) = nF /\ w + Cardinality(Left("PIECEWISE")) = nP
  BY <1>1 DEF MemInv, GraphsAreCounted, Mode, HolderOf
<1>4. phase = "serving" => Left("FULL") = {} /\ Left("PIECEWISE") = {}
  BY <1>1 DEF MemInv, GraphsAreCounted, Left
<1>5. a <= nF /\ w <= nP /\ (phase = "serving" => a = nF /\ w = nP)
  BY <1>2, <1>3, <1>4
<1>6. s \in Nat /\ sp \in Nat /\ s <= sp /\ (phase = "serving" => s = sp)
  BY <1>1 DEF MemInv, SpeculatorIsCounted
<1>7. /\ q \in Nat /\ Peak("FULL") \in Nat /\ Peaks \in Nat /\ fixed \in Nat /\ MinPerGraph \in Nat
      /\ q <= Peaks
      /\ Peaks = IF Peak("FULL") > q THEN Peak("FULL") ELSE q
  BY PeaksIs, CostsAreNumbers DEF IInv, MemInv, EstimateIs, Peaks
<1>8. /\ high = IF graphs["manager"] # {} THEN Peaks ELSE IF graphs["wrapper"] # {} THEN q ELSE 0
      /\ used = (a + w + s) * fixed + high
  BY <1>1 DEF MemInv, PoolIsCounted
<1>9. nF = 0 => Peaks = q
  <2>1. nF = 0 => Peak("FULL") = 0
    BY <1>2 DEF Peak
  <2> QED BY <1>7, <2>1
<1>10. nP = 0 => q = 0
  BY <1>2 DEF Peak
<1>11. SetAside = (nP + sp) * fixed + Peaks + (IF nF = 0 THEN 0 ELSE fixed + (nF - 1) * floor)
  BY DEF SetAside
<1> HIDE DEF a, w, s, sp, q, nF, nP
<1>12. high \in Nat /\ high <= Peaks /\ (phase = "serving" => high = Peaks)
  BY <1>2, <1>5, <1>7, <1>8, <1>9, <1>10
<1>13. floor \in Nat /\ fixed <= floor /\ floor <= fixed + MinPerGraph
  BY <1>7
<1> HIDE DEF floor
<1> DEFINE reserve == IF nF = 0 THEN 0 ELSE fixed + (nF - 1) * floor
<1>14. /\ reserve \in Nat /\ nF * fixed \in Nat /\ nF * MinPerGraph \in Nat
       /\ nF * fixed <= reserve /\ reserve <= nF * fixed + nF * MinPerGraph
  <2>1. CASE nF = 0
    BY <1>7, <2>1
  <2>2. CASE nF # 0
    <3>1. PICK n \in Nat : nF = n + 1
      BY <1>2, <2>2
    <3>2. /\ nF * fixed = n * fixed + fixed /\ nF * MinPerGraph = n * MinPerGraph + MinPerGraph
          /\ n * fixed \in Nat /\ n * MinPerGraph \in Nat /\ n * floor \in Nat
      BY <1>7, <1>13, <3>1
    <3>3. n * fixed <= n * floor
      BY <1>7, <1>13
    <3>4. n * floor <= n * (fixed + MinPerGraph)
      BY <1>7, <1>13
    <3>5. n * (fixed + MinPerGraph) = n * fixed + n * MinPerGraph
      BY <1>7
    <3>6. reserve = fixed + n * floor
      BY <2>2, <3>1
    <3> HIDE DEF reserve
    <3> QED BY <1>7, <3>2, <3>3, <3>4, <3>5, <3>6
  <2> QED BY <2>1, <2>2
<1> HIDE DEF reserve
<1>15. SetAside = (nP + sp) * fixed + Peaks + reserve
  BY <1>11 DEF reserve
<1>16. (nF + nP + sp) * fixed = (nP + sp) * fixed + nF * fixed
  <2>1. PICK n \in Nat : n = nP + sp
    BY <1>2, <1>6
  <2>2. nF + nP + sp = nF + n
    BY <1>2, <1>6, <2>1
  <2>3. (nF + n) * fixed = nF * fixed + n * fixed /\ nF * fixed \in Nat /\ n * fixed \in Nat
    BY <1>2, <1>7
  <2> QED BY <2>1, <2>2, <2>3
<1>17. (nP + sp) * fixed \in Nat
  BY <1>2, <1>6, <1>7
<1>18. used <= SetAside
  <2>1. PICK m \in Nat, n \in Nat : m = a + w + s /\ n = nF + nP + sp
    BY <1>2, <1>6
  <2>2. m <= n
    BY <1>2, <1>5, <1>6, <2>1
  <2>3. m * fixed <= n * fixed /\ m * fixed \in Nat /\ n * fixed \in Nat
    BY <1>7, <2>2
  <2>4. used = m * fixed + high /\ n * fixed = (nP + sp) * fixed + nF * fixed
    BY <1>8, <1>16, <2>1
  <2> QED BY <1>7, <1>12, <1>14, <1>15, <1>17, <2>3, <2>4
<1>19. ASSUME phase = "serving" PROVE SetAside <= used + nF * MinPerGraph
  <2>1. a + w + s = nF + nP + sp
    BY <1>5, <1>6, <1>19
  <2>2. used = (nF + nP + sp) * fixed + Peaks
    BY <1>8, <1>12, <1>19, <2>1
  <2>3. used = (nP + sp) * fixed + nF * fixed + Peaks
    BY <1>16, <2>2
  <2> QED BY <1>7, <1>14, <1>15, <1>17, <2>3
<1> QED BY <1>18, <1>19 DEF nF

-----------------------------------------------------------------------------
(***************************************************************************)
(* The theorems.                                                           *)
(***************************************************************************)

\* Startup keeps to its invariant, whatever fails and wherever profiling ends.
THEOREM Invariance == Spec => []IInv
<1>1. Init => IInv
  BY InvInit
<1>2. IInv /\ [Next]_vars => IInv'
  BY InvStep
<1> QED BY <1>1, <1>2, PTL DEF Spec

\* Nothing of the profiling pass outlives it: profile_cudagraph_memory leaves
\* neither its pool nor a graph that was captured into it, however it ends.
THEOREM ProfilingIsUndone == Spec => []NothingOutlivesProfiling
<1>1. IInv => NothingOutlivesProfiling
  <2> SUFFICES ASSUME IInv, phase \notin Profiling PROVE NothingOutlivesProfiling
    BY DEF NothingOutlivesProfiling, Profiling
  <2>1. global_pool = "global" /\ wrapper_pool = "global"
    BY DEF IInv, PoolsOfPhase, Profiling
  <2>2. CASE phase \in WithGraphs
    <3>1. kv = "real"
      BY <2>2 DEF IInv, PoolsOfPhase, Profiling, WithGraphs
    <3> QED BY <2>1, <3>1 DEF IInv, GraphsOfPhase, NothingOutlivesProfiling
  <2>3. CASE phase \notin WithGraphs
    <3>1. \A h \in Holder : graphs[h] = {}
      BY <2>3 DEF IInv, GraphsOfPhase
    <3> QED BY <2>1, <3>1 DEF NothingOutlivesProfiling
  <2> QED BY <2>2, <2>3
<1> QED BY <1>1, Invariance, PTL

\* run_fullgraph finds the graph that dispatch chose, among those of this
\* manager and this cache.
THEOREM ReplayCorrect == Spec => []ReplayHasItsGraph
<1>1. IInv => ReplayHasItsGraph
  <2> SUFFICES ASSUME IInv, Serving, step.desc.cg_mode = "FULL"
               PROVE  [desc |-> step.desc, pool |-> "global", kv |-> "real"] \in graphs["manager"]
    BY DEF ReplayHasItsGraph
  <2>1. step.desc \in CaptureDescs("FULL")
    BY DispatchIs DEF IInv, StepIsDispatch, CaptureDescs
  <2> QED BY <2>1 DEF IInv, NothingIsSkipped, Serving
<1> QED BY <1>1, Invariance, PTL

\* The buffer of the hidden states, allocated once, holds what every FULL
\* graph writes.
THEOREM HiddenStatesCorrect == Spec => []HiddenStatesHoldEveryGraph
<1>1. IInv => HiddenStatesHoldEveryGraph
  <2> SUFFICES ASSUME IInv, NEW g \in graphs["manager"] PROVE g.desc.num_tokens <= manager.hidden
    BY DEF HiddenStatesHoldEveryGraph
  <2>1. phase \in WithGraphs
    BY DEF IInv, GraphsOfPhase, Holder
  <2>2. g.desc \in descs
    BY DEF IInv, GraphsOfPhase
  <2> QED BY <2>1, <2>2 DEF IInv, HiddenIsLargest
<1> QED BY <1>1, Invariance, PTL

\* The attention kernel has run at every configured size before a graph of
\* that size is captured, in both captures.
THEOREM WarmupCorrect == Spec => []ConfiguredSizesAreWarm
<1>1. IInv => ConfiguredSizesAreWarm
  <2> SUFFICES ASSUME IInv, NEW h \in {"manager", "wrapper"}, NEW g \in graphs[h],
                      g.desc.num_tokens \in CaptureSizes
               PROVE  g.desc.num_tokens \in warmed
    BY DEF ConfiguredSizesAreWarm
  <2>1. phase \in WithGraphs
    BY DEF IInv, GraphsOfPhase, Holder
  <2> QED BY <2>1 DEF IInv, WarmedByNow
<1> QED BY <1>1, Invariance, PTL

\* A FULL graph that dispatch chooses holds the requests of the batch, though
\* the caller may not have tracked the longest query.
THEOREM FitCorrect == Spec => []GraphFitsBatch
<1>1. IInv => GraphFitsBatch
  <2> SUFFICES ASSUME IInv, Serving, step.desc.cg_mode = "FULL" PROVE GraphFitsBatch
    BY DEF GraphFitsBatch
  <2> DEFINE b == step.batch
             d == step.desc
  <2>1. /\ b \in Batch /\ d \in CaptureDescs("FULL")
        /\ IsCompatible(d, b, EffectiveLoras(b.num_active_loras))
    BY DispatchIs DEF IInv, StepIsDispatch, CaptureDescs
  <2>2. config \in Configs
    BY DEF IInv, TypeOK
  <2> HIDE DEF b, d
  <2>3. d.num_reqs >= b.num_reqs
    BY <2>1, ReqsOfDesc, NoneAssumption DEF IInv, IsCompatible
  <2>4. d.max_query_len # None => b.longest <= d.max_query_len
    BY <2>1, <2>2, BatchIs DEF IsCompatible
  <2>5. d.uniform_token_count # None => b.num_tokens = b.num_reqs * d.uniform_token_count
    BY <2>1, <2>2, BatchIs DEF IsCompatible
  <2> QED BY <2>3, <2>4, <2>5 DEF GraphFitsBatch, b, d
<1> QED BY <1>1, Invariance, PTL

\* Where decodes have one query length, looking at the graphs of one size
\* only, dispatch finds the least padded of all that fit the batch.
THEOREM DispatchCorrect == Spec => [](OneQueryLength => LeastPaddedGraph)
<1>1. IInv /\ OneQueryLength => LeastPaddedGraph
  <2> SUFFICES ASSUME IInv, OneQueryLength, Serving PROVE LeastPaddedGraph
    BY DEF LeastPaddedGraph
  <2> DEFINE fits == [mode \in {"FULL", "PIECEWISE"} |->
                       {e \in CaptureDescs(mode) :
                          IsCompatible(e, step.batch, EffectiveLoras(step.batch.num_active_loras))}]
  <2>1. step.batch \in Batch /\ step.desc \in DispatchesTo(step.batch, TRUE)
    BY DEF IInv, StepIsDispatch
  <2>2. Fitting("FULL") = fits["FULL"] /\ Fitting("PIECEWISE") = fits["PIECEWISE"]
    BY DEF Fitting
  <2>3. LET best == IF fits["FULL"] # {} THEN fits["FULL"] ELSE fits["PIECEWISE"]
        IN IF best = {} THEN step.desc.cg_mode = "NONE"
           ELSE step.desc \in best /\ \A e \in best : step.desc.num_tokens <= e.num_tokens
    BY <2>1, DispatchesToLeast DEF IInv
  <2> HIDE DEF fits
  <2> QED BY <2>2, <2>3 DEF LeastPaddedGraph
<1> QED BY <1>1, Invariance, PTL

\* So does the accounting of the memory.
THEOREM MemoryInvariance == Spec => []MemInv
<1>1. Init => MemInv
  BY MemInit
<1>2. IInv /\ MemInv /\ [Next]_vars => MemInv'
  BY MemStep
<1> QED BY <1>1, <1>2, Invariance, PTL DEF Spec

\* What profile_cudagraph_memory sets aside is enough for the real capture,
\* though it captured two of the FULL graphs and extrapolated the others.
THEOREM EstimateCovers == Spec => []EstimateCoversCapture
<1>1. IInv /\ MemInv => EstimateCoversCapture
  <2> SUFFICES ASSUME IInv, MemInv, estimate # None, phase \in {"capture", "serving"}
               PROVE  used <= estimate
    BY DEF EstimateCoversCapture
  <2>1. used <= SetAside
    BY UsedIsSetAside
  <2> QED BY <2>1 DEF MemInv, EstimateIs
<1> QED BY <1>1, Invariance, MemoryInvariance, PTL

\* And not much more: a graph is overestimated by the floor at most.
THEOREM EstimateClose == Spec => []EstimateIsClose
<1>1. IInv /\ MemInv => EstimateIsClose
  <2> SUFFICES ASSUME IInv, MemInv, estimate # None, phase = "serving"
               PROVE  estimate <= used + Cardinality(CaptureDescs("FULL")) * MinPerGraph
    BY DEF EstimateIsClose
  <2>1. SetAside <= used + Total("FULL") * MinPerGraph
    BY UsedIsSetAside
  <2> QED BY <2>1 DEF MemInv, EstimateIs, Total
<1> QED BY <1>1, Invariance, MemoryInvariance, PTL
=============================================================================
