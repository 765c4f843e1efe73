--------------------------- MODULE AutotuneProofs ---------------------------
(***************************************************************************)
(* Proofs about Autotune, for any number of ranks, hosts, operations and   *)
(* tactics: what a rank loads is what was broadcast, the ranks meet in the *)
(* same collectives, and they end with the same answers.                   *)
(***************************************************************************)
EXTENDS Autotune, TLAPS

-----------------------------------------------------------------------------
(***************************************************************************)
(* Types.                                                                  *)
(***************************************************************************)
\* How far a rank is: before its answers are those of the file, and after.
Loading == {"read", "broadcast", "truncate", "write", "barrier", "load"}
Tuned == {"meet", "save", "saving", "returned"}
Tuning == {"group", "tune", "reduce"} \union Tuned
Early == {"none", "warmup"} \union Loading
Places == Early \union Tuning \union {"raised"}

Answers == [1 .. NumKeys -> Tactics \union {Unknown}]
Files == {Absent, Torn} \union {Whole(c) : c \in Answers}

TypeOK ==
  /\ local_only \in BOOLEAN
  /\ callers \in SUBSET Rank
  /\ pc \in [Rank -> Places]
  /\ file \in [0 .. NumHosts - 1 -> Files]
  /\ sent = <<>> \/ \E f \in Files : sent = <<f>>
  /\ cached \in [Rank -> Files]
  /\ arrived \in [{1, 2} -> SUBSET Rank]
  /\ group \in SUBSET Rank
  /\ at \in [Rank -> 1 .. NumKeys + 1]
  /\ \A r \in Rank : pc[r] = "reduce" => at[r] <= NumKeys
  /\ configs \in [Rank -> Answers]
  /\ crashes \in Nat

(***************************************************************************)
(* The inductive invariant, in two parts that do not need each other.      *)
(* FileInv follows the file from the broadcast to the load; TuningInv      *)
(* follows the answers from the load to the end.                           *)
(***************************************************************************)
\* No collective is reached by a process that warms up alone.
LocalWarmupOnly ==
  local_only \/ ~Enabled =>
    sent = <<>> /\ \A r \in Rank : pc[r] \in {"none", "warmup", "returned", "raised"}

\* Behind the broadcast every rank has the one file that was sent.
CachedWasSent ==
  \A r \in Rank : pc[r] \in {"truncate", "write", "barrier", "load"} =>
    sent # <<>> /\ cached[r] = sent[1]

\* The leader sends once, and before it has sent nobody is behind the broadcast.
LeaderSends ==
  /\ pc[Leader] \in {"warmup", "read", "broadcast"} => sent = <<>>
  /\ sent = <<>> /\ ~local_only /\ Enabled =>
       \A r \in Rank : pc[r] \in {"none", "warmup", "read", "broadcast", "raised"}

\* Whoever is at a barrier, or behind it, has arrived there in this place.
ArrivedAtBarrier ==
  /\ \A r \in arrived[1] : pc[r] \in {"barrier", "load", "raised"} \union Tuning
  /\ \A r \in Rank : pc[r] = "load" => arrived[1] = Rank

\* Only the leader saves, when all ranks have met a second time.
SavesAfterMeeting ==
  /\ \A r \in arrived[2] : pc[r] \in Tuned
  /\ \A r \in Rank : pc[r] \in {"save", "saving"} =>
       r = Leader /\ (NumRanks > 1 => arrived[2] = Rank)

\* A file that was written is as it was sent, or being written again.
WrittenIsWhole ==
  \A r \in Rank : pc[r] \in {"barrier", "load"} =>
    \/ file[Host(r)] = cached[r]
    \/ \E s \in Rank : Host(s) = Host(r) /\ pc[s] = "write"

FileInv ==
  /\ TypeOK /\ LocalWarmupOnly /\ CachedWasSent /\ LeaderSends
  /\ ArrivedAtBarrier /\ SavesAfterMeeting /\ WrittenIsWhole

\* The answers that were sent; a file that is absent has none.
SentAnswers == IF sent = <<>> THEN NoConfigs ELSE sent[1].configs

\* A key that the ranks have to measure together.
Needy(key) == OpOf(key) \notin SkipOps /\ SentAnswers[key] = Unknown

\* A rank starts with no answers, and without a broadcast none moves on.
NothingKnownEarly ==
  /\ \A r \in Rank : pc[r] \in Early => configs[r] = NoConfigs /\ at[r] = 1
  /\ sent = <<>> => \A r \in Rank : configs[r] = NoConfigs /\ at[r] = 1

\* What a rank has not come to is as it was sent.
RestIsAsSent ==
  \A r \in Rank : pc[r] \in Tuning =>
    \A key \in 1 .. NumKeys : key >= at[r] => configs[r][key] = SentAnswers[key]

\* The ranks that tune have the same answers at any time, those of the file
\* as long as a rank is missing.
SameAnswers ==
  /\ \A r, s \in Rank : pc[r] \in Tuning /\ pc[s] \in Tuning => configs[r] = configs[s]
  /\ \A r, s \in Rank : pc[r] \in Early /\ pc[s] \in Tuning => configs[s] = SentAnswers

\* Between the places of two ranks there is nothing to measure.
NoRankIsAhead ==
  \A r, s \in Rank : \A key \in 1 .. NumKeys : at[s] <= key /\ key < at[r] => ~Needy(key)

\* A rank that waits for the others has something to measure.
WaitsAtNeedyKey ==
  \A r \in Rank : pc[r] = "reduce" => Needy(at[r])

\* Several ranks never measure alone.
TunesInGroup ==
  NumRanks > 1 => \A r \in Rank : pc[r] \in {"tune", "reduce"} => r \in group

TuningInv ==
  /\ NothingKnownEarly /\ RestIsAsSent /\ SameAnswers
  /\ NoRankIsAhead /\ WaitsAtNeedyKey /\ TunesInGroup

IInv == FileInv /\ TuningInv

-----------------------------------------------------------------------------
(***************************************************************************)
(* The sets the types are made of.                                         *)
(***************************************************************************)
LEMMA HostType == ASSUME NEW r \in Rank PROVE Host(r) \in 0 .. NumHosts - 1
BY RanksAssumption DEF Host, Rank

LEMMA LeaderType == Leader \in Rank
BY RanksAssumption DEF Leader, Rank

LEMMA OneRank == ~(NumRanks > 1) => \A r \in Rank : r = Leader
BY RanksAssumption DEF Leader, Rank

LEMMA NumKeysType == NumKeys \in Nat
<1>1. Len(TokenCounts) \in Nat
  BY DEF TokenCounts, Bf16MaxTokens
<1> QED BY <1>1, OpsAssumption DEF NumKeys

LEMMA FileTypes ==
  /\ NoConfigs \in Answers /\ Absent \in Files /\ Torn \in Files
  /\ Absent.configs = NoConfigs
  /\ \A f \in Files : f.configs \in Answers
  /\ \A c \in Answers : Whole(c) \in Files
<1>1. NoConfigs \in Answers
  BY DEF NoConfigs, Answers
<1>2. Absent \in Files /\ Torn \in Files /\ \A c \in Answers : Whole(c) \in Files
  BY DEF Files
<1>3. Absent.configs = NoConfigs /\ Torn.configs = NoConfigs /\ \A c : Whole(c).configs = c
  BY DEF Absent, Torn, Whole
<1> QED BY <1>1, <1>2, <1>3 DEF Files

LEMMA TypeInit == Init => TypeOK
<1> SUFFICES ASSUME Init PROVE TypeOK
  OBVIOUS
<1>1. Caches \subseteq Answers
  BY DEF Caches, Answers
<1>2. file \in [0 .. NumHosts - 1 -> Files]
  BY <1>1 DEF Init, Files
<1>3. pc \in [Rank -> {"none", "warmup"}] /\ at = [r \in Rank |-> 1]
  BY DEF Init
<1>4. cached \in [Rank -> Files] /\ configs \in [Rank -> Answers]
  BY FileTypes DEF Init
<1>5. arrived \in [{1, 2} -> SUBSET Rank] /\ group \in SUBSET Rank /\ crashes \in Nat
  BY DEF Init
<1>6. local_only \in BOOLEAN /\ callers \in SUBSET Rank /\ sent = <<>>
  BY DEF Init
<1> QED
  BY <1>2, <1>3, <1>4, <1>5, <1>6, NumKeysType DEF TypeOK, Places, Early

LEMMA TypeStep == TypeOK /\ [Next]_vars => TypeOK'
<1> SUFFICES ASSUME TypeOK, [Next]_vars PROVE TypeOK'
  OBVIOUS
<1> USE HostType, FileTypes, NumKeysType DEF TypeOK, Go, Places, Early, Loading, Tuning, Tuned
<1>1. ASSUME NEW r \in Rank, LocalWarmup(r) PROVE TypeOK'
  BY <1>1 DEF LocalWarmup
<1>2. ASSUME NEW r \in Rank, ReadCache(r) PROVE TypeOK'
  BY <1>2 DEF ReadCache
<1>3. ASSUME NEW r \in Rank, Broadcast(r) PROVE TypeOK'
  <2>1. CASE r = Leader
    BY <1>3, <2>1 DEF Broadcast, AfterBroadcast
  <2>2. CASE r # Leader
    <3>1. sent # <<>> /\ sent' = sent /\ sent[1] \in Files
      BY <1>3, <2>2 DEF Broadcast
    <3>2. cached' \in [Rank -> Files]
      BY <1>3, <2>2, <3>1 DEF Broadcast
    <3> QED BY <1>3, <2>2, <3>1, <3>2 DEF Broadcast, AfterBroadcast
  <2> QED BY <2>1, <2>2
<1>4. ASSUME NEW r \in Rank, Truncate(r) PROVE TypeOK'
  BY <1>4 DEF Truncate
<1>5. ASSUME NEW r \in Rank, Write(r) PROVE TypeOK'
  BY <1>5 DEF Write
<1>6. ASSUME NEW r \in Rank, PassBarrier(r) PROVE TypeOK'
  BY <1>6 DEF PassBarrier
<1>7. ASSUME NEW r \in Rank, Load(r) PROVE TypeOK'
  BY <1>7 DEF Load
<1>8. ASSUME NEW r \in Rank, SetProcessGroup(r) PROVE TypeOK'
  BY <1>8 DEF SetProcessGroup
<1>9. ASSUME NEW r \in Rank, PassKey(r) PROVE TypeOK'
  BY <1>9 DEF PassKey
<1>10. ASSUME NEW r \in Rank, Measure(r) PROVE TypeOK'
  <2>1. CASE r \in group
    BY <1>10, <2>1 DEF Measure
  <2>2. CASE r \notin group
    <3>1. PICK t \in Tactics : configs' = [configs EXCEPT ![r][at[r]] = t]
      BY <1>10, <2>2 DEF Measure
    <3>2. [configs[r] EXCEPT ![at[r]] = t] \in Answers
      BY DEF Answers
    <3>3. configs' \in [Rank -> Answers]
      BY <3>1, <3>2
    <3>4. /\ at[r] <= NumKeys /\ at' = [at EXCEPT ![r] = @ + 1] /\ pc[r] = "tune"
          /\ UNCHANGED <<pc, local_only, callers, file, sent, cached, arrived, group, crashes>>
      BY <1>10, <2>2 DEF Measure
    <3> QED BY <3>3, <3>4
  <2> QED BY <2>1, <2>2
<1>11. ASSUME NEW r \in Rank, EndTuning(r) PROVE TypeOK'
  <2>1. CASE NumRanks > 1
    <3>1. /\ pc' = [pc EXCEPT ![r] = "meet"] /\ arrived' = [arrived EXCEPT ![2] = @ \union {r}]
          /\ UNCHANGED <<local_only, callers, file, sent, cached, at, configs, crashes>>
      BY <1>11, <2>1 DEF EndTuning
    <3>2. group' = group \ {r}
      BY <1>11, <2>1 DEF EndTuning
    <3> QED BY <3>1, <3>2
  <2>2. CASE ~(NumRanks > 1)
    BY <1>11, <2>2 DEF EndTuning
  <2> QED BY <2>1, <2>2
<1>12. ASSUME NEW r \in Rank, PassMeeting(r) PROVE TypeOK'
  BY <1>12 DEF PassMeeting
<1>13. ASSUME NEW r \in Rank, BeginSave(r) PROVE TypeOK'
  BY <1>13 DEF BeginSave
<1>14. ASSUME NEW r \in Rank, EndSave(r) PROVE TypeOK'
  BY <1>14 DEF EndSave
<1>15. ASSUME NEW r \in Rank, Raise(r) PROVE TypeOK'
  BY <1>15 DEF Raise
<1>16. ASSUME Reduce PROVE TypeOK'
  <2>1. PICK t \in Tactics : configs' = [r \in Rank |-> [configs[r] EXCEPT ![at[r]] = t]]
    BY <1>16 DEF Reduce
  <2>2. configs' \in [Rank -> Answers]
    BY <2>1 DEF Answers
  <2>3. at' \in [Rank -> 1 .. NumKeys + 1]
    BY <1>16 DEF Reduce
  <2> QED BY <1>16, <2>2, <2>3 DEF Reduce
<1>17. ASSUME Crash PROVE TypeOK'
  BY <1>17 DEF Crash, Start
<1>18. CASE UNCHANGED vars
  BY <1>18 DEF vars
<1> QED
  BY <1>1, <1>2, <1>3, <1>4, <1>5, <1>6, <1>7, <1>8, <1>9, <1>10, <1>11, <1>12, <1>13, <1>14,
     <1>15, <1>16, <1>17, <1>18 DEF Next, Step

-----------------------------------------------------------------------------
(***************************************************************************)
(* The file, from the broadcast to the load.                               *)
(***************************************************************************)
LEMMA FileInit == Init => FileInv
BY TypeInit, LeaderType
   DEF Init, FileInv, LocalWarmupOnly, CachedWasSent, LeaderSends, ArrivedAtBarrier,
       SavesAfterMeeting, WrittenIsWhole

LEMMA FileStep == FileInv /\ [Next]_vars => FileInv'
<1> SUFFICES ASSUME FileInv, [Next]_vars PROVE FileInv'
  OBVIOUS
<1>0. TypeOK'
  BY TypeStep DEF FileInv
<1> USE <1>0, HostType, LeaderType
    DEF FileInv, TypeOK, LocalWarmupOnly, CachedWasSent, LeaderSends, ArrivedAtBarrier,
        SavesAfterMeeting, WrittenIsWhole, Go, Loading, Tuning, Tuned
<1>1. ASSUME NEW r \in Rank, LocalWarmup(r) PROVE FileInv'
  BY <1>1 DEF LocalWarmup
<1>2. ASSUME NEW r \in Rank, ReadCache(r) PROVE FileInv'
  BY <1>2 DEF ReadCache
<1>3. ASSUME NEW r \in Rank, Broadcast(r) PROVE FileInv'
  <2>1. CASE r = Leader
    <3>1. /\ pc[r] = "broadcast" /\ sent' = <<cached[r]>>
          /\ \E to \in {"group", "truncate"} : pc' = [pc EXCEPT ![r] = to]
          /\ UNCHANGED <<local_only, callers, file, cached, arrived, group, at, configs, crashes>>
      BY <1>3, <2>1 DEF Broadcast, AfterBroadcast
    <3>2. sent = <<>> /\ ~local_only /\ Enabled
      BY <2>1, <3>1
    <3>3. CachedWasSent'
      BY <2>1, <3>1, <3>2
    <3>4. LocalWarmupOnly' /\ LeaderSends'
      BY <2>1, <3>1, <3>2
    <3>5. ArrivedAtBarrier' /\ SavesAfterMeeting' /\ WrittenIsWhole'
      BY <3>1, <3>2
    <3> QED BY <3>3, <3>4, <3>5
  <2>2. CASE r # Leader
    <3>1. /\ pc[r] = "broadcast" /\ sent # <<>> /\ cached' = [cached EXCEPT ![r] = sent[1]]
          /\ \E to \in {"group", "truncate"} : pc' = [pc EXCEPT ![r] = to]
          /\ UNCHANGED <<local_only, callers, file, sent, arrived, group, at, configs, crashes>>
      BY <1>3, <2>2 DEF Broadcast, AfterBroadcast
    <3>2. CachedWasSent'
      BY <3>1
    <3>3. LocalWarmupOnly' /\ LeaderSends'
      BY <2>2, <3>1
    <3>4. ArrivedAtBarrier' /\ SavesAfterMeeting' /\ WrittenIsWhole'
      BY <3>1
    <3> QED BY <3>2, <3>3, <3>4
  <2> QED BY <2>1, <2>2
<1>4. ASSUME NEW r \in Rank, Truncate(r) PROVE FileInv'
  BY <1>4 DEF Truncate
<1>5. ASSUME NEW r \in Rank, Write(r) PROVE FileInv'
  BY <1>5 DEF Write
<1>6. ASSUME NEW r \in Rank, PassBarrier(r) PROVE FileInv'
  BY <1>6 DEF PassBarrier
<1>7. ASSUME NEW r \in Rank, Load(r) PROVE FileInv'
  BY <1>7 DEF Load
<1>8. ASSUME NEW r \in Rank, SetProcessGroup(r) PROVE FileInv'
  BY <1>8 DEF SetProcessGroup
<1>9. ASSUME NEW r \in Rank, PassKey(r) PROVE FileInv'
  BY <1>9 DEF PassKey
<1>10. ASSUME NEW r \in Rank, Measure(r) PROVE FileInv'
  <2>1. CASE r \in group
    <3>1. /\ pc[r] = "tune" /\ pc' = [pc EXCEPT ![r] = "reduce"]
          /\ UNCHANGED <<local_only, callers, file, sent, cached, arrived, group>>
      BY <1>10, <2>1 DEF Measure
    <3> QED BY <3>1
  <2>2. CASE r \notin group
    <3>1. UNCHANGED <<local_only, callers, pc, file, sent, cached, arrived, group>>
      BY <1>10, <2>2 DEF Measure
    <3> QED BY <3>1
  <2> QED BY <2>1, <2>2
<1>11. ASSUME NEW r \in Rank, EndTuning(r) PROVE FileInv'
  <2>1. CASE NumRanks > 1
    <3>1. /\ pc[r] = "tune" /\ pc' = [pc EXCEPT ![r] = "meet"]
          /\ arrived' = [arrived EXCEPT ![2] = @ \union {r}]
          /\ UNCHANGED <<local_only, callers, file, sent, cached, at, configs, crashes>>
      BY <1>11, <2>1 DEF EndTuning
    <3>2. ArrivedAtBarrier'
      BY <3>1
    <3>3. SavesAfterMeeting'
      BY <3>1
    <3>4. LocalWarmupOnly' /\ CachedWasSent' /\ LeaderSends' /\ WrittenIsWhole'
      BY <3>1
    <3> QED BY <3>2, <3>3, <3>4
  <2>2. CASE ~(NumRanks > 1)
    <3>1. /\ pc[r] = "tune" /\ pc' = [pc EXCEPT ![r] = "save"]
          /\ UNCHANGED <<local_only, callers, file, sent, cached, arrived, at, configs, crashes>>
      BY <1>11, <2>2 DEF EndTuning
    <3>2. SavesAfterMeeting'
      BY <2>2, <3>1, OneRank
    <3>3. LocalWarmupOnly' /\ CachedWasSent' /\ LeaderSends'
      BY <3>1
    <3>4. ArrivedAtBarrier' /\ WrittenIsWhole'
      BY <3>1
    <3> QED BY <3>2, <3>3, <3>4
  <2> QED BY <2>1, <2>2
<1>12. ASSUME NEW r \in Rank, PassMeeting(r) PROVE FileInv'
  BY <1>12 DEF PassMeeting
<1>13. ASSUME NEW r \in Rank, BeginSave(r) PROVE FileInv'
  <2>1. \A s \in Rank : pc[s] \in Tuned
    BY <1>13, OneRank DEF BeginSave
  <2> QED BY <1>13, <2>1, ZenonT(40) DEF BeginSave
<1>14. ASSUME NEW r \in Rank, EndSave(r) PROVE FileInv'
  <2>1. \A s \in Rank : pc[s] \in Tuned
    BY <1>14, OneRank DEF EndSave
  <2> QED BY <1>14, <2>1 DEF EndSave
<1>15. ASSUME NEW r \in Rank, Raise(r) PROVE FileInv'
  BY <1>15 DEF Raise
<1>16. ASSUME Reduce PROVE FileInv'
  BY <1>16 DEF Reduce
<1>17. ASSUME Crash PROVE FileInv'
  BY <1>17 DEF Crash, Start
<1>18. CASE UNCHANGED vars
  BY <1>18 DEF vars
<1> QED
  BY <1>1, <1>2, <1>3, <1>4, <1>5, <1>6, <1>7, <1>8, <1>9, <1>10, <1>11, <1>12, <1>13, <1>14,
     <1>15, <1>16, <1>17, <1>18 DEF Next, Step

\* At a load no rank of the host is still writing.
LEMMA LoadIsSafe == FileInv => LoadsWhatWasBroadcast
BY DEF FileInv, ArrivedAtBarrier, WrittenIsWhole, LoadsWhatWasBroadcast, Tuning, Tuned

-----------------------------------------------------------------------------
(***************************************************************************)
(* The answers, from the load to the end.                                  *)
(***************************************************************************)
LEMMA NoneKnown ==
  ASSUME TypeOK, sent = <<>>, configs = [r \in Rank |-> NoConfigs], at = [r \in Rank |-> 1],
         pc \in [Rank -> {"none", "warmup"}]
  PROVE  TuningInv
BY DEF TuningInv, NothingKnownEarly, RestIsAsSent, SameAnswers, NoRankIsAhead, WaitsAtNeedyKey,
       TunesInGroup, SentAnswers, Tuning, Tuned

\* Tuning begins when something was sent.
LEMMA TunesWhenSent ==
  ASSUME FileInv, NEW r \in Rank, pc[r] \in {"tune", "reduce"}
  PROVE  sent # <<>>
BY DEF FileInv, LocalWarmupOnly, LeaderSends, TypeOK

\* A step that changes nothing but the place of a rank, and that neither
\* begins to tune nor to wait.
LEMMA MoveKeepsAnswers ==
  ASSUME TypeOK, TuningInv, NEW r \in Rank, NEW to, pc' = [pc EXCEPT ![r] = to], to # "reduce",
         \/ pc[r] \in Early /\ to \in Early
         \/ pc[r] \in Tuning /\ to \in Tuning
         \/ to = "raised",
         UNCHANGED <<sent, at, configs>>
  PROVE  NothingKnownEarly' /\ RestIsAsSent' /\ SameAnswers' /\ NoRankIsAhead' /\ WaitsAtNeedyKey'
<1> USE DEF TypeOK, TuningInv
<1>1. to \notin Early \/ to \notin Tuning
  BY DEF Early, Loading, Tuning, Tuned
<1>2. "raised" \notin Early /\ "raised" \notin Tuning
  BY DEF Early, Loading, Tuning, Tuned
<1>3. SentAnswers' = SentAnswers /\ \A key : Needy(key)' <=> Needy(key)
  BY DEF SentAnswers, Needy
<1>4. \A s \in Rank : /\ pc'[s] \in Early => pc[s] \in Early
                      /\ pc'[s] \in Tuning => pc[s] \in Tuning
                      /\ pc'[s] = "reduce" => pc[s] = "reduce"
  BY <1>1, <1>2
<1>5. NothingKnownEarly'
  BY <1>4 DEF NothingKnownEarly
<1>6. RestIsAsSent'
  BY <1>3, <1>4 DEF RestIsAsSent
<1>7. SameAnswers'
  BY <1>3, <1>4 DEF SameAnswers
<1>8. NoRankIsAhead' /\ WaitsAtNeedyKey'
  BY <1>3, <1>4 DEF NoRankIsAhead, WaitsAtNeedyKey
<1> QED BY <1>5, <1>6, <1>7, <1>8

\* A rank begins to tune, with the answers that were sent.
LEMMA BeginKeepsAnswers ==
  ASSUME TypeOK, TuningInv, NEW r \in Rank, NEW to, pc' = [pc EXCEPT ![r] = to],
         pc[r] \in Early, to \in {"group", "returned"},
         configs' = [configs EXCEPT ![r] = SentAnswers], UNCHANGED <<sent, at, group>>
  PROVE  TuningInv'
<1> USE DEF TypeOK, TuningInv
<1>1. to \notin Early /\ to \in Tuning /\ pc[r] \notin Tuning
  BY DEF Early, Loading, Tuning, Tuned
<1>2. SentAnswers' = SentAnswers /\ \A key : Needy(key)' <=> Needy(key)
  BY DEF SentAnswers, Needy
<1>3. \A s \in Rank : s # r => pc'[s] = pc[s] /\ configs'[s] = configs[s]
  OBVIOUS
<1>4. pc'[r] = to /\ configs'[r] = SentAnswers
  OBVIOUS
<1>5. NothingKnownEarly'
  BY <1>1, <1>3, <1>4 DEF NothingKnownEarly, SentAnswers
<1>6. RestIsAsSent'
  BY <1>2, <1>3, <1>4 DEF RestIsAsSent
<1>7. \A s \in Rank : pc'[s] \in Tuning => configs'[s] = SentAnswers
  BY <1>3, <1>4 DEF SameAnswers
<1>8. SameAnswers'
  BY <1>2, <1>7 DEF SameAnswers
<1>9. NoRankIsAhead' /\ WaitsAtNeedyKey' /\ TunesInGroup'
  BY <1>2, <1>3, <1>4 DEF NoRankIsAhead, WaitsAtNeedyKey, TunesInGroup
<1> QED BY <1>5, <1>6, <1>8, <1>9

LEMMA BroadcastKeepsAnswers ==
  ASSUME IInv, NEW r \in Rank, Broadcast(r), TypeOK' PROVE TuningInv'
<1> USE DEF IInv, FileInv, TypeOK
<1>1. pc[r] \in Early /\ pc[r] = "broadcast"
  BY DEF Broadcast, Go, Early, Loading
<1>2. configs[r] = NoConfigs /\ ~local_only /\ Enabled
  BY <1>1 DEF TuningInv, NothingKnownEarly, LocalWarmupOnly
<1>3. CASE r = Leader
  <2>1. sent = <<>> /\ sent' = <<cached[r]>> /\ UNCHANGED <<at, configs, group>>
    BY <1>1, <1>3 DEF Broadcast, LeaderSends
  <2>2. \A s \in Rank : configs[s] = NoConfigs /\ at[s] = 1
    BY <2>1 DEF TuningInv, NothingKnownEarly
  <2>3. \A s \in Rank : s # r => pc'[s] \notin Tuning
    BY <1>1, <1>2, <1>3, <2>1 DEF LeaderSends, Broadcast, Go, Tuning, Tuned
  <2>4. pc'[r] = AfterBroadcast(cached[r])
    BY <1>3 DEF Broadcast, Go
  <2>5. pc'[r] \in Tuning => SentAnswers' = NoConfigs
    BY <2>1, <2>4, FileTypes DEF SentAnswers, AfterBroadcast, Tuning, Tuned
  <2>6. pc'[r] # "reduce"
    BY <2>4 DEF AfterBroadcast
  <2>7. NothingKnownEarly' /\ NoRankIsAhead'
    BY <2>1, <2>2 DEF NothingKnownEarly, NoRankIsAhead
  <2>8. RestIsAsSent' /\ SameAnswers'
    BY <2>1, <2>2, <2>3, <2>5 DEF RestIsAsSent, SameAnswers
  <2>9. WaitsAtNeedyKey' /\ TunesInGroup'
    BY <2>3, <2>4 DEF WaitsAtNeedyKey, TunesInGroup, AfterBroadcast, Tuning
  <2> QED BY <2>7, <2>8, <2>9 DEF TuningInv
<1>4. CASE r # Leader
  <2>1. sent # <<>> /\ UNCHANGED <<sent, at, configs, group>>
    BY <1>4 DEF Broadcast
  <2>2. pc' = [pc EXCEPT ![r] = AfterBroadcast(sent[1])]
    BY <1>4 DEF Broadcast, Go
  <2>3. CASE sent[1] = Absent
    <3>1. SentAnswers = NoConfigs
      BY <2>1, <2>3, FileTypes DEF SentAnswers
    <3>2. configs' = [configs EXCEPT ![r] = SentAnswers]
      BY <1>2, <2>1, <3>1
    <3>3. pc' = [pc EXCEPT ![r] = "group"]
      BY <2>2, <2>3 DEF AfterBroadcast
    <3> QED BY <1>1, <2>1, <3>2, <3>3, BeginKeepsAnswers
  <2>4. CASE sent[1] # Absent
    <3>1. pc' = [pc EXCEPT ![r] = "truncate"]
      BY <2>2, <2>4 DEF AfterBroadcast
    <3>2. "truncate" \in Early
      BY DEF Early, Loading
    <3>3. TunesInGroup'
      BY <2>1, <3>1 DEF TuningInv, TunesInGroup
    <3> QED BY <1>1, <2>1, <3>1, <3>2, <3>3, MoveKeepsAnswers DEF TuningInv
  <2> QED BY <2>3, <2>4
<1> QED BY <1>3, <1>4

LEMMA LoadKeepsAnswers ==
  ASSUME IInv, NEW r \in Rank, Load(r) PROVE TuningInv'
<1> USE DEF IInv, FileInv, TypeOK
<1>1. file[Host(r)] = sent[1] /\ sent # <<>>
  BY LoadIsSafe DEF Load, Go, LoadsWhatWasBroadcast, CachedWasSent
<1>2. configs' = [configs EXCEPT ![r] = SentAnswers]
  BY <1>1 DEF Load, SentAnswers
<1>3. pc[r] \in Early
  BY DEF Load, Go, Early, Loading
<1> QED BY <1>2, <1>3, BeginKeepsAnswers DEF Load, Go

LEMMA PassKeyKeepsAnswers ==
  ASSUME IInv, NEW r \in Rank, PassKey(r) PROVE TuningInv'
<1> USE NumKeysType DEF IInv, FileInv, TypeOK, TuningInv
<1>1. /\ pc[r] = "tune" /\ at[r] \in 1 .. NumKeys /\ at' = [at EXCEPT ![r] = @ + 1]
      /\ UNCHANGED <<pc, sent, group, configs>>
  BY DEF PassKey
<1>2. pc[r] \in Tuning /\ pc[r] \notin Early
  BY <1>1 DEF Tuning, Tuned, Early, Loading
<1>3. ~Needy(at[r])
  BY <1>1, <1>2 DEF PassKey, Needy, RestIsAsSent
<1>4. SentAnswers' = SentAnswers /\ \A key : Needy(key)' <=> Needy(key)
  BY <1>1 DEF SentAnswers, Needy
<1>5. NothingKnownEarly'
  BY <1>1, <1>2, TunesWhenSent DEF NothingKnownEarly
<1>6. RestIsAsSent' /\ SameAnswers'
  BY <1>1, <1>4 DEF RestIsAsSent, SameAnswers
<1>7. NoRankIsAhead'
  BY <1>1, <1>3, <1>4 DEF NoRankIsAhead
<1>8. WaitsAtNeedyKey' /\ TunesInGroup'
  BY <1>1, <1>4 DEF WaitsAtNeedyKey, TunesInGroup
<1> QED BY <1>5, <1>6, <1>7, <1>8

LEMMA MeasureKeepsAnswers ==
  ASSUME IInv, NEW r \in Rank, Measure(r) PROVE TuningInv'
<1> USE NumKeysType DEF IInv, FileInv, TypeOK, TuningInv
<1>1. pc[r] = "tune" /\ at[r] \in 1 .. NumKeys /\ UNCHANGED <<sent, group>>
  BY DEF Measure
<1>2. pc[r] \in Tuning /\ pc[r] \notin Early /\ "reduce" \in Tuning /\ "reduce" \notin Early
  BY <1>1 DEF Tuning, Tuned, Early, Loading
<1>3. Needy(at[r])
  BY <1>1, <1>2 DEF Measure, Needy, RestIsAsSent
<1>4. SentAnswers' = SentAnswers /\ \A key : Needy(key)' <=> Needy(key)
  BY <1>1 DEF SentAnswers, Needy
<1>5. CASE r \in group
  <2>1. pc' = [pc EXCEPT ![r] = "reduce"] /\ UNCHANGED <<at, configs>>
    BY <1>5 DEF Measure, Go
  <2>2. \A s \in Rank : /\ pc'[s] \in Early <=> pc[s] \in Early
                        /\ pc'[s] \in Tuning <=> pc[s] \in Tuning
    BY <1>2, <2>1
  <2>3. NothingKnownEarly' /\ RestIsAsSent' /\ SameAnswers'
    BY <1>1, <1>4, <2>1, <2>2 DEF NothingKnownEarly, RestIsAsSent, SameAnswers
  <2>4. NoRankIsAhead' /\ WaitsAtNeedyKey'
    BY <1>3, <1>4, <2>1 DEF NoRankIsAhead, WaitsAtNeedyKey
  <2>5. TunesInGroup'
    BY <1>1, <2>1 DEF TunesInGroup
  <2> QED BY <2>3, <2>4, <2>5
<1>6. CASE r \notin group
  <2>1. \A s \in Rank : s = r
    BY <1>1, <1>6, OneRank DEF TunesInGroup
  <2>2. PICK t \in Tactics : configs' = [configs EXCEPT ![r][at[r]] = t]
    BY <1>6 DEF Measure
  <2>3. at' = [at EXCEPT ![r] = @ + 1] /\ pc' = pc
    BY <1>6 DEF Measure
  <2>4. \A key \in 1 .. NumKeys : key # at[r] => configs'[r][key] = configs[r][key]
    BY <2>2 DEF Answers
  <2>5. NothingKnownEarly'
    BY <1>1, <1>2, <2>1, <2>3, TunesWhenSent DEF NothingKnownEarly
  <2>6. RestIsAsSent'
    BY <1>2, <1>4, <2>1, <2>3, <2>4 DEF RestIsAsSent
  <2>7. SameAnswers' /\ NoRankIsAhead'
    BY <1>2, <2>1, <2>3 DEF SameAnswers, NoRankIsAhead
  <2>8. WaitsAtNeedyKey' /\ TunesInGroup'
    BY <1>1, <2>1, <2>3 DEF WaitsAtNeedyKey, TunesInGroup
  <2> QED BY <2>5, <2>6, <2>7, <2>8
<1> QED BY <1>5, <1>6

LEMMA ReduceKeepsAnswers ==
  ASSUME IInv, Reduce PROVE TuningInv'
<1> USE NumKeysType, LeaderType DEF IInv, FileInv, TypeOK, TuningInv
<1>1. /\ \A r \in Rank : pc[r] = "reduce"
      /\ at' = [r \in Rank |-> at[r] + 1] /\ pc' = [r \in Rank |-> "tune"]
      /\ UNCHANGED <<sent, group>>
  BY DEF Reduce
<1>2. "reduce" \in Tuning /\ "tune" \in Tuning /\ "tune" \notin Early
  BY DEF Tuning, Tuned, Early, Loading
<1>3. \A r, s \in Rank : at[r] = at[s]
  <2>1. \A r \in Rank : Needy(at[r]) /\ at[r] \in 1 .. NumKeys + 1
    BY <1>1 DEF WaitsAtNeedyKey
  <2>2. ASSUME NEW r \in Rank, NEW s \in Rank, at[s] < at[r] PROVE FALSE
    <3>1. at[s] \in 1 .. NumKeys
      BY <2>1, <2>2
    <3>2. ~Needy(at[s])
      BY <2>2, <3>1 DEF NoRankIsAhead
    <3> QED BY <2>1, <3>2
  <2> HIDE DEF IInv, FileInv, TypeOK, TuningInv
  <2> QED BY <2>1, <2>2
<1>4. PICK t \in Tactics : configs' = [r \in Rank |-> [configs[r] EXCEPT ![at[r]] = t]]
  BY DEF Reduce
<1>5. SentAnswers' = SentAnswers /\ sent # <<>>
  BY <1>1, TunesWhenSent DEF SentAnswers
<1>6. \A r \in Rank, key \in 1 .. NumKeys : key # at[r] => configs'[r][key] = configs[r][key]
  BY <1>4 DEF Answers
<1>7. NothingKnownEarly'
  BY <1>1, <1>2, <1>5 DEF NothingKnownEarly
<1>8. RestIsAsSent'
  BY <1>1, <1>2, <1>5, <1>6 DEF RestIsAsSent
<1>9. SameAnswers'
  <2>1. \A r, s \in Rank : configs[r] = configs[s]
    BY <1>1, <1>2 DEF SameAnswers
  <2>2. \A r, s \in Rank : configs'[r] = configs'[s]
    BY <1>3, <1>4, <2>1
  <2>3. \A r \in Rank : pc'[r] \notin Early
    BY <1>1, <1>2
  <2> QED BY <2>2, <2>3 DEF SameAnswers
<1>10. NoRankIsAhead'
  BY <1>1, <1>3 DEF NoRankIsAhead
<1>11. WaitsAtNeedyKey' /\ TunesInGroup'
  BY <1>1 DEF WaitsAtNeedyKey, TunesInGroup
<1> QED BY <1>7, <1>8, <1>9, <1>10, <1>11

LEMMA TuningStep == IInv /\ TypeOK' /\ [Next]_vars => TuningInv'
<1> SUFFICES ASSUME IInv, TypeOK', [Next]_vars PROVE TuningInv'
  OBVIOUS
<1> USE DEF IInv, FileInv, Go, Early, Loading, Tuning, Tuned
<1>1. ASSUME NEW r \in Rank, LocalWarmup(r) PROVE TuningInv'
  <2>1. CASE ~local_only /\ Enabled
    <3>1. /\ pc[r] = "warmup" /\ pc' = [pc EXCEPT ![r] = "read"]
          /\ UNCHANGED <<sent, at, configs, group>>
      BY <1>1, <2>1 DEF LocalWarmup
    <3>2. TunesInGroup'
      BY <3>1 DEF TuningInv, TunesInGroup, TypeOK
    <3> QED BY <3>1, <3>2, MoveKeepsAnswers DEF TuningInv
  <2>2. CASE ~(~local_only /\ Enabled)
    <3>1. configs' = [configs EXCEPT ![r] = SentAnswers]
      BY <1>1, <2>2 DEF LocalWarmup, LocalWarmupOnly, TypeOK, TuningInv, NothingKnownEarly, SentAnswers
    <3> QED BY <1>1, <2>2, <3>1, BeginKeepsAnswers DEF LocalWarmup
  <2> QED BY <2>1, <2>2
<1>2. ASSUME NEW r \in Rank, ReadCache(r) PROVE TuningInv'
  BY <1>2, MoveKeepsAnswers DEF ReadCache, TuningInv, TunesInGroup, TypeOK
<1>3. ASSUME NEW r \in Rank, Broadcast(r) PROVE TuningInv'
  BY <1>3, BroadcastKeepsAnswers
<1>4. ASSUME NEW r \in Rank, Truncate(r) PROVE TuningInv'
  BY <1>4, MoveKeepsAnswers DEF Truncate, TuningInv, TunesInGroup, TypeOK
<1>5. ASSUME NEW r \in Rank, Write(r) PROVE TuningInv'
  BY <1>5, MoveKeepsAnswers DEF Write, TuningInv, TunesInGroup, TypeOK
<1>6. ASSUME NEW r \in Rank, PassBarrier(r) PROVE TuningInv'
  BY <1>6, MoveKeepsAnswers DEF PassBarrier, TuningInv, TunesInGroup, TypeOK
<1>7. ASSUME NEW r \in Rank, Load(r) PROVE TuningInv'
  BY <1>7, LoadKeepsAnswers
<1>8. ASSUME NEW r \in Rank, SetProcessGroup(r) PROVE TuningInv'
  BY <1>8, MoveKeepsAnswers DEF SetProcessGroup, TuningInv, TunesInGroup, TypeOK
<1>9. ASSUME NEW r \in Rank, PassKey(r) PROVE TuningInv'
  BY <1>9, PassKeyKeepsAnswers
<1>10. ASSUME NEW r \in Rank, Measure(r) PROVE TuningInv'
  BY <1>10, MeasureKeepsAnswers
<1>11. ASSUME NEW r \in Rank, EndTuning(r) PROVE TuningInv'
  <2>1. PICK to \in {"meet", "save"} : pc' = [pc EXCEPT ![r] = to]
    BY <1>11 DEF EndTuning
  <2>2. pc[r] = "tune" /\ group' = group \ {r} /\ UNCHANGED <<sent, at, configs>>
    BY <1>11 DEF EndTuning
  <2>3. TunesInGroup'
    BY <2>1, <2>2 DEF TuningInv, TunesInGroup, TypeOK
  <2> QED BY <2>1, <2>2, <2>3, MoveKeepsAnswers DEF TuningInv
<1>12. ASSUME NEW r \in Rank, PassMeeting(r) PROVE TuningInv'
  <2>1. PICK to \in {"save", "returned"} : pc' = [pc EXCEPT ![r] = to]
    BY <1>12 DEF PassMeeting
  <2>2. pc[r] = "meet" /\ UNCHANGED <<sent, at, configs, group>>
    BY <1>12 DEF PassMeeting
  <2> QED BY <2>1, <2>2, MoveKeepsAnswers DEF TuningInv, TunesInGroup, TypeOK
<1>13. ASSUME NEW r \in Rank, BeginSave(r) PROVE TuningInv'
  BY <1>13, MoveKeepsAnswers DEF BeginSave, TuningInv, TunesInGroup, TypeOK
<1>14. ASSUME NEW r \in Rank, EndSave(r) PROVE TuningInv'
  BY <1>14, MoveKeepsAnswers DEF EndSave, TuningInv, TunesInGroup, TypeOK
<1>15. ASSUME NEW r \in Rank, Raise(r) PROVE TuningInv'
  <2>1. TunesInGroup'
    BY <1>15 DEF Raise, TuningInv, TunesInGroup, TypeOK
  <2> QED BY <1>15, <2>1, MoveKeepsAnswers DEF Raise, TuningInv
<1>16. ASSUME Reduce PROVE TuningInv'
  BY <1>16, ReduceKeepsAnswers
<1>17. ASSUME Crash PROVE TuningInv'
  BY <1>17 DEF Crash, Start, TuningInv, NothingKnownEarly, RestIsAsSent, SameAnswers,
               NoRankIsAhead, WaitsAtNeedyKey, TunesInGroup, SentAnswers
<1>18. CASE UNCHANGED vars
  BY <1>18 DEF vars, TuningInv, NothingKnownEarly, RestIsAsSent, SameAnswers,
               NoRankIsAhead, WaitsAtNeedyKey, TunesInGroup, SentAnswers, Needy
<1> QED
  BY <1>1, <1>2, <1>3, <1>4, <1>5, <1>6, <1>7, <1>8, <1>9, <1>10, <1>11, <1>12, <1>13, <1>14,
     <1>15, <1>16, <1>17, <1>18 DEF Next, Step

-----------------------------------------------------------------------------
(***************************************************************************)
(* The theorems.                                                           *)
(***************************************************************************)
\* Ranks, files, barriers and answers are what they are meant to be: no key is
\* ever run past the last one, no barrier counts a stranger.
THEOREM TypeCorrect == Spec => []TypeOK
<1>1. TypeOK /\ [Next]_vars => TypeOK'
  BY TypeStep
<1> QED BY TypeInit, <1>1, PTL DEF Spec

\* The invariant of the whole startup, for any number of ranks and crashes.
THEOREM Invariance == Spec => []IInv
<1>1. Init => IInv
  <2> SUFFICES ASSUME Init PROVE IInv
    OBVIOUS
  <2>1. FileInv
    BY FileInit
  <2>2. pc \in [Rank -> {"none", "warmup"}]
    BY DEF Init
  <2>3. TuningInv
    BY <2>1, <2>2, NoneKnown DEF Init, FileInv
  <2> QED BY <2>1, <2>3 DEF IInv
<1>2. IInv /\ [Next]_vars => IInv'
  <2> SUFFICES ASSUME IInv, [Next]_vars PROVE IInv'
    OBVIOUS
  <2>1. FileInv'
    BY FileStep DEF IInv
  <2>2. TuningInv'
    BY <2>1, TuningStep DEF FileInv
  <2> QED BY <2>1, <2>2 DEF IInv
<1> QED BY <1>1, <1>2, PTL DEF Spec

\* The file a rank loads is the one the leader broadcast, although ranks of one
\* host write the same path and the leader saves to it.
THEOREM LoadCorrect == Spec => []LoadsWhatWasBroadcast
<1>1. IInv => LoadsWhatWasBroadcast
  BY LoadIsSafe DEF IInv
<1> QED BY Invariance, <1>1, PTL

\* Ranks that average their timings measure the same key.
THEOREM CollectivesCorrect == Spec => []CollectivesMatch
<1>1. IInv => CollectivesMatch
  BY DEF IInv, FileInv, TypeOK, TuningInv, NoRankIsAhead, WaitsAtNeedyKey, CollectivesMatch
<1> QED BY Invariance, <1>1, PTL

\* Ranks that are through with tuning use the same tactics.
THEOREM TunedCorrect == Spec => []TunedAlike
<1>1. IInv => TunedAlike
  BY DEF IInv, TuningInv, SameAnswers, TunedAlike, Tuning, Tuned
<1> QED BY Invariance, <1>1, PTL
=============================================================================
