------------------------------ MODULE Autotune ------------------------------
(***************************************************************************)
(* kernel_warmup and flashinfer_autotune on the ranks of one engine.       *)
(* After the warmups that concern its process alone, a rank tunes the      *)
(* kernels of FlashInfer: the leader reads its cache file and broadcasts   *)
(* it, every rank writes it to its own path, all meet at a barrier and     *)
(* load it; what is still unknown is measured, the timings averaged over   *)
(* the ranks; all meet again and the leader saves the answers.             *)
(*                                                                         *)
(* Ranks of one host share a path.  Writing a file has two steps, of which *)
(* the first leaves it torn; a torn file loads as nothing.  An engine may  *)
(* crash at any time, and is started again with the files as they are.     *)
(***************************************************************************)
EXTENDS Naturals, Sequences

CONSTANTS
  NumRanks,
  NumHosts,       \* rank r is on host r % NumHosts
  NumOps,         \* the tunable operations, in the order the model runs them
  SkipOps,        \* _flashinfer_autotune_skip_ops
  MaxBatched,     \* max_num_batched_tokens
  CuteDsl,        \* linear_backend is flashinfer_cutedsl
  Enabled,        \* enable_flashinfer_autotune, and FlashInfer can run here
  Tactics,
  MaxCrashes      \* bound of the model: engine starts that fail

ASSUME RanksAssumption == {NumRanks, NumHosts} \subseteq Nat \ {0} /\ MaxCrashes \in Nat
ASSUME OpsAssumption ==
  /\ NumOps \in Nat /\ SkipOps \subseteq 1 .. NumOps /\ MaxBatched \in Nat
  /\ Tactics # {} /\ {CuteDsl, Enabled} \subseteq BOOLEAN

Rank == 0 .. NumRanks - 1
Leader == 0
Host(r) == r % NumHosts

-----------------------------------------------------------------------------
\* _flashinfer_autotune_token_counts, with the bound of BF16 kernels.
Bf16MaxTokens == 32
TokenCounts ==
  IF CuteDsl /\ MaxBatched > Bf16MaxTokens THEN <<MaxBatched, Bf16MaxTokens>> ELSE <<MaxBatched>>

\* The answers of a tuner: a tactic for each operation at each token count,
\* numbered in the order of the dummy runs.
NumKeys == NumOps * Len(TokenCounts)
OpOf(key) == ((key - 1) % NumOps) + 1
Unknown == "unknown"
NoConfigs == [key \in 1 .. NumKeys |-> Unknown]

\* The state of a cache file.
Absent == [state |-> "absent", configs |-> NoConfigs]
Torn == [state |-> "torn", configs |-> NoConfigs]
Whole(c) == [state |-> "whole", configs |-> c]

VARIABLES
  local_only,  \* kernel_warmup was called with process_local_only
  callers,     \* the ranks that call it
  pc,
  file,        \* the cache file of each host
  sent,        \* what the leader has broadcast: nothing or one file
  cached,      \* cached_results of each rank
  arrived,     \* the ranks that have come to each of the two barriers
  group,       \* the ranks whose tuner averages over the process group
  at,          \* the key a rank has come to
  configs,     \* the answers in the tuner of a rank
  crashes

vars == <<local_only, callers, pc, file, sent, cached, arrived, group, at, configs, crashes>>

Go(r, from, to) == pc[r] = from /\ pc' = [pc EXCEPT ![r] = to]

-----------------------------------------------------------------------------
Start ==
  /\ pc' = [r \in Rank |-> IF r \in callers THEN "warmup" ELSE "none"]
  /\ sent' = <<>> /\ arrived' = [b \in {1, 2} |-> {}] /\ group' = {}
  /\ cached' = [r \in Rank |-> Absent]
  /\ at' = [r \in Rank |-> 1]
  /\ configs' = [r \in Rank |-> NoConfigs]
  /\ UNCHANGED <<local_only, callers, file>>

\* The answers of an operation that is not tuned are in no cache.
Caches == {c \in [1 .. NumKeys -> Tactics \union {Unknown}] :
             \A key \in 1 .. NumKeys : OpOf(key) \in SkipOps => c[key] = Unknown}

\* The caches may be left from other configurations of the model.
Init ==
  /\ \/ local_only = FALSE /\ callers = Rank
     \/ local_only = TRUE /\ callers \in SUBSET Rank
  /\ pc = [r \in Rank |-> IF r \in callers THEN "warmup" ELSE "none"]
  /\ file \in [0 .. NumHosts - 1 ->
                 {Absent, Torn} \union {Whole(c) : c \in Caches}]
  /\ sent = <<>> /\ arrived = [b \in {1, 2} |-> {}] /\ group = {}
  /\ cached = [r \in Rank |-> Absent]
  /\ at = [r \in Rank |-> 1]
  /\ configs = [r \in Rank |-> NoConfigs]
  /\ crashes = 0

\* Mutant: the return of a process that warms up alone comes too late.
LocalWarmupGoesOn(r) ==
  /\ Go(r, "warmup", IF Enabled THEN "read" ELSE "returned")
  /\ UNCHANGED <<local_only, callers, file, sent, cached, arrived, group, at, configs, crashes>>

\* The warmups that no other rank takes part in.
LocalWarmup(r) ==
  /\ Go(r, "warmup", IF ~local_only /\ Enabled THEN "read" ELSE "returned")
  /\ UNCHANGED <<local_only, callers, file, sent, cached, arrived, group, at, configs, crashes>>

\* A rank that has no cached answers goes on to tune.
AfterBroadcast(results) == IF results = Absent THEN "group" ELSE "truncate"

ReadCache(r) ==
  /\ Go(r, "read", "broadcast")
  /\ cached' = IF r = Leader THEN [cached EXCEPT ![r] = file[Host(r)]] ELSE cached
  /\ UNCHANGED <<local_only, callers, file, sent, arrived, group, at, configs, crashes>>

Broadcast(r) ==
  /\ IF r = Leader
       THEN /\ Go(r, "broadcast", AfterBroadcast(cached[r]))
            /\ sent' = <<cached[r]>> /\ UNCHANGED cached
       ELSE /\ sent # <<>>
            /\ Go(r, "broadcast", AfterBroadcast(sent[1]))
            /\ cached' = [cached EXCEPT ![r] = sent[1]] /\ UNCHANGED sent
  /\ UNCHANGED <<local_only, callers, file, arrived, group, at, configs, crashes>>

Truncate(r) ==
  /\ Go(r, "truncate", "write")
  /\ file' = [file EXCEPT ![Host(r)] = Torn]
  /\ UNCHANGED <<local_only, callers, sent, cached, arrived, group, at, configs, crashes>>

\* write_flashinfer_autotune_cache ends, and the rank comes to the barrier.
Write(r) ==
  /\ Go(r, "write", "barrier")
  /\ file' = [file EXCEPT ![Host(r)] = cached[r]]
  /\ arrived' = [arrived EXCEPT ![1] = @ \union {r}]
  /\ UNCHANGED <<local_only, callers, sent, cached, group, at, configs, crashes>>

\* Mutant: no barrier between the writes and the loads.
PassBarrierAlone(r) ==
  /\ Go(r, "barrier", "load")
  /\ UNCHANGED <<local_only, callers, file, sent, cached, arrived, group, at, configs, crashes>>

PassBarrier(r) ==
  /\ arrived[1] = Rank
  /\ Go(r, "barrier", "load")
  /\ UNCHANGED <<local_only, callers, file, sent, cached, arrived, group, at, configs, crashes>>

\* Mutant: the leader, which has read the file, does not load it.
LoadUnlessLeader(r) ==
  /\ Go(r, "load", "group")
  /\ configs' = IF r = Leader THEN configs ELSE [configs EXCEPT ![r] = file[Host(r)].configs]
  /\ UNCHANGED <<local_only, callers, file, sent, cached, arrived, group, at, crashes>>

Load(r) ==
  /\ Go(r, "load", "group")
  /\ configs' = [configs EXCEPT ![r] = file[Host(r)].configs]
  /\ UNCHANGED <<local_only, callers, file, sent, cached, arrived, group, at, crashes>>

\* Mutant: every rank measures for itself.
TuneAlone(r) ==
  /\ Go(r, "group", "tune")
  /\ UNCHANGED <<local_only, callers, file, sent, cached, arrived, group, at, configs, crashes>>

\* set_autotune_process_group(group)
SetProcessGroup(r) ==
  /\ Go(r, "group", "tune")
  /\ group' = IF NumRanks > 1 THEN group \union {r} ELSE group
  /\ UNCHANGED <<local_only, callers, file, sent, cached, arrived, at, configs, crashes>>

\* The dummy run comes to an operation that is skipped or whose answer is known.
PassKey(r) ==
  /\ pc[r] = "tune" /\ at[r] <= NumKeys
  /\ OpOf(at[r]) \in SkipOps \/ configs[r][at[r]] # Unknown
  /\ at' = [at EXCEPT ![r] = @ + 1]
  /\ UNCHANGED <<local_only, callers, pc, file, sent, cached, arrived, group, configs, crashes>>

\* It measures the tactics and, in a process group, waits for the others.
Measure(r) ==
  /\ pc[r] = "tune" /\ at[r] <= NumKeys
  /\ OpOf(at[r]) \notin SkipOps /\ configs[r][at[r]] = Unknown
  /\ IF r \in group
       THEN Go(r, "tune", "reduce") /\ UNCHANGED <<at, configs>>
       ELSE /\ \E t \in Tactics : configs' = [configs EXCEPT ![r][at[r]] = t]
            /\ at' = [at EXCEPT ![r] = @ + 1] /\ UNCHANGED pc
  /\ UNCHANGED <<local_only, callers, file, sent, cached, arrived, group, crashes>>

\* The timings are averaged: all ranks choose the same tactic, each for the
\* key it is at.
Reduce ==
  /\ \A r \in Rank : pc[r] = "reduce"
  /\ \E t \in Tactics : configs' = [r \in Rank |-> [configs[r] EXCEPT ![at[r]] = t]]
  /\ at' = [r \in Rank |-> at[r] + 1]
  /\ pc' = [r \in Rank |-> "tune"]
  /\ UNCHANGED <<local_only, callers, file, sent, cached, arrived, group, crashes>>

\* set_autotune_process_group(None), and the second barrier.
EndTuning(r) ==
  /\ at[r] = NumKeys + 1
  /\ group' = group \ {r}
  /\ IF NumRanks > 1
       THEN Go(r, "tune", "meet") /\ arrived' = [arrived EXCEPT ![2] = @ \union {r}]
       ELSE Go(r, "tune", "save") /\ UNCHANGED arrived
  /\ UNCHANGED <<local_only, callers, file, sent, cached, at, configs, crashes>>

\* Mutant: the leader does not save if it had cached answers.
PassMeetingCached(r) ==
  /\ arrived[2] = Rank
  /\ Go(r, "meet", IF r = Leader /\ cached[r] = Absent THEN "save" ELSE "returned")
  /\ UNCHANGED <<local_only, callers, file, sent, cached, arrived, group, at, configs, crashes>>

PassMeeting(r) ==
  /\ arrived[2] = Rank
  /\ Go(r, "meet", IF r = Leader THEN "save" ELSE "returned")
  /\ UNCHANGED <<local_only, callers, file, sent, cached, arrived, group, at, configs, crashes>>

\* save_configs
BeginSave(r) ==
  /\ Go(r, "save", "saving")
  /\ file' = [file EXCEPT ![Host(r)] = Torn]
  /\ UNCHANGED <<local_only, callers, sent, cached, arrived, group, at, configs, crashes>>

EndSave(r) ==
  /\ Go(r, "saving", "returned")
  /\ file' = [file EXCEPT ![Host(r)] = Whole(configs[r])]
  /\ UNCHANGED <<local_only, callers, sent, cached, arrived, group, at, configs, crashes>>

\* A warmup or a dummy run raises on one rank; the others go on without it.
Raise(r) ==
  /\ crashes < MaxCrashes /\ pc[r] \in {"warmup", "tune"}
  /\ pc' = [pc EXCEPT ![r] = "raised"]
  /\ group' = group \ {r}
  /\ UNCHANGED <<local_only, callers, file, sent, cached, arrived, at, configs, crashes>>

\* The engine is killed, with all its ranks, and started again.
Crash == crashes < MaxCrashes /\ crashes' = crashes + 1 /\ Start

RestartAfterRaise == Crash /\ \E r \in Rank : pc[r] = "raised"

Step(r) ==
  \/ LocalWarmup(r) \/ ReadCache(r) \/ Broadcast(r) \/ Truncate(r) \/ Write(r)
  \/ PassBarrier(r) \/ Load(r) \/ SetProcessGroup(r) \/ PassKey(r) \/ Measure(r)
  \/ EndTuning(r) \/ PassMeeting(r) \/ BeginSave(r) \/ EndSave(r)

Returned == \A r \in callers : pc[r] = "returned"

Next == Reduce \/ Crash \/ \E r \in Rank : Step(r) \/ Raise(r)

\* Each rank is a process that runs; a start that failed is followed by another.
Fairness ==
  /\ \A r \in Rank : WF_vars(Step(r))
  /\ WF_vars(Reduce) /\ WF_vars(RestartAfterRaise)

Spec == Init /\ [][Next]_vars /\ Fairness

-----------------------------------------------------------------------------
\* From the moment a rank may load its file until it has, the file holds what
\* the leader read, and no rank of the host is writing it: not another that
\* is late in writing the same, nor the leader that is early in saving more.
LoadsWhatWasBroadcast ==
  \A r \in Rank : pc[r] = "load" => file[Host(r)] = cached[r]

\* The ranks that wait for each other's timings measure the same operation at
\* the same token count; with different caches they would average the timings
\* of different kernels, or wait for a rank that has nothing left to measure.
CollectivesMatch ==
  \A r, s \in Rank : pc[r] = "reduce" /\ pc[s] = "reduce" => at[r] = at[s]

\* Ranks that are through with tuning use the same tactics.
TunedAlike ==
  \A r, s \in Rank :
    pc[r] \in {"meet", "save", "saving", "returned"} /\ pc[s] \in {"meet", "save", "saving", "returned"}
      => configs[r] = configs[s]

\* Every engine start that is not killed is finished by all who called it,
\* whoever calls, and whatever the files of the hosts hold.
EveryoneReturns == <>Returned

\* A file that a crash left torn is whole again after a later start.
TornFileIsRepaired ==
  Enabled /\ ~local_only => [](file[Host(Leader)] = Torn => <>(file[Host(Leader)].state = "whole"))
=============================================================================
