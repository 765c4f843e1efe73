----------------------------- MODULE CausalConv -----------------------------
(***************************************************************************)
(* The promise of the PLE short convolution: whatever path a forward takes *)
(* (prefill, decode, speculative decode), in whatever chunks, and whatever *)
(* the owner of the cache block was before, the outputs of a request are   *)
(* those of one causal convolution over the inputs the request has really  *)
(* consumed.  There is no cache here.                                      *)
(***************************************************************************)
EXTENDS ConvStream

VARIABLES
  live,    \* the blocks owned by a running request
  stream,  \* stream[s]: inputs consumed by the owner of s
  draft,   \* draft[s]: inputs of a speculative step awaiting verification
  out      \* out[s]: outputs of the last forward for the owner of s

vars == <<live, stream, draft, out>>

Init ==
  /\ live = {}
  /\ stream = [s \in Slot |-> << >>]
  /\ draft = [s \in Slot |-> << >>]
  /\ out = [s \in Slot |-> << >>]

Admit(s) ==
  /\ s \notin live
  /\ live' = live \union {s}
  /\ stream' = [stream EXCEPT ![s] = << >>]
  /\ UNCHANGED <<draft, out>>

Release(s) ==
  /\ s \in live
  /\ live' = live \ {s}
  /\ stream' = [stream EXCEPT ![s] = << >>]
  /\ draft' = [draft EXCEPT ![s] = << >>]
  /\ out' = [out EXCEPT ![s] = << >>]

\* One forward is a step of every request: it feeds inputs that count at
\* once, feeds speculative ones that are kept aside, or is not in the batch.
Feed(s, x, kept) ==
  /\ s \in live
  /\ draft[s] = << >>
  /\ stream'[s] = IF kept THEN stream[s] \o x ELSE stream[s]
  /\ draft'[s] = IF kept THEN << >> ELSE x
  /\ out'[s] = OutputsOf(stream[s], x)

Rest(s) ==
  /\ stream'[s] = stream[s]
  /\ draft'[s] = draft[s]
  /\ out'[s] = << >>

Forward ==
  /\ UNCHANGED live
  /\ \A s \in Slot :
       \/ Rest(s)
       \/ \E x \in Chunks(Alphabet[s], MaxModelLen), kept \in BOOLEAN : Feed(s, x, kept)
  /\ stream' = [s \in Slot |-> stream'[s]]
  /\ draft' = [s \in Slot |-> draft'[s]]
  /\ out' = [s \in Slot |-> out'[s]]

\* The verifier keeps a non-empty prefix of the speculative inputs.
Accept(s) ==
  /\ draft[s] # << >>
  /\ \E a \in 1 .. Len(draft[s]) :
       stream' = [stream EXCEPT ![s] = @ \o SubSeq(draft[s], 1, a)]
  /\ draft' = [draft EXCEPT ![s] = << >>]
  /\ out' = [out EXCEPT ![s] = << >>]
  /\ UNCHANGED live

Next ==
  \/ \E s \in Slot : Admit(s) \/ Release(s) \/ Accept(s)
  \/ Forward

Spec == Init /\ [][Next]_vars

=============================================================================
