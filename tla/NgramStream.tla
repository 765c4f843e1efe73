---------------------------- MODULE NgramStream -----------------------------
(***************************************************************************)
(* What the n-gram embedding promises: the n-gram of a token, from which   *)
(* its ids are hashed, is made of the tokens before it in its own request, *)
(* back to the last end-of-sequence token, whatever the chunks in which    *)
(* the request is fed and whatever is in the same batch.                   *)
(***************************************************************************)
EXTENDS Naturals, Sequences

CONSTANTS
  Request,
  Token,
  Eos,        \* eos_token_id, a token
  NgramSize   \* the longest n-gram, at least one token

VARIABLES
  stream,  \* the tokens of each request so far
  ngrams   \* the n-gram emitted for each of them

vars == <<stream, ngrams>>

\* Part j of the n-gram of token i is the token j places before it, unless an
\* end of sequence or the start of the request lies between them.
NgramAt(s, i) ==
  [j \in 0 .. NgramSize - 1 |->
     IF i - j >= 1 /\ \A e \in i - j .. i - 1 : s[e] # Eos THEN s[i - j] ELSE Eos]

NgramsOf(s) == [i \in 1 .. Len(s) |-> NgramAt(s, i)]

Init ==
  /\ stream = [r \in Request |-> <<>>]
  /\ ngrams = [r \in Request |-> <<>>]

\* Some requests grow; what was emitted for their older tokens stays.
Consume ==
  /\ stream' \in [Request -> Seq(Token)]
  /\ \A r \in Request : /\ Len(stream[r]) <= Len(stream'[r])
                        /\ stream[r] = SubSeq(stream'[r], 1, Len(stream[r]))
  /\ ngrams' = [r \in Request |-> NgramsOf(stream'[r])]

\* The last tokens were drafts and are rejected, or the request ends.
Retract(r, n) ==
  /\ stream' = [stream EXCEPT ![r] = SubSeq(@, 1, n)]
  /\ ngrams' = [ngrams EXCEPT ![r] = SubSeq(@, 1, n)]

Next == Consume \/ \E r \in Request : \E n \in 0 .. Len(stream[r]) : Retract(r, n)

Spec == Init /\ [][Next]_vars
=============================================================================
