------------------------ MODULE MCShortConvDispatch -------------------------
(* Batches of all paths, and longer batches of prefills, which are packed  *)
(* within their budget though there are empty chunks between the others.   *)
EXTENDS ShortConvDispatch

MCBounds ==
  {[requests |-> 3, prefill_len |-> 3, kinds |-> {"spec", "decode", "prefill"}],
   [requests |-> 5, prefill_len |-> 1, kinds |-> {"prefill"}]}
=============================================================================
