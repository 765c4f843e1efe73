------------------------------- MODULE MCHost --------------------------------
(* One rank whose table ends in a short part and an empty one, and two ranks  *)
(* with a part across their boundary.                                         *)
EXTENDS HostEmbedding

MCConfigs ==
  {[tp_size |-> 1, org_vocab_size |-> 5, split_ngram_parts |-> 4, ckpt_parts |-> {2, 4, 6}],
   [tp_size |-> 2, org_vocab_size |-> 10, split_ngram_parts |-> 4, ckpt_parts |-> {3, 4, 5}]}
=============================================================================
