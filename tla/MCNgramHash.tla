----------------------------- MODULE MCNgramHash -----------------------------
(* Bases below small primes, squares and strong pseudoprimes, with the        *)
(* checkpoint of the same configuration; every kind of vocabulary a word of 5 *)
(* bits allows, on the smallest tables, with checkpoints of other             *)
(* configurations, whose tables have as many rows or not.                     *)
EXTENDS NgramHash, Functions

\* The n-th prime from b on, and the layouts a model makes from it.
NthPrime(b, n) ==
  CHOOSE p \in b .. b + 200 : IsPrime(p) /\ Cardinality({q \in b .. p : IsPrime(q)}) = n
Sum(f, n) == FoldFunctionOnSet(+, 0, f, 1 .. n)
LayoutsFrom(b, heads) ==
  [l \in 1 .. Layers |->
     LET s == [h \in 1 .. heads |-> NthPrime(b, (l - 1) * heads + h)]
     IN [sizes |-> s, offsets |-> [h \in 1 .. heads |-> Sum(s, h - 1)],
         padded_vocab_size |-> ((Sum(s, heads) + Divisor - 1) \div Divisor) * Divisor]]

Ckpt(b, heads, m, has_buffers) ==
  [layouts |-> LayoutsFrom(b, heads), multipliers |-> m, has_buffers |-> has_buffers]

MCBases == {0, 1, 2, 3, 30, 66, 150, 1100, 1660, 1755, 1843, 1920, 2200}
MCModels ==
  [base : {3}, vocab : {1, 2, 3, 7, 8, 15, 16}, ckpt : {Ckpt(3, 4, <<1, 1, 1>>, FALSE)}]
  \union
  {[base |-> b, vocab |-> 4, ckpt |-> Ckpt(b, 4, <<1, 1, 1>>, TRUE)] : b \in MCBases}
  \union
  [base : {3}, vocab : {2},
   ckpt : {Ckpt(3, 4, <<5, 3, 1>>, TRUE), Ckpt(5, 4, <<1, 5, 3>>, TRUE),
           Ckpt(5, 4, <<1, 5, 3>>, FALSE), Ckpt(66, 4, <<1, 1, 1>>, TRUE),
           Ckpt(2, 2, <<1, 1, 1>>, TRUE), Ckpt(3, 4, <<3, 1>>, TRUE)}]
=============================================================================
