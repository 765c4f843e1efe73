----------------------------- MODULE NgramHash ------------------------------
(***************************************************************************)
(* The ids of an n-gram: _make_layer_multipliers and the hash in           *)
(* Qwen4ExpNGramEmbedding.forward, with the layout NgramLayout makes for   *)
(* the layers, or the buffers load_weights copies from a checkpoint over   *)
(* it.  Tensors hold signed integers of Width bits (64 in the code), which *)
(* wrap.  The shifted values of a token are those of NgramEmbedding.       *)
(***************************************************************************)
EXTENDS NgramLayout, NgramShape

CONSTANTS
  Width,          \* the bits of a signed integer
  Models,         \* a base and a unigram_vocab_size of the configuration, and a checkpoint
  HeadsPerNgram

ASSUME WidthAssumption == Width \in Nat \ {0, 1}
ASSUME HeadsAssumption ==
  HeadsPerNgram \in Nat \ {0} /\ Heads = (NgramSize - 1) * HeadsPerNgram

VARIABLES
  vocab,        \* unigram_vocab_size
  ckpt,         \* the checkpoint
  layer,        \* the layer whose hash is looked at, one of those laid out
  multipliers,  \* those the constructor makes, counted from 1
  buffers,      \* the persistent buffers, once they are registered
  todo,         \* the tensors of the layer still to be loaded
  failed,       \* load_weights raised
  shifted,      \* the shifted values of the token hashed last
  ids           \* its ids, one for each head

load_vars == <<buffers, todo, failed>>
hash_vars == <<vocab, ckpt, layer, multipliers, load_vars, shifted, ids>>
all_vars == <<layout_vars, hash_vars>>

-----------------------------------------------------------------------------
\* 2 ^ n, in a form the provers can reason about.
TwoTo(n) == LET power[i \in 0 .. n] == IF i = 0 THEN 1 ELSE 2 * power[i - 1] IN power[n]

MaxInt == TwoTo(Width - 1) - 1

\* half_bound, for a vocabulary of v.
HalfOf(v) == LET half == (MaxInt \div v) \div 2 IN IF half > 1 THEN half ELSE 1

(***************************************************************************)
(* A checkpoint is what a model wrote whose n-grams have the layouts and   *)
(* multipliers in it: multipliers no larger than those made for a          *)
(* vocabulary v, and heads inside of their table.  It may have been        *)
(* written with the buffers or without.  Everything else may be of another *)
(* configuration: base, number of heads, length of an n-gram, seed.        *)
(***************************************************************************)
IsCheckpoint(c, v) ==
  /\ c.has_buffers \in BOOLEAN
  /\ c.multipliers \in Seq(1 .. 2 * HalfOf(v) - 1)
  /\ \A l \in 1 .. Layers :
       LET written == c.layouts[l]
       IN /\ written.sizes \in Seq(Nat \ {0}) /\ written.offsets \in Seq(Nat)
          /\ written.padded_vocab_size \in Nat
          /\ \A h \in DOMAIN written.sizes :
               written.offsets[h] + written.sizes[h] <= written.padded_vocab_size

\* The ids of the vocabulary are numbers of a tensor.
ASSUME ModelsAssumption ==
  \A model \in Models : /\ model.base \in Bases /\ model.vocab \in 1 .. MaxInt + 1
                         /\ IsCheckpoint(model.ckpt, model.vocab)

\* A number as a tensor of Width bits holds it.
Wrapped(n) == ((n + MaxInt + 1) % TwoTo(Width)) - MaxInt - 1

\* The exclusive or of two numbers of w bits, of which negative ones are the
\* complements to two.
Xor(a, b, w) ==
  LET bit(i) == ((a \div TwoTo(i)) + (b \div TwoTo(i))) % 2
      low[i \in 0 .. w] == IF i = 0 THEN 0 ELSE low[i - 1] + TwoTo(i - 1) * bit(i - 1)
  IN low[w]

\* The persistent buffers of a layer with these multipliers and this layout.
BuffersOf(m, layout) ==
  [layer_multipliers |-> m,
   ngram_heads_offsets |-> layout.offsets, ngram_heads_vocab_sizes |-> layout.sizes]
Buffers == {"layer_multipliers", "ngram_heads_offsets", "ngram_heads_vocab_sizes"}

\* What the constructor registers, and what the checkpoint holds.
Constructed == BuffersOf(multipliers, layouts[layer])
Written == BuffersOf(ckpt.multipliers, ckpt.layouts[layer])

Table == "ngram_embedding"

\* Mutant: the modulus is the size the constructor computed.
ConstructedSize(head) == layouts[layer].sizes[head]

Size(head) == buffers.ngram_heads_vocab_sizes[head]
Offset(head) == buffers.ngram_heads_offsets[head]

\* The tokens of the n-grams a head is for.
NgramOfHead(head) == 2 + (head - 1) \div HeadsPerNgram

\* mixed, for n-grams of n tokens.
Mixed(tokens, n) ==
  LET product(i) == Wrapped(tokens[i] * buffers.layer_multipliers[i])
      mixed[i \in 1 .. n] ==
        IF i = 1 THEN product(1) ELSE Wrapped(Xor(mixed[i - 1], product(i), Width))
  IN mixed[n]

Ids(tokens) ==
  [head \in 1 .. Heads |->
     (Mixed(tokens, NgramOfHead(head)) % Size(head)) + Offset(head)]

\* Mutant: the bound is not halved before the multiplier is doubled.
WholeBound == LET bound == MaxInt \div vocab IN IF bound > 1 THEN bound ELSE 1

HalfBound == HalfOf(vocab)

-----------------------------------------------------------------------------
HashInit ==
  /\ LayoutInit
  /\ \E model \in Models : base = model.base /\ vocab = model.vocab /\ ckpt = model.ckpt
  /\ layer \in 1 .. Layers
  /\ multipliers = <<>> /\ shifted = <<>> /\ ids = <<>>
  /\ buffers = <<>> /\ todo = {} /\ failed = FALSE

Lay == LayoutNext /\ UNCHANGED hash_vars

\* The multipliers do not depend on the layout; they are made last here.
\* splitmix64 is a fixed but arbitrary function: its value may be anything.
MakeMultiplier ==
  /\ Len(layouts) = Layers /\ Len(multipliers) < NgramSize
  /\ \E mix \in 0 .. TwoTo(Width) - 1 :
       multipliers' = Append(multipliers, 2 * (mix % HalfBound) + 1)
  /\ UNCHANGED <<layout_vars, vocab, ckpt, layer, load_vars, shifted, ids>>

\* The end of the constructor, and the tensors load_weights will be given.
Register ==
  /\ Len(multipliers) = NgramSize /\ buffers = <<>>
  /\ buffers' = Constructed
  /\ todo' = {Table} \union IF ckpt.has_buffers THEN Buffers ELSE {}
  /\ UNCHANGED <<layout_vars, vocab, ckpt, layer, multipliers, failed, shifted, ids>>

\* A buffer is copied over the constructed one if it has its shape.
LoadBuffer(name) ==
  /\ name \in todo \intersect Buffers /\ ~failed
  /\ IF Len(Written[name]) = Len(buffers[name])
       THEN /\ buffers' = [buffers EXCEPT ![name] = Written[name]]
            /\ todo' = todo \ {name}
            /\ UNCHANGED failed
       ELSE failed' = TRUE /\ UNCHANGED <<buffers, todo>>
  /\ UNCHANGED <<layout_vars, vocab, ckpt, layer, multipliers, shifted, ids>>

\* Mutant: the shapes of the shards of the table are not compared.
LoadTableOfAnyShape ==
  /\ Table \in todo /\ ~failed
  /\ todo' = todo \ {Table}
  /\ UNCHANGED <<layout_vars, vocab, ckpt, layer, multipliers, buffers, failed, shifted, ids>>

\* The shards of the table, in as many parts as the configuration says, have
\* the shapes expected of them if the table has as many rows as it was made
\* with.  HostEmbedding takes them one by one.
LoadTable ==
  /\ Table \in todo /\ ~failed
  /\ IF ckpt.layouts[layer].padded_vocab_size = layouts[layer].padded_vocab_size
       THEN todo' = todo \ {Table} /\ UNCHANGED failed
       ELSE failed' = TRUE /\ UNCHANGED todo
  /\ UNCHANGED <<layout_vars, vocab, ckpt, layer, multipliers, buffers, shifted, ids>>

\* A forward of the loaded model.  Nothing is kept from one token to the next:
\* one hash stands for all.
Hash ==
  /\ buffers # <<>> /\ todo = {} /\ ids = <<>>
  /\ shifted' \in [1 .. NgramSize -> 0 .. vocab - 1]
  /\ ids' = Ids(shifted')
  /\ UNCHANGED <<layout_vars, vocab, ckpt, layer, multipliers, load_vars>>

\* The token is hashed, or the exception stopped the engine.
Stop == (ids # <<>> \/ failed) /\ UNCHANGED all_vars

HashNext ==
  \/ Lay \/ MakeMultiplier \/ Register
  \/ (\E name \in Buffers : LoadBuffer(name)) \/ LoadTable
  \/ Hash \/ Stop

HashSpec == HashInit /\ [][HashNext]_all_vars

-----------------------------------------------------------------------------
\* The hash in unbounded integers, those the multipliers are computed in.
ExactMixed(m, n) ==
  LET mixed[i \in 1 .. n] ==
        IF i = 1 THEN shifted[1] * m[1]
        ELSE Xor(mixed[i - 1], shifted[i] * m[i], 2 * Width)
  IN mixed[n]

\* No token of the vocabulary makes a product wrap, with any multipliers the
\* generator gives, so that an id does not depend on the width of a tensor.
HashIsExact ==
  ids # <<>> =>
    \A head \in 1 .. Heads :
      ids[head] = (ExactMixed(buffers.layer_multipliers, NgramOfHead(head)) % Size(head))
                    + Offset(head)

\* The table is made for the layout of the constructor, and the buffers of
\* another one may be copied over it afterwards, or not, in any order: no
\* checkpoint that load_weights accepts makes the hash name a row the table
\* does not have.
IdsAreRowsOfTable ==
  ids # <<>> =>
    \A head \in 1 .. Heads : ids[head] \in 0 .. layouts[layer].padded_vocab_size - 1

\* The configuration is that of the model that wrote the checkpoint.
IsOwnCheckpoint == Constructed = Written

\* The rows of the table are read as the model that wrote the checkpoint reads
\* them: at the ids of its own hash and layout, though the seed or the base of
\* the configuration is another.  That takes the buffers of the checkpoint, or
\* its configuration.
TableIsReadAsWritten ==
  ids # <<>> /\ (ckpt.has_buffers \/ IsOwnCheckpoint) =>
    \A head \in 1 .. Heads :
      ids[head] = (ExactMixed(ckpt.multipliers, NgramOfHead(head)) % ckpt.layouts[layer].sizes[head])
                    + ckpt.layouts[layer].offsets[head]
=============================================================================
