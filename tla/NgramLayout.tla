---------------------------- MODULE NgramLayout -----------------------------
(***************************************************************************)
(* The vocabulary layout of the n-gram embeddings: _make_vocab_layout, with*)
(* the prime search it is built on, for the PLE layers of a model one      *)
(* after another.  Head h of layer l has as many rows as the               *)
(* (l * heads + h + 1)-th prime not below ngram_vocab_size_base, behind    *)
(* the rows of the heads before it.                                        *)
(***************************************************************************)
EXTENDS Integers, Sequences, FiniteSets

CONSTANTS
  Bases,   \* the values of ngram_vocab_size_base to try
  Heads,   \* ngram_heads
  Layers,  \* the layers with an n-gram embedding
  Divisor  \* make_ngram_vocab_size_divisible_by

ASSUME BasesAssumption == Bases \subseteq Nat
ASSUME LayoutAssumption == {Heads, Layers, Divisor} \subseteq Nat \ {0}

VARIABLES
  base,       \* ngram_vocab_size_base of this model
  sizes,      \* the sizes of the heads of the layer being laid out
  offsets,    \* their offsets
  offset,     \* the rows laid out so far
  prime,      \* _nth_prime_after: the last prime found
  found,      \* how many were found for this head
  candidate,  \* the number tested next, 0 between two searches
  layouts     \* the layers laid out

layout_vars == <<base, sizes, offsets, offset, prime, found, candidate, layouts>>

-----------------------------------------------------------------------------
(***************************************************************************)
(* _is_prime_64                                                            *)
(***************************************************************************)
SmallPrimes == {2, 3, 5, 7, 11, 13, 17, 19, 23, 29, 31, 37}
WitnessBases == {2, 325, 9375, 28178, 450775, 9780504, 1795265022}

\* pow(x, n, m) by squaring.
PowMod(x, n, m) ==
  LET pow[e \in 0 .. n] ==
        IF e = 0 THEN 1 % m
        ELSE LET half == pow[e \div 2]
             IN IF e % 2 = 0 THEN (half * half) % m ELSE (((half * half) % m) * (x % m)) % m
  IN pow[n]

\* value - 1 = exponent * 2 ^ shifts, with an odd exponent.
Shifts(value) ==
  CHOOSE s \in 0 .. value : /\ (value - 1) % (2 ^ s) = 0
                            /\ ((value - 1) \div (2 ^ s)) % 2 = 1
Exponent(value) == (value - 1) \div (2 ^ Shifts(value))

\* One base does not show that value is composite.
MayBePrime(value, b) ==
  LET witness(i) == PowMod(b, Exponent(value) * 2 ^ i, value)
  IN \/ b % value = 0
     \/ witness(0) \in {1, value - 1}
     \/ \E i \in 1 .. Shifts(value) - 1 : witness(i) = value - 1

\* Mutant: a base that is a multiple of the value counts as a witness.
IsPrime64AnyBase(value) ==
  /\ value >= 2
  /\ IF \E p \in SmallPrimes : value % p = 0 THEN value \in SmallPrimes
     ELSE \A b \in WitnessBases : b % value # 0 /\ MayBePrime(value, b)

IsPrime64(value) ==
  /\ value >= 2
  /\ IF \E p \in SmallPrimes : value % p = 0 THEN value \in SmallPrimes
     ELSE \A b \in WitnessBases : MayBePrime(value, b)

-----------------------------------------------------------------------------
LayoutInit ==
  /\ base \in Bases
  /\ sizes = <<>> /\ offsets = <<>> /\ offset = 0
  /\ prime = base - 1 /\ found = 0 /\ candidate = 0
  /\ layouts = <<>>

\* global_head
GlobalHead == Len(layouts) * Heads + Len(sizes)

Searching == Len(sizes) < Heads /\ found < GlobalHead + 1

\* The next prime is 2, or an odd number.
BeginSearch ==
  /\ Len(layouts) < Layers /\ Searching /\ candidate = 0
  /\ LET next == prime + 1
     IN IF next <= 2
          THEN prime' = 2 /\ found' = found + 1 /\ UNCHANGED candidate
          ELSE /\ candidate' = IF next % 2 = 0 THEN next + 1 ELSE next
               /\ UNCHANGED <<prime, found>>
  /\ UNCHANGED <<base, sizes, offsets, offset, layouts>>

TestCandidate ==
  /\ candidate # 0
  /\ IF IsPrime64(candidate)
       THEN prime' = candidate /\ found' = found + 1 /\ candidate' = 0
       ELSE candidate' = candidate + 2 /\ UNCHANGED <<prime, found>>
  /\ UNCHANGED <<base, sizes, offsets, offset, layouts>>

\* Mutant: the offset is that of the last head alone.
EndHeadForgetful ==
  /\ Len(sizes) < Heads /\ found = GlobalHead + 1
  /\ sizes' = Append(sizes, prime)
  /\ offsets' = Append(offsets, offset)
  /\ offset' = prime
  /\ prime' = base - 1 /\ found' = 0
  /\ UNCHANGED <<base, candidate, layouts>>

EndHead ==
  /\ Len(sizes) < Heads /\ found = GlobalHead + 1
  /\ sizes' = Append(sizes, prime)
  /\ offsets' = Append(offsets, offset)
  /\ offset' = offset + prime
  /\ prime' = base - 1 /\ found' = 0
  /\ UNCHANGED <<base, candidate, layouts>>

\* The constructor pads the table and goes on to the next layer.
EndLayer ==
  /\ Len(sizes) = Heads
  /\ layouts' = Append(layouts,
                  [sizes |-> sizes, offsets |-> offsets,
                   padded_vocab_size |-> ((offset + Divisor - 1) \div Divisor) * Divisor])
  /\ sizes' = <<>> /\ offsets' = <<>> /\ offset' = 0
  /\ UNCHANGED <<base, prime, found, candidate>>

LayoutNext == BeginSearch \/ TestCandidate \/ EndHead \/ EndLayer

-----------------------------------------------------------------------------
IsPrime(n) == n >= 2 /\ \A d \in 2 .. n - 1 : d * d <= n => n % d # 0

\* Head h of layer l has the (l * Heads + h + 1)-th prime from the base on,
\* counted by trial division: the probabilistic test of _is_prime_64 skips no
\* prime and takes no composite for one.
SizesAreTheNextPrimes ==
  \A l \in 1 .. Len(layouts), h \in 1 .. Heads :
    LET size == layouts[l].sizes[h]
    IN /\ IsPrime(size)
       /\ Cardinality({p \in base .. size : IsPrime(p)}) = (l - 1) * Heads + h

\* The rows of the heads of a layer do not overlap and fill the table up to
\* its padding, which is less than the divisor.
RowsArePartitioned ==
  \A l \in 1 .. Len(layouts) :
    LET rows(h) == layouts[l].offsets[h] .. layouts[l].offsets[h] + layouts[l].sizes[h] - 1
        all == UNION {rows(h) : h \in 1 .. Heads}
    IN /\ \A h, i \in 1 .. Heads : h # i => rows(h) \intersect rows(i) = {}
       /\ all = 0 .. Cardinality(all) - 1
       /\ layouts[l].padded_vocab_size - Cardinality(all) \in 0 .. Divisor - 1
=============================================================================
