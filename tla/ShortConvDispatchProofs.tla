----------------------- MODULE ShortConvDispatchProofs ----------------------
(***************************************************************************)
(* Proofs about ShortConvDispatch: for any kernel, dilation and number of  *)
(* drafts, any batch and any padding, the flat call does to each request   *)
(* what the operators of ConvRow do to its row alone.                      *)
(***************************************************************************)
EXTENDS ShortConvDispatch, FiniteSetTheorems, FunctionTheorems, SequenceTheorems,
        WellFoundedInduction, TLAPS

-----------------------------------------------------------------------------
(***************************************************************************)
(* Numbers in increasing order.                                            *)
(***************************************************************************)
LEMMA Least ==
  ASSUME NEW T \in SUBSET Nat, T # {}
  PROVE  \E m \in T : \A k \in T : m <= k
<1> DEFINE R == {ss \in Nat \X Nat : ss[1] < ss[2]}
<1>1. IsWellFoundedOn(R, Nat)
  BY NatLessThanWellFounded, Zenon DEF OpToRel
<1> HIDE DEF R
<1>2. PICK m \in T : \A k \in T : ~(<<k, m>> \in R)
  BY <1>1, WFMin
<1>3. \A k \in T : ~(k < m)
  BY <1>2 DEF R
<1> QED BY <1>3

\* f lists the n members of S in increasing order.
Lists(f, n, S) ==
  /\ f \in [1 .. n -> S]
  /\ \A i, j \in 1 .. n : i < j => f[i] < f[j]
  /\ \A x \in S : \E i \in 1 .. n : f[i] = x

LEMMA ListIsBijection ==
  ASSUME NEW n \in Nat, NEW S \in SUBSET Nat, NEW f, Lists(f, n, S)
  PROVE  IsFiniteSet(S) /\ Cardinality(S) = n
<1>1. f \in Bijection(1 .. n, S)
  <2>1. f \in Injection(1 .. n, S)
    <3>1. ASSUME NEW i \in 1 .. n, NEW j \in 1 .. n, f[i] = f[j] PROVE i = j
      <4>1. f[i] \in Nat /\ f[j] \in Nat
        BY DEF Lists
      <4>2. ~(i < j) /\ ~(j < i)
        BY <3>1, <4>1 DEF Lists
      <4> QED BY <4>2
    <3> QED BY <3>1 DEF Lists, Injection, IsInjective
  <2>2. f \in Surjection(1 .. n, S)
    BY DEF Lists, Surjection
  <2> QED BY <2>1, <2>2 DEF Bijection
<1>2. ExistsBijection(1 .. n, S)
  BY <1>1 DEF ExistsBijection
<1>3. IsFiniteSet(1 .. n) /\ Cardinality(1 .. n) = n
  BY FS_Interval
<1> QED BY <1>2, <1>3, FS_Bijection

LEMMA SortedIs ==
  ASSUME NEW n \in Nat, NEW S \in SUBSET Nat, NEW f, Lists(f, n, S)
  PROVE  Sorted(S) = f
<1> USE DEF Lists
<1> DEFINE upto(x) == {y \in S : y <= x}
<1>1. Cardinality(S) = n
  BY ListIsBijection
<1>2. ASSUME NEW i \in 1 .. n PROVE Cardinality(upto(f[i])) = i
  <2> DEFINE g == [j \in 1 .. i |-> f[j]]
             T == upto(f[i])
  <2>1. \A j \in 1 .. n : j <= i <=> f[j] <= f[i]
    <3> SUFFICES ASSUME NEW j \in 1 .. n PROVE j <= i <=> f[j] <= f[i]
      OBVIOUS
    <3>1. f[i] \in Nat /\ f[j] \in Nat
      OBVIOUS
    <3>2. CASE j < i
      BY <3>1, <3>2
    <3>3. CASE i < j
      BY <3>1, <3>3
    <3> QED BY <3>1, <3>2, <3>3
  <2>2. g \in [1 .. i -> T]
    BY <2>1
  <2>3. \A j, k \in 1 .. i : j < k => g[j] < g[k]
    OBVIOUS
  <2>4. \A x \in T : \E j \in 1 .. i : g[j] = x
    BY <2>1
  <2>5. Lists(g, i, T)
    BY <2>2, <2>3, <2>4
  <2>6. T \in SUBSET Nat
    OBVIOUS
  <2> HIDE DEF g, T, Lists
  <2>7. Cardinality(T) = i
    BY <2>5, <2>6, ListIsBijection
  <2> QED BY <2>7 DEF T
<1>3. ASSUME NEW i \in 1 .. n PROVE (CHOOSE x \in S : Cardinality(upto(x)) = i) = f[i]
  <2>1. f[i] \in S /\ Cardinality(upto(f[i])) = i
    BY <1>2
  <2>2. ASSUME NEW x \in S, Cardinality(upto(x)) = i PROVE x = f[i]
    <3>1. PICK j \in 1 .. n : f[j] = x
      OBVIOUS
    <3>2. Cardinality(upto(f[j])) = j
      BY <1>2
    <3> QED BY <2>2, <3>1, <3>2
  <2> HIDE DEF upto
  <2> QED BY <2>1, <2>2
<1>4. Sorted(S) = [i \in 1 .. n |-> CHOOSE x \in S : Cardinality(upto(x)) = i]
  BY <1>1 DEF Sorted
<1>5. Sorted(S) = [i \in 1 .. n |-> f[i]]
  BY <1>3, <1>4
<1>6. f = [i \in 1 .. n |-> f[i]]
  OBVIOUS
<1> QED BY <1>5, <1>6

LEMMA SortedLists ==
  ASSUME NEW N \in Nat, NEW S \in SUBSET (1 .. N)
  PROVE  Cardinality(S) \in Nat /\ Lists(Sorted(S), Cardinality(S), S)
<1> DEFINE listed(M) == \E n \in Nat : \E f : Lists(f, n, S \intersect (1 .. M))
           unlisted == {M \in Nat : ~listed(M)}
<1>1. listed(0)
  <2>1. Lists(<<>>, 0, S \intersect (1 .. 0))
    BY DEF Lists
  <2> QED BY <2>1
<1>2. ASSUME NEW M \in Nat, listed(M) PROVE listed(M + 1)
  <2>1. PICK n \in Nat : \E f : Lists(f, n, S \intersect (1 .. M))
    BY <1>2
  <2>2. PICK f : Lists(f, n, S \intersect (1 .. M))
    BY <2>1
  <2>3. CASE M + 1 \notin S
    <3>1. S \intersect (1 .. M + 1) = S \intersect (1 .. M)
      BY <2>3
    <3> QED BY <2>2, <3>1
  <2>4. CASE M + 1 \in S
    <3> DEFINE T == S \intersect (1 .. M + 1)
               g == [i \in 1 .. n + 1 |-> IF i = n + 1 THEN M + 1 ELSE f[i]]
    <3>1. \A i \in 1 .. n : f[i] \in T /\ f[i] < M + 1
      BY <2>2 DEF Lists
    <3>2. M + 1 \in T
      BY <2>4
    <3>3. g \in [1 .. n + 1 -> T]
      BY <3>1, <3>2
    <3>4. \A i, j \in 1 .. n + 1 : i < j => g[i] < g[j]
      BY <2>2, <3>1 DEF Lists
    <3>5. ASSUME NEW x \in T PROVE \E i \in 1 .. n + 1 : g[i] = x
      <4>1. CASE x = M + 1
        BY <4>1
      <4>2. CASE x # M + 1
        <5>1. x \in S \intersect (1 .. M)
          BY <4>2
        <5>2. PICK i \in 1 .. n : f[i] = x
          BY <2>2, <5>1 DEF Lists
        <5> QED BY <5>2
      <4> QED BY <4>1, <4>2
    <3>6. Lists(g, n + 1, T)
      BY <3>3, <3>4, <3>5 DEF Lists
    <3> QED BY <3>6
  <2> QED BY <2>3, <2>4
<1> HIDE DEF listed
<1>3. unlisted = {}
  <2> SUFFICES ASSUME unlisted # {} PROVE FALSE
    OBVIOUS
  <2>1. PICK M \in unlisted : \A k \in unlisted : M <= k
    BY Least
  <2>2. M # 0
    BY <1>1, <2>1
  <2>3. M - 1 \in Nat /\ M - 1 \notin unlisted
    BY <2>1, <2>2
  <2> QED BY <1>2, <2>1, <2>3
<1>4. listed(N)
  BY <1>3
<1>5. S \intersect (1 .. N) = S
  OBVIOUS
<1>6. PICK n \in Nat : \E f : Lists(f, n, S)
  BY <1>4, <1>5 DEF listed
<1>7. PICK f : Lists(f, n, S)
  BY <1>6
<1>8. S \in SUBSET Nat
  OBVIOUS
<1> QED BY <1>7, <1>8, SortedIs, ListIsBijection

-----------------------------------------------------------------------------
(***************************************************************************)
(* The offsets of the rows of a batch.                                     *)
(***************************************************************************)
\* n rows with the lengths of their chunks.
Lengths(rows, n) ==
  Len(rows) = n /\ DOMAIN rows = 1 .. n /\ \A k \in 1 .. n : rows[k].len \in Nat

\* Their offsets.
Offsets(q, rows, n) ==
  q \in [0 .. n -> Nat] /\ q[0] = 0 /\ \A k \in 1 .. n : q[k] = q[k - 1] + rows[k].len

LEMMA QueryStartLocIs ==
  ASSUME NEW n \in Nat, NEW rows, Lengths(rows, n)
  PROVE  Offsets(QueryStartLoc(rows), rows, n)
<1> DEFINE Upto(q, m) == q \in [0 .. m -> Nat] /\ q[0] = 0
                         /\ \A k \in 1 .. m : q[k] = q[k - 1] + rows[k].len
           some(m) == \E q : Upto(q, m)
           none == {m \in Nat : m <= n /\ ~some(m)}
<1>1. some(0)
  <2>1. Upto([k \in 0 .. 0 |-> 0], 0)
    OBVIOUS
  <2> QED BY <2>1
<1>2. ASSUME NEW m \in Nat, m < n, some(m) PROVE some(m + 1)
  <2>1. PICK q : Upto(q, m)
    BY <1>2
  <2> DEFINE p == [k \in 0 .. m + 1 |-> IF k = m + 1 THEN q[m] + rows[m + 1].len ELSE q[k]]
  <2>2. rows[m + 1].len \in Nat /\ q[m] \in Nat
    BY <1>2, <2>1 DEF Lengths
  <2>3. p \in [0 .. m + 1 -> Nat]
    BY <2>1, <2>2
  <2>4. p[0] = 0 /\ \A k \in 1 .. m + 1 : p[k] = p[k - 1] + rows[k].len
    BY <2>1
  <2> HIDE DEF p
  <2> QED BY <2>3, <2>4
<1> HIDE DEF some
<1>3. none = {}
  <2> SUFFICES ASSUME none # {} PROVE FALSE
    OBVIOUS
  <2>1. PICK m \in none : \A k \in none : m <= k
    BY Least
  <2>2. m # 0
    BY <1>1, <2>1
  <2>3. m - 1 \in Nat /\ m - 1 \notin none
    BY <2>1, <2>2
  <2> QED BY <1>2, <2>1, <2>3
<1>4. PICK q : Upto(q, n)
  <2>1. some(n)
    BY <1>3
  <2> QED BY <2>1 DEF some
<1> DEFINE Equation(p) == p = [k \in 0 .. n |-> IF k = 0 THEN 0 ELSE p[k - 1] + rows[k].len]
<1>5. Equation(q)
  <2>1. q = [k \in 0 .. n |-> q[k]]
    BY <1>4
  <2>2. ASSUME NEW k \in 0 .. n PROVE q[k] = IF k = 0 THEN 0 ELSE q[k - 1] + rows[k].len
    <3>1. CASE k = 0
      BY <1>4, <3>1
    <3>2. CASE k # 0
      <4>1. k \in 1 .. n
        BY <3>2
      <4> QED BY <1>4, <3>2, <4>1
    <3> QED BY <3>1, <3>2
  <2> HIDE DEF Upto
  <2> QED BY <2>1, <2>2
<1>6. QueryStartLoc(rows) = CHOOSE p : Equation(p)
  <2>1. Len(rows) = n
    BY DEF Lengths
  <2> QED BY <2>1, Zenon DEF QueryStartLoc
<1> HIDE DEF Equation
<1>7. PICK p : p = QueryStartLoc(rows) /\ Equation(p)
  BY <1>5, <1>6
<1>8. /\ DOMAIN p = 0 .. n /\ p[0] = 0 /\ p = [k \in 0 .. n |-> p[k]]
      /\ \A k \in 1 .. n : p[k] = p[k - 1] + rows[k].len
  <2>1. p = [k \in 0 .. n |-> IF k = 0 THEN 0 ELSE p[k - 1] + rows[k].len]
    BY <1>7 DEF Equation
  <2>2. DOMAIN p = 0 .. n
    BY <2>1
  <2>3. \A k \in 0 .. n : p[k] = IF k = 0 THEN 0 ELSE p[k - 1] + rows[k].len
    BY <2>1
  <2>4. p = [k \in 0 .. n |-> p[k]]
    BY <2>1, <2>2, <2>3
  <2>5. ASSUME NEW k \in 1 .. n PROVE p[k] = p[k - 1] + rows[k].len
    <3>1. k \in 0 .. n /\ k # 0
      OBVIOUS
    <3> QED BY <2>3, <3>1
  <2>6. 0 \in 0 .. n
    OBVIOUS
  <2> QED BY <2>2, <2>3, <2>4, <2>5, <2>6
<1> DEFINE bad == {k \in 0 .. n : p[k] \notin Nat}
<1>9. bad = {}
  <2> SUFFICES ASSUME bad # {} PROVE FALSE
    OBVIOUS
  <2>1. bad \in SUBSET Nat
    OBVIOUS
  <2>2. PICK m \in bad : \A k \in bad : m <= k
    BY <2>1, Least
  <2>3. m # 0
    BY <1>8
  <2>4. m - 1 \in 0 .. n /\ m - 1 \notin bad /\ m \in 1 .. n
    BY <2>2, <2>3
  <2>5. p[m - 1] \in Nat /\ rows[m].len \in Nat
    BY <2>4 DEF Lengths
  <2>6. p[m] = p[m - 1] + rows[m].len
    BY <1>8, <2>4
  <2>7. p[m] \in Nat
    BY <2>5, <2>6
  <2> QED BY <2>2, <2>7
<1>10. p \in [0 .. n -> Nat]
  BY <1>8, <1>9
<1> QED BY <1>7, <1>8, <1>10 DEF Offsets

LEMMA OffsetsIncrease ==
  ASSUME NEW n \in Nat, NEW rows, Lengths(rows, n), NEW q, Offsets(q, rows, n),
         NEW i \in 0 .. n, NEW j \in i .. n
  PROVE  q[i] <= q[j]
<1> USE DEF Offsets, Lengths
<1> SUFFICES ASSUME q[j] < q[i] PROVE FALSE
  OBVIOUS
<1> DEFINE lower == {k \in i .. n : q[k] < q[i]}
<1>1. lower \in SUBSET Nat /\ j \in lower
  OBVIOUS
<1>2. PICK k \in lower : \A l \in lower : k <= l
  BY <1>1, Least
<1>3. k # i
  BY <1>2
<1>4. k - 1 \in i .. n /\ q[k - 1] >= q[i] /\ k \in 1 .. n
  BY <1>2, <1>3
<1>5. q[k - 1] <= q[k]
  <2>1. q[k] = q[k - 1] + rows[k].len /\ rows[k].len \in Nat /\ q[k - 1] \in Nat
    BY <1>4
  <2> QED BY <2>1
<1> QED BY <1>2, <1>4, <1>5

LEMMA OffsetFacts ==
  ASSUME NEW n \in Nat, NEW rows, Lengths(rows, n), NEW q, Offsets(q, rows, n), NEW k \in 1 .. n
  PROVE  /\ q[k - 1] \in Nat /\ q[k] \in Nat /\ q[n] \in Nat /\ rows[k].len \in Nat
         /\ q[k] = q[k - 1] + rows[k].len /\ q[k] <= q[n]
<1>1. k - 1 \in 0 .. n /\ k \in 0 .. n /\ n \in k .. n
  OBVIOUS
<1>2. q[k] <= q[n]
  BY <1>1, OffsetsIncrease
<1>3. q[k - 1] \in Nat /\ q[k] \in Nat /\ q[n] \in Nat
  BY <1>1 DEF Offsets
<1>4. rows[k].len \in Nat
  BY DEF Lengths
<1>5. q[k] = q[k - 1] + rows[k].len
  BY DEF Offsets
<1> QED BY <1>2, <1>3, <1>4, <1>5

\* searchsorted finds the row of a token.
LEMMA SearchSortedFinds ==
  ASSUME NEW n \in Nat, NEW rows, Lengths(rows, n), NEW q, Offsets(q, rows, n),
         NEW k \in 1 .. n, NEW p \in q[k - 1] .. q[k] - 1
  PROVE  SearchSorted(q, n, p) = k
<1>1. q \in [0 .. n -> Nat]
  BY DEF Offsets
<1>2. \A i \in 1 .. n : q[i] <= p <=> i <= k - 1
  <2> SUFFICES ASSUME NEW i \in 1 .. n PROVE q[i] <= p <=> i <= k - 1
    OBVIOUS
  <2>1. CASE i <= k - 1
    <3>1. q[i] <= q[k - 1]
      BY <2>1, OffsetsIncrease
    <3> QED BY <1>1, <2>1, <3>1
  <2>2. CASE k <= i
    <3>1. q[k] <= q[i]
      BY <2>2, OffsetsIncrease
    <3> QED BY <1>1, <2>2, <3>1
  <2> QED BY <2>1, <2>2
<1>3. {i \in 1 .. n : q[i] <= p} = 1 .. k - 1
  BY <1>2
<1>4. Cardinality(1 .. k - 1) = k - 1
  BY FS_Interval
<1>5. SearchSorted(q, n, p) = Cardinality(1 .. k - 1) + 1
  BY <1>3, Zenon DEF SearchSorted
<1> QED BY <1>4, <1>5

\* And there is one for each token.
LEMMA RowOfToken ==
  ASSUME NEW n \in Nat, NEW rows, Lengths(rows, n), NEW q, Offsets(q, rows, n),
         NEW p \in 0 .. q[n] - 1
  PROVE  \E k \in 1 .. n : p \in q[k - 1] .. q[k] - 1
<1>1. q \in [0 .. n -> Nat] /\ q[0] = 0
  BY DEF Offsets
<1> DEFINE above == {k \in 0 .. n : p < q[k]}
<1>2. above \in SUBSET Nat /\ n \in above
  BY <1>1
<1>3. PICK k \in above : \A i \in above : k <= i
  BY <1>2, Least
<1>4. k # 0
  BY <1>1
<1>5. k \in 1 .. n /\ k - 1 \in 0 .. n /\ k - 1 \notin above
  BY <1>3, <1>4
<1> QED BY <1>1, <1>3, <1>5

\* Beyond the last row searchsorted finds no row.
LEMMA SearchSortedBeyond ==
  ASSUME NEW n \in Nat, NEW rows, Lengths(rows, n), NEW q, Offsets(q, rows, n),
         NEW p \in Nat, p >= q[n]
  PROVE  SearchSorted(q, n, p) = n + 1
<1>1. q \in [0 .. n -> Nat]
  BY DEF Offsets
<1>2. ASSUME NEW i \in 1 .. n PROVE q[i] <= p
  <2>1. q[i] <= q[n]
    BY OffsetsIncrease
  <2> QED BY <1>1, <2>1
<1>3. {i \in 1 .. n : q[i] <= p} = 1 .. n
  BY <1>2
<1>4. SearchSorted(q, n, p) = Cardinality(1 .. n) + 1
  BY <1>3, Zenon DEF SearchSorted
<1>5. Cardinality(1 .. n) = n
  BY FS_Interval
<1> QED BY <1>4, <1>5

-----------------------------------------------------------------------------
(***************************************************************************)
(* The tokens of some of the rows, in the order of the batch, are those of *)
(* these rows one after another.                                           *)
(***************************************************************************)
TokensOf(q, S) == UNION {q[i - 1] .. q[i] - 1 : i \in S}

LEMMA TokensInOrder ==
  ASSUME NEW N \in Nat, NEW all, Lengths(all, N), NEW q, Offsets(q, all, N),
         NEW S \in SUBSET (1 .. N), NEW n \in Nat, NEW index, Lists(index, n, S),
         NEW some, Lengths(some, n), \A k \in 1 .. n : some[k].len = all[index[k]].len,
         NEW p, Offsets(p, some, n)
  PROVE  /\ Cardinality(TokensOf(q, S)) = p[n]
         /\ Lists(Sorted(TokensOf(q, S)), p[n], TokensOf(q, S))
         /\ \A k \in 1 .. n : \A c \in 0 .. some[k].len - 1 :
              Sorted(TokensOf(q, S))[p[k - 1] + c + 1] = q[index[k] - 1] + c
<1> DEFINE T == TokensOf(q, S)
           RowAt(m) == SearchSorted(p, n, m - 1)
           f == [m \in 1 .. p[n] |-> q[index[RowAt(m)] - 1] + (m - 1 - p[RowAt(m) - 1])]
<1>1. /\ q \in [0 .. N -> Nat] /\ p \in [0 .. n -> Nat] /\ p[0] = 0
      /\ \A k \in 1 .. n : p[k] = p[k - 1] + some[k].len /\ some[k].len \in Nat
      /\ \A i \in 1 .. N : q[i] = q[i - 1] + all[i].len /\ all[i].len \in Nat
  BY DEF Offsets, Lengths
<1>2. \A k \in 1 .. n : index[k] \in S /\ index[k] \in 1 .. N
  BY DEF Lists
<1>3. \A k \in 1 .. n : q[index[k]] = q[index[k] - 1] + some[k].len /\ q[index[k] - 1] \in Nat
                       /\ q[index[k]] \in Nat
  <2> SUFFICES ASSUME NEW k \in 1 .. n
               PROVE  q[index[k]] = q[index[k] - 1] + some[k].len /\ q[index[k] - 1] \in Nat
                      /\ q[index[k]] \in Nat
    OBVIOUS
  <2>1. PICK i : i = index[k] /\ i \in 1 .. N
    BY <1>2
  <2>2. i - 1 \in 0 .. N /\ i \in 0 .. N
    BY <2>1
  <2>3. q[i] = q[i - 1] + all[i].len /\ q[i - 1] \in Nat /\ q[i] \in Nat
    BY <1>1, <2>1, <2>2
  <2>4. some[k].len = all[i].len
    BY <2>1
  <2> QED BY <2>1, <2>3, <2>4
<1>4. ASSUME NEW m \in 1 .. p[n]
      PROVE  /\ RowAt(m) \in 1 .. n /\ m - 1 \in p[RowAt(m) - 1] .. p[RowAt(m)] - 1
             /\ f[m] \in q[index[RowAt(m)] - 1] .. q[index[RowAt(m)]] - 1
  <2>1. m - 1 \in 0 .. p[n] - 1
    BY <1>1
  <2>2. PICK k \in 1 .. n : m - 1 \in p[k - 1] .. p[k] - 1
    BY <2>1, RowOfToken
  <2>3. RowAt(m) = k
    BY <2>2, SearchSortedFinds
  <2>4. f[m] = q[index[k] - 1] + (m - 1 - p[k - 1])
    BY <2>3
  <2>5. p[k] = p[k - 1] + some[k].len /\ some[k].len \in Nat /\ p[k - 1] \in Nat
    BY <1>1
  <2>6. f[m] \in q[index[k] - 1] .. q[index[k]] - 1
    <3>1. PICK a : a = q[index[k] - 1]
      OBVIOUS
    <3>2. PICK b : b = p[k - 1]
      OBVIOUS
    <3>3. a \in Nat /\ q[index[k]] = a + some[k].len
      BY <1>3, <3>1
    <3>4. b \in Nat /\ some[k].len \in Nat /\ m - 1 \in b .. b + some[k].len - 1
      BY <2>2, <2>5, <3>2
    <3>5. f[m] = a + (m - 1 - b)
      BY <2>4, <3>1, <3>2
    <3>6. PICK d : d = q[index[k]]
      OBVIOUS
    <3> HIDE DEF f, RowAt
    <3>7. f[m] \in a .. d - 1
      BY <3>3, <3>4, <3>5, <3>6
    <3> QED BY <3>1, <3>6, <3>7, Zenon
  <2> QED BY <2>2, <2>3, <2>6
<1>5. ASSUME NEW k \in 1 .. n, NEW c \in 0 .. some[k].len - 1
      PROVE  p[k - 1] + c + 1 \in 1 .. p[n] /\ f[p[k - 1] + c + 1] = q[index[k] - 1] + c
  <2>1. p[k] = p[k - 1] + some[k].len /\ some[k].len \in Nat /\ p[k - 1] \in Nat
    BY <1>1
  <2>2. PICK m : m = p[k - 1] + c + 1
    OBVIOUS
  <2>3. m - 1 \in p[k - 1] .. p[k] - 1
    BY <2>1, <2>2
  <2>4. p[k] <= p[n]
    BY OffsetsIncrease
  <2>5. m \in 1 .. p[n]
    <3>1. p[n] \in Nat /\ p[k] \in Nat
      BY <1>1
    <3> QED BY <2>1, <2>2, <2>3, <2>4, <3>1
  <2>6. RowAt(m) = k
    BY <2>3, SearchSortedFinds
  <2>7. f[m] = q[index[k] - 1] + (m - 1 - p[k - 1])
    BY <2>5, <2>6
  <2>8. m - 1 - p[k - 1] = c
    BY <2>1, <2>2
  <2> HIDE DEF f
  <2> QED BY <2>2, <2>5, <2>7, <2>8
<1>6. f \in [1 .. p[n] -> T]
  <2>1. ASSUME NEW m \in 1 .. p[n] PROVE f[m] \in T
    BY <1>2, <1>4 DEF TokensOf
  <2> QED BY <2>1
<1>7. ASSUME NEW i \in 1 .. p[n], NEW j \in 1 .. p[n], i < j PROVE f[i] < f[j]
  <2>1. PICK k \in 1 .. n : k = RowAt(i)
    BY <1>4
  <2>2. PICK l \in 1 .. n : l = RowAt(j)
    BY <1>4
  <2>3. /\ i - 1 \in p[k - 1] .. p[k] - 1 /\ j - 1 \in p[l - 1] .. p[l] - 1
        /\ f[i] \in q[index[k] - 1] .. q[index[k]] - 1 /\ f[j] \in q[index[l] - 1] .. q[index[l]] - 1
    BY <1>4, <2>1, <2>2
  <2>4. f[i] = q[index[k] - 1] + (i - 1 - p[k - 1]) /\ f[j] = q[index[l] - 1] + (j - 1 - p[l - 1])
    BY <2>1, <2>2
  <2> HIDE DEF f, RowAt
  <2> DEFINE a == q[index[k] - 1]
             b == q[index[l] - 1]
  <2>5. /\ a \in Nat /\ b \in Nat /\ p[k - 1] \in Nat /\ p[l - 1] \in Nat
        /\ p[k] \in Nat /\ p[l] \in Nat /\ q[index[k]] \in Nat /\ q[index[l]] \in Nat
    <3>1. k - 1 \in 0 .. n /\ l - 1 \in 0 .. n /\ k \in 0 .. n /\ l \in 0 .. n
      OBVIOUS
    <3>2. p[k - 1] \in Nat /\ p[l - 1] \in Nat /\ p[k] \in Nat /\ p[l] \in Nat
      BY <1>1, <3>1
    <3>3. a \in Nat /\ q[index[k]] \in Nat
      BY <1>1, <1>3
    <3>4. b \in Nat /\ q[index[l]] \in Nat
      BY <1>1, <1>3
    <3> QED BY <3>2, <3>3, <3>4
  <2>6. f[i] = a + (i - 1 - p[k - 1]) /\ f[j] = b + (j - 1 - p[l - 1])
    BY <2>4
  <2>7. CASE k = l
    <3>1. a = b /\ p[k - 1] = p[l - 1]
      BY <2>7
    <3> HIDE DEF a, b
    <3> QED BY <1>7, <2>5, <2>6, <3>1
  <2>8. CASE k < l
    <3>1. index[k] < index[l]
      BY <2>8 DEF Lists
    <3>2. q[index[k]] <= q[index[l] - 1]
      <4>1. index[k] \in 0 .. N /\ index[l] - 1 \in index[k] .. N
        BY <1>2, <3>1
      <4> QED BY <4>1, OffsetsIncrease
    <3> QED BY <2>3, <2>5, <3>2
  <2>9. CASE l < k
    <3>1. p[l] <= p[k - 1]
      <4>1. l \in 0 .. n /\ k - 1 \in l .. n
        BY <2>9
      <4> QED BY <4>1, OffsetsIncrease
    <3> QED BY <1>7, <2>3, <2>5, <3>1
  <2> QED BY <2>7, <2>8, <2>9
<1>8. ASSUME NEW x \in T PROVE \E m \in 1 .. p[n] : f[m] = x
  <2>1. PICK i \in S : x \in q[i - 1] .. q[i] - 1
    BY DEF TokensOf
  <2>2. PICK k \in 1 .. n : index[k] = i
    BY DEF Lists
  <2>3. x - q[i - 1] \in 0 .. some[k].len - 1 /\ q[i - 1] + (x - q[i - 1]) = x
    <3>1. PICK a : a = q[i - 1]
      OBVIOUS
    <3>2. a \in Nat /\ q[i] = a + some[k].len /\ some[k].len \in Nat
      BY <1>1, <1>3, <2>2, <3>1
    <3> QED BY <2>1, <3>1, <3>2
  <2> HIDE DEF f
  <2> QED BY <1>5, <2>2, <2>3
<1>9. T \in SUBSET Nat
  BY <1>1 DEF TokensOf
<1>10. p[n] \in Nat
  BY <1>1
<1> HIDE DEF f, T
<1>11. Lists(f, p[n], T)
  BY <1>6, <1>7, <1>8 DEF Lists
<1>12. Sorted(T) = f /\ Cardinality(T) = p[n]
  BY <1>9, <1>10, <1>11, SortedIs, ListIsBijection
<1> QED BY <1>5, <1>11, <1>12 DEF T

LEMMA AllTokens ==
  ASSUME NEW N \in Nat, NEW all, Lengths(all, N), NEW q, Offsets(q, all, N)
  PROVE  TokensOf(q, 1 .. N) = 0 .. q[N] - 1
<1>1. q \in [0 .. N -> Nat]
  BY DEF Offsets
<1>2. ASSUME NEW t \in TokensOf(q, 1 .. N) PROVE t \in 0 .. q[N] - 1
  <2>1. PICK i \in 1 .. N : t \in q[i - 1] .. q[i] - 1
    BY DEF TokensOf
  <2>2. q[i - 1] \in Nat /\ q[i] \in Nat /\ q[N] \in Nat
    BY <1>1
  <2>3. q[i] <= q[N]
    BY OffsetsIncrease
  <2> QED BY <2>1, <2>2, <2>3
<1>3. ASSUME NEW t \in 0 .. q[N] - 1 PROVE t \in TokensOf(q, 1 .. N)
  BY RowOfToken DEF TokensOf
<1> QED BY <1>2, <1>3

LEMMA SortedInterval ==
  ASSUME NEW n \in Nat
  PROVE  Sorted(0 .. n - 1) = [i \in 1 .. n |-> i - 1]
<1> DEFINE f == [i \in 1 .. n |-> i - 1]
<1>1. f \in [1 .. n -> 0 .. n - 1] /\ \A i, j \in 1 .. n : i < j => f[i] < f[j]
  OBVIOUS
<1>2. ASSUME NEW x \in 0 .. n - 1 PROVE \E i \in 1 .. n : f[i] = x
  <2>1. x + 1 \in 1 .. n /\ f[x + 1] = x
    OBVIOUS
  <2> QED BY <2>1
<1>3. 0 .. n - 1 \in SUBSET Nat
  OBVIOUS
<1> HIDE DEF f
<1>4. Lists(f, n, 0 .. n - 1)
  BY <1>1, <1>2 DEF Lists
<1> QED BY <1>3, <1>4, SortedIs DEF f

\* The numbers of two sets of which one lies before the other.
LEMMA SortedConcat ==
  ASSUME NEW A \in SUBSET Nat, NEW B \in SUBSET Nat, \A a \in A : \A b \in B : a < b,
         NEW m \in Nat, NEW f, Lists(f, m, A), NEW n \in Nat, NEW g, Lists(g, n, B)
  PROVE  Sorted(A \union B) = [i \in 1 .. m + n |-> IF i <= m THEN f[i] ELSE g[i - m]]
<1> DEFINE h == [i \in 1 .. m + n |-> IF i <= m THEN f[i] ELSE g[i - m]]
<1>1. \A i \in 1 .. m : f[i] \in A
  BY DEF Lists
<1>2. \A i \in 1 .. m + n : ~(i <= m) => i - m \in 1 .. n /\ g[i - m] \in B
  BY DEF Lists
<1>3. h \in [1 .. m + n -> A \union B]
  BY <1>1, <1>2
<1>4. ASSUME NEW i \in 1 .. m + n, NEW j \in 1 .. m + n, i < j PROVE h[i] < h[j]
  <2>1. CASE j <= m
    <3>1. i \in 1 .. m /\ j \in 1 .. m /\ h[i] = f[i] /\ h[j] = f[j]
      BY <1>4, <2>1
    <3> HIDE DEF h
    <3> QED BY <1>4, <3>1 DEF Lists
  <2>2. CASE i <= m /\ ~(j <= m)
    <3>1. h[i] = f[i] /\ h[j] = g[j - m] /\ f[i] \in A /\ g[j - m] \in B
      BY <1>1, <1>2, <2>2
    <3> HIDE DEF h
    <3> QED BY <3>1
  <2>3. CASE ~(i <= m)
    <3>1. i - m \in 1 .. n /\ j - m \in 1 .. n /\ i - m < j - m /\ h[i] = g[i - m] /\ h[j] = g[j - m]
      BY <1>4, <2>3
    <3> HIDE DEF h
    <3> QED BY <3>1 DEF Lists
  <2> QED BY <2>1, <2>2, <2>3
<1>5. ASSUME NEW x \in A \union B PROVE \E i \in 1 .. m + n : h[i] = x
  <2>1. CASE x \in A
    <3>1. PICK i \in 1 .. m : f[i] = x
      BY <2>1 DEF Lists
    <3>2. i \in 1 .. m + n /\ h[i] = x
      BY <3>1
    <3> QED BY <3>2
  <2>2. CASE x \in B
    <3>1. PICK i \in 1 .. n : g[i] = x
      BY <2>2 DEF Lists
    <3>2. m + i \in 1 .. m + n /\ ~(m + i <= m) /\ (m + i) - m = i
      OBVIOUS
    <3>3. h[m + i] = x
      BY <3>1, <3>2
    <3> HIDE DEF h
    <3> QED BY <3>2, <3>3
  <2> QED BY <2>1, <2>2
<1>6. A \union B \in SUBSET Nat /\ m + n \in Nat
  OBVIOUS
<1> HIDE DEF h
<1>7. Lists(h, m + n, A \union B)
  BY <1>3, <1>4, <1>5 DEF Lists
<1>8. Sorted(A \union B) = h
  BY <1>6, <1>7, SortedIs
<1> QED BY <1>8 DEF h

-----------------------------------------------------------------------------
(***************************************************************************)
(* The batch.                                                              *)
(***************************************************************************)
NumRequests == Len(batch.requests)
Kinds == {"spec", "decode", "prefill"}

BatchIs ==
  /\ NumRequests \in Nat \ {0} /\ DOMAIN batch.requests = 1 .. NumRequests
  /\ 1 .. NumRequests \subseteq Block /\ 0 \in Block
  /\ batch.padding \in Nat
  /\ \A i \in 1 .. NumRequests :
       LET r == batch.requests[i]
       IN /\ r.kind \in Kinds /\ r.len \in Nat /\ r.accepted \in 1 .. SpecQueryLen
          /\ r.initial \in BOOLEAN
          /\ r.kind = "spec" => r.len <= SpecQueryLen
          /\ r.kind = "decode" => r.len = 1
  /\ \A i, j \in 1 .. NumRequests :
       i < j => ~(batch.requests[i].kind = "prefill" /\ batch.requests[j].kind = "decode")
  /\ batch.padding # 0 =>
       \/ \A i \in 1 .. NumRequests : batch.requests[i].kind = "spec"
       \/ \A i \in 1 .. NumRequests : batch.requests[i].kind = "decode"

LEMMA InitBatch == Init => BatchIs
<1> SUFFICES ASSUME Init PROVE BatchIs
  OBVIOUS
<1>1. PICK rows \in Requests : \E pad \in Padding(rows) : batch = [requests |-> rows, padding |-> pad]
  BY DEF Init
<1>2. PICK pad \in Padding(rows) : batch = [requests |-> rows, padding |-> pad]
  BY <1>1
<1>3. PICK b \in Bounds : \E n \in 1 .. b.requests :
        /\ rows \in [1 .. n -> Request(b)]
        /\ \A i, j \in 1 .. n : i < j => ~(rows[i].kind = "prefill" /\ rows[j].kind = "decode")
  BY DEF Requests
<1>4. PICK n \in 1 .. b.requests :
        /\ rows \in [1 .. n -> Request(b)]
        /\ \A i, j \in 1 .. n : i < j => ~(rows[i].kind = "prefill" /\ rows[j].kind = "decode")
  BY <1>3
<1>5. b.requests \in Nat \ {0} /\ b.prefill_len \in Nat
  BY BatchAssumption
<1>6. SpecQueryLen \in Nat \ {0}
  BY SpecAssumption DEF SpecQueryLen
<1>7. Len(rows) = n /\ DOMAIN rows = 1 .. n /\ n \in Nat \ {0}
  BY <1>4, <1>5
<1>8. batch.requests = rows /\ batch.padding = pad
  BY <1>2
<1>9. 1 .. n \subseteq Block /\ 0 \in Block
  BY <1>4, <1>5 DEF Block
<1>10. ASSUME NEW i \in 1 .. n
      PROVE  LET r == rows[i]
             IN /\ r.kind \in Kinds /\ r.len \in Nat /\ r.accepted \in 1 .. SpecQueryLen
                /\ r.initial \in BOOLEAN
                /\ r.kind = "spec" => r.len <= SpecQueryLen
                /\ r.kind = "decode" => r.len = 1
  <2>1. PICK r : r = rows[i] /\ r \in Request(b)
    BY <1>4
  <2>2. \/ r \in [kind : {"spec"}, len : 1 .. SpecQueryLen, accepted : 1 .. SpecQueryLen, initial : {TRUE}]
        \/ r \in [kind : {"decode"}, len : {1}, accepted : {1}, initial : BOOLEAN]
        \/ r \in [kind : {"prefill"}, len : 0 .. b.prefill_len, accepted : {1}, initial : BOOLEAN]
    BY <2>1 DEF Request
  <2>3. /\ r.kind \in Kinds /\ r.len \in Nat /\ r.accepted \in 1 .. SpecQueryLen
        /\ r.kind = "spec" => r.len <= SpecQueryLen
        /\ r.kind = "decode" => r.len = 1
    <3>1. CASE r \in [kind : {"spec"}, len : 1 .. SpecQueryLen, accepted : 1 .. SpecQueryLen, initial : {TRUE}]
      <4>1. r.kind = "spec" /\ r.len \in 1 .. SpecQueryLen /\ r.accepted \in 1 .. SpecQueryLen
        BY <3>1
      <4> QED BY <1>6, <4>1 DEF Kinds
    <3>2. CASE r \in [kind : {"decode"}, len : {1}, accepted : {1}, initial : BOOLEAN]
      <4>1. r.kind = "decode" /\ r.len = 1 /\ r.accepted = 1
        BY <3>2
      <4> QED BY <1>6, <4>1 DEF Kinds
    <3>3. CASE r \in [kind : {"prefill"}, len : 0 .. b.prefill_len, accepted : {1}, initial : BOOLEAN]
      <4>1. r.kind = "prefill" /\ r.len \in 0 .. b.prefill_len /\ r.accepted = 1
        BY <3>3
      <4> QED BY <1>5, <1>6, <4>1 DEF Kinds
    <3> QED BY <2>2, <3>1, <3>2, <3>3
  <2>4. r.initial \in BOOLEAN
    BY <2>2
  <2> QED BY <2>1, <2>3, <2>4, Zenon
<1>11. pad \in Nat /\ (pad # 0 => \/ \A i \in 1 .. n : rows[i].kind = "spec"
                                 \/ \A i \in 1 .. n : rows[i].kind = "decode")
  BY <1>7, BatchAssumption DEF Padding
<1> QED BY <1>4, <1>7, <1>8, <1>9, <1>10, <1>11 DEF BatchIs, NumRequests

\* Requests come first, then the padding.
LEMMA RowsAre ==
  ASSUME BatchIs
  PROVE  /\ Len(Rows) = NumRequests + batch.padding
         /\ DOMAIN Rows = 1 .. NumRequests + batch.padding
         /\ \A i \in 1 .. NumRequests : Rows[i] = OwnBlock(batch.requests[i], i)
         /\ \A i \in NumRequests + 1 .. NumRequests + batch.padding :
              Rows[i] = PaddingRow(batch.requests[1].kind)
         /\ Rows = [i \in 1 .. NumRequests + batch.padding |-> Rows[i]]
<1> DEFINE own == [i \in DOMAIN batch.requests |-> OwnBlock(batch.requests[i], i)]
           pad == [i \in 1 .. batch.padding |-> PaddingRow(batch.requests[1].kind)]
           S == {OwnBlock(batch.requests[i], i) : i \in 1 .. NumRequests}
                  \union {PaddingRow(batch.requests[1].kind)}
<1>1. own \in Seq(S) /\ Len(own) = NumRequests
  BY DEF BatchIs
<1>2. pad \in Seq(S) /\ Len(pad) = batch.padding
  BY DEF BatchIs
<1>3. \A i \in 1 .. NumRequests : own[i] = OwnBlock(batch.requests[i], i)
  BY DEF BatchIs
<1>4. \A i \in 1 .. batch.padding : pad[i] = PaddingRow(batch.requests[1].kind)
  OBVIOUS
<1>5. Rows = own \o pad
  BY DEF Rows
<1>6. NumRequests \in Nat /\ batch.padding \in Nat
  BY DEF BatchIs
<1> HIDE DEF own, pad, S
<1>7. /\ Rows \in Seq(S) /\ Len(Rows) = NumRequests + batch.padding
      /\ \A i \in 1 .. NumRequests + batch.padding :
           Rows[i] = IF i <= NumRequests THEN own[i] ELSE pad[i - NumRequests]
  <2>1. /\ own \o pad \in Seq(S) /\ Len(own \o pad) = Len(own) + Len(pad)
        /\ \A i \in 1 .. Len(own) + Len(pad) :
             (own \o pad)[i] = IF i <= Len(own) THEN own[i] ELSE pad[i - Len(own)]
    BY <1>1, <1>2, ConcatProperties
  <2> QED BY <1>1, <1>2, <1>5, <2>1
<1>8. DOMAIN Rows = 1 .. NumRequests + batch.padding
  BY <1>7, LenProperties
<1>9. ASSUME NEW i \in 1 .. NumRequests PROVE Rows[i] = OwnBlock(batch.requests[i], i)
  <2>1. i \in 1 .. NumRequests + batch.padding /\ i <= NumRequests
    BY <1>6
  <2>2. Rows[i] = own[i]
    BY <1>7, <2>1
  <2> QED BY <1>3, <2>2
<1>10. ASSUME NEW i \in NumRequests + 1 .. NumRequests + batch.padding
       PROVE  Rows[i] = PaddingRow(batch.requests[1].kind)
  <2>1. /\ i \in 1 .. NumRequests + batch.padding /\ ~(i <= NumRequests)
        /\ i - NumRequests \in 1 .. batch.padding
    BY <1>6
  <2>2. Rows[i] = pad[i - NumRequests]
    BY <1>7, <2>1
  <2> QED BY <1>4, <2>1, <2>2
<1>11. Rows = [i \in 1 .. NumRequests + batch.padding |-> Rows[i]]
  BY <1>7, LenProperties
<1> QED BY <1>7, <1>8, <1>9, <1>10, <1>11

-----------------------------------------------------------------------------
(***************************************************************************)
(* Each path: the rows of its kinds, and their tokens.                     *)
(***************************************************************************)
Start == QueryStartLoc(Rows)
Index(kinds) == Sorted(OfKind(kinds))
Count(kinds) == Cardinality(OfKind(kinds))
Starts(kinds) == QueryStartLoc(RowsOf(kinds))

LEMMA Sizes ==
  /\ ConvStateLen \in Nat
  /\ SpecQueryLen \in Nat \ {0} /\ NumSpec = SpecQueryLen - 1
  /\ \A j \in Tap : j * Dilation \in 0 .. ConvStateLen
<1> USE KernelAssumption, SpecAssumption
<1>1. ConvStateLen \in Nat
  BY DEF ConvStateLen
<1>2. ASSUME NEW j \in Tap PROVE j * Dilation \in 0 .. ConvStateLen
  <2>1. j \in Nat /\ Kernel - 1 - j \in Nat
    BY DEF Tap
  <2>2. (Kernel - 1 - j) * Dilation \in Nat /\ j * Dilation \in Nat
    BY <2>1
  <2>3. (Kernel - 1) * Dilation = (Kernel - 1 - j) * Dilation + j * Dilation
    BY <2>1
  <2> QED
    BY <2>2, <2>3, <1>1 DEF ConvStateLen
<1> QED
  BY <1>1, <1>2 DEF SpecQueryLen

\* What each row of the batch is, those of the padding included.
LEMMA RowIs ==
  ASSUME BatchIs, NEW i \in 1 .. Len(Rows)
  PROVE  /\ Rows[i].kind \in Kinds /\ Rows[i].len \in Nat /\ Rows[i].initial \in BOOLEAN
         /\ Rows[i].accepted \in 1 .. SpecQueryLen
         /\ Rows[i].kind = "spec" => Rows[i].len <= SpecQueryLen
         /\ Rows[i].kind = "decode" => Rows[i].len = 1
         /\ i <= NumRequests => /\ Rows[i].block = i /\ IsValid(Rows[i])
                                /\ Rows[i].kind = batch.requests[i].kind
                                /\ Rows[i].len = batch.requests[i].len
         /\ ~(i <= NumRequests) => /\ Rows[i].block = 0 /\ ~IsValid(Rows[i])
                                   /\ Rows[i].kind = batch.requests[1].kind
                                   /\ Rows[i].kind # "decode" => Rows[i].len = 0
         /\ Rows[i].block \in Block
<1>1. NumRequests \in Nat \ {0} /\ batch.padding \in Nat /\ 1 .. NumRequests \subseteq Block /\ 0 \in Block
  BY DEF BatchIs
<1>2. CASE i <= NumRequests
  <2>1. PICK r : r = batch.requests[i]
    OBVIOUS
  <2>2. /\ r.kind \in Kinds /\ r.len \in Nat /\ r.accepted \in 1 .. SpecQueryLen
        /\ r.initial \in BOOLEAN
        /\ r.kind = "spec" => r.len <= SpecQueryLen
        /\ r.kind = "decode" => r.len = 1
    BY <1>1, <1>2, <2>1 DEF BatchIs
  <2>3. Rows[i] = OwnBlock(r, i)
    BY <1>1, <1>2, <2>1, RowsAre
  <2>4. i \in Block /\ i # 0
    BY <1>1, <1>2, RowsAre
  <2>5. Rows[i].block = i /\ Rows[i].kind = r.kind /\ Rows[i].len = r.len
        /\ Rows[i].accepted = r.accepted /\ Rows[i].initial = r.initial
    BY <2>3 DEF OwnBlock
  <2>6. IsValid(Rows[i])
    BY <2>4, <2>5 DEF IsValid, NULL_BLOCK_ID
  <2> QED BY <1>2, <2>1, <2>2, <2>4, <2>5, <2>6, Zenon
<1>3. CASE ~(i <= NumRequests)
  <2>1. PICK kind : kind = batch.requests[1].kind
    OBVIOUS
  <2>2. kind \in Kinds
    BY <1>1, <2>1 DEF BatchIs
  <2>3. i \in NumRequests + 1 .. NumRequests + batch.padding
    BY <1>1, <1>3, RowsAre
  <2>4. Rows[i] = PaddingRow(kind)
    BY <2>1, <2>3, RowsAre
  <2>5. Rows[i].block = 0 /\ Rows[i].kind = kind /\ Rows[i].len = (IF kind = "decode" THEN 1 ELSE 0)
        /\ Rows[i].accepted = 1 /\ Rows[i].initial = FALSE
    BY <2>4 DEF PaddingRow, NULL_BLOCK_ID
  <2>6. ~IsValid(Rows[i])
    BY <2>5 DEF IsValid, NULL_BLOCK_ID
  <2>7. Rows[i].len \in Nat /\ (kind = "spec" => Rows[i].len <= SpecQueryLen)
        /\ (kind = "decode" => Rows[i].len = 1) /\ Rows[i].accepted \in 1 .. SpecQueryLen
    BY <2>5, Sizes
  <2>8. Rows[i].initial \in BOOLEAN
    BY <2>5
  <2>9. Rows[i].block \in Block
    BY <1>1, <2>5
  <2> QED BY <1>3, <2>1, <2>2, <2>5, <2>6, <2>7, <2>8, <2>9, Zenon
<1> QED BY <1>2, <1>3

LEMMA RowsHaveLengths ==
  ASSUME BatchIs
  PROVE  /\ Len(Rows) \in Nat \ {0} /\ Len(Rows) = NumRequests + batch.padding
         /\ DOMAIN Rows = 1 .. Len(Rows)
         /\ NumRequests \in Nat \ {0} /\ NumRequests <= Len(Rows)
         /\ Lengths(Rows, Len(Rows)) /\ Offsets(Start, Rows, Len(Rows))
<1>1. NumRequests \in Nat \ {0} /\ batch.padding \in Nat
  BY DEF BatchIs
<1>2. Len(Rows) = NumRequests + batch.padding /\ DOMAIN Rows = 1 .. Len(Rows)
  BY RowsAre
<1>3. Len(Rows) \in Nat \ {0} /\ NumRequests <= Len(Rows)
  BY <1>1, <1>2
<1>4. Lengths(Rows, Len(Rows))
  BY <1>2, RowIs DEF Lengths
<1>5. Offsets(Start, Rows, Len(Rows))
  BY <1>3, <1>4, QueryStartLocIs DEF Start
<1> QED BY <1>1, <1>2, <1>3, <1>4, <1>5

LEMMA PartIs ==
  ASSUME BatchIs, NEW kinds
  PROVE  /\ OfKind(kinds) \in SUBSET (1 .. Len(Rows))
         /\ Count(kinds) \in Nat /\ Lists(Index(kinds), Count(kinds), OfKind(kinds))
         /\ \A k \in 1 .. Count(kinds) : /\ Index(kinds)[k] \in 1 .. Len(Rows)
                                         /\ RowsOf(kinds)[k] = Rows[Index(kinds)[k]]
                                         /\ RowsOf(kinds)[k].kind \in kinds
         /\ DOMAIN RowsOf(kinds) = 1 .. Count(kinds) /\ Len(RowsOf(kinds)) = Count(kinds)
         /\ Lengths(RowsOf(kinds), Count(kinds))
         /\ Offsets(Starts(kinds), RowsOf(kinds), Count(kinds))
<1>1. OfKind(kinds) \in SUBSET (1 .. Len(Rows))
  BY RowsHaveLengths DEF OfKind
<1>2. Count(kinds) \in Nat /\ Lists(Index(kinds), Count(kinds), OfKind(kinds))
  BY <1>1, RowsHaveLengths, SortedLists DEF Count, Index
<1>3. DOMAIN Index(kinds) = 1 .. Count(kinds)
  BY <1>2 DEF Lists
<1>4. RowsOf(kinds) = [k \in 1 .. Count(kinds) |-> Rows[Index(kinds)[k]]]
  BY <1>3 DEF RowsOf, Index
<1>5. \A k \in 1 .. Count(kinds) : /\ Index(kinds)[k] \in 1 .. Len(Rows)
                                   /\ RowsOf(kinds)[k] = Rows[Index(kinds)[k]]
                                   /\ RowsOf(kinds)[k].kind \in kinds
  <2> SUFFICES ASSUME NEW k \in 1 .. Count(kinds)
               PROVE  /\ Index(kinds)[k] \in 1 .. Len(Rows)
                      /\ RowsOf(kinds)[k] = Rows[Index(kinds)[k]]
                      /\ RowsOf(kinds)[k].kind \in kinds
    OBVIOUS
  <2>1. Index(kinds)[k] \in OfKind(kinds)
    BY <1>2 DEF Lists
  <2> QED BY <1>1, <1>4, <2>1 DEF OfKind
<1>6. DOMAIN RowsOf(kinds) = 1 .. Count(kinds) /\ Len(RowsOf(kinds)) = Count(kinds)
  BY <1>2, <1>4
<1>7. Lengths(RowsOf(kinds), Count(kinds))
  <2>1. ASSUME NEW k \in 1 .. Count(kinds) PROVE RowsOf(kinds)[k].len \in Nat
    BY <1>5, RowIs
  <2> QED BY <1>6, <2>1 DEF Lengths
<1>8. Offsets(Starts(kinds), RowsOf(kinds), Count(kinds))
  BY <1>2, <1>7, QueryStartLocIs DEF Starts
<1> QED BY <1>1, <1>2, <1>5, <1>6, <1>7, <1>8

Total(kinds) == Starts(kinds)[Count(kinds)]

\* The token at column c of row i of the batch.
Token(i, c) == <<"token", Start[i - 1] + c>>

\* x holds the tokens of the rows of these kinds one after another.
Feeds(kinds, x) ==
  \A k \in 1 .. Count(kinds) : \A c \in 0 .. RowsOf(kinds)[k].len - 1 :
    x[Starts(kinds)[k - 1] + c + 1] = Token(Index(kinds)[k], c)

LEMMA PathIsEmpty ==
  ASSUME BatchIs, NEW kinds
  PROVE  /\ RowsOf(kinds) = << >> <=> Count(kinds) = 0
         /\ Count(kinds) = 0 <=> OfKind(kinds) = {}
<1>1. /\ Count(kinds) \in Nat /\ Lists(Index(kinds), Count(kinds), OfKind(kinds))
      /\ DOMAIN RowsOf(kinds) = 1 .. Count(kinds) /\ Len(RowsOf(kinds)) = Count(kinds)
  BY PartIs
<1>2. RowsOf(kinds) = << >> => Count(kinds) = 0
  BY <1>1
<1>3. Count(kinds) = 0 => RowsOf(kinds) = << >>
  <2>1. RowsOf(kinds) = [k \in DOMAIN Index(kinds) |-> Rows[Index(kinds)[k]]]
    BY DEF RowsOf, Index
  <2>2. DOMAIN Index(kinds) = 1 .. Count(kinds)
    BY <1>1 DEF Lists
  <2> QED BY <1>1, <2>1, <2>2
<1>4. Count(kinds) = 0 => OfKind(kinds) = {}
  BY <1>1 DEF Lists
<1>5. OfKind(kinds) = {} => Count(kinds) = 0
  BY FS_EmptySet DEF Count
<1> QED BY <1>2, <1>3, <1>4, <1>5

LEMMA TokenIndexIs ==
  ASSUME BatchIs, NEW kinds
  PROVE  /\ Total(kinds) \in Nat
         /\ Lists(TokenIndex(kinds), Total(kinds), TokensOf(Start, OfKind(kinds)))
         /\ \A k \in 1 .. Count(kinds) : \A c \in 0 .. RowsOf(kinds)[k].len - 1 :
              TokenIndex(kinds)[Starts(kinds)[k - 1] + c + 1] = Start[Index(kinds)[k] - 1] + c
         /\ \A i \in 1 .. Total(kinds) : TokenIndex(kinds)[i] \in 0 .. Start[Len(Rows)] - 1
<1> DEFINE N == Len(Rows)
           S == OfKind(kinds)
           index == Index(kinds)
           n == Count(kinds)
           some == RowsOf(kinds)
           p == Starts(kinds)
<1>1. N \in Nat /\ Lengths(Rows, N) /\ Offsets(Start, Rows, N)
  BY RowsHaveLengths
<1>2. S \in SUBSET (1 .. N) /\ n \in Nat /\ Lists(index, n, S) /\ Lengths(some, n)
      /\ Offsets(p, some, n)
  BY PartIs
<1>3. \A k \in 1 .. n : some[k].len = Rows[index[k]].len
  BY PartIs
<1>4. TokenIndex(kinds) = Sorted(TokensOf(Start, S))
  BY DEF TokenIndex, TokensOf, Start
<1>5. p[n] \in Nat
  BY <1>2 DEF Offsets
<1>6. TokensOf(Start, S) \subseteq 0 .. Start[N] - 1
  <2>1. TokensOf(Start, S) \subseteq TokensOf(Start, 1 .. N)
    BY <1>2 DEF TokensOf
  <2> QED BY <1>1, <2>1, AllTokens
<1> HIDE DEF N, S, index, n, some, p
<1>7. /\ Lists(Sorted(TokensOf(Start, S)), p[n], TokensOf(Start, S))
      /\ \A k \in 1 .. n : \A c \in 0 .. some[k].len - 1 :
           Sorted(TokensOf(Start, S))[p[k - 1] + c + 1] = Start[index[k] - 1] + c
  BY <1>1, <1>2, <1>3, TokensInOrder
<1>8. \A i \in 1 .. p[n] : TokenIndex(kinds)[i] \in 0 .. Start[N] - 1
  BY <1>4, <1>6, <1>7 DEF Lists
<1> QED BY <1>4, <1>5, <1>7, <1>8 DEF N, S, index, n, some, p, Total

LEMMA TokensAre ==
  ASSUME BatchIs
  PROVE  /\ Start[Len(Rows)] \in Nat /\ NumActualTokens \in Nat
         /\ Start[Len(Rows)] <= NumActualTokens
         /\ HasNonSpec => NumActualTokens = Start[Len(Rows)]
         /\ DOMAIN Tokens = 1 .. NumActualTokens /\ Len(Tokens) = NumActualTokens
         /\ \A t \in 0 .. NumActualTokens - 1 : Tokens[t + 1] = <<"token", t>>
<1>1. Start[Len(Rows)] \in Nat
  BY RowsHaveLengths DEF Offsets
<1>2. NumTokens(Rows) = Start[Len(Rows)]
  BY DEF NumTokens, Start
<1>3. batch.padding * SpecQueryLen \in Nat
  BY Sizes DEF BatchIs
<1>4. CASE HasNonSpec
  <2>1. ~(DecodeRows = << >> /\ PrefillRows = << >>)
    BY <1>4 DEF HasNonSpec
  <2>2. NumActualTokens = Start[Len(Rows)] + 0
    BY <1>2, <2>1, Zenon DEF NumActualTokens
  <2>3. NumActualTokens \in Nat /\ NumActualTokens = Start[Len(Rows)]
    BY <1>1, <2>2
  <2> QED BY <1>1, <2>3 DEF Tokens
<1>5. CASE ~HasNonSpec
  <2>1. DecodeRows = << >> /\ PrefillRows = << >>
    BY <1>5 DEF HasNonSpec
  <2>2. NumActualTokens = Start[Len(Rows)] + batch.padding * SpecQueryLen
    BY <1>2, <2>1, Zenon DEF NumActualTokens
  <2>3. NumActualTokens \in Nat /\ Start[Len(Rows)] <= NumActualTokens
    BY <1>1, <1>3, <2>2
  <2> QED BY <1>1, <1>5, <2>3 DEF Tokens
<1> QED BY <1>4, <1>5

\* Selecting tokens by their index.
LEMMA IndexSelectFeeds ==
  ASSUME BatchIs, NEW kinds
  PROVE  /\ Len(IndexSelect(Tokens, TokenIndex(kinds))) = Total(kinds)
         /\ DOMAIN IndexSelect(Tokens, TokenIndex(kinds)) = 1 .. Total(kinds)
         /\ Feeds(kinds, IndexSelect(Tokens, TokenIndex(kinds)))
<1> DEFINE f == TokenIndex(kinds)
<1>1. Total(kinds) \in Nat /\ DOMAIN f = 1 .. Total(kinds)
  BY TokenIndexIs DEF Lists
<1>2. \A i \in 1 .. Total(kinds) : f[i] \in 0 .. NumActualTokens - 1
  BY TokenIndexIs, TokensAre
<1>3. ASSUME NEW k \in 1 .. Count(kinds), NEW c \in 0 .. RowsOf(kinds)[k].len - 1
      PROVE  IndexSelect(Tokens, f)[Starts(kinds)[k - 1] + c + 1] = Token(Index(kinds)[k], c)
  <2>1. PICK i : i = Starts(kinds)[k - 1] + c + 1
    OBVIOUS
  <2>2. i \in 1 .. Total(kinds)
    <3>1. PICK n \in Nat : n = Count(kinds)
      BY PartIs
    <3>2. Lengths(RowsOf(kinds), n) /\ Offsets(Starts(kinds), RowsOf(kinds), n) /\ k \in 1 .. n
      BY <3>1, PartIs
    <3>3. /\ Starts(kinds)[k - 1] \in Nat /\ Starts(kinds)[n] \in Nat /\ RowsOf(kinds)[k].len \in Nat
          /\ Starts(kinds)[k] = Starts(kinds)[k - 1] + RowsOf(kinds)[k].len
          /\ Starts(kinds)[k] <= Starts(kinds)[n]
      BY <3>2, OffsetFacts
    <3>4. Total(kinds) = Starts(kinds)[n]
      BY <3>1 DEF Total
    <3> QED BY <2>1, <3>3, <3>4
  <2>3. f[i] = Start[Index(kinds)[k] - 1] + c
    BY <2>1, TokenIndexIs
  <2>4. IndexSelect(Tokens, f)[i] = Tokens[f[i] + 1]
    BY <1>1, <2>2 DEF IndexSelect
  <2>5. Tokens[f[i] + 1] = <<"token", f[i]>>
    BY <1>2, <2>2, TokensAre
  <2> QED BY <2>1, <2>3, <2>4, <2>5 DEF Token
<1>4. DOMAIN IndexSelect(Tokens, f) = 1 .. Total(kinds)
  BY <1>1 DEF IndexSelect
<1>5. Len(IndexSelect(Tokens, f)) = Total(kinds)
  BY <1>1 DEF IndexSelect
<1> QED BY <1>3, <1>4, <1>5 DEF Feeds

\* When all the rows are of these kinds the path is the batch itself.
LEMMA WholeBatch ==
  ASSUME BatchIs, NEW kinds, OfKind(kinds) = 1 .. Len(Rows)
  PROVE  /\ Count(kinds) = Len(Rows) /\ \A k \in 1 .. Len(Rows) : Index(kinds)[k] = k
         /\ RowsOf(kinds) = Rows /\ Starts(kinds) = Start
         /\ \A i \in 1 .. Start[Len(Rows)] : TokenIndex(kinds)[i] = i - 1
<1> DEFINE N == Len(Rows)
           f == [k \in 1 .. N |-> k]
<1>1. N \in Nat /\ DOMAIN Rows = 1 .. N /\ Lengths(Rows, N) /\ Offsets(Start, Rows, N)
  BY RowsHaveLengths
<1>2. Rows = [k \in 1 .. N |-> Rows[k]]
  BY RowsAre, RowsHaveLengths
<1> HIDE DEF N
<1>3. Lists(f, N, 1 .. N) /\ 1 .. N \in SUBSET Nat
  BY <1>1 DEF Lists
<1> HIDE DEF f
<1>4. Index(kinds) = f /\ Count(kinds) = N
  BY <1>1, <1>3, SortedIs, ListIsBijection DEF Index, Count, N
<1>5. DOMAIN Index(kinds) = 1 .. N /\ \A k \in 1 .. N : Index(kinds)[k] = k
  BY <1>4 DEF f
<1>6. RowsOf(kinds) = Rows
  <2>1. RowsOf(kinds) = [k \in DOMAIN Index(kinds) |-> Rows[Index(kinds)[k]]]
    BY DEF RowsOf, Index
  <2> QED BY <1>2, <1>5, <2>1
<1>7. TokenIndex(kinds) = Sorted(0 .. Start[N] - 1)
  <2>1. TokenIndex(kinds) = Sorted(TokensOf(Start, 1 .. N))
    BY DEF TokenIndex, TokensOf, Start, N
  <2> QED BY <1>1, <2>1, AllTokens
<1>8. Start[N] \in Nat
  BY <1>1 DEF Offsets
<1>9. \A i \in 1 .. Start[N] : TokenIndex(kinds)[i] = i - 1
  BY <1>7, <1>8, SortedInterval
<1> QED BY <1>4, <1>5, <1>6, <1>9 DEF N, Starts, Start

SpecKinds == {"spec"}
DecodeKinds == {"decode"}
PrefillKinds == {"prefill"}

LEMMA Paths ==
  /\ SpecRows = RowsOf(SpecKinds) /\ DecodeRows = RowsOf(DecodeKinds)
  /\ PrefillRows = RowsOf(PrefillKinds) /\ SpecTokenIndex = TokenIndex(SpecKinds)
BY DEF SpecRows, DecodeRows, PrefillRows, SpecTokenIndex, SpecKinds, DecodeKinds, PrefillKinds

\* A batch has rows of some kind.
LEMMA Partition ==
  ASSUME BatchIs
  PROVE  /\ OfKind(SpecKinds) \union OfKind(DecodeKinds) \union OfKind(PrefillKinds) = 1 .. Len(Rows)
         /\ OfKind({"decode", "prefill"}) = OfKind(DecodeKinds) \union OfKind(PrefillKinds)
         /\ OfKind(SpecKinds) \intersect OfKind({"decode", "prefill"}) = {}
         /\ OfKind(DecodeKinds) \intersect OfKind(PrefillKinds) = {}
         /\ HasSpec <=> OfKind(SpecKinds) # {}
         /\ HasNonSpec <=> OfKind({"decode", "prefill"}) # {}
         /\ HasSpec \/ HasNonSpec
<1>1. DOMAIN Rows = 1 .. Len(Rows) /\ Len(Rows) \in Nat \ {0}
  BY RowsHaveLengths
<1>2. \A i \in 1 .. Len(Rows) : Rows[i].kind \in Kinds
  BY RowIs
<1>3. OfKind(SpecKinds) \union OfKind(DecodeKinds) \union OfKind(PrefillKinds) = 1 .. Len(Rows)
  BY <1>1, <1>2 DEF OfKind, Kinds, SpecKinds, DecodeKinds, PrefillKinds
<1>4. /\ OfKind({"decode", "prefill"}) = OfKind(DecodeKinds) \union OfKind(PrefillKinds)
      /\ OfKind(SpecKinds) \intersect OfKind({"decode", "prefill"}) = {}
      /\ OfKind(DecodeKinds) \intersect OfKind(PrefillKinds) = {}
  BY DEF OfKind, SpecKinds, DecodeKinds, PrefillKinds
<1>5. HasSpec <=> OfKind(SpecKinds) # {}
  BY Paths, PathIsEmpty DEF HasSpec
<1>6. HasNonSpec <=> OfKind({"decode", "prefill"}) # {}
  <2>1. DecodeRows # << >> <=> OfKind(DecodeKinds) # {}
    BY Paths, PathIsEmpty
  <2>2. PrefillRows # << >> <=> OfKind(PrefillKinds) # {}
    BY Paths, PathIsEmpty
  <2> QED BY <1>4, <2>1, <2>2 DEF HasNonSpec
<1>7. 1 \in 1 .. Len(Rows)
  BY <1>1
<1>8. HasSpec \/ HasNonSpec
  BY <1>3, <1>4, <1>5, <1>6, <1>7
<1> QED BY <1>3, <1>4, <1>5, <1>6, <1>8

LEMMA SpecFeeds ==
  ASSUME BatchIs, HasSpec
  PROVE  /\ Len(XSpec) \in Nat /\ Total(SpecKinds) \in Nat /\ Total(SpecKinds) <= Len(XSpec)
         /\ Feeds(SpecKinds, XSpec)
         /\ HasNonSpec => Len(XSpec) = Total(SpecKinds)
         /\ ~HasNonSpec => /\ Len(XSpec) = NumActualTokens
                           /\ OfKind(SpecKinds) = 1 .. Len(Rows)
<1>1. CASE HasNonSpec
  <2>1. XSpec = IndexSelect(Tokens, TokenIndex(SpecKinds))
    BY <1>1, Paths DEF XSpec
  <2>2. Total(SpecKinds) \in Nat
    BY TokenIndexIs
  <2> QED BY <1>1, <2>1, <2>2, IndexSelectFeeds
<1>2. CASE ~HasNonSpec
  <2>1. XSpec = Tokens
    BY <1>2 DEF XSpec
  <2>2. OfKind(SpecKinds) = 1 .. Len(Rows)
    BY <1>2, Partition
  <2>3. Count(SpecKinds) = Len(Rows) /\ RowsOf(SpecKinds) = Rows /\ Starts(SpecKinds) = Start
        /\ \A k \in 1 .. Len(Rows) : Index(SpecKinds)[k] = k
    BY <2>2, WholeBatch
  <2>4. Total(SpecKinds) = Start[Len(Rows)]
    BY <2>3 DEF Total
  <2>5. ASSUME NEW k \in 1 .. Len(Rows), NEW c \in 0 .. Rows[k].len - 1
        PROVE  Tokens[Start[k - 1] + c + 1] = Token(k, c)
    <3>1. PICK t : t = Start[k - 1] + c
      OBVIOUS
    <3>2. Lengths(Rows, Len(Rows)) /\ Offsets(Start, Rows, Len(Rows)) /\ Len(Rows) \in Nat
      BY RowsHaveLengths
    <3>3. /\ Start[k - 1] \in Nat /\ Start[Len(Rows)] \in Nat /\ Rows[k].len \in Nat
          /\ Start[k - 1] + Rows[k].len <= Start[Len(Rows)]
      BY <3>2, OffsetFacts
    <3>4. PICK a \in Nat, last \in Nat, len \in Nat :
            a = Start[k - 1] /\ last = Start[Len(Rows)] /\ len = Rows[k].len
      BY <3>3
    <3>5. PICK size \in Nat : size = NumActualTokens /\ last <= size
      BY <3>4, TokensAre
    <3>6. t = a + c /\ c \in 0 .. len - 1 /\ a + len <= last
      BY <3>1, <3>3, <3>4
    <3>7. t \in 0 .. size - 1
      BY <3>5, <3>6
    <3> QED BY <3>1, <3>5, <3>7, TokensAre DEF Token
  <2>6. Feeds(SpecKinds, Tokens)
    BY <2>3, <2>5 DEF Feeds
  <2> QED BY <1>2, <2>1, <2>2, <2>4, <2>6, TokensAre
<1> QED BY <1>1, <1>2

LEMMA SubSeqIs ==
  ASSUME NEW s, NEW m \in Int, NEW n \in Int, m <= n + 1
  PROVE  /\ Len(SubSeq(s, m, n)) = n - m + 1
         /\ SubSeq(s, m, n) = [i \in 1 .. n - m + 1 |-> s[m + i - 1]]
<1> DEFINE S == {s[i] : i \in m .. n}
<1>1. /\ SubSeq(s, m, n) \in Seq(S)
      /\ Len(SubSeq(s, m, n)) = IF m <= n THEN n - m + 1 ELSE 0
      /\ \A i \in 1 .. n - m + 1 : SubSeq(s, m, n)[i] = s[m + i - 1]
  BY SubSeqProperties
<1>2. Len(SubSeq(s, m, n)) = n - m + 1
  BY <1>1
<1>3. DOMAIN SubSeq(s, m, n) = 1 .. n - m + 1 /\ SubSeq(s, m, n) \in [1 .. n - m + 1 -> S]
  BY <1>1, <1>2, LenProperties
<1> HIDE DEF S
<1> QED BY <1>1, <1>2, <1>3

LEMMA DecodesFirst ==
  ASSUME BatchIs, NEW i \in OfKind(DecodeKinds), NEW j \in OfKind(PrefillKinds)
  PROVE  i < j
<1>1. i \in 1 .. Len(Rows) /\ j \in 1 .. Len(Rows) /\ NumRequests \in Nat \ {0}
      /\ Len(Rows) = NumRequests + batch.padding /\ batch.padding \in Nat
  BY RowsHaveLengths DEF OfKind, BatchIs
<1>2. Rows[i].kind = "decode" /\ Rows[j].kind = "prefill"
  BY DEF OfKind, DecodeKinds, PrefillKinds
<1>3. CASE i <= NumRequests /\ j <= NumRequests
  <2>1. batch.requests[i].kind = "decode" /\ batch.requests[j].kind = "prefill"
    BY <1>1, <1>2, <1>3, RowIs
  <2>2. ~(j < i) /\ i # j
    BY <1>1, <1>3, <2>1 DEF BatchIs
  <2> QED BY <1>1, <2>2
<1>4. CASE ~(i <= NumRequests /\ j <= NumRequests)
  <2>1. batch.padding # 0
    BY <1>1, <1>4
  <2>2. PICK kind \in {"spec", "decode"} : \A k \in 1 .. NumRequests : batch.requests[k].kind = kind
    BY <2>1 DEF BatchIs
  <2>3. Rows[j].kind = kind
    <3>1. CASE j <= NumRequests
      <4>1. Rows[j].kind = batch.requests[j].kind
        BY <1>1, <3>1, RowIs
      <4>2. j \in 1 .. NumRequests
        BY <1>1, <3>1
      <4> QED BY <2>2, <4>1, <4>2
    <3>2. CASE ~(j <= NumRequests)
      <4>1. Rows[j].kind = batch.requests[1].kind
        BY <1>1, <3>2, RowIs
      <4>2. 1 \in 1 .. NumRequests
        BY <1>1
      <4> QED BY <2>2, <4>1, <4>2
    <3> QED BY <3>1, <3>2
  <2> QED BY <1>2, <2>3
<1> QED BY <1>3, <1>4

\* The tokens of the decodes, then those of the prefills.
LEMMA NonSpecIndexIs ==
  ASSUME BatchIs
  PROVE  /\ DOMAIN NonSpecTokenIndex = 1 .. Total(DecodeKinds) + Total(PrefillKinds)
         /\ \A i \in 1 .. Total(DecodeKinds) + Total(PrefillKinds) :
              /\ NonSpecTokenIndex[i] = IF i <= Total(DecodeKinds) THEN TokenIndex(DecodeKinds)[i]
                                        ELSE TokenIndex(PrefillKinds)[i - Total(DecodeKinds)]
              /\ NonSpecTokenIndex[i] \in 0 .. Start[Len(Rows)] - 1
         /\ Total(DecodeKinds) + Total(PrefillKinds) = Total({"decode", "prefill"})
<1> DEFINE A == TokensOf(Start, OfKind(DecodeKinds))
           B == TokensOf(Start, OfKind(PrefillKinds))
           C == TokensOf(Start, OfKind({"decode", "prefill"}))
           m == Total(DecodeKinds)
           n == Total(PrefillKinds)
           f == TokenIndex(DecodeKinds)
           g == TokenIndex(PrefillKinds)
<1>1. /\ m \in Nat /\ n \in Nat /\ Lists(f, m, A) /\ Lists(g, n, B)
      /\ Total({"decode", "prefill"}) \in Nat
      /\ Lists(NonSpecTokenIndex, Total({"decode", "prefill"}), C)
  BY TokenIndexIs DEF NonSpecTokenIndex
<1>2. C = A \union B
  BY Partition DEF TokensOf
<1>3. Start \in [0 .. Len(Rows) -> Nat]
  BY RowsHaveLengths DEF Offsets
<1>4. A \in SUBSET Nat /\ B \in SUBSET Nat
  <2>1. OfKind(DecodeKinds) \subseteq 1 .. Len(Rows) /\ OfKind(PrefillKinds) \subseteq 1 .. Len(Rows)
    BY PartIs
  <2> QED BY <1>3, <2>1 DEF TokensOf
<1>5. ASSUME NEW a \in A, NEW b \in B PROVE a < b
  <2>1. PICK i \in OfKind(DecodeKinds) : a \in Start[i - 1] .. Start[i] - 1
    BY DEF TokensOf
  <2>2. PICK j \in OfKind(PrefillKinds) : b \in Start[j - 1] .. Start[j] - 1
    BY DEF TokensOf
  <2>3. i \in 1 .. Len(Rows) /\ j \in 1 .. Len(Rows) /\ i < j
    BY PartIs, DecodesFirst
  <2>4. i \in 0 .. Len(Rows) /\ j - 1 \in i .. Len(Rows) /\ j \in 0 .. Len(Rows)
        /\ j - 1 \in 0 .. Len(Rows) /\ i - 1 \in 0 .. Len(Rows)
    BY <2>3
  <2>5. Start[i] <= Start[j - 1]
    BY <2>4, RowsHaveLengths, OffsetsIncrease
  <2>6. Start[i] \in Nat /\ Start[j - 1] \in Nat /\ Start[j] \in Nat /\ Start[i - 1] \in Nat
    BY <1>3, <2>4
  <2> QED BY <2>1, <2>2, <2>5, <2>6
<1>6. NonSpecTokenIndex = Sorted(A \union B)
  BY <1>2 DEF NonSpecTokenIndex, TokenIndex, TokensOf, Start
<1>7. \A i \in 1 .. Total({"decode", "prefill"}) : NonSpecTokenIndex[i] \in 0 .. Start[Len(Rows)] - 1
  BY TokenIndexIs DEF NonSpecTokenIndex
<1> HIDE DEF A, B, C, m, n, f, g
<1>8. NonSpecTokenIndex = [i \in 1 .. m + n |-> IF i <= m THEN f[i] ELSE g[i - m]]
  BY <1>1, <1>4, <1>5, <1>6, SortedConcat
<1>9. DOMAIN NonSpecTokenIndex = 1 .. m + n
  BY <1>8
<1>10. m + n = Total({"decode", "prefill"})
  <2>1. DOMAIN NonSpecTokenIndex = 1 .. Total({"decode", "prefill"})
    BY <1>1 DEF Lists
  <2> QED BY <1>1, <1>9, <2>1
<1> QED BY <1>8, <1>9, <1>10, <1>7 DEF m, n, f, g

LEMMA NonSpecTokensAre ==
  ASSUME BatchIs, HasNonSpec
  PROVE  /\ Len(XNonSpec) = Total(DecodeKinds) + Total(PrefillKinds)
         /\ \A i \in 1 .. Total(DecodeKinds) + Total(PrefillKinds) :
              XNonSpec[i] = <<"token", NonSpecTokenIndex[i]>>
<1> DEFINE both == {"decode", "prefill"}
           T == Total(both)
<1>1. DOMAIN NonSpecTokenIndex = 1 .. T /\ T = Total(DecodeKinds) + Total(PrefillKinds) /\ T \in Nat
      /\ \A i \in 1 .. T : NonSpecTokenIndex[i] \in 0 .. Start[Len(Rows)] - 1
  <2>1. T = Total(DecodeKinds) + Total(PrefillKinds)
    BY NonSpecIndexIs
  <2>2. T \in Nat
    BY TokenIndexIs
  <2> QED BY <2>1, <2>2, NonSpecIndexIs
<1>2. NumActualTokens = Start[Len(Rows)] /\ Start[Len(Rows)] \in Nat
      /\ Len(Tokens) = NumActualTokens
      /\ \A t \in 0 .. NumActualTokens - 1 : Tokens[t + 1] = <<"token", t>>
  BY TokensAre
<1>3. CASE HasSpec
  <2>1. XNonSpec = IndexSelect(Tokens, NonSpecTokenIndex)
    BY <1>3 DEF XNonSpec
  <2>2. XNonSpec = [i \in 1 .. T |-> Tokens[NonSpecTokenIndex[i] + 1]]
    BY <1>1, <2>1 DEF IndexSelect
  <2>3. ASSUME NEW i \in 1 .. T PROVE XNonSpec[i] = <<"token", NonSpecTokenIndex[i]>>
    <3>1. PICK t : t = NonSpecTokenIndex[i] /\ t \in 0 .. NumActualTokens - 1
      BY <1>1, <1>2
    <3> QED BY <1>2, <2>2, <3>1
  <2>4. Len(XNonSpec) = T
    BY <1>1, <2>2
  <2> QED BY <1>1, <2>3, <2>4
<1>4. CASE ~HasSpec
  <2>1. XNonSpec = Tokens
    BY <1>4 DEF XNonSpec
  <2>2. OfKind(both) = 1 .. Len(Rows)
    BY <1>4, Partition
  <2>3. Count(both) = Len(Rows) /\ Starts(both) = Start
        /\ \A i \in 1 .. Start[Len(Rows)] : NonSpecTokenIndex[i] = i - 1
    BY <2>2, WholeBatch DEF NonSpecTokenIndex
  <2>4. T = Start[Len(Rows)]
    BY <2>3 DEF Total
  <2>5. ASSUME NEW i \in 1 .. T PROVE XNonSpec[i] = <<"token", NonSpecTokenIndex[i]>>
    <3>1. i - 1 \in 0 .. NumActualTokens - 1
      BY <1>1, <1>2, <2>4
    <3>2. Tokens[(i - 1) + 1] = <<"token", i - 1>> /\ (i - 1) + 1 = i
      BY <1>2, <3>1
    <3>3. NonSpecTokenIndex[i] = i - 1
      BY <2>3, <2>4
    <3> QED BY <2>1, <3>2, <3>3
  <2>6. Len(XNonSpec) = T
    BY <1>2, <2>1, <2>4
  <2> QED BY <1>1, <2>5, <2>6
<1> QED BY <1>3, <1>4

LEMMA DecodeFeeds ==
  ASSUME BatchIs, HasNonSpec
  PROVE  Feeds(DecodeKinds, XDecode)
<1> DEFINE m == Total(DecodeKinds)
           n == Total(PrefillKinds)
<1>1. m \in Nat /\ n \in Nat
  BY TokenIndexIs
<1>2. NumTokens(DecodeRows) = m
  BY Paths, PartIs DEF NumTokens, Total, Starts
<1>3. XDecode = [i \in 1 .. m |-> XNonSpec[i]]
  <2>1. XDecode = SubSeq(XNonSpec, 1, m)
    BY <1>2 DEF XDecode
  <2> HIDE DEF m
  <2>2. SubSeq(XNonSpec, 1, m) = [i \in 1 .. m - 1 + 1 |-> XNonSpec[1 + i - 1]]
    BY <1>1, SubSeqIs
  <2>3. m - 1 + 1 = m /\ \A i \in 1 .. m : 1 + i - 1 = i
    BY <1>1
  <2> QED BY <2>1, <2>2, <2>3
<1>4. ASSUME NEW k \in 1 .. Count(DecodeKinds), NEW c \in 0 .. RowsOf(DecodeKinds)[k].len - 1
      PROVE  XDecode[Starts(DecodeKinds)[k - 1] + c + 1] = Token(Index(DecodeKinds)[k], c)
  <2>1. PICK i : i = Starts(DecodeKinds)[k - 1] + c + 1
    OBVIOUS
  <2>2. i \in 1 .. m
    <3>1. /\ Starts(DecodeKinds)[k - 1] \in Nat /\ m \in Nat /\ RowsOf(DecodeKinds)[k].len \in Nat
          /\ Starts(DecodeKinds)[k - 1] + RowsOf(DecodeKinds)[k].len <= m
      BY PartIs, OffsetFacts DEF Total
    <3> QED BY <2>1, <3>1
  <2>3. TokenIndex(DecodeKinds)[i] = Start[Index(DecodeKinds)[k] - 1] + c
    BY <2>1, TokenIndexIs
  <2>4. i \in 1 .. m + n /\ i <= m
    BY <1>1, <2>2
  <2>5. XNonSpec[i] = <<"token", NonSpecTokenIndex[i]>>
    BY <2>4, NonSpecTokensAre
  <2>6. NonSpecTokenIndex[i] = TokenIndex(DecodeKinds)[i]
    BY <2>4, NonSpecIndexIs
  <2> QED BY <1>3, <2>1, <2>2, <2>3, <2>5, <2>6 DEF Token
<1> QED BY <1>4 DEF Feeds

LEMMA PrefillFeeds ==
  ASSUME BatchIs, HasNonSpec
  PROVE  Feeds(PrefillKinds, XPrefill) /\ Len(XPrefill) = Total(PrefillKinds)
<1> DEFINE m == Total(DecodeKinds)
           n == Total(PrefillKinds)
<1>1. m \in Nat /\ n \in Nat
  BY TokenIndexIs
<1>2. NumTokens(DecodeRows) = m
  BY Paths, PartIs DEF NumTokens, Total, Starts
<1>3. XPrefill = [i \in 1 .. n |-> XNonSpec[m + i]] /\ Len(XPrefill) = n
  <2>1. XPrefill = SubSeq(XNonSpec, m + 1, m + n)
    BY <1>2, NonSpecTokensAre DEF XPrefill
  <2> HIDE DEF m, n
  <2>2. /\ SubSeq(XNonSpec, m + 1, m + n)
             = [i \in 1 .. (m + n) - (m + 1) + 1 |-> XNonSpec[(m + 1) + i - 1]]
        /\ Len(SubSeq(XNonSpec, m + 1, m + n)) = (m + n) - (m + 1) + 1
    BY <1>1, SubSeqIs
  <2>3. (m + n) - (m + 1) + 1 = n /\ \A i \in 1 .. n : (m + 1) + i - 1 = m + i
    BY <1>1
  <2> QED BY <2>1, <2>2, <2>3
<1>4. ASSUME NEW k \in 1 .. Count(PrefillKinds), NEW c \in 0 .. RowsOf(PrefillKinds)[k].len - 1
      PROVE  XPrefill[Starts(PrefillKinds)[k - 1] + c + 1] = Token(Index(PrefillKinds)[k], c)
  <2>1. PICK i : i = Starts(PrefillKinds)[k - 1] + c + 1
    OBVIOUS
  <2>2. i \in 1 .. n
    <3>1. /\ Starts(PrefillKinds)[k - 1] \in Nat /\ n \in Nat /\ RowsOf(PrefillKinds)[k].len \in Nat
          /\ Starts(PrefillKinds)[k - 1] + RowsOf(PrefillKinds)[k].len <= n
      BY PartIs, OffsetFacts DEF Total
    <3> QED BY <2>1, <3>1
  <2>3. TokenIndex(PrefillKinds)[i] = Start[Index(PrefillKinds)[k] - 1] + c
    BY <2>1, TokenIndexIs
  <2>4. m + i \in 1 .. m + n /\ ~(m + i <= m) /\ (m + i) - m = i
    BY <1>1, <2>2
  <2>5. XNonSpec[m + i] = <<"token", NonSpecTokenIndex[m + i]>>
    BY <2>4, NonSpecTokensAre
  <2>6. NonSpecTokenIndex[m + i] = TokenIndex(PrefillKinds)[i]
    BY <2>4, NonSpecIndexIs
  <2> QED BY <1>3, <2>1, <2>2, <2>3, <2>5, <2>6 DEF Token
<1> QED BY <1>3, <1>4 DEF Feeds

-----------------------------------------------------------------------------
(***************************************************************************)
(* Packing the tokens of a path into its rows, and what is read there.     *)
(***************************************************************************)
LEMMA ChunkIs ==
  ASSUME BatchIs, NEW i \in 1 .. Len(Rows)
  PROVE  /\ Len(ChunkOf(i)) = Rows[i].len /\ DOMAIN ChunkOf(i) = 1 .. Rows[i].len
         /\ \A c \in 1 .. Rows[i].len : ChunkOf(i)[c] = Token(i, c - 1)
<1>1. PICK a : a = Start[i - 1]
  OBVIOUS
<1>2. PICK len : len = Rows[i].len
  OBVIOUS
<1>3. a \in Nat /\ len \in Nat /\ a + len <= NumActualTokens
  <2>1. /\ Start[i - 1] \in Nat /\ Rows[i].len \in Nat /\ Start[Len(Rows)] \in Nat
        /\ Start[i - 1] + Rows[i].len <= Start[Len(Rows)]
    BY RowsHaveLengths, OffsetFacts
  <2>2. Start[Len(Rows)] <= NumActualTokens /\ NumActualTokens \in Nat
    BY TokensAre
  <2> QED BY <1>1, <1>2, <2>1, <2>2
<1>4. ChunkOf(i) = SubSeq(Tokens, a + 1, a + len)
  BY <1>1, <1>2 DEF ChunkOf, RequestOffset, Start
<1>5. /\ Len(ChunkOf(i)) = (a + len) - (a + 1) + 1
      /\ ChunkOf(i) = [c \in 1 .. (a + len) - (a + 1) + 1 |-> Tokens[(a + 1) + c - 1]]
  BY <1>3, <1>4, SubSeqIs
<1>6. (a + len) - (a + 1) + 1 = len
  BY <1>3
<1>7. ASSUME NEW c \in 1 .. len PROVE ChunkOf(i)[c] = Token(i, c - 1)
  <2>1. PICK t : t = a + (c - 1)
    OBVIOUS
  <2>2. t \in 0 .. NumActualTokens - 1 /\ (a + 1) + c - 1 = t + 1
    BY <1>3, <2>1, TokensAre
  <2>3. Tokens[t + 1] = <<"token", t>>
    BY <2>2, TokensAre
  <2>4. ChunkOf(i)[c] = Tokens[(a + 1) + c - 1]
    BY <1>5, <1>6
  <2> QED BY <1>1, <2>1, <2>2, <2>3, <2>4 DEF Token
<1> QED BY <1>2, <1>5, <1>6, <1>7

\* Each token of the rows goes to its row and column, the others elsewhere.
Places(row, col, q, n, size) ==
  /\ \A i \in 1 .. n : \A p \in q[i - 1] .. q[i] - 1 : row[p] = i /\ col[p] = p - q[i - 1]
  /\ \A p \in q[n] .. size - 1 : row[p] \notin 1 .. n

LEMMA PackIs ==
  ASSUME NEW n \in Nat, NEW rows, Lengths(rows, n), NEW q, Offsets(q, rows, n),
         NEW x, Len(x) \in Nat, q[n] <= Len(x),
         NEW m \in Nat, n <= m, NEW width \in Nat, NEW row, NEW col,
         Places(row, col, q, n, Len(x)),
         NEW k \in 1 .. n, rows[k].len <= width
  PROVE  Pack(x, m, width, row, col)[k]
           = [c \in 1 .. width |-> IF c <= rows[k].len THEN x[q[k - 1] + c] ELSE Zero]
<1> DEFINE P(c) == {p \in 0 .. Len(x) - 1 : row[p] = k /\ col[p] = c - 1}
<1>1. PICK a : a = q[k - 1]
  OBVIOUS
<1>2. PICK len : len = rows[k].len
  OBVIOUS
<1>3. a \in Nat /\ len \in Nat /\ q[k] = a + len /\ q[n] \in Nat /\ a + len <= q[n]
  BY <1>1, <1>2, OffsetFacts
<1>4. ASSUME NEW c \in 1 .. width, NEW p \in P(c) PROVE c <= len /\ p = a + c - 1
  <2>1. ~(p >= q[n])
    BY <1>3, <1>4 DEF Places
  <2>2. p \in 0 .. q[n] - 1
    BY <1>3, <2>1
  <2>3. PICK i \in 1 .. n : p \in q[i - 1] .. q[i] - 1
    BY <2>2, RowOfToken
  <2>4. row[p] = i /\ col[p] = p - q[i - 1]
    BY <2>3 DEF Places
  <2>5. i = k
    BY <2>4
  <2>6. p \in a .. a + len - 1 /\ p - a = c - 1
    <3>1. p \in a .. q[k] - 1 /\ col[p] = p - a
      BY <1>1, <2>3, <2>4, <2>5
    <3>2. col[p] = c - 1
      OBVIOUS
    <3> QED BY <1>3, <3>1, <3>2
  <2> QED BY <1>3, <2>6
<1>5. ASSUME NEW c \in 1 .. width, c <= len PROVE P(c) = {a + c - 1}
  <2>1. PICK p : p = a + c - 1
    OBVIOUS
  <2>2. p \in a .. a + len - 1 /\ p \in 0 .. Len(x) - 1 /\ p - a = c - 1
    BY <1>3, <1>5, <2>1
  <2>3. p \in q[k - 1] .. q[k] - 1
    <3>1. q[k - 1] = a /\ q[k] - 1 = a + len - 1
      BY <1>1, <1>3
    <3> QED BY <2>2, <3>1
  <2>4. row[p] = k /\ col[p] = p - q[k - 1]
    BY <2>3 DEF Places
  <2>5. p \in P(c)
    BY <1>1, <2>2, <2>4
  <2> HIDE DEF P
  <2> QED BY <1>4, <2>1, <2>5
<1>6. k \in 1 .. m
  OBVIOUS
<1> DEFINE Cell(c) == IF P(c) = {} THEN Zero ELSE x[Max(P(c)) + 1]
<1>7. Pack(x, m, width, row, col)[k] = [c \in 1 .. width |-> Cell(c)]
  BY <1>6, Zenon DEF Pack
<1> HIDE DEF P
<1>8. ASSUME NEW c \in 1 .. width
      PROVE  Cell(c) = IF c <= len THEN x[a + c] ELSE Zero
  <2>1. CASE c <= len
    <3>1. PICK p : p = a + c - 1
      OBVIOUS
    <3>2. P(c) = {p} /\ p \in Nat /\ p + 1 = a + c
      BY <1>3, <1>5, <2>1, <3>1
    <3>3. Max(P(c)) = p
      BY <3>2 DEF Max
    <3>4. P(c) # {}
      BY <3>2
    <3>5. Cell(c) = x[p + 1]
      BY <3>3, <3>4
    <3> QED BY <2>1, <3>2, <3>5
  <2>2. CASE ~(c <= len)
    <3>1. P(c) = {}
      BY <1>4, <2>2
    <3> QED BY <2>2, <3>1
  <2> QED BY <2>1, <2>2
<1> HIDE DEF Cell
<1> QED BY <1>1, <1>2, <1>7, <1>8, Zenon

\* h holds what the inputs of request i read.
Serves(h, i) ==
  \A j \in 0 .. ConvStateLen + Rows[i].len - 1 : h[j] = HistoryOf(i)[j]

\* The window a prefill or a decode starts from.
FirstWindow(i) == [j \in 0 .. ConvStateLen - 1 |-> IF Rows[i].initial THEN OldRow(i)[j] ELSE Zero]

\* The window a speculative request starts from.
AcceptedWindow(i) == [j \in 0 .. ConvStateLen - 1 |-> OldRow(i)[RollbackOffset(Rows[i].accepted) + j]]

LEMMA HistoryIs ==
  ASSUME BatchIs, NEW i \in 1 .. NumRequests
  PROVE  HistoryOf(i) =
           IF Rows[i].kind = "spec" THEN History(AcceptedWindow(i), ChunkOf(i), SpecQueryLen)
                                    ELSE History(FirstWindow(i), ChunkOf(i), Rows[i].len)
<1>1. i \in 1 .. Len(Rows) /\ i <= NumRequests
  BY RowsHaveLengths
<1>2. Rows[i].block = i /\ Rows[i].initial \in BOOLEAN
  BY <1>1, RowIs
<1>3. Len(ChunkOf(i)) = Rows[i].len
  BY <1>1, ChunkIs
<1>4. CASE Rows[i].kind = "spec"
  <2>1. HistoryOf(i) = SpecHistory(OldRow(i), TRUE, Rows[i].accepted, ChunkOf(i))
    BY <1>2, <1>4, Zenon DEF HistoryOf
  <2>2. SpecHistory(OldRow(i), TRUE, Rows[i].accepted, ChunkOf(i))
          = History(AcceptedWindow(i), ChunkOf(i), SpecQueryLen)
    BY Zenon DEF SpecHistory, AcceptedWindow
  <2> QED BY <1>4, <2>1, <2>2
<1>5. CASE Rows[i].kind # "spec"
  <2>1. HistoryOf(i) = PlainHistory(OldRow(i), TRUE, Rows[i].initial, ChunkOf(i))
    BY <1>2, <1>5, Zenon DEF HistoryOf
  <2>2. [j \in 0 .. ConvStateLen - 1 |-> IF TRUE /\ Rows[i].initial THEN OldRow(i)[j] ELSE Zero]
          = FirstWindow(i)
    BY Zenon DEF FirstWindow
  <2>3. PlainHistory(OldRow(i), TRUE, Rows[i].initial, ChunkOf(i))
          = History(FirstWindow(i), ChunkOf(i), Rows[i].len)
    BY <1>3, <2>2, Zenon DEF PlainHistory
  <2> QED BY <1>5, <2>1, <2>3
<1> QED BY <1>4, <1>5

\* A history serves a request that starts from its window and reads its tokens.
LEMMA ServesFrom ==
  ASSUME BatchIs, NEW i \in 1 .. NumRequests, NEW state,
         \A j \in 0 .. ConvStateLen - 1 :
           state[j] = IF Rows[i].kind = "spec" THEN AcceptedWindow(i)[j] ELSE FirstWindow(i)[j],
         NEW x, NEW width \in Nat, Rows[i].len <= width, Len(x) \in Nat, Rows[i].len <= Len(x),
         \A c \in 1 .. Rows[i].len : x[c] = Token(i, c - 1)
  PROVE  Serves(History(state, x, width), i)
<1>1. i \in 1 .. Len(Rows)
  BY RowsHaveLengths
<1>2. PICK len \in Nat : len = Rows[i].len
  BY <1>1, RowIs
<1>3. PICK y : y = ChunkOf(i)
  OBVIOUS
<1>4. PICK window :
        window = IF Rows[i].kind = "spec" THEN AcceptedWindow(i) ELSE FirstWindow(i)
  OBVIOUS
<1>5. PICK w \in Nat : w = IF Rows[i].kind = "spec" THEN SpecQueryLen ELSE len
  BY Sizes
<1>6. len <= w /\ len <= width /\ len <= Len(x) /\ Len(y) = len
  BY <1>1, <1>2, <1>3, <1>5, RowIs, ChunkIs
<1>7. HistoryOf(i) = History(window, y, w)
  BY <1>2, <1>3, <1>4, <1>5, HistoryIs
<1>8. ASSUME NEW j \in 0 .. ConvStateLen + len - 1
      PROVE  History(state, x, width)[j] = HistoryOf(i)[j]
  <2>1. /\ j \in 0 .. ConvStateLen + width - 1 /\ j \in 0 .. ConvStateLen + w - 1
        /\ ~(j < ConvStateLen) => j - ConvStateLen < Len(x) /\ j - ConvStateLen < Len(y)
    BY <1>6, Sizes
  <2>2. History(state, x, width)[j] = IF j < ConvStateLen THEN state[j] ELSE x[j - ConvStateLen + 1]
    BY <2>1 DEF History
  <2>3. History(window, y, w)[j] = IF j < ConvStateLen THEN window[j] ELSE y[j - ConvStateLen + 1]
    BY <2>1 DEF History
  <2>4. j < ConvStateLen => state[j] = window[j]
    BY <1>4, Sizes
  <2>5. ~(j < ConvStateLen) => x[j - ConvStateLen + 1] = y[j - ConvStateLen + 1]
    <3>1. ~(j < ConvStateLen) => j - ConvStateLen + 1 \in 1 .. len
      BY Sizes
    <3> QED BY <1>1, <1>2, <1>3, <3>1, ChunkIs
  <2> QED BY <1>7, <2>2, <2>3, <2>4, <2>5
<1> QED BY <1>2, <1>8 DEF Serves

LEMMA ServedOutput ==
  ASSUME BatchIs, NEW i \in 1 .. NumRequests, NEW h, Serves(h, i),
         NEW c \in 0 .. Rows[i].len - 1
  PROVE  ConvAt(h, c) = ConvAt(HistoryOf(i), c)
<1>1. i \in 1 .. Len(Rows)
  BY RowsHaveLengths
<1>2. PICK len : len = Rows[i].len /\ len \in Nat
  BY <1>1, RowIs
<1>3. ASSUME NEW j \in Tap PROVE h[c + j * Dilation] = HistoryOf(i)[c + j * Dilation]
  <2>1. PICK t : t = j * Dilation /\ t \in 0 .. ConvStateLen
    BY Sizes
  <2>2. c + t \in 0 .. ConvStateLen + len - 1
    BY <1>2, <2>1, Sizes
  <2>3. h[c + t] = HistoryOf(i)[c + t]
    BY <1>2, <2>2 DEF Serves
  <2> QED BY <2>1, <2>3
<1> QED BY <1>3 DEF ConvAt

\* The rows the paths leave for a request they serve.
LEMMA ServedSpecRow ==
  ASSUME BatchIs, NEW i \in 1 .. NumRequests, Rows[i].kind = "spec", NEW h, Serves(h, i)
  PROVE  SpecRow(OldRow(i), TRUE, h, [c \in 1 .. Rows[i].len |-> Zero]) = RowOf(i)
<1>1. i \in 1 .. Len(Rows) /\ i <= NumRequests
  BY RowsHaveLengths
<1>2. PICK len : len = Rows[i].len /\ len \in Nat
  BY <1>1, RowIs
<1>3. Rows[i].block = i
  BY <1>1, RowIs
<1>4. Len(ChunkOf(i)) = len /\ Len([c \in 1 .. len |-> Zero]) = len
  BY <1>1, <1>2, ChunkIs
<1>5. RowOf(i) = SpecRow(OldRow(i), TRUE, HistoryOf(i), ChunkOf(i))
  BY <1>3, Zenon DEF RowOf
<1>6. ConvStateLen \in Nat
  BY Sizes
<1> DEFINE cell(history, p) ==
      IF TRUE /\ ConvStateLen > 0 /\ p < ConvStateLen + len - 1 THEN history[p + 1] ELSE OldRow(i)[p]
<1>7. SpecRow(OldRow(i), TRUE, HistoryOf(i), ChunkOf(i)) = [p \in Position |-> cell(HistoryOf(i), p)]
  BY <1>4, Zenon DEF SpecRow
<1>8. SpecRow(OldRow(i), TRUE, h, [c \in 1 .. len |-> Zero]) = [p \in Position |-> cell(h, p)]
  BY <1>4, Zenon DEF SpecRow
<1>9. ASSUME NEW p \in Position PROVE cell(HistoryOf(i), p) = cell(h, p)
  <2>1. p \in Nat
    BY Sizes DEF Position
  <2>2. CASE p < ConvStateLen + len - 1
    <3>1. p + 1 \in 0 .. ConvStateLen + len - 1
      BY <1>2, <1>6, <2>1, <2>2
    <3>2. h[p + 1] = HistoryOf(i)[p + 1]
      BY <1>2, <3>1 DEF Serves
    <3> QED BY <3>2
  <2>3. CASE ~(p < ConvStateLen + len - 1)
    BY <2>3
  <2> QED BY <2>2, <2>3
<1> HIDE DEF cell
<1> QED BY <1>2, <1>5, <1>7, <1>8, <1>9

LEMMA ServedPlainRow ==
  ASSUME BatchIs, NEW i \in 1 .. NumRequests, Rows[i].kind # "spec", NEW h, Serves(h, i)
  PROVE  [p \in Position |-> IF Rows[i].len > 0 /\ p < ConvStateLen
                               THEN h[Rows[i].len + p] ELSE OldRow(i)[p]] = RowOf(i)
<1>1. i \in 1 .. Len(Rows) /\ i <= NumRequests
  BY RowsHaveLengths
<1>2. PICK len : len = Rows[i].len /\ len \in Nat
  BY <1>1, RowIs
<1>3. Rows[i].block = i
  BY <1>1, RowIs
<1>4. Len(ChunkOf(i)) = len /\ (ChunkOf(i) # << >> <=> len > 0)
  <2>1. Len(ChunkOf(i)) = len /\ DOMAIN ChunkOf(i) = 1 .. len
    BY <1>1, <1>2, ChunkIs
  <2>2. len > 0 => ChunkOf(i) # << >>
    BY <1>2, <2>1
  <2>3. len = 0 => ChunkOf(i) = << >>
    <3>1. /\ ChunkOf(i) = SubSeq(Tokens, Start[i - 1] + 1, Start[i - 1] + len)
          /\ Start[i - 1] \in Nat
      BY <1>1, <1>2, RowsHaveLengths, OffsetFacts DEF ChunkOf, RequestOffset, Start
    <3>2. ASSUME len = 0 PROVE ChunkOf(i) = << >>
      BY <3>1, <3>2, SubSeqEmpty
    <3> QED BY <3>2
  <2> QED BY <1>2, <2>1, <2>2, <2>3
<1>5. RowOf(i) = PlainRow(OldRow(i), TRUE, HistoryOf(i), ChunkOf(i))
  BY <1>3, Zenon DEF RowOf
<1>6. ConvStateLen \in Nat
  BY Sizes
<1>7. PlainRow(OldRow(i), TRUE, HistoryOf(i), ChunkOf(i))
        = [p \in Position |-> IF len > 0 /\ p < ConvStateLen
                                THEN HistoryOf(i)[len + p] ELSE OldRow(i)[p]]
  BY <1>4 DEF PlainRow
<1>8. ASSUME NEW p \in Position, p < ConvStateLen PROVE h[len + p] = HistoryOf(i)[len + p]
  <2>1. p \in Nat
    BY Sizes DEF Position
  <2>2. len + p \in 0 .. ConvStateLen + len - 1
    BY <1>2, <1>6, <1>8, <2>1
  <2> QED BY <1>2, <2>2 DEF Serves
<1> QED BY <1>2, <1>5, <1>7, <1>8

-----------------------------------------------------------------------------
(***************************************************************************)
(* The inductive invariant.                                                *)
(***************************************************************************)
\* The output of column c of row i.
Out(i, c) == IF i <= NumRequests THEN ConvAt(HistoryOf(i), c) ELSE ZeroOutput

\* The outputs of row k of a path are at its tokens.
DeliversRow(kinds, f, k) ==
  \A c \in 0 .. RowsOf(kinds)[k].len - 1 :
    f[Starts(kinds)[k - 1] + c + 1] = Out(Index(kinds)[k], c)

Delivers(kinds, f) == \A k \in 1 .. Count(kinds) : DeliversRow(kinds, f, k)

\* f lists n things.
IsList(f, n) == n \in Nat /\ f = [i \in 1 .. n |-> f[i]]

\* The row of request i is written.
Done(i) ==
  \/ Rows[i].kind = "spec" /\ pc # "spec"
  \/ Rows[i].kind = "decode" /\ pc \notin {"spec", "decode"}
  \/ Rows[i].kind = "prefill" /\ \/ pc \in {"merge", "done"}
                                 \/ \E k \in 1 .. request - 1 : Index(PrefillKinds)[k] = i

StateInv ==
  conv_state = [b \in Block |-> IF b \in 1 .. NumRequests /\ Done(b) THEN RowOf(b) ELSE OldRow(b)]

ControlInv ==
  /\ pc \in {"spec", "decode", "prefill", "merge", "done"}
  /\ pc \in {"decode", "prefill"} => HasNonSpec
  /\ request \in Nat \ {0}
  /\ request > 1 => OverBudget
  /\ pc \in {"spec", "decode"} => request = 1
  /\ pc = "prefill" => request = 1 \/ request <= Count(PrefillKinds)

SpecInv ==
  pc # "spec" /\ HasSpec =>
    /\ IsList(spec_output, Len(XSpec))
    /\ Delivers(SpecKinds, spec_output)
    /\ \A t \in Total(SpecKinds) + 1 .. Len(XSpec) : spec_output[t] = ZeroOutput

DecodeInv ==
  /\ pc \in {"spec", "decode"} => decode_output = << >>
  /\ pc \notin {"spec", "decode"} /\ HasNonSpec =>
       IsList(decode_output, Total(DecodeKinds)) /\ Delivers(DecodeKinds, decode_output)

PrefillInv ==
  /\ IsList(prefill_output, Total(PrefillKinds))
  /\ pc \in {"merge", "done"} => Delivers(PrefillKinds, prefill_output)
  /\ pc = "prefill" => \A k \in 1 .. request - 1 : DeliversRow(PrefillKinds, prefill_output, k)

\* The outputs of all the rows are in the order of the batch.
Merged(f) ==
  /\ IsList(f, NumActualTokens)
  /\ \A i \in 1 .. Len(Rows) : \A c \in 0 .. Rows[i].len - 1 : f[Start[i - 1] + c + 1] = Out(i, c)
  /\ \A t \in Start[Len(Rows)] + 1 .. NumActualTokens : f[t] = ZeroOutput

OutputInv == pc = "done" => Merged(output)

DispatchInv ==
  /\ BatchIs
  /\ ControlInv
  /\ StateInv
  /\ SpecInv
  /\ DecodeInv
  /\ PrefillInv
  /\ OutputInv

\* What the code reads of the batch does not change during the call.
LEMMA BatchFixed ==
  ASSUME batch' = batch
  PROVE  /\ Rows' = Rows /\ Start' = Start /\ NumRequests' = NumRequests
         /\ \A kinds : /\ OfKind(kinds)' = OfKind(kinds) /\ Index(kinds)' = Index(kinds)
                       /\ Count(kinds)' = Count(kinds) /\ RowsOf(kinds)' = RowsOf(kinds)
                       /\ Starts(kinds)' = Starts(kinds) /\ Total(kinds)' = Total(kinds)
         /\ HasSpec' = HasSpec /\ HasNonSpec' = HasNonSpec /\ XSpec' = XSpec
         /\ NumActualTokens' = NumActualTokens /\ NumPrefillTokens' = NumPrefillTokens
         /\ OverBudget' = OverBudget
         /\ \A i : RowOf(i)' = RowOf(i) /\ HistoryOf(i)' = HistoryOf(i)
         /\ \A i, c : Out(i, c)' = Out(i, c)
         /\ BatchIs' = BatchIs
<1>1. Rows' = Rows /\ NumRequests' = NumRequests /\ BatchIs' = BatchIs
  BY DEF Rows, NumRequests, BatchIs
<1>2. Start' = Start
  BY <1>1 DEF Start
<1>3. \A kinds : OfKind(kinds)' = OfKind(kinds)
  BY <1>1 DEF OfKind
<1>4. \A kinds : Index(kinds)' = Index(kinds) /\ Count(kinds)' = Count(kinds)
  BY <1>3 DEF Index, Count
<1>5. \A kinds : RowsOf(kinds)' = RowsOf(kinds)
  BY <1>1, <1>3 DEF RowsOf
<1>6. \A kinds : Starts(kinds)' = Starts(kinds)
  BY <1>5 DEF Starts
<1>7. \A kinds : Total(kinds)' = Total(kinds)
  BY <1>4, <1>6 DEF Total
<1>8. SpecRows' = SpecRows /\ DecodeRows' = DecodeRows /\ PrefillRows' = PrefillRows
  BY <1>5 DEF SpecRows, DecodeRows, PrefillRows
<1>9. HasSpec' = HasSpec /\ HasNonSpec' = HasNonSpec
  BY <1>8 DEF HasSpec, HasNonSpec
<1>10. NumActualTokens' = NumActualTokens
  BY <1>1, <1>8 DEF NumActualTokens
<1>11. NumPrefillTokens' = NumPrefillTokens /\ OverBudget' = OverBudget
  BY <1>8 DEF NumPrefillTokens, OverBudget, MaxPrefillQueryLen
<1>12. Tokens' = Tokens
  BY <1>10 DEF Tokens
<1>13. SpecTokenIndex' = SpecTokenIndex
  BY <1>1, <1>3 DEF SpecTokenIndex, TokenIndex
<1>14. XSpec' = XSpec
  BY <1>9, <1>12, <1>13 DEF XSpec
<1>15. \A i : ChunkOf(i)' = ChunkOf(i)
  BY <1>1, <1>12 DEF ChunkOf, RequestOffset
<1>16. \A i : HistoryOf(i)' = HistoryOf(i)
  BY <1>1, <1>15 DEF HistoryOf
<1>17. \A i : RowOf(i)' = RowOf(i)
  BY <1>1, <1>15, <1>16 DEF RowOf
<1>18. \A i, c : Out(i, c)' = Out(i, c)
  BY <1>1, <1>16 DEF Out
<1> QED BY <1>1, <1>2, <1>3, <1>4, <1>5, <1>6, <1>7, <1>9, <1>10, <1>11, <1>14, <1>16, <1>17, <1>18

LEMMA IndexCopyIs ==
  ASSUME NEW state, NEW rows, NEW new, NEW V, NEW result \in IndexCopy(state, rows, new),
         \A k \in DOMAIN rows : new[k] = V[rows[k].block]
  PROVE  result = [b \in Block |-> IF \E k \in DOMAIN rows : rows[k].block = b
                                     THEN V[b] ELSE state[b]]
<1> DEFINE named(b) == \E k \in DOMAIN rows : rows[k].block = b
<1>1. PICK last \in [Block -> DOMAIN rows] :
        /\ \A b \in Block : named(b) => rows[last[b]].block = b
        /\ result = [b \in Block |-> IF named(b) THEN new[last[b]] ELSE state[b]]
  BY DEF IndexCopy
<1> HIDE DEF named
<1>2. ASSUME NEW b \in Block, named(b) PROVE new[last[b]] = V[b]
  <2>1. last[b] \in DOMAIN rows /\ rows[last[b]].block = b
    BY <1>1, <1>2
  <2> QED BY <2>1
<1>3. result = [b \in Block |-> IF named(b) THEN V[b] ELSE state[b]]
  BY <1>1, <1>2
<1> QED BY <1>3 DEF named

LEMMA PrefillTokensAre ==
  ASSUME BatchIs
  PROVE  /\ NumPrefillTokens = Total(PrefillKinds) /\ NumPrefillTokens \in Nat
         /\ Len(PrefillRows) = Count(PrefillKinds)
<1>1. Len(PrefillRows) = Count(PrefillKinds)
  BY Paths, PartIs
<1>2. NumPrefillTokens = Total(PrefillKinds)
  BY <1>1, Paths DEF NumPrefillTokens, NumTokens, Total, Starts
<1> QED BY <1>1, <1>2, TokenIndexIs

LEMMA InvInit == Init => DispatchInv
<1> SUFFICES ASSUME Init PROVE DispatchInv
  OBVIOUS
<1>1. BatchIs
  BY InitBatch
<1>2. pc = "spec" /\ request = 1
      /\ conv_state = [b \in Block |-> OldRow(b)]
      /\ prefill_output = [i \in 1 .. NumPrefillTokens |-> Uninitialized]
      /\ decode_output = << >>
  BY DEF Init
<1>3. ControlInv
  BY <1>2 DEF ControlInv
<1>4. StateInv
  <2>1. \A b : b \in 1 .. NumRequests => ~Done(b)
    BY <1>2 DEF Done
  <2>2. [b \in Block |-> IF b \in 1 .. NumRequests /\ Done(b) THEN RowOf(b) ELSE OldRow(b)]
          = [b \in Block |-> OldRow(b)]
    BY <2>1
  <2> QED BY <1>2, <2>2 DEF StateInv
<1>5. SpecInv /\ DecodeInv /\ OutputInv
  BY <1>2 DEF SpecInv, DecodeInv, OutputInv
<1>6. PrefillInv
  <2>1. IsList(prefill_output, Total(PrefillKinds))
    BY <1>1, <1>2, PrefillTokensAre DEF IsList
  <2> QED BY <1>2, <2>1 DEF PrefillInv
<1> QED BY <1>1, <1>3, <1>4, <1>5, <1>6 DEF DispatchInv

-----------------------------------------------------------------------------
(***************************************************************************)
(* What a step writes to the cache.                                        *)
(***************************************************************************)
NewRow == [b \in Block |-> IF b \in 1 .. NumRequests THEN RowOf(b) ELSE OldRow(b)]

LEMMA OldBlocks ==
  ASSUME BatchIs, StateInv, NEW b \in Block, ~(b \in 1 .. NumRequests /\ Done(b))
  PROVE  conv_state[b] = OldRow(b)
BY DEF StateInv

LEMMA RequestBlocks ==
  ASSUME BatchIs, NEW i \in 1 .. NumRequests
  PROVE  i \in Block /\ i \in 1 .. Len(Rows) /\ Rows[i].block = i /\ Rows[i].kind \in Kinds
<1>1. i \in 1 .. Len(Rows) /\ i <= NumRequests
  BY RowsHaveLengths
<1>2. Rows[i].block = i /\ Rows[i].block \in Block /\ Rows[i].kind \in Kinds
  BY <1>1, RowIs
<1> QED BY <1>1, <1>2

\* A path writes the blocks of its requests, and the reserved one as it was.
LEMMA CopyWritesPath ==
  ASSUME BatchIs, StateInv, NEW kinds, NEW new,
         NEW result \in IndexCopy(conv_state, RowsOf(kinds), new),
         \A k \in 1 .. Count(kinds) : new[k] = NewRow[RowsOf(kinds)[k].block]
  PROVE  result = [b \in Block |-> IF b \in 1 .. NumRequests /\ b \in OfKind(kinds)
                                     THEN RowOf(b) ELSE conv_state[b]]
<1> DEFINE rows == RowsOf(kinds)
           named(b) == \E k \in DOMAIN rows : rows[k].block = b
<1>1. DOMAIN rows = 1 .. Count(kinds)
  BY PartIs
<1>2. result = [b \in Block |-> IF named(b) THEN NewRow[b] ELSE conv_state[b]]
  <2>1. PICK V, all, state : V = NewRow /\ all = rows /\ state = conv_state
    OBVIOUS
  <2>2. result \in IndexCopy(state, all, new) /\ \A k \in DOMAIN all : new[k] = V[all[k].block]
    BY <1>1, <2>1
  <2>3. result = [b \in Block |-> IF \E k \in DOMAIN all : all[k].block = b THEN V[b] ELSE state[b]]
    BY <2>2, IndexCopyIs
  <2> QED BY <2>1, <2>3
<1> HIDE DEF named
<1>3. ASSUME NEW b \in Block
      PROVE  (IF named(b) THEN NewRow[b] ELSE conv_state[b])
               = IF b \in 1 .. NumRequests /\ b \in OfKind(kinds) THEN RowOf(b) ELSE conv_state[b]
  <2>1. CASE b \in 1 .. NumRequests
    <3>1. b \in OfKind(kinds) => named(b)
      <4>1. ASSUME b \in OfKind(kinds) PROVE named(b)
        <5>1. PICK k \in 1 .. Count(kinds) : Index(kinds)[k] = b
          BY <4>1, PartIs DEF Lists
        <5>2. rows[k] = Rows[b]
          BY <5>1, PartIs
        <5>3. rows[k].block = b
          BY <2>1, <5>2, RequestBlocks
        <5> QED BY <1>1, <5>3 DEF named
      <4> QED BY <4>1
    <3>2. named(b) => b \in OfKind(kinds)
      <4>1. ASSUME named(b) PROVE b \in OfKind(kinds)
        <5>1. PICK k \in 1 .. Count(kinds) : rows[k].block = b
          BY <1>1, <4>1 DEF named
        <5>2. PICK i \in 1 .. Len(Rows) : i = Index(kinds)[k] /\ rows[k] = Rows[i] /\ i \in OfKind(kinds)
          BY PartIs DEF Lists
        <5>3. i <= NumRequests
          <6>1. ~(i <= NumRequests) => Rows[i].block = 0
            BY RowIs
          <6> QED BY <2>1, <5>1, <5>2, <6>1
        <5>4. Rows[i].block = i
          BY <5>3, RowIs
        <5> QED BY <5>1, <5>2, <5>4
      <4> QED BY <4>1
    <3> QED BY <2>1, <3>1, <3>2 DEF NewRow
  <2>2. CASE b \notin 1 .. NumRequests
    <3>1. NewRow[b] = OldRow(b)
      BY <2>2 DEF NewRow
    <3>2. conv_state[b] = OldRow(b)
      BY <2>2, OldBlocks
    <3> QED BY <2>2, <3>1, <3>2
  <2> QED BY <2>1, <2>2
<1> QED BY <1>2, <1>3

LEMMA StateAdvances ==
  ASSUME BatchIs, StateInv, batch' = batch, NEW W,
         conv_state' = [b \in Block |-> IF b \in 1 .. NumRequests /\ b \in W
                                          THEN RowOf(b) ELSE conv_state[b]],
         \A b \in 1 .. NumRequests :
           (Done(b)' <=> Done(b) \/ b \in W) \/ RowOf(b) = OldRow(b)
  PROVE  StateInv'
<1>1. NumRequests' = NumRequests /\ \A i : RowOf(i)' = RowOf(i)
  BY BatchFixed
<1>2. ASSUME NEW b \in Block
      PROVE  conv_state'[b] = IF b \in 1 .. NumRequests /\ Done(b)' THEN RowOf(b) ELSE OldRow(b)
  <2>1. conv_state[b] = IF b \in 1 .. NumRequests /\ Done(b) THEN RowOf(b) ELSE OldRow(b)
    BY DEF StateInv
  <2>2. conv_state'[b] = IF b \in 1 .. NumRequests /\ b \in W THEN RowOf(b) ELSE conv_state[b]
    OBVIOUS
  <2> QED BY <2>1, <2>2
<1>3. conv_state' = [b \in Block |-> IF b \in 1 .. NumRequests /\ Done(b)' THEN RowOf(b) ELSE OldRow(b)]
  BY <1>2
<1> QED BY <1>1, <1>3 DEF StateInv

-----------------------------------------------------------------------------
(***************************************************************************)
(* The speculative path.                                                   *)
(***************************************************************************)
LEMMA SpecPlaceIs ==
  ASSUME NEW n \in Nat, NEW rows, Lengths(rows, n), NEW q, Offsets(q, rows, n),
         q = QueryStartLoc(rows), \A k \in 1 .. n : rows[k].len <= SpecQueryLen,
         NEW x, Len(x) \in Nat, q[n] <= Len(x)
  PROVE  /\ SpecPlace(rows, x).real = 0 .. q[n] - 1
         /\ Places(SpecPlace(rows, x).row, SpecPlace(rows, x).col, q, n, Len(x))
<1> DEFINE found(p) == SearchSorted(q, n, p)
           start(p) == q[Min({found(p), n}) - 1]
           real == {p \in 0 .. Len(x) - 1 : p < q[n] /\ found(p) <= n}
           row == [p \in 0 .. Len(x) - 1 |-> IF p \in real THEN found(p) ELSE n + 1]
           col == [p \in 0 .. Len(x) - 1 |->
                     IF p \in real THEN Clamp(p - start(p), 0, SpecQueryLen - 1) ELSE 0]
<1>1. SpecPlace(rows, x).real = real /\ SpecPlace(rows, x).row = row /\ SpecPlace(rows, x).col = col
  <2>1. Len(rows) = n
    BY DEF Lengths
  <2>2. SpecPlace(rows, x) = [real |-> real, row |-> row, col |-> col]
    BY <2>1, Zenon DEF SpecPlace
  <2> HIDE DEF real, row, col
  <2> QED BY <2>2
<1>2. q[n] \in Nat
  BY DEF Offsets
<1>3. ASSUME NEW k \in 1 .. n, NEW p \in q[k - 1] .. q[k] - 1
      PROVE  p \in real /\ found(p) = k /\ p \in 0 .. Len(x) - 1 /\ col[p] = p - q[k - 1]
  <2>1. found(p) = k
    BY SearchSortedFinds
  <2>2. PICK a : a = q[k - 1]
    OBVIOUS
  <2>3. PICK len : len = rows[k].len
    OBVIOUS
  <2>4. a \in Nat /\ len \in Nat /\ q[k] = a + len /\ a + len <= q[n] /\ len <= SpecQueryLen
    <3>1. /\ q[k - 1] \in Nat /\ q[k] \in Nat /\ q[n] \in Nat /\ rows[k].len \in Nat
          /\ q[k] = q[k - 1] + rows[k].len /\ q[k] <= q[n]
      BY OffsetFacts
    <3>2. rows[k].len <= SpecQueryLen
      OBVIOUS
    <3> QED BY <2>2, <2>3, <3>1, <3>2
  <2>5. p \in a .. a + len - 1 /\ p \in 0 .. Len(x) - 1 /\ p < q[n]
    BY <1>2, <2>2, <2>4
  <2>6. p \in real
    BY <2>1, <2>5
  <2>7. Min({found(p), n}) = k
    <3>1. Min({k, n}) = k
      BY DEF Min
    <3> QED BY <2>1, <3>1
  <2>8. start(p) = a
    BY <2>2, <2>7
  <2> HIDE DEF start, real
  <2>9. Clamp(p - a, 0, SpecQueryLen - 1) = p - a
    <3>1. SpecQueryLen \in Nat
      BY Sizes
    <3> QED BY <2>4, <2>5, <3>1 DEF Clamp
  <2>10. col[p] = p - a
    BY <2>5, <2>6, <2>8, <2>9
  <2> QED BY <2>1, <2>2, <2>5, <2>6, <2>10
<1>4. real = 0 .. q[n] - 1
  <2>1. ASSUME NEW p \in 0 .. q[n] - 1 PROVE p \in real
    <3>1. PICK k \in 1 .. n : p \in q[k - 1] .. q[k] - 1
      BY RowOfToken
    <3> QED BY <1>3, <3>1
  <2>2. ASSUME NEW p \in real PROVE p \in 0 .. q[n] - 1
    BY <1>2
  <2> HIDE DEF real
  <2> QED BY <2>1, <2>2
<1>5. ASSUME NEW p \in q[n] .. Len(x) - 1 PROVE row[p] \notin 1 .. n
  <2>1. p \in 0 .. Len(x) - 1 /\ p \notin real
    BY <1>2, <1>4
  <2> HIDE DEF real
  <2>2. row[p] = n + 1
    BY <2>1
  <2> QED BY <2>2
<1>6. ASSUME NEW k \in 1 .. n, NEW p \in q[k - 1] .. q[k] - 1 PROVE row[p] = k
  <2>1. p \in real /\ found(p) = k /\ p \in 0 .. Len(x) - 1
    BY <1>3
  <2> HIDE DEF real, found
  <2> QED BY <2>1
<1> HIDE DEF real, row, col
<1>7. Places(row, col, q, n, Len(x))
  BY <1>3, <1>5, <1>6 DEF Places
<1> QED BY <1>1, <1>4, <1>7

\* What the speculative path computes for a row of its batch.
LEMMA SpecServes ==
  ASSUME BatchIs, StateInv, pc = "spec", HasSpec,
         NEW k \in 1 .. Count(SpecKinds), Index(SpecKinds)[k] <= NumRequests
  PROVE  Serves(SpecHistories(SpecRows, XSpec)[k], Index(SpecKinds)[k])
<1>1. PICK n \in Nat : n = Count(SpecKinds)
  BY PartIs
<1>2. PICK rows, q, x : rows = SpecRows /\ q = Starts(SpecKinds) /\ x = XSpec
  OBVIOUS
<1>3. /\ Lengths(rows, n) /\ Offsets(q, rows, n) /\ q = QueryStartLoc(rows) /\ Len(rows) = n
      /\ q[n] \in Nat /\ Len(x) \in Nat /\ q[n] <= Len(x)
  BY <1>1, <1>2, Paths, PartIs, SpecFeeds DEF Starts, Total
<1>4. PICK i \in 1 .. NumRequests : i = Index(SpecKinds)[k]
  <2>1. Index(SpecKinds)[k] \in 1 .. Len(Rows)
    BY PartIs
  <2> QED BY <2>1, RowsHaveLengths
<1>5. i \in 1 .. Len(Rows) /\ Rows[i].block = i /\ i \in Block
  BY <1>4, RequestBlocks
<1>6. rows[k] = Rows[i] /\ Rows[i].kind = "spec" /\ k \in 1 .. n
  BY <1>1, <1>2, <1>4, Paths, PartIs DEF SpecKinds
<1>7. PICK len \in Nat : len = Rows[i].len /\ len <= SpecQueryLen
  BY <1>5, <1>6, RowIs
<1>8. IsValid(Rows[i])
  BY <1>5, <1>4, RowIs
<1>9. \A j \in 1 .. n : rows[j].len <= SpecQueryLen
  <2> SUFFICES ASSUME NEW j \in 1 .. n PROVE rows[j].len <= SpecQueryLen
    OBVIOUS
  <2>1. PICK l \in 1 .. Len(Rows) : rows[j] = Rows[l] /\ rows[j].kind \in SpecKinds
    BY <1>1, <1>2, Paths, PartIs
  <2>2. Rows[l].kind = "spec"
    BY <2>1 DEF SpecKinds
  <2> QED BY <2>1, <2>2, RowIs
<1>10. PICK width \in Nat, m \in Nat : width = SpecQueryLen /\ m = n + 1
  BY Sizes
<1>11. PICK row, col : row = SpecPlace(rows, x).row /\ col = SpecPlace(rows, x).col
  OBVIOUS
<1>12. Places(row, col, q, n, Len(x))
  BY <1>3, <1>9, <1>11, SpecPlaceIs
<1>13. PICK packed : packed = Pack(x, m, width, row, col)
  OBVIOUS
<1>14. packed[k] = [c \in 1 .. width |-> IF c <= len THEN x[q[k - 1] + c] ELSE Zero]
  <2>1. n <= m /\ k \in 1 .. n /\ rows[k].len <= width /\ rows[k].len = len
    BY <1>6, <1>7, <1>10
  <2>2. packed[k] = [c \in 1 .. width |-> IF c <= rows[k].len THEN x[q[k - 1] + c] ELSE Zero]
    <3>1. Pack(x, m, width, row, col)[k]
            = [c \in 1 .. width |-> IF c <= rows[k].len THEN x[q[k - 1] + c] ELSE Zero]
      BY <1>3, <1>12, <2>1, PackIs, SMTT(60)
    <3> QED BY <1>13, <3>1
  <2> QED BY <2>1, <2>2
<1>15. Len(packed[k]) = width
  BY <1>14
<1>16. ASSUME NEW c \in 1 .. len PROVE packed[k][c] = Token(i, c - 1)
  <2>1. c \in 1 .. width /\ c - 1 \in 0 .. len - 1
    BY <1>7, <1>10
  <2>2. packed[k][c] = x[q[k - 1] + c]
    BY <1>14, <2>1
  <2>3. x[q[k - 1] + (c - 1) + 1] = Token(i, c - 1)
    BY <1>1, <1>2, <1>4, <1>6, <1>7, <2>1, Paths, SpecFeeds DEF Feeds
  <2>4. q[k - 1] + (c - 1) + 1 = q[k - 1] + c
    <3>1. q[k - 1] \in Nat
      BY <1>3, <1>6, OffsetFacts
    <3> QED BY <3>1
  <2> QED BY <2>2, <2>3, <2>4
<1>17. PICK window : window = [j \in 0 .. ConvStateLen - 1 |->
                                 IF k <= n /\ IsValid(rows[k])
                                   THEN conv_state[rows[k].block][RollbackOffset(rows[k].accepted) + j]
                                   ELSE Zero]
  OBVIOUS
<1>18. SpecHistories(rows, x)[k] = History(window, packed[k], width)
  <2>1. k \in 1 .. n + 1
    BY <1>6
  <2>2. SpecHistories(rows, x) = [l \in 1 .. n + 1 |->
          History([j \in 0 .. ConvStateLen - 1 |->
                     IF l <= n /\ IsValid(rows[l])
                       THEN conv_state[rows[l].block][RollbackOffset(rows[l].accepted) + j]
                       ELSE Zero],
                  packed[l], SpecQueryLen)]
    BY <1>3, <1>10, <1>11, <1>13, Zenon DEF SpecHistories
  <2> QED BY <1>10, <1>17, <2>1, <2>2, Zenon
<1>19. ASSUME NEW j \in 0 .. ConvStateLen - 1
       PROVE  window[j] = IF Rows[i].kind = "spec" THEN AcceptedWindow(i)[j] ELSE FirstWindow(i)[j]
  <2>1. conv_state[i] = OldRow(i)
    <3>1. ~Done(i)
      <4>1. Rows[i].kind = "spec" /\ pc = "spec"
        BY <1>6
      <4> QED BY <4>1 DEF Done
    <3> QED BY <1>5, <3>1, OldBlocks
  <2>2. window[j] = OldRow(i)[RollbackOffset(Rows[i].accepted) + j]
    <3>1. k <= n
      BY <1>6
    <3> QED BY <1>5, <1>6, <1>8, <1>17, <2>1, <3>1
  <2> QED BY <1>6, <2>2 DEF AcceptedWindow
<1>20. Serves(History(window, packed[k], width), i)
  <2>1. PICK y : y = packed[k]
    OBVIOUS
  <2>2. Rows[i].len <= width /\ Len(y) \in Nat /\ Rows[i].len <= Len(y)
        /\ \A c \in 1 .. Rows[i].len : y[c] = Token(i, c - 1)
    BY <1>7, <1>10, <1>15, <1>16, <2>1
  <2>3. Serves(History(window, y, width), i)
    BY <1>19, <2>2, ServesFrom
  <2> QED BY <2>1, <2>3
<1> QED BY <1>1, <1>2, <1>4, <1>18, <1>20

\* The invariants of what a step leaves alone.
LEMMA OutputFrame ==
  ASSUME pc' # "done"
  PROVE  OutputInv'
BY DEF OutputInv

LEMMA PathFrame ==
  ASSUME batch' = batch
  PROVE  /\ \A kinds, k : DeliversRow(kinds, spec_output, k)' <=> DeliversRow(kinds, spec_output', k)
         /\ \A kinds, k : DeliversRow(kinds, decode_output, k)' <=> DeliversRow(kinds, decode_output', k)
         /\ \A kinds, k : DeliversRow(kinds, prefill_output, k)' <=> DeliversRow(kinds, prefill_output', k)
         /\ \A kinds : Delivers(kinds, spec_output)' <=> Delivers(kinds, spec_output')
         /\ \A kinds : Delivers(kinds, decode_output)' <=> Delivers(kinds, decode_output')
         /\ \A kinds : Delivers(kinds, prefill_output)' <=> Delivers(kinds, prefill_output')
<1>1. /\ \A kinds : /\ Index(kinds)' = Index(kinds) /\ Count(kinds)' = Count(kinds)
                    /\ RowsOf(kinds)' = RowsOf(kinds) /\ Starts(kinds)' = Starts(kinds)
      /\ \A i, c : Out(i, c)' = Out(i, c)
  BY BatchFixed
<1>2. \A kinds, k : DeliversRow(kinds, spec_output, k)' <=> DeliversRow(kinds, spec_output', k)
  BY <1>1 DEF DeliversRow
<1>3. \A kinds, k : DeliversRow(kinds, decode_output, k)' <=> DeliversRow(kinds, decode_output', k)
  BY <1>1 DEF DeliversRow
<1>4. \A kinds, k : DeliversRow(kinds, prefill_output, k)' <=> DeliversRow(kinds, prefill_output', k)
  BY <1>1 DEF DeliversRow
<1>5. \A kinds : Delivers(kinds, spec_output)' <=> Delivers(kinds, spec_output')
  BY <1>1, <1>2 DEF Delivers
<1>6. \A kinds : Delivers(kinds, decode_output)' <=> Delivers(kinds, decode_output')
  BY <1>1, <1>3 DEF Delivers
<1>7. \A kinds : Delivers(kinds, prefill_output)' <=> Delivers(kinds, prefill_output')
  BY <1>1, <1>4 DEF Delivers
<1> QED BY <1>2, <1>3, <1>4, <1>5, <1>6, <1>7

LEMMA InvRunSpec ==
  ASSUME DispatchInv, RunSpec
  PROVE  DispatchInv'
<1>1. /\ BatchIs /\ ControlInv /\ StateInv /\ DecodeInv /\ PrefillInv
      /\ pc = "spec" /\ HasSpec /\ decode_output' = decode_output /\ batch' = batch /\ request' = request
      /\ pc' = (IF HasNonSpec THEN "decode" ELSE "merge")
      /\ prefill_output' = prefill_output
  BY DEF DispatchInv, RunSpec
<1>2. PICK n \in Nat : n = Count(SpecKinds)
  BY <1>1, PartIs
<1>3. PICK rows, q, x : rows = SpecRows /\ q = Starts(SpecKinds) /\ x = XSpec
  OBVIOUS
<1>4. PICK place, history : place = SpecPlace(rows, x) /\ history = SpecHistories(rows, x)
  OBVIOUS
<1>5. PICK new : new = [k \in DOMAIN rows |->
                          SpecRow(conv_state[rows[k].block], IsValid(rows[k]), history[k],
                                  [i \in 1 .. rows[k].len |-> Zero])]
  OBVIOUS
<1>6. /\ spec_output' = [i \in 1 .. Len(x) |->
           IF i - 1 \in place.real
             THEN ConvAt(history[place.row[i - 1]], place.col[i - 1]) ELSE ZeroOutput]
      /\ conv_state' \in IndexCopy(conv_state, rows, new)
  BY <1>3, <1>4, <1>5, ZenonT(60) DEF RunSpec
<1>7. /\ Lengths(rows, n) /\ Offsets(q, rows, n) /\ q = QueryStartLoc(rows)
      /\ rows = RowsOf(SpecKinds) /\ DOMAIN rows = 1 .. n
      /\ q[n] \in Nat /\ Len(x) \in Nat /\ q[n] <= Len(x) /\ q[n] = Total(SpecKinds)
  BY <1>1, <1>2, <1>3, Paths, PartIs, SpecFeeds DEF Starts, Total
<1>8. ASSUME NEW k \in 1 .. n
      PROVE  \E i \in 1 .. Len(Rows) : /\ i = Index(SpecKinds)[k] /\ rows[k] = Rows[i]
                                       /\ Rows[i].kind = "spec" /\ rows[k].len <= SpecQueryLen
  <2>1. PICK i \in 1 .. Len(Rows) :
          i = Index(SpecKinds)[k] /\ rows[k] = Rows[i] /\ rows[k].kind \in SpecKinds
    BY <1>1, <1>2, <1>7, PartIs
  <2>2. Rows[i].kind = "spec"
    BY <2>1 DEF SpecKinds
  <2>3. Rows[i].len <= SpecQueryLen
    BY <1>1, <2>2, RowIs
  <2> QED BY <2>1, <2>2, <2>3
<1>9. place.real = 0 .. q[n] - 1 /\ Places(place.row, place.col, q, n, Len(x))
  <2>1. \A k \in 1 .. n : rows[k].len <= SpecQueryLen
    BY <1>8
  <2>2. SpecPlace(rows, x).real = 0 .. q[n] - 1
        /\ Places(SpecPlace(rows, x).row, SpecPlace(rows, x).col, q, n, Len(x))
    <3>1. Lengths(rows, n) /\ Offsets(q, rows, n) /\ q = QueryStartLoc(rows)
      BY <1>7
    <3>2. Len(x) \in Nat /\ q[n] <= Len(x) /\ n \in Nat
      BY <1>7
    <3> QED BY ONLY <3>1, <3>2, <2>1, SpecPlaceIs, ZenonT(60)
  <2> QED BY <1>4, <2>2
<1>10. IsList(spec_output', Len(x))
  BY <1>6, <1>7 DEF IsList
<1>11. ASSUME NEW k \in 1 .. n PROVE DeliversRow(SpecKinds, spec_output', k)
  <2>1. PICK i \in 1 .. Len(Rows) : i = Index(SpecKinds)[k] /\ rows[k] = Rows[i] /\ Rows[i].kind = "spec"
    BY <1>8
  <2>2. ASSUME NEW c \in 0 .. rows[k].len - 1 PROVE spec_output'[q[k - 1] + c + 1] = Out(i, c)
    <3>1. PICK t : t = q[k - 1] + c + 1
      OBVIOUS
    <3>2. PICK a, len : a = q[k - 1] /\ len = rows[k].len
      OBVIOUS
    <3>3. a \in Nat /\ len \in Nat /\ q[k] = a + len /\ a + len <= q[n]
      BY <1>7, <3>2, OffsetFacts
    <3>4. t \in 1 .. Len(x) /\ t - 1 \in 0 .. q[n] - 1 /\ t - 1 \in a .. q[k] - 1 /\ t - 1 - a = c
      <4>1. PICK b, size : b = q[n] /\ size = Len(x)
        OBVIOUS
      <4>2. b \in Nat /\ size \in Nat /\ b <= size /\ a + len <= b /\ c \in 0 .. len - 1
        BY <1>7, <3>2, <3>3, <4>1
      <4>3. t = a + c + 1
        BY <3>1, <3>2
      <4> QED BY <3>3, <4>1, <4>2, <4>3
    <3>5. place.row[t - 1] = k /\ place.col[t - 1] = c
      BY <1>9, <3>2, <3>4 DEF Places
    <3>6. spec_output'[t] = ConvAt(history[k], c)
      BY <1>6, <1>9, <3>4, <3>5
    <3>7. i <= NumRequests
      <4>1. ~(i <= NumRequests) => Rows[i].len = 0
        BY <1>1, <2>1, RowIs
      <4> QED BY <2>1, <4>1
    <3>8. Serves(history[k], i)
      BY <1>1, <1>2, <1>3, <1>4, <2>1, <3>7, SpecServes
    <3>9. i \in 1 .. NumRequests /\ c \in 0 .. Rows[i].len - 1
      BY <1>1, <2>1, <3>7, RowsHaveLengths
    <3>10. ConvAt(history[k], c) = ConvAt(HistoryOf(i), c)
      BY <1>1, <3>8, <3>9, ServedOutput
    <3> QED BY <3>1, <3>6, <3>7, <3>10 DEF Out
  <2> QED BY <1>3, <1>7, <2>1, <2>2 DEF DeliversRow
<1>12. ASSUME NEW t \in Total(SpecKinds) + 1 .. Len(x) PROVE spec_output'[t] = ZeroOutput
  <2>1. t \in 1 .. Len(x) /\ t - 1 \notin 0 .. q[n] - 1
    BY <1>7
  <2> QED BY <1>6, <1>9, <2>1
<1>13. ASSUME NEW k \in 1 .. n PROVE new[k] = NewRow[rows[k].block]
  <2>1. PICK i \in 1 .. Len(Rows) : i = Index(SpecKinds)[k] /\ rows[k] = Rows[i] /\ Rows[i].kind = "spec"
    BY <1>8
  <2>2. new[k] = SpecRow(conv_state[Rows[i].block], IsValid(Rows[i]), history[k],
                         [c \in 1 .. Rows[i].len |-> Zero])
    BY <1>5, <1>7, <2>1
  <2>3. CASE i <= NumRequests
    <3>1. i \in 1 .. NumRequests
      BY <1>1, <2>3, RowsHaveLengths
    <3>2. Rows[i].block = i /\ i \in Block /\ IsValid(Rows[i]) = TRUE
      BY <1>1, <2>3, <3>1, RequestBlocks, RowIs
    <3>3. ~Done(i)
      BY <1>1, <2>1 DEF Done
    <3>4. conv_state[i] = OldRow(i)
      BY <1>1, <3>2, <3>3, OldBlocks
    <3>5. Serves(history[k], i)
      BY <1>1, <1>2, <1>3, <1>4, <2>1, <2>3, SpecServes
    <3>6. SpecRow(OldRow(i), TRUE, history[k], [c \in 1 .. Rows[i].len |-> Zero]) = RowOf(i)
      BY <1>1, <2>1, <3>1, <3>5, ServedSpecRow
    <3>7. new[k] = RowOf(i)
      BY <2>2, <3>2, <3>4, <3>6
    <3>8. NewRow[i] = RowOf(i)
      BY <3>1, <3>2 DEF NewRow
    <3> QED BY <2>1, <3>2, <3>7, <3>8
  <2>4. CASE ~(i <= NumRequests)
    <3>1. Rows[i].block = 0 /\ IsValid(Rows[i]) = FALSE /\ 0 \in Block
      BY <1>1, <2>4, RowIs
    <3>2. conv_state[0] = OldRow(0) /\ NewRow[0] = OldRow(0)
      BY <1>1, <3>1, OldBlocks DEF NewRow
    <3>3. new[k] = [p \in Position |-> OldRow(0)[p]]
      BY <2>2, <3>1, <3>2 DEF SpecRow
    <3>4. [p \in Position |-> OldRow(0)[p]] = OldRow(0)
      BY DEF OldRow
    <3> QED BY <2>1, <3>1, <3>2, <3>3, <3>4
  <2> QED BY <2>3, <2>4
<1>14. conv_state' = [b \in Block |-> IF b \in 1 .. NumRequests /\ b \in OfKind(SpecKinds)
                                        THEN RowOf(b) ELSE conv_state[b]]
  BY <1>1, <1>2, <1>6, <1>7, <1>13, CopyWritesPath
<1>15. StateInv'
  <2>1. ASSUME NEW b \in 1 .. NumRequests
        PROVE  Done(b)' <=> Done(b) \/ b \in OfKind(SpecKinds)
    <3>1. Rows' = Rows /\ Index(PrefillKinds)' = Index(PrefillKinds)
      BY <1>1, BatchFixed
    <3>2. request = 1 /\ ~\E k \in 1 .. request - 1 : Index(PrefillKinds)[k] = b
      BY <1>1 DEF ControlInv
    <3>3. ~Done(b)
      BY <1>1, <3>2 DEF Done
    <3>4. b \in OfKind(SpecKinds) <=> Rows[b].kind = "spec"
      BY <1>1, RequestBlocks, RowsHaveLengths DEF OfKind, SpecKinds
    <3>5. ~HasNonSpec => Rows[b].kind = "spec"
      BY <1>1, <3>4, Partition, RequestBlocks
    <3>6. Done(b)' <=> Rows[b].kind = "spec"
      <4>1. ~\E k \in 1 .. request' - 1 : Index(PrefillKinds)'[k] = b
        BY <1>1, <3>1, <3>2
      <4>2. CASE HasNonSpec
        BY <1>1, <3>1, <4>1, <4>2 DEF Done
      <4>3. CASE ~HasNonSpec
        BY <1>1, <3>1, <3>5, <4>3 DEF Done
      <4> QED BY <4>2, <4>3
    <3> QED BY <3>3, <3>4, <3>6
  <2> QED BY <1>1, <1>14, <2>1, StateAdvances
<1>16. SpecInv'
  <2>1. Delivers(SpecKinds, spec_output')
    BY <1>2, <1>11 DEF Delivers
  <2>2. XSpec' = XSpec /\ Total(SpecKinds)' = Total(SpecKinds)
    BY <1>1, BatchFixed
  <2>3. Delivers(SpecKinds, spec_output)'
    BY <1>1, <2>1, PathFrame
  <2>4. IsList(spec_output, Len(XSpec))'
    BY <1>3, <1>10, <2>2 DEF IsList
  <2> QED BY <1>3, <1>12, <2>2, <2>3, <2>4 DEF SpecInv
<1>17. ControlInv' /\ DecodeInv'
  <2>1. HasNonSpec' = HasNonSpec /\ OverBudget' = OverBudget /\ Count(PrefillKinds)' = Count(PrefillKinds)
    BY <1>1, BatchFixed
  <2>2. request = 1
    BY <1>1 DEF ControlInv
  <2>3. ControlInv'
    BY <1>1, <2>1, <2>2 DEF ControlInv
  <2>4. DecodeInv'
    BY <1>1, <2>1 DEF DecodeInv
  <2> QED BY <2>3, <2>4
<1>18. PrefillInv'
  <2>1. pc' = "merge" => Count(PrefillKinds) = 0
    <3>1. ~HasNonSpec => OfKind(PrefillKinds) = {}
      BY <1>1, Partition
    <3> QED BY <1>1, <3>1, PathIsEmpty
  <2>2. pc' = "merge" => Delivers(PrefillKinds, prefill_output')
    BY <2>1 DEF Delivers
  <2>3. Total(PrefillKinds)' = Total(PrefillKinds)
    BY <1>1, BatchFixed
  <2>4. IsList(prefill_output, Total(PrefillKinds))'
    BY <1>1, <2>3 DEF PrefillInv, IsList
  <2>5. pc' \in {"merge", "done"} => Delivers(PrefillKinds, prefill_output)'
    BY <1>1, <2>2, PathFrame
  <2> QED BY <1>1, <2>4, <2>5 DEF PrefillInv
<1>19. OutputInv' /\ BatchIs'
  BY <1>1, OutputFrame, BatchFixed
<1> QED BY <1>15, <1>16, <1>17, <1>18, <1>19 DEF DispatchInv

LEMMA StateStays ==
  ASSUME BatchIs, StateInv, batch' = batch, conv_state' = conv_state,
         \A b \in 1 .. NumRequests : (Done(b)' <=> Done(b)) \/ RowOf(b) = OldRow(b)
  PROVE  StateInv'
<1>1. conv_state' = [b \in Block |-> conv_state[b]]
  BY DEF StateInv
<1>2. PICK W : W = {}
  OBVIOUS
<1>3. conv_state' = [b \in Block |-> IF b \in 1 .. NumRequests /\ b \in W
                                       THEN RowOf(b) ELSE conv_state[b]]
  BY <1>1, <1>2
<1>4. \A b \in 1 .. NumRequests : (Done(b)' <=> Done(b) \/ b \in W) \/ RowOf(b) = OldRow(b)
  BY <1>2
<1> QED BY <1>3, <1>4, StateAdvances

LEMMA SpecFrame ==
  ASSUME SpecInv, pc # "spec", batch' = batch, spec_output' = spec_output
  PROVE  SpecInv'
<1>1. XSpec' = XSpec /\ Total(SpecKinds)' = Total(SpecKinds) /\ HasSpec' = HasSpec
  BY BatchFixed
<1>2. Delivers(SpecKinds, spec_output)' <=> Delivers(SpecKinds, spec_output)
  BY PathFrame
<1>3. IsList(spec_output, Len(XSpec))' <=> IsList(spec_output, Len(XSpec))
  BY <1>1 DEF IsList
<1> QED BY <1>1, <1>2, <1>3 DEF SpecInv

LEMMA DecodeFrame ==
  ASSUME DecodeInv, pc \notin {"spec", "decode"}, pc' \notin {"spec", "decode"},
         batch' = batch, decode_output' = decode_output
  PROVE  DecodeInv'
<1>1. Total(DecodeKinds)' = Total(DecodeKinds) /\ HasNonSpec' = HasNonSpec
  BY BatchFixed
<1>2. Delivers(DecodeKinds, decode_output)' <=> Delivers(DecodeKinds, decode_output)
  BY PathFrame
<1>3. IsList(decode_output, Total(DecodeKinds))' <=> IsList(decode_output, Total(DecodeKinds))
  BY <1>1 DEF IsList
<1> QED BY <1>1, <1>2, <1>3 DEF DecodeInv

LEMMA InvSkipSpec ==
  ASSUME DispatchInv, SkipSpec
  PROVE  DispatchInv'
<1>1. /\ BatchIs /\ ControlInv /\ StateInv /\ DecodeInv /\ PrefillInv
      /\ pc = "spec" /\ ~HasSpec /\ pc' = "decode" /\ batch' = batch /\ request' = request
      /\ conv_state' = conv_state /\ decode_output' = decode_output
      /\ prefill_output' = prefill_output
  BY DEF DispatchInv, SkipSpec
<1>2. /\ HasSpec' = HasSpec /\ HasNonSpec' = HasNonSpec /\ Rows' = Rows
      /\ Total(PrefillKinds)' = Total(PrefillKinds) /\ OverBudget' = OverBudget
      /\ Index(PrefillKinds)' = Index(PrefillKinds) /\ Count(PrefillKinds)' = Count(PrefillKinds)
  BY <1>1, BatchFixed
<1>3. HasNonSpec
  BY <1>1, Partition
<1>4. ControlInv'
  BY <1>1, <1>2, <1>3 DEF ControlInv
<1>5. StateInv'
  <2>1. ASSUME NEW b \in 1 .. NumRequests PROVE Done(b)' <=> Done(b)
    <3>1. Rows[b].kind # "spec"
      BY <1>1, Partition, RequestBlocks, RowsHaveLengths DEF OfKind, SpecKinds
    <3> QED BY <1>1, <1>2, <3>1 DEF Done
  <2> QED BY <1>1, <2>1, StateStays
<1>6. SpecInv' /\ DecodeInv'
  BY <1>1, <1>2 DEF SpecInv, DecodeInv
<1>7. PrefillInv'
  <2>1. IsList(prefill_output, Total(PrefillKinds))'
    BY <1>1, <1>2 DEF PrefillInv, IsList
  <2> QED BY <1>1, <2>1 DEF PrefillInv
<1>8. OutputInv' /\ BatchIs'
  BY <1>1, OutputFrame, BatchFixed
<1> QED BY <1>4, <1>5, <1>6, <1>7, <1>8 DEF DispatchInv

-----------------------------------------------------------------------------
(***************************************************************************)
(* The decode path.                                                        *)
(***************************************************************************)
LEMMA DecodeStarts ==
  ASSUME BatchIs
  PROVE  /\ \A k \in 0 .. Count(DecodeKinds) : Starts(DecodeKinds)[k] = k
         /\ \A k \in 1 .. Count(DecodeKinds) : RowsOf(DecodeKinds)[k].len = 1
         /\ Total(DecodeKinds) = Count(DecodeKinds)
<1> DEFINE n == Count(DecodeKinds)
           q == Starts(DecodeKinds)
<1>1. n \in Nat /\ Offsets(q, RowsOf(DecodeKinds), n)
  BY PartIs
<1>2. ASSUME NEW k \in 1 .. n PROVE RowsOf(DecodeKinds)[k].len = 1
  <2>1. PICK i \in 1 .. Len(Rows) : RowsOf(DecodeKinds)[k] = Rows[i] /\ RowsOf(DecodeKinds)[k].kind \in DecodeKinds
    BY PartIs
  <2>2. Rows[i].kind = "decode"
    BY <2>1 DEF DecodeKinds
  <2> QED BY <2>1, <2>2, RowIs
<1>3. q[0] = 0 /\ \A k \in 1 .. n : q[k] = q[k - 1] + 1
  BY <1>1, <1>2 DEF Offsets
<1> HIDE DEF n, q
<1> DEFINE wrong == {k \in 0 .. n : q[k] # k}
<1>4. wrong = {}
  <2> SUFFICES ASSUME wrong # {} PROVE FALSE
    OBVIOUS
  <2>1. wrong \in SUBSET Nat
    OBVIOUS
  <2>2. PICK k \in wrong : \A l \in wrong : k <= l
    BY <2>1, Least
  <2>3. k # 0
    BY <1>3, <2>2
  <2>4. k - 1 \in 0 .. n /\ k - 1 \notin wrong /\ k \in 1 .. n
    BY <1>1, <2>2, <2>3
  <2>5. q[k - 1] = k - 1
    BY <2>4
  <2>6. q[k] = k
    BY <1>3, <2>4, <2>5
  <2> QED BY <2>2, <2>6
<1>5. \A k \in 0 .. n : q[k] = k
  BY <1>4
<1>6. n \in 0 .. n
  BY <1>1
<1> QED BY <1>2, <1>5, <1>6 DEF n, q, Total

\* What the decode path computes for a row of its batch.
LEMMA DecodeServes ==
  ASSUME BatchIs, StateInv, pc = "decode", HasNonSpec,
         NEW k \in 1 .. Count(DecodeKinds), NEW i \in 1 .. NumRequests, i = Index(DecodeKinds)[k],
         NEW u, u = Rows[i].initial
  PROVE  Serves(History(InitialWindow(Rows[i], u), <<XDecode[k]>>, 1), i)
<1>1. i \in 1 .. Len(Rows) /\ Rows[i].block = i /\ i \in Block
  BY RequestBlocks
<1>2. RowsOf(DecodeKinds)[k] = Rows[i] /\ Rows[i].kind = "decode" /\ Rows[i].len = 1
  BY PartIs, DecodeStarts DEF DecodeKinds
<1>3. PICK x : x = <<XDecode[k]>>
  OBVIOUS
<1>4. x[1] = Token(i, 0)
  <2>1. k - 1 \in 0 .. Count(DecodeKinds) /\ k \in Nat
    BY PartIs
  <2>2. Starts(DecodeKinds)[k - 1] = k - 1
    BY <2>1, DecodeStarts
  <2>3. 0 \in 0 .. RowsOf(DecodeKinds)[k].len - 1
    BY <1>2
  <2>4. XDecode[Starts(DecodeKinds)[k - 1] + 0 + 1] = Token(Index(DecodeKinds)[k], 0)
    BY <2>3, DecodeFeeds DEF Feeds
  <2>5. Starts(DecodeKinds)[k - 1] + 0 + 1 = k
    BY <2>1, <2>2
  <2>6. XDecode[k] = Token(i, 0)
    BY <2>4, <2>5
  <2> QED BY <1>3, <2>6
<1>5. PICK window : window = InitialWindow(Rows[i], u)
  OBVIOUS
<1>6. ASSUME NEW j \in 0 .. ConvStateLen - 1
      PROVE  window[j] = IF Rows[i].kind = "spec" THEN AcceptedWindow(i)[j] ELSE FirstWindow(i)[j]
  <2>1. ~Done(i)
    <3>1. Rows[i].kind = "decode" /\ pc = "decode"
      BY <1>2
    <3> QED BY <3>1 DEF Done
  <2>2. conv_state[i] = OldRow(i)
    BY <1>1, <2>1, OldBlocks
  <2>3. window[j] = IF u THEN OldRow(i)[j] ELSE Zero
    BY <1>1, <1>5, <2>2 DEF InitialWindow
  <2> QED BY <1>2, <2>3 DEF FirstWindow
<1>7. /\ Len(x) = 1 /\ \A c \in 1 .. Rows[i].len : x[c] = Token(i, c - 1)
  <2>1. Len(x) = 1
    BY <1>3
  <2> QED BY <1>2, <1>4, <2>1
<1>8. Rows[i].len <= 1 /\ Rows[i].len <= Len(x) /\ Len(x) \in Nat /\ 1 \in Nat
  BY <1>2, <1>7
<1>9. Serves(History(window, x, 1), i)
  BY <1>6, <1>7, <1>8, ServesFrom
<1> QED BY <1>3, <1>5, <1>9

LEMMA InvRunDecode ==
  ASSUME DispatchInv, RunDecode
  PROVE  DispatchInv'
<1>1. /\ BatchIs /\ ControlInv /\ StateInv /\ SpecInv /\ PrefillInv
      /\ pc = "decode" /\ HasNonSpec /\ batch' = batch /\ request' = request
      /\ pc' = (IF PrefillRows # << >> THEN "prefill" ELSE "merge")
      /\ spec_output' = spec_output
      /\ prefill_output' = prefill_output
  BY DEF DispatchInv, RunDecode, ControlInv
<1>2. PICK n \in Nat : n = Count(DecodeKinds)
  BY <1>1, PartIs
<1>3. PICK rows : rows = DecodeRows
  OBVIOUS
<1>4. PICK masked \in BOOLEAN :
        LET initial(k) == IsValid(rows[k]) /\ (masked => rows[k].initial)
            history == [k \in DOMAIN rows |->
                          History(InitialWindow(rows[k], initial(k)), <<XDecode[k]>>, 1)]
            new == [k \in DOMAIN rows |-> [p \in Position |->
                      IF IsValid(rows[k]) /\ p < ConvStateLen
                        THEN history[k][p + 1] ELSE conv_state[rows[k].block][p]]]
        IN /\ masked \/ \A k \in DOMAIN rows : IsValid(rows[k]) => rows[k].initial
           /\ decode_output' = [k \in DOMAIN rows |->
                IF IsValid(rows[k]) THEN ConvAt(history[k], 0) ELSE ZeroOutput]
           /\ conv_state' \in IndexCopy(conv_state, rows, new)
  BY <1>3, ZenonT(60) DEF RunDecode
<1>5. PICK history : history =
        [k \in DOMAIN rows |->
           History(InitialWindow(rows[k], IsValid(rows[k]) /\ (masked => rows[k].initial)),
                   <<XDecode[k]>>, 1)]
  OBVIOUS
<1>6. PICK new : new =
        [k \in DOMAIN rows |-> [p \in Position |->
           IF IsValid(rows[k]) /\ p < ConvStateLen
             THEN history[k][p + 1] ELSE conv_state[rows[k].block][p]]]
  OBVIOUS
<1>7. /\ masked \/ \A k \in DOMAIN rows : IsValid(rows[k]) => rows[k].initial
      /\ decode_output' = [k \in DOMAIN rows |->
           IF IsValid(rows[k]) THEN ConvAt(history[k], 0) ELSE ZeroOutput]
      /\ conv_state' \in IndexCopy(conv_state, rows, new)
  BY <1>4, <1>5, <1>6, Zenon
<1>8. DOMAIN rows = 1 .. n /\ rows = RowsOf(DecodeKinds)
  BY <1>1, <1>2, <1>3, Paths, PartIs
<1>9. ASSUME NEW k \in 1 .. n
      PROVE  \E i \in 1 .. Len(Rows) : /\ i = Index(DecodeKinds)[k] /\ rows[k] = Rows[i]
                                       /\ Rows[i].kind = "decode" /\ Rows[i].len = 1
  <2>1. PICK i \in 1 .. Len(Rows) :
          i = Index(DecodeKinds)[k] /\ rows[k] = Rows[i] /\ rows[k].kind \in DecodeKinds
    BY <1>1, <1>2, <1>8, PartIs
  <2>2. Rows[i].kind = "decode"
    BY <2>1 DEF DecodeKinds
  <2>3. Rows[i].len = 1
    BY <1>1, <2>2, RowIs
  <2> QED BY <2>1, <2>2, <2>3
<1>10. ASSUME NEW k \in 1 .. n, NEW i \in 1 .. NumRequests, i = Index(DecodeKinds)[k], rows[k] = Rows[i]
       PROVE  Serves(history[k], i)
  <2>1. i \in 1 .. Len(Rows) /\ i <= NumRequests
    BY <1>1, RowsHaveLengths
  <2>2. IsValid(Rows[i]) /\ Rows[i].initial \in BOOLEAN
    BY <1>1, <2>1, RowIs
  <2>3. PICK u : u = (IsValid(rows[k]) /\ (masked => rows[k].initial))
    OBVIOUS
  <2>4. u = Rows[i].initial
    BY <1>7, <1>8, <1>10, <2>2, <2>3
  <2>5. Serves(History(InitialWindow(Rows[i], u), <<XDecode[k]>>, 1), i)
    BY <1>1, <1>2, <1>10, <2>4, DecodeServes
  <2>6. history[k] = History(InitialWindow(Rows[i], u), <<XDecode[k]>>, 1)
    BY <1>5, <1>8, <1>10, <2>3
  <2> QED BY <2>5, <2>6
<1>11. IsList(decode_output', Total(DecodeKinds))
  <2>1. Total(DecodeKinds) = n
    BY <1>1, <1>2, DecodeStarts
  <2> QED BY <1>7, <1>8, <2>1 DEF IsList
<1>12. ASSUME NEW k \in 1 .. n PROVE DeliversRow(DecodeKinds, decode_output', k)
  <2>1. PICK i \in 1 .. Len(Rows) : /\ i = Index(DecodeKinds)[k] /\ rows[k] = Rows[i]
                                    /\ Rows[i].kind = "decode" /\ Rows[i].len = 1
    BY <1>9
  <2>2. decode_output'[k] = Out(i, 0)
    <3>1. CASE i <= NumRequests
      <4>1. i \in 1 .. NumRequests /\ 0 \in 0 .. Rows[i].len - 1
        BY <1>1, <2>1, <3>1, RowsHaveLengths
      <4>2. Serves(history[k], i)
        BY <1>10, <2>1, <4>1
      <4>3. ConvAt(history[k], 0) = ConvAt(HistoryOf(i), 0)
        BY <1>1, <4>1, <4>2, ServedOutput
      <4>4. IsValid(rows[k])
        BY <1>1, <2>1, <3>1, RowIs
      <4>5. decode_output'[k] = ConvAt(history[k], 0)
        BY <1>7, <1>8, <4>4
      <4> QED BY <3>1, <4>3, <4>5 DEF Out
    <3>2. CASE ~(i <= NumRequests)
      <4>1. ~IsValid(rows[k])
        BY <1>1, <2>1, <3>2, RowIs
      <4>2. decode_output'[k] = ZeroOutput
        BY <1>7, <1>8, <4>1
      <4> QED BY <3>2, <4>2 DEF Out
    <3> QED BY <3>1, <3>2
  <2>3. ASSUME NEW c \in 0 .. RowsOf(DecodeKinds)[k].len - 1
        PROVE  decode_output'[Starts(DecodeKinds)[k - 1] + c + 1] = Out(i, c)
    <3>1. c = 0
      BY <1>8, <2>1
    <3>2. k - 1 \in 0 .. Count(DecodeKinds)
      BY <1>2
    <3>3. Starts(DecodeKinds)[k - 1] = k - 1
      BY <1>1, <3>2, DecodeStarts
    <3>4. Starts(DecodeKinds)[k - 1] + c + 1 = k
      BY <3>1, <3>3
    <3> QED BY <2>2, <3>1, <3>4
  <2> QED BY <2>1, <2>3 DEF DeliversRow
<1>13. ASSUME NEW k \in 1 .. n PROVE new[k] = NewRow[rows[k].block]
  <2>1. PICK i \in 1 .. Len(Rows) : /\ i = Index(DecodeKinds)[k] /\ rows[k] = Rows[i]
                                    /\ Rows[i].kind = "decode" /\ Rows[i].len = 1
    BY <1>9
  <2>2. new[k] = [p \in Position |-> IF IsValid(Rows[i]) /\ p < ConvStateLen
                                       THEN history[k][p + 1] ELSE conv_state[Rows[i].block][p]]
    BY <1>6, <1>8, <2>1
  <2>3. CASE i <= NumRequests
    <3>1. i \in 1 .. NumRequests
      BY <1>1, <2>3, RowsHaveLengths
    <3>2. Rows[i].block = i /\ i \in Block /\ IsValid(Rows[i])
      BY <1>1, <2>3, <3>1, RequestBlocks, RowIs
    <3>3. ~Done(i)
      BY <1>1, <2>1 DEF Done
    <3>4. conv_state[i] = OldRow(i)
      BY <1>1, <3>2, <3>3, OldBlocks
    <3>5. Serves(history[k], i)
      BY <1>10, <2>1, <3>1
    <3>6. [p \in Position |-> IF Rows[i].len > 0 /\ p < ConvStateLen
                                THEN history[k][Rows[i].len + p] ELSE OldRow(i)[p]] = RowOf(i)
      BY <1>1, <2>1, <3>1, <3>5, ServedPlainRow
    <3>7. ASSUME NEW p \in Position
          PROVE  (IF IsValid(Rows[i]) /\ p < ConvStateLen
                    THEN history[k][p + 1] ELSE conv_state[Rows[i].block][p])
                   = IF Rows[i].len > 0 /\ p < ConvStateLen
                       THEN history[k][Rows[i].len + p] ELSE OldRow(i)[p]
      <4>1. p \in Nat
        BY Sizes DEF Position
      <4>2. Rows[i].len + p = p + 1 /\ Rows[i].len > 0
        BY <2>1, <4>1
      <4> QED BY <3>2, <3>4, <4>2
    <3>8. new[k] = RowOf(i)
      BY <2>2, <3>6, <3>7
    <3>9. NewRow[i] = RowOf(i)
      BY <3>1, <3>2 DEF NewRow
    <3> QED BY <2>1, <3>2, <3>8, <3>9
  <2>4. CASE ~(i <= NumRequests)
    <3>1. Rows[i].block = 0 /\ ~IsValid(Rows[i]) /\ 0 \in Block
      BY <1>1, <2>4, RowIs
    <3>2. conv_state[0] = OldRow(0) /\ NewRow[0] = OldRow(0)
      BY <1>1, <3>1, OldBlocks DEF NewRow
    <3>3. new[k] = [p \in Position |-> OldRow(0)[p]]
      BY <2>2, <3>1, <3>2
    <3>4. [p \in Position |-> OldRow(0)[p]] = OldRow(0)
      BY DEF OldRow
    <3> QED BY <2>1, <3>1, <3>2, <3>3, <3>4
  <2> QED BY <2>3, <2>4
<1>14. conv_state' = [b \in Block |-> IF b \in 1 .. NumRequests /\ b \in OfKind(DecodeKinds)
                                        THEN RowOf(b) ELSE conv_state[b]]
  BY <1>1, <1>2, <1>7, <1>8, <1>13, CopyWritesPath
<1>15. PrefillRows = << >> => OfKind(PrefillKinds) = {} /\ Count(PrefillKinds) = 0
  BY <1>1, Paths, PathIsEmpty
<1>16. /\ Rows' = Rows /\ Index(PrefillKinds)' = Index(PrefillKinds) /\ HasNonSpec' = HasNonSpec
       /\ Count(PrefillKinds)' = Count(PrefillKinds) /\ OverBudget' = OverBudget
       /\ Total(PrefillKinds)' = Total(PrefillKinds) /\ Total(DecodeKinds)' = Total(DecodeKinds)
  BY <1>1, BatchFixed
<1>17. StateInv'
  <2>1. ASSUME NEW b \in 1 .. NumRequests
        PROVE  Done(b)' <=> Done(b) \/ b \in OfKind(DecodeKinds)
    <3>1. request = 1 /\ ~\E k \in 1 .. request - 1 : Index(PrefillKinds)[k] = b
      BY <1>1 DEF ControlInv
    <3>2. Done(b) <=> Rows[b].kind = "spec"
      BY <1>1, <3>1 DEF Done
    <3>3. b \in OfKind(DecodeKinds) <=> Rows[b].kind = "decode"
      BY <1>1, RequestBlocks, RowsHaveLengths DEF OfKind, DecodeKinds
    <3>4. PrefillRows = << >> => Rows[b].kind # "prefill"
      BY <1>1, <1>15, RequestBlocks, RowsHaveLengths DEF OfKind, PrefillKinds
    <3>5. Done(b)' <=> Rows[b].kind \in {"spec", "decode"}
      <4>1. ~\E k \in 1 .. request' - 1 : Index(PrefillKinds)'[k] = b
        BY <1>1, <1>16, <3>1
      <4>2. CASE PrefillRows # << >>
        BY <1>1, <1>16, <4>1, <4>2 DEF Done
      <4>3. CASE PrefillRows = << >>
        <5>1. Rows[b].kind \in {"spec", "decode"}
          BY <1>1, <3>4, <4>3, RequestBlocks DEF Kinds
        <5> QED BY <1>1, <1>16, <4>3, <5>1 DEF Done
      <4> QED BY <4>2, <4>3
    <3> QED BY <3>2, <3>3, <3>5
  <2> QED BY <1>1, <1>14, <2>1, StateAdvances
<1>18. DecodeInv'
  <2>1. Delivers(DecodeKinds, decode_output')
    BY <1>2, <1>12 DEF Delivers
  <2>2. Delivers(DecodeKinds, decode_output)'
    BY <1>1, <2>1, PathFrame
  <2>3. IsList(decode_output, Total(DecodeKinds))'
    BY <1>11, <1>16 DEF IsList
  <2> QED BY <1>1, <2>2, <2>3 DEF DecodeInv
<1>19. SpecInv'
  BY <1>1, SpecFrame
<1>20. ControlInv'
  <2>1. request = 1
    BY <1>1 DEF ControlInv
  <2> QED BY <1>1, <1>16, <2>1 DEF ControlInv
<1>21. PrefillInv'
  <2>1. pc' = "merge" => Delivers(PrefillKinds, prefill_output')
    BY <1>1, <1>15 DEF Delivers
  <2>2. IsList(prefill_output, Total(PrefillKinds))'
    BY <1>1, <1>16 DEF PrefillInv, IsList
  <2>3. pc' \in {"merge", "done"} => Delivers(PrefillKinds, prefill_output)'
    BY <1>1, <2>1, PathFrame
  <2>4. request' = 1
    BY <1>1 DEF ControlInv
  <2> QED BY <1>1, <2>2, <2>3, <2>4 DEF PrefillInv
<1>22. OutputInv' /\ BatchIs'
  BY <1>1, OutputFrame, BatchFixed
<1> QED BY <1>17, <1>18, <1>19, <1>20, <1>21, <1>22 DEF DispatchInv

LEMMA InvSkipDecode ==
  ASSUME DispatchInv, SkipDecode
  PROVE  DispatchInv'
<1>1. /\ BatchIs /\ ControlInv /\ StateInv /\ SpecInv /\ DecodeInv /\ PrefillInv
      /\ pc = "decode" /\ DecodeRows = << >> /\ pc' = "prefill" /\ batch' = batch
      /\ request' = request /\ conv_state' = conv_state /\ decode_output' = decode_output
      /\ spec_output' = spec_output
      /\ prefill_output' = prefill_output
  BY DEF DispatchInv, SkipDecode
<1>2. /\ HasNonSpec' = HasNonSpec /\ Rows' = Rows /\ Total(DecodeKinds)' = Total(DecodeKinds)
      /\ Total(PrefillKinds)' = Total(PrefillKinds) /\ OverBudget' = OverBudget
      /\ Index(PrefillKinds)' = Index(PrefillKinds) /\ Count(PrefillKinds)' = Count(PrefillKinds)
  BY <1>1, BatchFixed
<1>3. Count(DecodeKinds) = 0 /\ OfKind(DecodeKinds) = {} /\ Total(DecodeKinds) = 0
  BY <1>1, Paths, PathIsEmpty, DecodeStarts
<1>4. request = 1
  BY <1>1 DEF ControlInv
<1>5. ControlInv'
  BY <1>1, <1>2, <1>4 DEF ControlInv
<1>6. StateInv'
  <2>1. ASSUME NEW b \in 1 .. NumRequests PROVE Done(b)' <=> Done(b)
    <3>1. Rows[b].kind # "decode"
      BY <1>1, <1>3, RequestBlocks, RowsHaveLengths DEF OfKind, DecodeKinds
    <3> QED BY <1>1, <1>2, <3>1 DEF Done
  <2> QED BY <1>1, <2>1, StateStays
<1>7. DecodeInv'
  <2>1. IsList(decode_output', 0)
    BY <1>1 DEF DecodeInv, IsList
  <2>2. IsList(decode_output, Total(DecodeKinds))'
    BY <1>2, <1>3, <2>1 DEF IsList
  <2>3. Delivers(DecodeKinds, decode_output')
    BY <1>3 DEF Delivers
  <2>4. Delivers(DecodeKinds, decode_output)'
    BY <1>1, <2>3, PathFrame
  <2> QED BY <1>1, <2>2, <2>4 DEF DecodeInv
<1>8. PrefillInv'
  <2>1. IsList(prefill_output, Total(PrefillKinds))'
    BY <1>1, <1>2 DEF PrefillInv, IsList
  <2> QED BY <1>1, <1>4, <2>1 DEF PrefillInv
<1>9. SpecInv' /\ OutputInv' /\ BatchIs'
  BY <1>1, SpecFrame, OutputFrame, BatchFixed
<1> QED BY <1>5, <1>6, <1>7, <1>8, <1>9 DEF DispatchInv

-----------------------------------------------------------------------------
(***************************************************************************)
(* The prefill path: the core of its batched and its per-request form.     *)
(***************************************************************************)
LEMMA CorePlaces ==
  ASSUME NEW n \in Nat, NEW rows, Lengths(rows, n), NEW q, Offsets(q, rows, n),
         NEW size \in Nat, q[n] = size, NEW row, NEW col,
         row = [p \in 0 .. size - 1 |-> SearchSorted(q, n, p)],
         col = [p \in 0 .. size - 1 |-> p - q[row[p] - 1]]
  PROVE  Places(row, col, q, n, size)
<1>1. ASSUME NEW i \in 1 .. n, NEW p \in q[i - 1] .. q[i] - 1
      PROVE  row[p] = i /\ col[p] = p - q[i - 1]
  <2>1. PICK a, b : a = q[i - 1] /\ b = q[i]
    OBVIOUS
  <2>2. a \in Nat /\ b \in Nat /\ b <= size
    BY <2>1, OffsetFacts
  <2>3. p \in 0 .. size - 1
    BY <2>1, <2>2
  <2>4. row[p] = i
    BY <2>3, SearchSortedFinds
  <2> QED BY <2>3, <2>4
<1>2. q[n] .. size - 1 = {}
  OBVIOUS
<1> QED BY <1>1, <1>2 DEF Places

\* n rows, their offsets q, and their tokens x.
CoreInput(rows, q, n, x) ==
  Lengths(rows, n) /\ Offsets(q, rows, n) /\ q = QueryStartLoc(rows) /\ Len(x) \in Nat /\ q[n] = Len(x)

LEMMA CoreHistoryIs ==
  ASSUME NEW n \in Nat, NEW rows, NEW q, NEW x, CoreInput(rows, q, n, x),
         NEW width \in Nat, NEW k \in 1 .. n, rows[k].len <= width
  PROVE  CoreHistories(rows, x, width)[k]
           = History(InitialWindow(rows[k], IsValid(rows[k]) /\ rows[k].initial),
                     [c \in 1 .. width |-> IF c <= rows[k].len THEN x[q[k - 1] + c] ELSE Zero],
                     width)
<1> USE DEF CoreInput
<1>1. PICK size \in Nat : size = Len(x)
  OBVIOUS
<1>2. PICK row : row = [p \in 0 .. size - 1 |-> SearchSorted(q, n, p)]
  OBVIOUS
<1>3. PICK col : col = [p \in 0 .. size - 1 |-> p - q[row[p] - 1]]
  OBVIOUS
<1>4. Places(row, col, q, n, size)
  BY <1>1, <1>2, <1>3, CorePlaces
<1>5. Pack(x, n, width, row, col)[k]
        = [c \in 1 .. width |-> IF c <= rows[k].len THEN x[q[k - 1] + c] ELSE Zero]
  <2>1. q[n] <= Len(x) /\ n <= n
    BY <1>1
  <2>2. Places(row, col, q, n, Len(x))
    BY <1>1, <1>4
  <2> QED BY <2>1, <2>2, PackIs
<1>6. Len(rows) = n
  BY DEF Lengths
<1>7. CoreHistories(rows, x, width)
        = [l \in 1 .. n |->
             History(InitialWindow(rows[l], IsValid(rows[l]) /\ rows[l].initial),
                     Pack(x, n, width, row, col)[l], width)]
  BY <1>1, <1>2, <1>3, <1>6, Zenon DEF CoreHistories
<1> QED BY <1>5, <1>7, Zenon

\* The tokens of request i follow place a of x.
Reads(x, a, i) == \A c \in 0 .. Rows[i].len - 1 : x[a + c + 1] = Token(i, c)

\* What the core computes for a prefill whose tokens it is given.
LEMMA CoreServes ==
  ASSUME BatchIs, NEW n \in Nat, NEW rows, NEW q, NEW x, CoreInput(rows, q, n, x),
         NEW width \in Nat, NEW k \in 1 .. n, rows[k].len <= width,
         NEW i \in 1 .. NumRequests, rows[k] = Rows[i], Rows[i].kind = "prefill",
         conv_state[i] = OldRow(i), Reads(x, q[k - 1], i)
  PROVE  Serves(CoreHistories(rows, x, width)[k], i)
<1>1. i \in 1 .. Len(Rows) /\ Rows[i].block = i /\ i <= NumRequests
  BY RequestBlocks, RowsHaveLengths
<1>2. IsValid(Rows[i]) /\ Rows[i].initial \in BOOLEAN
  BY <1>1, RowIs
<1>3. PICK len \in Nat : len = Rows[i].len
  BY <1>1, RowIs
<1>4. PICK y : y = [c \in 1 .. width |-> IF c <= len THEN x[q[k - 1] + c] ELSE Zero]
  OBVIOUS
<1>5. PICK window : window = InitialWindow(rows[k], IsValid(rows[k]) /\ rows[k].initial)
  OBVIOUS
<1>6. CoreHistories(rows, x, width)[k] = History(window, y, width)
  <2>1. CoreHistories(rows, x, width)[k]
          = History(InitialWindow(rows[k], IsValid(rows[k]) /\ rows[k].initial),
                    [c \in 1 .. width |-> IF c <= rows[k].len THEN x[q[k - 1] + c] ELSE Zero],
                    width)
    BY CoreHistoryIs
  <2>2. rows[k].len = len
    BY <1>3
  <2> QED BY <1>4, <1>5, <2>1, <2>2, Zenon
<1>7. Rows[i].len <= width /\ Len(y) = width /\ Rows[i].len <= Len(y)
  BY <1>4
<1>8. ASSUME NEW c \in 1 .. Rows[i].len PROVE y[c] = Token(i, c - 1)
  <2>1. PICK a : a = q[k - 1]
    OBVIOUS
  <2>2. a \in Nat
    BY <2>1, OffsetFacts DEF CoreInput
  <2>3. c \in 1 .. width /\ c <= len /\ c - 1 \in 0 .. Rows[i].len - 1
    BY <1>3, <1>7
  <2>4. x[a + (c - 1) + 1] = Token(i, c - 1)
    BY <2>1, <2>3 DEF Reads
  <2>5. a + (c - 1) + 1 = a + c
    BY <2>2, <2>3
  <2>6. y[c] = x[a + c]
    BY <1>4, <2>1, <2>3
  <2> QED BY <2>4, <2>5, <2>6
<1>9. ASSUME NEW j \in 0 .. ConvStateLen - 1
      PROVE  window[j] = IF Rows[i].kind = "spec" THEN AcceptedWindow(i)[j] ELSE FirstWindow(i)[j]
  <2>1. window[j] = IF Rows[i].initial THEN OldRow(i)[j] ELSE Zero
    BY <1>1, <1>2, <1>5 DEF InitialWindow
  <2> QED BY <2>1 DEF FirstWindow
<1>10. Len(y) \in Nat
  BY <1>7
<1>11. Serves(History(window, y, width), i)
  BY <1>7, <1>8, <1>9, <1>10, ServesFrom
<1> QED BY <1>6, <1>11

LEMMA CoreOutputIs ==
  ASSUME NEW n \in Nat, NEW rows, NEW q, NEW x, CoreInput(rows, q, n, x), NEW width
  PROVE  /\ CoreOutput(rows, x, width) = [t \in 1 .. Len(x) |-> CoreOutput(rows, x, width)[t]]
         /\ \A k \in 1 .. n : \A c \in 0 .. rows[k].len - 1 :
              /\ q[k - 1] + c + 1 \in 1 .. Len(x)
              /\ CoreOutput(rows, x, width)[q[k - 1] + c + 1]
                   = IF IsValid(rows[k]) THEN ConvAt(CoreHistories(rows, x, width)[k], c) ELSE ZeroOutput
<1> DEFINE history == CoreHistories(rows, x, width)
           row(p) == SearchSorted(q, n, p)
           col(p) == p - q[row(p) - 1]
           cell(t) == IF col(t - 1) < rows[row(t - 1)].len /\ IsValid(rows[row(t - 1)])
                        THEN ConvAt(history[row(t - 1)], col(t - 1)) ELSE ZeroOutput
<1> USE DEF CoreInput
<1>1. Len(rows) = n
  BY DEF Lengths
<1>2. CoreOutput(rows, x, width) = [t \in 1 .. Len(x) |-> cell(t)]
  BY <1>1, Zenon DEF CoreOutput
<1>3. ASSUME NEW k \in 1 .. n, NEW c \in 0 .. rows[k].len - 1
      PROVE  /\ q[k - 1] + c + 1 \in 1 .. Len(x)
             /\ cell(q[k - 1] + c + 1)
                  = IF IsValid(rows[k]) THEN ConvAt(history[k], c) ELSE ZeroOutput
  <2>1. PICK a, b, len : a = q[k - 1] /\ b = q[k] /\ len = rows[k].len
    OBVIOUS
  <2>2. a \in Nat /\ len \in Nat /\ b = a + len /\ b <= Len(x)
    <3>1. /\ q[k - 1] \in Nat /\ q[k] \in Nat /\ q[n] \in Nat /\ rows[k].len \in Nat
          /\ q[k] = q[k - 1] + rows[k].len /\ q[k] <= q[n]
      BY OffsetFacts
    <3> QED BY <2>1, <3>1
  <2>3. PICK t : t = a + c + 1
    OBVIOUS
  <2>4. t \in 1 .. Len(x) /\ t - 1 \in a .. b - 1 /\ t - 1 - a = c /\ c < len
    <3>1. PICK size \in Nat : size = Len(x)
      OBVIOUS
    <3>2. c \in 0 .. len - 1 /\ b <= size
      BY <2>1, <2>2, <3>1
    <3> QED BY <2>2, <2>3, <3>1, <3>2
  <2>5. row(t - 1) = k
    BY <2>1, <2>4, SearchSortedFinds
  <2>6. col(t - 1) = c
    BY <2>1, <2>4, <2>5
  <2> HIDE DEF row, col, history
  <2>7. cell(t) = IF IsValid(rows[k]) THEN ConvAt(history[k], c) ELSE ZeroOutput
    BY <2>1, <2>4, <2>5, <2>6
  <2> QED BY <2>1, <2>3, <2>4, <2>7
<1> HIDE DEF cell, history
<1>4. CoreOutput(rows, x, width) = [t \in 1 .. Len(x) |-> CoreOutput(rows, x, width)[t]]
  BY <1>2
<1>5. ASSUME NEW k \in 1 .. n, NEW c \in 0 .. rows[k].len - 1
      PROVE  CoreOutput(rows, x, width)[q[k - 1] + c + 1]
               = IF IsValid(rows[k]) THEN ConvAt(history[k], c) ELSE ZeroOutput
  BY <1>2, <1>3
<1> QED BY <1>3, <1>4, <1>5 DEF history

LEMMA CoreRowOfRequest ==
  ASSUME BatchIs, NEW rows, NEW x, NEW width, NEW k \in DOMAIN rows,
         NEW i \in 1 .. NumRequests, rows[k] = Rows[i], Rows[i].kind = "prefill",
         conv_state[i] = OldRow(i), Serves(CoreHistories(rows, x, width)[k], i)
  PROVE  CoreRows(rows, x, width)[k] = NewRow[rows[k].block]
<1>1. i \in 1 .. Len(Rows) /\ Rows[i].block = i /\ i \in Block /\ i <= NumRequests
  BY RequestBlocks, RowsHaveLengths
<1>2. IsValid(Rows[i])
  BY <1>1, RowIs
<1>3. PICK h : h = CoreHistories(rows, x, width)[k]
  OBVIOUS
<1>4. CoreRows(rows, x, width)[k]
        = [p \in Position |-> IF IsValid(rows[k]) /\ rows[k].len > 0 /\ p < ConvStateLen
                                THEN CoreHistories(rows, x, width)[k][rows[k].len + p]
                                ELSE conv_state[rows[k].block][p]]
  BY Zenon DEF CoreRows
<1>5. CoreRows(rows, x, width)[k]
        = [p \in Position |-> IF Rows[i].len > 0 /\ p < ConvStateLen
                                THEN h[Rows[i].len + p] ELSE OldRow(i)[p]]
  BY <1>1, <1>2, <1>3, <1>4
<1>6. CoreRows(rows, x, width)[k] = RowOf(i)
  BY <1>3, <1>5, ServedPlainRow
<1> QED BY <1>1, <1>6 DEF NewRow

LEMMA CoreRowOfPadding ==
  ASSUME BatchIs, StateInv, NEW rows, NEW x, NEW width, NEW k \in DOMAIN rows,
         NEW i \in 1 .. Len(Rows), rows[k] = Rows[i], ~(i <= NumRequests)
  PROVE  CoreRows(rows, x, width)[k] = NewRow[rows[k].block]
<1>1. Rows[i].block = 0 /\ ~IsValid(Rows[i]) /\ 0 \in Block
  BY RowIs
<1>2. 0 \notin 1 .. NumRequests
  BY RowsHaveLengths
<1>3. conv_state[0] = OldRow(0) /\ NewRow[0] = OldRow(0)
  BY <1>1, <1>2, OldBlocks DEF NewRow
<1>4. CoreRows(rows, x, width)[k]
        = [p \in Position |-> IF IsValid(rows[k]) /\ rows[k].len > 0 /\ p < ConvStateLen
                                THEN CoreHistories(rows, x, width)[k][rows[k].len + p]
                                ELSE conv_state[rows[k].block][p]]
  BY Zenon DEF CoreRows
<1>5. CoreRows(rows, x, width)[k] = [p \in Position |-> OldRow(0)[p]]
  BY <1>1, <1>3, <1>4
<1>6. [p \in Position |-> OldRow(0)[p]] = OldRow(0)
  BY DEF OldRow
<1> QED BY <1>1, <1>3, <1>5, <1>6

\* An empty chunk leaves the row of its request.
LEMMA EmptyChunk ==
  ASSUME BatchIs, NEW i \in 1 .. NumRequests, Rows[i].kind = "prefill", Rows[i].len = 0
  PROVE  RowOf(i) = OldRow(i)
<1>1. PICK h : h = HistoryOf(i)
  OBVIOUS
<1>2. Serves(h, i)
  BY <1>1 DEF Serves
<1>3. [p \in Position |-> IF Rows[i].len > 0 /\ p < ConvStateLen
                            THEN h[Rows[i].len + p] ELSE OldRow(i)[p]] = RowOf(i)
  BY <1>2, ServedPlainRow
<1>4. [p \in Position |-> OldRow(i)[p]] = OldRow(i)
  BY DEF OldRow
<1> QED BY <1>3, <1>4

\* What is known of the rows of the prefill path.
LEMMA PrefillRowIs ==
  ASSUME BatchIs, NEW k \in 1 .. Count(PrefillKinds)
  PROVE  \E i \in 1 .. Len(Rows) : /\ i = Index(PrefillKinds)[k] /\ PrefillRows[k] = Rows[i]
                                   /\ Rows[i].kind = "prefill" /\ Rows[i].len \in Nat
                                   /\ ~(i <= NumRequests) => Rows[i].len = 0
<1>1. PICK i \in 1 .. Len(Rows) :
        i = Index(PrefillKinds)[k] /\ PrefillRows[k] = Rows[i] /\ PrefillRows[k].kind \in PrefillKinds
  BY Paths, PartIs
<1>2. Rows[i].kind = "prefill"
  BY <1>1 DEF PrefillKinds
<1>3. Rows[i].len \in Nat /\ (~(i <= NumRequests) => Rows[i].len = 0)
  BY <1>2, RowIs
<1> QED BY <1>1, <1>2, <1>3

LEMMA LongestIs ==
  ASSUME BatchIs, NumPrefillTokens > 0
  PROVE  /\ Count(PrefillKinds) \in Nat \ {0} /\ MaxPrefillQueryLen \in Nat
         /\ \A k \in 1 .. Count(PrefillKinds) : PrefillRows[k].len <= MaxPrefillQueryLen
         /\ Count(PrefillKinds) = 1 => MaxPrefillQueryLen = NumPrefillTokens
<1> DEFINE n == Count(PrefillKinds)
           q == Starts(PrefillKinds)
           lens == {PrefillRows[k].len : k \in DOMAIN PrefillRows}
<1>1. /\ n \in Nat /\ Lengths(PrefillRows, n) /\ Offsets(q, PrefillRows, n)
      /\ DOMAIN PrefillRows = 1 .. n /\ q[n] = NumPrefillTokens /\ NumPrefillTokens \in Nat
  BY Paths, PartIs, PrefillTokensAre DEF Total
<1>2. n # 0
  BY <1>1 DEF Offsets
<1>3. PICK size \in Nat : size = NumPrefillTokens
  BY <1>1
<1>4. ASSUME NEW l \in lens PROVE l \in Nat /\ l <= size
  <2>1. PICK k \in 1 .. n : l = PrefillRows[k].len
    BY <1>1
  <2>2. /\ q[k - 1] \in Nat /\ q[k] \in Nat /\ q[n] \in Nat /\ PrefillRows[k].len \in Nat
        /\ q[k] = q[k - 1] + PrefillRows[k].len /\ q[k] <= q[n]
    BY <1>1, OffsetFacts
  <2> QED BY <1>1, <1>3, <2>1, <2>2
<1>5. \E m \in lens : \A l \in lens : l <= m
  <2> DEFINE short == {size - l : l \in lens}
  <2>1. short \in SUBSET Nat
    <3>1. ASSUME NEW s \in short PROVE s \in Nat
      <4>1. PICK l \in lens : s = size - l
        OBVIOUS
      <4>2. l \in Nat /\ l <= size
        BY <1>4
      <4> QED BY <4>1, <4>2
    <3> QED BY <3>1
  <2>2. short # {}
    <3>1. 1 \in DOMAIN PrefillRows
      BY <1>1, <1>2
    <3> QED BY <3>1
  <2>3. PICK s \in short : \A t \in short : s <= t
    BY <2>1, <2>2, Least
  <2>4. PICK m \in lens : s = size - m
    BY <2>3
  <2>5. ASSUME NEW l \in lens PROVE l <= m
    <3>1. size - l \in short
      OBVIOUS
    <3>2. s <= size - l
      BY <2>3, <3>1
    <3> QED BY <1>4, <2>4, <3>2
  <2> QED BY <2>5
<1>6. MaxPrefillQueryLen \in lens /\ \A l \in lens : l <= MaxPrefillQueryLen
  <2>1. PICK M : M = MaxPrefillQueryLen
    OBVIOUS
  <2>2. M = CHOOSE m \in lens : \A l \in lens : m >= l
    BY <2>1 DEF MaxPrefillQueryLen, Max
  <2>3. \E m \in lens : \A l \in lens : m >= l
    BY <1>4, <1>5
  <2> HIDE DEF lens
  <2>4. M \in lens /\ \A l \in lens : M >= l
    BY <2>2, <2>3
  <2> QED BY <1>4, <2>1, <2>4
<1>7. \A k \in 1 .. n : PrefillRows[k].len <= MaxPrefillQueryLen
  BY <1>1, <1>6
<1>8. n = 1 => MaxPrefillQueryLen = NumPrefillTokens
  <2>1. ASSUME n = 1 PROVE MaxPrefillQueryLen = NumPrefillTokens
    <3>1. MaxPrefillQueryLen = PrefillRows[1].len
      BY <1>1, <1>6, <2>1
    <3>2. q[0] = 0 /\ q[1] = q[0] + PrefillRows[1].len /\ PrefillRows[1].len \in Nat
      <4>1. q[0] = 0 /\ \A k \in 1 .. n : q[k] = q[k - 1] + PrefillRows[k].len
        BY <1>1 DEF Offsets
      <4>2. 1 \in 1 .. n /\ 1 - 1 = 0
        BY <2>1
      <4>3. PrefillRows[1].len \in Nat
        BY <1>1, <4>2 DEF Lengths
      <4> QED BY <4>1, <4>2, <4>3
    <3>3. q[1] = NumPrefillTokens
      BY <1>1, <2>1
    <3> QED BY <3>1, <3>2, <3>3
  <2> QED BY <2>1
<1>9. MaxPrefillQueryLen \in Nat
  BY <1>4, <1>6
<1> QED BY <1>1, <1>2, <1>7, <1>8, <1>9

LEMMA PrefillIndex ==
  ASSUME BatchIs, NEW b \in 1 .. NumRequests, Rows[b].kind = "prefill"
  PROVE  \E k \in 1 .. Count(PrefillKinds) : Index(PrefillKinds)[k] = b
<1>1. b \in OfKind(PrefillKinds)
  BY RequestBlocks, RowsHaveLengths DEF OfKind, PrefillKinds
<1> QED BY <1>1, PartIs DEF Lists

LEMMA InvPrefillEmpty ==
  ASSUME DispatchInv, PrefillEmpty
  PROVE  DispatchInv'
<1>1. /\ BatchIs /\ ControlInv /\ StateInv /\ SpecInv /\ DecodeInv /\ PrefillInv
      /\ pc = "prefill" /\ NumPrefillTokens = 0 /\ pc' = "merge" /\ batch' = batch
      /\ request' = request /\ conv_state' = conv_state /\ decode_output' = decode_output
      /\ spec_output' = spec_output
      /\ prefill_output' = prefill_output
  BY DEF DispatchInv, PrefillEmpty
<1>2. /\ HasNonSpec' = HasNonSpec /\ Rows' = Rows /\ OverBudget' = OverBudget
      /\ Total(PrefillKinds)' = Total(PrefillKinds)
      /\ Index(PrefillKinds)' = Index(PrefillKinds) /\ Count(PrefillKinds)' = Count(PrefillKinds)
  BY <1>1, BatchFixed
<1>3. ASSUME NEW k \in 1 .. Count(PrefillKinds) PROVE RowsOf(PrefillKinds)[k].len = 0
  <2>1. /\ Starts(PrefillKinds)[k - 1] \in Nat /\ RowsOf(PrefillKinds)[k].len \in Nat
        /\ Starts(PrefillKinds)[k] = Starts(PrefillKinds)[k - 1] + RowsOf(PrefillKinds)[k].len
        /\ Starts(PrefillKinds)[k] <= Total(PrefillKinds)
    BY <1>1, PartIs, OffsetFacts DEF Total
  <2>2. Total(PrefillKinds) = 0
    BY <1>1, PrefillTokensAre
  <2> QED BY <2>1, <2>2
<1>4. ControlInv'
  BY <1>1, <1>2 DEF ControlInv
<1>5. StateInv'
  <2>1. ASSUME NEW b \in 1 .. NumRequests
        PROVE  (Done(b)' <=> Done(b)) \/ RowOf(b) = OldRow(b)
    <3>1. CASE Rows[b].kind = "prefill"
      <4>1. PICK k \in 1 .. Count(PrefillKinds) : Index(PrefillKinds)[k] = b
        BY <1>1, <3>1, PrefillIndex
      <4>2. RowsOf(PrefillKinds)[k] = Rows[b]
        BY <1>1, <4>1, PartIs
      <4>3. Rows[b].len = 0
        BY <1>3, <4>2
      <4> QED BY <1>1, <3>1, <4>3, EmptyChunk
    <3>2. CASE Rows[b].kind # "prefill"
      BY <1>1, <1>2, <3>2 DEF Done
    <3> QED BY <3>1, <3>2
  <2> QED BY <1>1, <2>1, StateStays
<1>6. PrefillInv'
  <2>1. IsList(prefill_output, Total(PrefillKinds))'
    BY <1>1, <1>2 DEF PrefillInv, IsList
  <2>2. ASSUME NEW k \in 1 .. Count(PrefillKinds) PROVE DeliversRow(PrefillKinds, prefill_output', k)
    <3>1. \A c : c \notin 0 .. RowsOf(PrefillKinds)[k].len - 1
      BY <1>3
    <3> QED BY <3>1 DEF DeliversRow
  <2>3. Delivers(PrefillKinds, prefill_output')
    BY <2>2 DEF Delivers
  <2>4. Delivers(PrefillKinds, prefill_output)'
    BY <1>1, <2>3, PathFrame
  <2> QED BY <1>1, <2>1, <2>4 DEF PrefillInv
<1>7. SpecInv' /\ DecodeInv' /\ OutputInv' /\ BatchIs'
  BY <1>1, SpecFrame, DecodeFrame, OutputFrame, BatchFixed
<1> QED BY <1>4, <1>5, <1>6, <1>7 DEF DispatchInv

LEMMA InvPrefillPacked ==
  ASSUME DispatchInv, PrefillPacked
  PROVE  DispatchInv'
<1>1. /\ BatchIs /\ ControlInv /\ StateInv /\ SpecInv /\ DecodeInv /\ PrefillInv
      /\ pc = "prefill" /\ NumPrefillTokens > 0 /\ ~OverBudget /\ pc' = "merge" /\ batch' = batch
      /\ request' = request /\ decode_output' = decode_output /\ spec_output' = spec_output
      /\ prefill_output' = CoreOutput(PrefillRows, XPrefill, MaxPrefillQueryLen)
      /\ conv_state' \in IndexCopy(conv_state, PrefillRows,
                                   CoreRows(PrefillRows, XPrefill, MaxPrefillQueryLen))
  BY DEF DispatchInv, PrefillPacked
<1>2. /\ HasNonSpec' = HasNonSpec /\ Rows' = Rows /\ OverBudget' = OverBudget
      /\ Total(PrefillKinds)' = Total(PrefillKinds) /\ NumPrefillTokens' = NumPrefillTokens
      /\ Index(PrefillKinds)' = Index(PrefillKinds) /\ Count(PrefillKinds)' = Count(PrefillKinds)
  BY <1>1, BatchFixed
<1>3. PICK n \in Nat \ {0} : n = Count(PrefillKinds)
  BY <1>1, LongestIs
<1>4. PICK width \in Nat : width = MaxPrefillQueryLen
  BY <1>1, LongestIs
<1>5. PICK rows, q, x : rows = PrefillRows /\ q = Starts(PrefillKinds) /\ x = XPrefill
  OBVIOUS
<1>6. HasNonSpec /\ request = 1
  BY <1>1 DEF ControlInv
<1>7. /\ Lengths(rows, n) /\ Offsets(q, rows, n) /\ q = QueryStartLoc(rows)
      /\ rows = RowsOf(PrefillKinds) /\ DOMAIN rows = 1 .. n
      /\ Total(PrefillKinds) \in Nat /\ q[n] = Total(PrefillKinds) /\ Len(x) = Total(PrefillKinds)
      /\ \A k \in 1 .. n : rows[k].len <= width
  <2>1. rows = RowsOf(PrefillKinds)
    BY <1>5, Paths
  <2>2. q = QueryStartLoc(rows) /\ q[n] = Total(PrefillKinds)
    BY <1>3, <1>5, <2>1 DEF Starts, Total
  <2>3. Lengths(rows, n) /\ Offsets(q, rows, n) /\ DOMAIN rows = 1 .. n
    BY <1>1, <1>3, <1>5, <2>1, PartIs
  <2>4. \A k \in 1 .. n : rows[k].len <= width
    BY <1>1, <1>3, <1>4, <1>5, LongestIs
  <2>5. Total(PrefillKinds) \in Nat /\ Len(x) = Total(PrefillKinds)
    BY <1>1, <1>5, <1>6, PrefillFeeds, PrefillTokensAre
  <2> QED BY <2>1, <2>2, <2>3, <2>4, <2>5
<1>8. PICK history, new : history = CoreHistories(rows, x, width) /\ new = CoreRows(rows, x, width)
  OBVIOUS
<1>9. ASSUME NEW k \in 1 .. n, NEW i \in 1 .. NumRequests, i = Index(PrefillKinds)[k], rows[k] = Rows[i],
             Rows[i].kind = "prefill"
      PROVE  conv_state[i] = OldRow(i) /\ Serves(history[k], i)
  <2>1. i \in Block
    BY <1>1, RequestBlocks
  <2>2. ~Done(i)
    BY <1>1, <1>6, <1>9 DEF Done
  <2>3. conv_state[i] = OldRow(i)
    BY <1>1, <2>1, <2>2, OldBlocks
  <2>4. Reads(x, q[k - 1], i)
    <3>1. \A c \in 0 .. rows[k].len - 1 : x[q[k - 1] + c + 1] = Token(i, c)
      BY <1>1, <1>3, <1>5, <1>6, <1>7, <1>9, PrefillFeeds DEF Feeds
    <3> QED BY <1>9, <3>1 DEF Reads
  <2>5. CoreInput(rows, q, n, x) /\ rows[k].len <= width
    BY <1>7 DEF CoreInput
  <2>6. Serves(CoreHistories(rows, x, width)[k], i)
    BY <1>1, <1>9, <2>3, <2>4, <2>5, CoreServes
  <2> QED BY <1>8, <2>3, <2>6
<1>10. /\ IsList(prefill_output', Total(PrefillKinds))
       /\ \A k \in 1 .. n : \A c \in 0 .. rows[k].len - 1 :
            prefill_output'[q[k - 1] + c + 1]
              = IF IsValid(rows[k]) THEN ConvAt(history[k], c) ELSE ZeroOutput
  <2>1. PICK f : f = CoreOutput(rows, x, width)
    OBVIOUS
  <2>2. prefill_output' = f
    BY <1>1, <1>4, <1>5, <2>1
  <2>3. CoreInput(rows, q, n, x) /\ q[n] = Len(x)
    BY <1>7 DEF CoreInput
  <2>4. /\ f = [t \in 1 .. Len(x) |-> f[t]]
        /\ \A k \in 1 .. n : \A c \in 0 .. rows[k].len - 1 :
             f[q[k - 1] + c + 1] = IF IsValid(rows[k]) THEN ConvAt(history[k], c) ELSE ZeroOutput
    BY <1>7, <1>8, <2>1, <2>3, CoreOutputIs
  <2> QED BY <1>7, <2>2, <2>4 DEF IsList
<1>11. ASSUME NEW k \in 1 .. n PROVE DeliversRow(PrefillKinds, prefill_output', k)
  <2>1. PICK i \in 1 .. Len(Rows) : /\ i = Index(PrefillKinds)[k] /\ rows[k] = Rows[i]
                                    /\ Rows[i].kind = "prefill" /\ Rows[i].len \in Nat
                                    /\ ~(i <= NumRequests) => Rows[i].len = 0
    BY <1>1, <1>3, <1>5, PrefillRowIs
  <2>2. ASSUME NEW c \in 0 .. rows[k].len - 1
        PROVE  prefill_output'[q[k - 1] + c + 1] = Out(i, c)
    <3>1. i <= NumRequests
      BY <2>1
    <3>2. i \in 1 .. NumRequests /\ c \in 0 .. Rows[i].len - 1
      BY <1>1, <2>1, <3>1, RowsHaveLengths
    <3>3. IsValid(rows[k])
      BY <1>1, <2>1, <3>1, RowIs
    <3>4. Serves(history[k], i)
      BY <1>9, <2>1, <3>2
    <3>5. ConvAt(history[k], c) = ConvAt(HistoryOf(i), c)
      BY <1>1, <3>2, <3>4, ServedOutput
    <3> QED BY <1>10, <3>1, <3>3, <3>5 DEF Out
  <2> QED BY <1>5, <1>7, <2>1, <2>2 DEF DeliversRow
<1>12. ASSUME NEW k \in 1 .. n PROVE new[k] = NewRow[rows[k].block]
  <2>1. PICK i \in 1 .. Len(Rows) : /\ i = Index(PrefillKinds)[k] /\ rows[k] = Rows[i]
                                    /\ Rows[i].kind = "prefill"
    BY <1>1, <1>3, <1>5, PrefillRowIs
  <2>2. k \in DOMAIN rows
    BY <1>7
  <2>3. CASE i <= NumRequests
    <3>1. i \in 1 .. NumRequests
      BY <1>1, <2>3, RowsHaveLengths
    <3>2. conv_state[i] = OldRow(i) /\ Serves(CoreHistories(rows, x, width)[k], i)
      BY <1>8, <1>9, <2>1, <3>1
    <3> QED BY <1>1, <1>8, <2>1, <2>2, <3>1, <3>2, CoreRowOfRequest
  <2>4. CASE ~(i <= NumRequests)
    BY <1>1, <1>8, <2>1, <2>2, <2>4, CoreRowOfPadding
  <2> QED BY <2>3, <2>4
<1>13. conv_state' = [b \in Block |-> IF b \in 1 .. NumRequests /\ b \in OfKind(PrefillKinds)
                                        THEN RowOf(b) ELSE conv_state[b]]
  <2>1. conv_state' \in IndexCopy(conv_state, RowsOf(PrefillKinds), new)
    BY <1>1, <1>4, <1>5, <1>7, <1>8
  <2> QED BY <1>1, <1>3, <1>7, <1>12, <2>1, CopyWritesPath
<1>14. StateInv'
  <2>1. ASSUME NEW b \in 1 .. NumRequests
        PROVE  Done(b)' <=> Done(b) \/ b \in OfKind(PrefillKinds)
    <3>1. b \in OfKind(PrefillKinds) <=> Rows[b].kind = "prefill"
      BY <1>1, RequestBlocks, RowsHaveLengths DEF OfKind, PrefillKinds
    <3>2. Rows[b].kind \in Kinds
      BY <1>1, RequestBlocks
    <3> QED BY <1>1, <1>2, <3>1, <3>2 DEF Done, Kinds
  <2> QED BY <1>1, <1>13, <2>1, StateAdvances
<1>15. ControlInv'
  BY <1>1, <1>2 DEF ControlInv
<1>16. PrefillInv'
  <2>1. Delivers(PrefillKinds, prefill_output')
    BY <1>3, <1>11 DEF Delivers
  <2>2. Delivers(PrefillKinds, prefill_output)'
    BY <1>1, <2>1, PathFrame
  <2>3. IsList(prefill_output, Total(PrefillKinds))'
    BY <1>2, <1>10 DEF IsList
  <2> QED BY <1>1, <2>2, <2>3 DEF PrefillInv
<1>17. SpecInv' /\ DecodeInv' /\ OutputInv' /\ BatchIs'
  BY <1>1, SpecFrame, DecodeFrame, OutputFrame, BatchFixed
<1> QED BY <1>14, <1>15, <1>16, <1>17 DEF DispatchInv

\* A path of one row.
LEMMA OneRow ==
  ASSUME NEW r, r.len \in Nat
  PROVE  /\ Lengths(<<r>>, 1) /\ Offsets(QueryStartLoc(<<r>>), <<r>>, 1)
         /\ QueryStartLoc(<<r>>)[0] = 0 /\ QueryStartLoc(<<r>>)[1] = r.len
<1>1. Lengths(<<r>>, 1)
  BY DEF Lengths
<1>2. Offsets(QueryStartLoc(<<r>>), <<r>>, 1)
  BY <1>1, QueryStartLocIs
<1>3. PICK q : q = QueryStartLoc(<<r>>)
  OBVIOUS
<1>4. q[0] = 0 /\ q[1] = q[0] + r.len
  <2>1. q[1] = q[1 - 1] + <<r>>[1].len /\ q[0] = 0
    BY <1>2, <1>3 DEF Offsets
  <2> QED BY <2>1
<1> QED BY <1>1, <1>2, <1>3, <1>4

\* The request the loop is at.
LEMMA RequestIs ==
  ASSUME DispatchInv, pc = "prefill", NumPrefillTokens > 0, OverBudget
  PROVE  /\ request \in 1 .. Count(PrefillKinds) /\ Count(PrefillKinds) \in Nat
         /\ Len(PrefillRows) = Count(PrefillKinds)
<1>1. BatchIs /\ ControlInv
  BY DEF DispatchInv
<1>2. Count(PrefillKinds) \in Nat /\ Len(PrefillRows) = Count(PrefillKinds)
  BY <1>1, PrefillTokensAre, PartIs
<1>3. Count(PrefillKinds) > 1
  BY <1>2 DEF OverBudget
<1> QED BY <1>1, <1>2, <1>3 DEF ControlInv

\* The row of request i and its outputs, at its own tokens, are written.
WritesRequest(i, start, len) ==
  /\ conv_state' = [b \in Block |-> IF b \in 1 .. NumRequests /\ b \in {i}
                                       THEN RowOf(b) ELSE conv_state[b]]
  /\ IsList(prefill_output', Total(PrefillKinds))
  /\ \A t \in 1 .. start : prefill_output'[t] = prefill_output[t]
  /\ \A c \in 0 .. len - 1 : prefill_output'[start + c + 1] = Out(i, c)

\* One request of the loop that has tokens.
LEMMA PrefillOneWrites ==
  ASSUME DispatchInv, PrefillOne,
         NEW i \in 1 .. NumRequests, i = Index(PrefillKinds)[request],
         PrefillRows[request] = Rows[i], Rows[i].kind = "prefill",
         NEW start \in Nat, start = Starts(PrefillKinds)[request - 1],
         NEW len \in Nat \ {0}, len = Rows[i].len
  PROVE  WritesRequest(i, start, len)
<1>1. /\ BatchIs /\ ControlInv /\ StateInv /\ pc = "prefill" /\ NumPrefillTokens > 0 /\ OverBudget
  BY DEF DispatchInv, PrefillOne
<1>2. PICK n \in Nat : n = Count(PrefillKinds)
  BY <1>1, RequestIs
<1>3. request \in 1 .. n /\ HasNonSpec
  BY <1>1, <1>2, RequestIs DEF ControlInv
<1>4. PICK size \in Nat : size = NumPrefillTokens /\ size = Total(PrefillKinds)
  BY <1>1, PrefillTokensAre
<1>5. start \in Nat /\ start + len <= size
  <2>1. /\ Lengths(RowsOf(PrefillKinds), n) /\ Offsets(Starts(PrefillKinds), RowsOf(PrefillKinds), n)
        /\ RowsOf(PrefillKinds)[request] = Rows[i]
    BY <1>1, <1>2, Paths, PartIs
  <2>2. /\ Starts(PrefillKinds)[request - 1] \in Nat
        /\ Starts(PrefillKinds)[request] = Starts(PrefillKinds)[request - 1] + len
        /\ Starts(PrefillKinds)[request] <= Starts(PrefillKinds)[n]
    BY <1>3, <2>1, OffsetFacts
  <2> QED BY <1>2, <1>4, <2>2 DEF Total
<1>6. PICK all : all = XPrefill
  OBVIOUS
<1>7. PICK x : x = SubSeq(all, start + 1, start + len)
  OBVIOUS
<1>8. PICK rows : rows = <<Rows[i]>>
  OBVIOUS
<1>9. /\ prefill_output' = [t \in 1 .. size |-> IF t \in start + 1 .. start + len
                              THEN CoreOutput(rows, x, len)[t - start] ELSE prefill_output[t]]
      /\ conv_state' \in IndexCopy(conv_state, rows, CoreRows(rows, x, len))
  <2>1. start = QueryStartLoc(PrefillRows)[request - 1]
    BY Paths DEF Starts
  <2>2. len # 0
    OBVIOUS
  <2> QED BY <1>4, <1>6, <1>7, <1>8, <2>1, <2>2, ZenonT(60) DEF PrefillOne
<1>10. Len(x) = len /\ x = [c \in 1 .. len |-> all[start + c]]
  <2>1. PICK a \in Int, b \in Int : a = start + 1 /\ b = start + len
    OBVIOUS
  <2>2. a <= b + 1 /\ b - a + 1 = len /\ \A c \in 1 .. len : a + c - 1 = start + c
    BY <2>1
  <2>3. /\ Len(SubSeq(all, a, b)) = b - a + 1
        /\ SubSeq(all, a, b) = [c \in 1 .. b - a + 1 |-> all[a + c - 1]]
    BY <2>2, SubSeqIs
  <2> QED BY <1>7, <2>1, <2>2, <2>3
<1>11. PICK q : q = QueryStartLoc(rows)
  OBVIOUS
<1>12. /\ Lengths(rows, 1) /\ Offsets(q, rows, 1) /\ q = QueryStartLoc(rows) /\ q[0] = 0 /\ q[1] = len
       /\ rows[1] = Rows[i] /\ DOMAIN rows = {1}
  BY <1>8, <1>11, OneRow
<1>13. Reads(x, q[1 - 1], i)
  <2>1. ASSUME NEW c \in 0 .. len - 1 PROVE x[0 + c + 1] = Token(i, c)
    <3>1. all[start + c + 1] = Token(i, c)
      BY <1>1, <1>2, <1>3, <1>6, Paths, PrefillFeeds DEF Feeds
    <3>2. x[c + 1] = all[start + (c + 1)]
      BY <1>10
    <3>3. start + (c + 1) = start + c + 1 /\ 0 + c + 1 = c + 1
      BY <1>5
    <3> QED BY <3>1, <3>2, <3>3
  <2> QED BY <1>12, <2>1 DEF Reads
<1>14. i \in Block /\ Rows[i].block = i /\ i \in 1 .. Len(Rows) /\ i <= NumRequests
  BY <1>1, RequestBlocks, RowsHaveLengths
<1>15. IsValid(Rows[i])
  BY <1>1, <1>14, RowIs
<1>16. conv_state[i] = OldRow(i)
  <2>1. ~Done(i)
    <3>1. ASSUME NEW k \in 1 .. request - 1 PROVE Index(PrefillKinds)[k] # i
      <4>1. Lists(Index(PrefillKinds), n, OfKind(PrefillKinds))
        BY <1>1, <1>2, PartIs
      <4>2. k \in 1 .. n /\ k < request
        BY <1>3
      <4>3. Index(PrefillKinds)[k] < Index(PrefillKinds)[request]
        BY <1>3, <4>1, <4>2 DEF Lists
      <4> QED BY <1>14, <4>3
    <3> QED BY <1>1, <3>1 DEF Done
  <2> QED BY <1>1, <1>14, <2>1, OldBlocks
<1>17. PICK h : h = CoreHistories(rows, x, len)[1]
  OBVIOUS
<1>18. Serves(CoreHistories(rows, x, len)[1], i)
  <2>1. PICK m \in Nat : m = 1
    OBVIOUS
  <2>2. PICK k \in 1 .. m : k = 1
    BY <2>1
  <2>3. /\ Lengths(rows, m) /\ Offsets(q, rows, m) /\ q = QueryStartLoc(rows) /\ Len(x) \in Nat
        /\ q[m] = Len(x) /\ rows[k].len <= len /\ len \in Nat /\ rows[k] = Rows[i]
        /\ Reads(x, q[k - 1], i)
    BY <1>10, <1>12, <1>13, <2>1, <2>2
  <2>4. CoreInput(rows, q, m, x)
    BY <2>3 DEF CoreInput
  <2>5. PICK width \in Nat : width = len
    OBVIOUS
  <2>6. rows[k].len <= width /\ rows[k] = Rows[i] /\ Reads(x, q[k - 1], i)
    BY <2>3, <2>5
  <2>7. Serves(CoreHistories(rows, x, width)[k], i)
    BY <1>1, <1>16, <2>4, <2>6, CoreServes
  <2> QED BY <2>2, <2>5, <2>7
<1>19. PICK f : f = CoreOutput(rows, x, len)
  OBVIOUS
<1>20. ASSUME NEW c \in 0 .. len - 1 PROVE f[c + 1] = Out(i, c)
  <2>1. PICK m \in Nat : m = 1
    OBVIOUS
  <2>2. CoreInput(rows, q, m, x)
    BY <1>10, <1>12, <2>1 DEF CoreInput
  <2>3. \A k \in 1 .. m : \A d \in 0 .. rows[k].len - 1 :
          CoreOutput(rows, x, len)[q[k - 1] + d + 1]
            = IF IsValid(rows[k]) THEN ConvAt(CoreHistories(rows, x, len)[k], d) ELSE ZeroOutput
    BY <2>2, CoreOutputIs
  <2>4. f[c + 1] = ConvAt(h, c)
    <3>1. 1 \in 1 .. m /\ c \in 0 .. rows[1].len - 1 /\ q[1 - 1] + c + 1 = c + 1
      BY <1>12, <2>1
    <3>2. f[q[1 - 1] + c + 1] = IF IsValid(rows[1]) THEN ConvAt(h, c) ELSE ZeroOutput
      BY <1>17, <1>19, <2>3, <3>1
    <3> QED BY <1>12, <1>15, <3>1, <3>2
  <2>5. ConvAt(h, c) = ConvAt(HistoryOf(i), c)
    BY <1>1, <1>17, <1>18, ServedOutput
  <2> QED BY <1>14, <2>4, <2>5 DEF Out
<1>21. conv_state' = [b \in Block |-> IF b \in 1 .. NumRequests /\ b \in {i}
                                        THEN RowOf(b) ELSE conv_state[b]]
  <2>1. PICK new : new = CoreRows(rows, x, len)
    OBVIOUS
  <2>2. 1 \in DOMAIN rows
    BY <1>12
  <2>3. new[1] = NewRow[rows[1].block]
    BY <1>1, <1>12, <1>16, <1>18, <2>1, <2>2, CoreRowOfRequest
  <2>4. PICK V, state : V = NewRow /\ state = conv_state
    OBVIOUS
  <2>5. conv_state' \in IndexCopy(state, rows, new) /\ \A k \in DOMAIN rows : new[k] = V[rows[k].block]
    BY <1>9, <1>12, <2>1, <2>3, <2>4
  <2>6. conv_state' = [b \in Block |-> IF \E k \in DOMAIN rows : rows[k].block = b
                                         THEN V[b] ELSE state[b]]
    BY <2>5, IndexCopyIs
  <2>7. ASSUME NEW b \in Block
        PROVE  (IF \E k \in DOMAIN rows : rows[k].block = b THEN V[b] ELSE state[b])
                 = IF b \in 1 .. NumRequests /\ b \in {i} THEN RowOf(b) ELSE conv_state[b]
    <3>1. (\E k \in DOMAIN rows : rows[k].block = b) <=> b = i
      BY <1>12, <1>14
    <3>2. b = i => NewRow[b] = RowOf(b)
      BY DEF NewRow
    <3> QED BY <2>4, <3>1, <3>2
  <2> QED BY <2>6, <2>7
<1>22. IsList(prefill_output', Total(PrefillKinds))
  BY <1>4, <1>9 DEF IsList
<1>23. ASSUME NEW t \in 1 .. start PROVE prefill_output'[t] = prefill_output[t]
  <2>1. t \in 1 .. size /\ t \notin start + 1 .. start + len
    BY <1>5
  <2> QED BY <1>9, <2>1
<1>24. ASSUME NEW c \in 0 .. len - 1 PROVE prefill_output'[start + c + 1] = Out(i, c)
  <2>1. PICK t : t = start + c + 1
    OBVIOUS
  <2>2. t \in 1 .. size /\ t \in start + 1 .. start + len /\ t - start = c + 1
    BY <1>5, <2>1
  <2>3. prefill_output'[t] = f[c + 1]
    BY <1>9, <1>19, <2>2
  <2> QED BY <1>20, <2>1, <2>3
<1> QED BY <1>9, <1>21, <1>22, <1>23, <1>24 DEF WritesRequest

LEMMA InvPrefillOne ==
  ASSUME DispatchInv, PrefillOne
  PROVE  DispatchInv'
<1>1. /\ BatchIs /\ ControlInv /\ StateInv /\ SpecInv /\ DecodeInv /\ PrefillInv
      /\ pc = "prefill" /\ NumPrefillTokens > 0 /\ OverBudget /\ batch' = batch
      /\ decode_output' = decode_output /\ spec_output' = spec_output
  BY DEF DispatchInv, PrefillOne
<1>2. /\ HasNonSpec' = HasNonSpec /\ Rows' = Rows /\ OverBudget' = OverBudget
      /\ Total(PrefillKinds)' = Total(PrefillKinds) /\ NumPrefillTokens' = NumPrefillTokens
      /\ Index(PrefillKinds)' = Index(PrefillKinds) /\ Count(PrefillKinds)' = Count(PrefillKinds)
  BY <1>1, BatchFixed
<1>3. PICK n \in Nat : n = Count(PrefillKinds)
  BY <1>1, RequestIs
<1>4. request \in 1 .. n /\ Len(PrefillRows) = n
  BY <1>1, <1>3, RequestIs
<1>5. /\ request = n => pc' = "merge" /\ request' = request
      /\ request # n => pc' = "prefill" /\ request' = request + 1
  BY <1>1, <1>4 DEF PrefillOne
<1>6. PICK i \in 1 .. Len(Rows) : /\ i = Index(PrefillKinds)[request] /\ PrefillRows[request] = Rows[i]
                                  /\ Rows[i].kind = "prefill" /\ Rows[i].len \in Nat
                                  /\ ~(i <= NumRequests) => Rows[i].len = 0
  BY <1>1, <1>3, <1>4, PrefillRowIs
<1>7. PICK start, len : start = Starts(PrefillKinds)[request - 1] /\ len = Rows[i].len
  OBVIOUS
<1>8. start \in Nat /\ len \in Nat
  <2>1. /\ Lengths(RowsOf(PrefillKinds), n) /\ Offsets(Starts(PrefillKinds), RowsOf(PrefillKinds), n)
    BY <1>1, <1>3, PartIs
  <2> QED BY <1>4, <1>6, <1>7, <2>1, OffsetFacts
\* What the step writes, whether the chunk is empty or not.
<1>9. len # 0 =>
        /\ conv_state' = [b \in Block |-> IF b \in 1 .. NumRequests /\ b \in {i}
                                            THEN RowOf(b) ELSE conv_state[b]]
        /\ IsList(prefill_output', Total(PrefillKinds))
        /\ \A t \in 1 .. start : prefill_output'[t] = prefill_output[t]
        /\ \A c \in 0 .. len - 1 : prefill_output'[start + c + 1] = Out(i, c)
  <2>1. ASSUME len # 0 PROVE WritesRequest(i, start, len)
    <3>1. i \in 1 .. NumRequests
      BY <1>1, <1>6, <1>7, <2>1, RowsHaveLengths
    <3>2. len \in Nat \ {0}
      BY <1>8, <2>1
    <3> QED BY <1>6, <1>7, <1>8, <3>1, <3>2, PrefillOneWrites
  <2> QED BY <2>1 DEF WritesRequest
<1>10. len = 0 => conv_state' = conv_state /\ prefill_output' = prefill_output
  BY <1>6, <1>7 DEF PrefillOne
<1>11. ASSUME NEW b \in 1 .. NumRequests PROVE Done(b)' <=> Done(b) \/ b = i
  <2>1. Rows[b].kind \in Kinds
    BY <1>1, RequestBlocks
  <2>2. CASE Rows[b].kind # "prefill"
    <3>1. b # i
      BY <1>6, <2>2
    <3>2. pc' \notin {"spec", "decode"}
      BY <1>5
    <3> QED BY <1>1, <1>2, <2>1, <2>2, <3>1, <3>2 DEF Done, Kinds
  <2>3. CASE Rows[b].kind = "prefill"
    <3>1. Done(b) <=> \E k \in 1 .. request - 1 : Index(PrefillKinds)[k] = b
      BY <1>1, <2>3 DEF Done
    <3>2. CASE request = n
      <4>1. Done(b)'
        BY <1>2, <1>5, <2>3, <3>2 DEF Done
      <4>2. PICK k \in 1 .. n : Index(PrefillKinds)[k] = b
        BY <1>1, <1>3, <2>3, PrefillIndex
      <4>3. k \in 1 .. request - 1 \/ k = request
        BY <3>2
      <4> QED BY <1>6, <3>1, <4>1, <4>2, <4>3
    <3>3. CASE request # n
      <4>1. Done(b)' <=> \E k \in 1 .. (request + 1) - 1 : Index(PrefillKinds)[k] = b
        BY <1>2, <1>5, <2>3, <3>3 DEF Done
      <4>2. \A k : k \in 1 .. (request + 1) - 1 <=> k \in 1 .. request - 1 \/ k = request
        BY <1>4
      <4> QED BY <1>6, <3>1, <4>1, <4>2
    <3> QED BY <3>2, <3>3
  <2> QED BY <2>2, <2>3
<1>12. StateInv'
  <2>1. CASE len = 0
    <3>1. ASSUME NEW b \in 1 .. NumRequests
          PROVE  (Done(b)' <=> Done(b)) \/ RowOf(b) = OldRow(b)
      <4>1. b = i => RowOf(b) = OldRow(b)
        BY <1>1, <1>6, <1>7, <2>1, EmptyChunk
      <4> QED BY <1>11, <4>1
    <3> QED BY <1>1, <1>10, <2>1, <3>1, StateStays
  <2>2. CASE len # 0
    <3>1. PICK W : W = {i}
      OBVIOUS
    <3>2. conv_state' = [b \in Block |-> IF b \in 1 .. NumRequests /\ b \in W
                                           THEN RowOf(b) ELSE conv_state[b]]
      BY <1>9, <2>2, <3>1
    <3>3. \A b \in 1 .. NumRequests : (Done(b)' <=> Done(b) \/ b \in W) \/ RowOf(b) = OldRow(b)
      BY <1>11, <3>1
    <3> QED BY <1>1, <3>2, <3>3, StateAdvances
  <2> QED BY <2>1, <2>2
<1>13. ControlInv'
  <2>1. request' \in Nat \ {0} /\ request' <= n
    BY <1>4, <1>5
  <2>2. pc' \in {"prefill", "merge"}
    BY <1>5
  <2> QED BY <1>1, <1>2, <1>3, <2>1, <2>2 DEF ControlInv
<1>14. ASSUME NEW k \in 1 .. request PROVE DeliversRow(PrefillKinds, prefill_output', k)
  <2>1. k \in 1 .. n
    BY <1>4
  <2>2. /\ RowsOf(PrefillKinds)[request] = Rows[i]
        /\ Lengths(RowsOf(PrefillKinds), n) /\ Offsets(Starts(PrefillKinds), RowsOf(PrefillKinds), n)
    BY <1>1, <1>3, <1>6, Paths, PartIs
  <2>3. CASE k = request
    <3>1. ASSUME NEW c \in 0 .. RowsOf(PrefillKinds)[k].len - 1
          PROVE  prefill_output'[Starts(PrefillKinds)[k - 1] + c + 1] = Out(Index(PrefillKinds)[k], c)
      <4>1. c \in 0 .. len - 1 /\ len # 0
        BY <1>7, <1>8, <2>2, <2>3
      <4> QED BY <1>6, <1>7, <1>9, <2>3, <4>1
    <3> QED BY <3>1 DEF DeliversRow
  <2>4. CASE k # request
    <3>1. k \in 1 .. request - 1
      BY <1>4, <2>4
    <3>2. DeliversRow(PrefillKinds, prefill_output, k)
      BY <1>1, <3>1 DEF PrefillInv
    <3>3. ASSUME NEW c \in 0 .. RowsOf(PrefillKinds)[k].len - 1
          PROVE  prefill_output'[Starts(PrefillKinds)[k - 1] + c + 1]
                   = prefill_output[Starts(PrefillKinds)[k - 1] + c + 1]
      <4>1. PICK t : t = Starts(PrefillKinds)[k - 1] + c + 1
        OBVIOUS
      <4>2. /\ Starts(PrefillKinds)[k - 1] \in Nat /\ RowsOf(PrefillKinds)[k].len \in Nat
            /\ Starts(PrefillKinds)[k] = Starts(PrefillKinds)[k - 1] + RowsOf(PrefillKinds)[k].len
        BY <2>1, <2>2, OffsetFacts
      <4>3. Starts(PrefillKinds)[k] <= start
        <5>1. k \in 0 .. n /\ request - 1 \in k .. n
          BY <1>4, <3>1
        <5> QED BY <1>7, <2>2, <5>1, OffsetsIncrease
      <4>4. t \in 1 .. start
        <5>1. PICK a \in Nat, l \in Nat : /\ a = Starts(PrefillKinds)[k - 1]
                                          /\ l = RowsOf(PrefillKinds)[k].len
          BY <4>2
        <5>2. t = a + c + 1 /\ c \in 0 .. l - 1 /\ a + l <= start
          BY <4>1, <4>2, <4>3, <5>1
        <5> QED BY <1>8, <5>2
      <4>5. prefill_output'[t] = prefill_output[t]
        BY <1>8, <1>9, <1>10, <4>4
      <4> QED BY <4>1, <4>5
    <3> QED BY <3>2, <3>3 DEF DeliversRow
  <2> QED BY <2>3, <2>4
<1>15. PrefillInv'
  <2>1. IsList(prefill_output', Total(PrefillKinds))
    BY <1>1, <1>9, <1>10 DEF PrefillInv
  <2>2. IsList(prefill_output, Total(PrefillKinds))'
    BY <1>2, <2>1 DEF IsList
  <2>3. CASE request = n
    <3>1. Delivers(PrefillKinds, prefill_output')
      BY <1>3, <1>14, <2>3 DEF Delivers
    <3>2. Delivers(PrefillKinds, prefill_output)'
      BY <1>1, <3>1, PathFrame
    <3> QED BY <1>5, <2>2, <2>3, <3>2 DEF PrefillInv
  <2>4. CASE request # n
    <3>1. ASSUME NEW k \in 1 .. request' - 1 PROVE DeliversRow(PrefillKinds, prefill_output, k)'
      <4>1. k \in 1 .. request
        BY <1>4, <1>5, <2>4
      <4>2. DeliversRow(PrefillKinds, prefill_output', k)
        BY <1>14, <4>1
      <4> QED BY <1>1, <4>2, PathFrame
    <3> QED BY <1>5, <2>2, <2>4, <3>1 DEF PrefillInv
  <2> QED BY <2>3, <2>4
<1>16. SpecInv' /\ DecodeInv' /\ OutputInv' /\ BatchIs'
  <2>1. pc' \notin {"spec", "decode", "done"}
    BY <1>5
  <2> QED BY <1>1, <2>1, SpecFrame, DecodeFrame, OutputFrame, BatchFixed
<1> QED BY <1>12, <1>13, <1>15, <1>16 DEF DispatchInv

-----------------------------------------------------------------------------
(***************************************************************************)
(* The merge.                                                              *)
(***************************************************************************)
\* h lists the m things of f, then the n of g.
Joins(h, f, m, g, n) ==
  /\ IsList(h, m + n)
  /\ \A i \in 1 .. m : h[i] = f[i]
  /\ \A i \in 1 .. n : h[m + i] = g[i]

LEMMA ConcatIs ==
  ASSUME NEW m \in Nat, NEW n \in Nat, NEW f, NEW g, IsList(f, m), IsList(g, n)
  PROVE  Joins(f \o g, f, m, g, n)
<1> DEFINE S == {f[i] : i \in 1 .. m} \union {g[i] : i \in 1 .. n}
<1>1. f \in [1 .. m -> S] /\ g \in [1 .. n -> S]
  BY DEF IsList
<1> HIDE DEF S
<1>2. f \in Seq(S) /\ g \in Seq(S) /\ Len(f) = m /\ Len(g) = n
  <2>1. f \in Seq(S) /\ Len(f) = m
    BY <1>1
  <2>2. g \in Seq(S) /\ Len(g) = n
    BY <1>1
  <2> QED BY <2>1, <2>2
<1>3. /\ f \o g \in Seq(S) /\ Len(f \o g) = m + n
      /\ \A i \in 1 .. m + n : (f \o g)[i] = IF i <= m THEN f[i] ELSE g[i - m]
  BY <1>2, ConcatProperties
<1>4. IsList(f \o g, m + n)
  BY <1>3 DEF IsList
<1>5. ASSUME NEW i \in 1 .. m PROVE (f \o g)[i] = f[i]
  BY <1>3
<1>6. ASSUME NEW i \in 1 .. n PROVE (f \o g)[m + i] = g[i]
  <2>1. PICK j : j = m + i
    OBVIOUS
  <2>2. j \in 1 .. m + n /\ ~(j <= m) /\ j - m = i
    BY <2>1
  <2> QED BY <1>3, <2>1, <2>2
<1> QED BY <1>4, <1>5, <1>6 DEF Joins

\* new is old with the m values at the places of T that index lists.
Scatters(new, old, n, index, m, T, values) ==
  /\ IsList(new, n)
  /\ \A i \in 1 .. m : index[i] < n => new[index[i] + 1] = values[i]
  /\ \A t \in 0 .. n - 1 : t \notin T => new[t + 1] = old[t + 1]

LEMMA ScatterIs ==
  ASSUME NEW n \in Nat, NEW old, DOMAIN old = 1 .. n, NEW m \in Nat, NEW T, T \subseteq Nat,
         NEW index, Lists(index, m, T), NEW values
  PROVE  Scatters(Scatter(old, index, values), old, n, index, m, T, values)
<1>1. /\ DOMAIN index = 1 .. m /\ \A i \in 1 .. m : index[i] \in T /\ index[i] \in Nat
      /\ \A i, j \in 1 .. m : i < j => index[i] < index[j]
  BY DEF Lists
<1>2. PICK new : new = Scatter(old, index, values)
  OBVIOUS
<1>3. new = [t \in 1 .. n |->
               IF \E i \in 1 .. m : index[i] = t - 1
                 THEN values[CHOOSE i \in 1 .. m : index[i] = t - 1] ELSE old[t]]
  BY <1>1, <1>2, Zenon DEF Scatter
<1>4. ASSUME NEW i \in 1 .. m, index[i] < n PROVE new[index[i] + 1] = values[i]
  <2>1. PICK t : t = index[i] + 1
    OBVIOUS
  <2>2. t \in 1 .. n /\ index[i] = t - 1
    BY <1>1, <1>4, <2>1
  <2>3. PICK l : l = CHOOSE j \in 1 .. m : index[j] = t - 1
    OBVIOUS
  <2>4. l \in 1 .. m /\ index[l] = t - 1
    BY <2>2, <2>3
  <2>5. l = i
    <3>1. ~(l < i) /\ ~(i < l)
      BY <1>1, <2>2, <2>4
    <3> QED BY <2>4, <3>1
  <2>6. new[t] = values[l]
    BY <1>3, <2>2, <2>3
  <2> QED BY <2>1, <2>5, <2>6
<1>5. ASSUME NEW t \in 0 .. n - 1, t \notin T PROVE new[t + 1] = old[t + 1]
  <2>1. PICK s : s = t + 1
    OBVIOUS
  <2>2. s \in 1 .. n /\ s - 1 = t
    BY <2>1
  <2>3. ~ \E i \in 1 .. m : index[i] = s - 1
    BY <1>1, <1>5, <2>2
  <2> QED BY <1>3, <2>1, <2>2, <2>3
<1>6. IsList(new, n)
  BY <1>3 DEF IsList
<1> QED BY <1>2, <1>4, <1>5, <1>6 DEF Scatters

\* The outputs of row i are listed with its tokens.
Lands(index, n, values, i) ==
  \A c \in 0 .. Rows[i].len - 1 : \E j \in 1 .. n : index[j] = Start[i - 1] + c /\ values[j] = Out(i, c)

\* The place of an output of row k of a path.
LEMMA PlaceOf ==
  ASSUME BatchIs, NEW kinds, NEW i \in OfKind(kinds), NEW c \in 0 .. Rows[i].len - 1
  PROVE  \E k \in 1 .. Count(kinds) : \E j \in 1 .. Total(kinds) :
           /\ i = Index(kinds)[k] /\ c \in 0 .. RowsOf(kinds)[k].len - 1
           /\ j = Starts(kinds)[k - 1] + c + 1
           /\ TokenIndex(kinds)[j] = Start[i - 1] + c
<1>1. PICK n \in Nat : n = Count(kinds)
  BY PartIs
<1>2. /\ Lists(Index(kinds), n, OfKind(kinds))
      /\ \A k \in 1 .. n : RowsOf(kinds)[k] = Rows[Index(kinds)[k]]
      /\ Lengths(RowsOf(kinds), n) /\ Offsets(Starts(kinds), RowsOf(kinds), n)
  BY <1>1, PartIs
<1>3. PICK k \in 1 .. n : Index(kinds)[k] = i
  BY <1>2 DEF Lists
<1>4. RowsOf(kinds)[k] = Rows[i]
  BY <1>2, <1>3
<1>5. /\ Starts(kinds)[k - 1] \in Nat /\ RowsOf(kinds)[k].len \in Nat /\ Total(kinds) \in Nat
      /\ Starts(kinds)[k - 1] + RowsOf(kinds)[k].len <= Total(kinds)
  BY <1>1, <1>2, OffsetFacts DEF Total
<1>6. PICK j : j = Starts(kinds)[k - 1] + c + 1
  OBVIOUS
<1>7. c \in 0 .. RowsOf(kinds)[k].len - 1
  BY <1>4
<1>8. j \in 1 .. Total(kinds)
  BY <1>5, <1>6, <1>7
<1>9. TokenIndex(kinds)[j] = Start[i - 1] + c
  BY <1>1, <1>3, <1>6, <1>7, TokenIndexIs
<1> QED BY <1>1, <1>3, <1>6, <1>7, <1>8, <1>9

LEMMA SpecLands ==
  ASSUME BatchIs, SpecInv, HasSpec, pc # "spec", NEW i \in OfKind(SpecKinds)
  PROVE  Lands(SpecTokenIndex, Total(SpecKinds), spec_output, i)
<1>1. ASSUME NEW c \in 0 .. Rows[i].len - 1
      PROVE  \E j \in 1 .. Total(SpecKinds) :
               SpecTokenIndex[j] = Start[i - 1] + c /\ spec_output[j] = Out(i, c)
  <2>1. PICK k \in 1 .. Count(SpecKinds), j \in 1 .. Total(SpecKinds) :
          /\ i = Index(SpecKinds)[k] /\ c \in 0 .. RowsOf(SpecKinds)[k].len - 1
          /\ j = Starts(SpecKinds)[k - 1] + c + 1
          /\ TokenIndex(SpecKinds)[j] = Start[i - 1] + c
    BY PlaceOf
  <2>2. DeliversRow(SpecKinds, spec_output, k)
    BY DEF SpecInv, Delivers
  <2>3. spec_output[j] = Out(i, c)
    BY <2>1, <2>2 DEF DeliversRow
  <2> QED BY <2>1, <2>3, Paths
<1> QED BY <1>1 DEF Lands

LEMMA NonSpecLands ==
  ASSUME BatchIs, DecodeInv, PrefillInv, HasNonSpec, pc = "merge",
         NEW i \in OfKind({"decode", "prefill"})
  PROVE  Lands(NonSpecTokenIndex, Total(DecodeKinds) + Total(PrefillKinds), NonSpecOutput, i)
<1>1. PICK m \in Nat, n \in Nat : m = Total(DecodeKinds) /\ n = Total(PrefillKinds)
  BY TokenIndexIs
<1>2. /\ IsList(decode_output, m) /\ Delivers(DecodeKinds, decode_output)
      /\ IsList(prefill_output, n) /\ Delivers(PrefillKinds, prefill_output)
  BY <1>1 DEF DecodeInv, PrefillInv
<1>3. PICK all : all = NonSpecOutput
  OBVIOUS
<1>4. Joins(all, decode_output, m, prefill_output, n)
  <2>1. PICK f, g : f = decode_output /\ g = prefill_output
    OBVIOUS
  <2>2. IsList(f, m) /\ IsList(g, n) /\ all = f \o g
    BY <1>2, <1>3, <2>1 DEF NonSpecOutput
  <2>3. Joins(f \o g, f, m, g, n)
    BY <2>2, ConcatIs
  <2> QED BY <2>1, <2>2, <2>3
<1>5. \A j \in 1 .. m + n : NonSpecTokenIndex[j] = IF j <= m THEN TokenIndex(DecodeKinds)[j]
                                                   ELSE TokenIndex(PrefillKinds)[j - m]
  BY <1>1, NonSpecIndexIs
<1>6. ASSUME NEW c \in 0 .. Rows[i].len - 1
      PROVE  \E j \in 1 .. m + n : NonSpecTokenIndex[j] = Start[i - 1] + c /\ all[j] = Out(i, c)
  <2>1. CASE i \in OfKind(DecodeKinds)
    <3>1. PICK k \in 1 .. Count(DecodeKinds), j \in 1 .. Total(DecodeKinds) :
            /\ i = Index(DecodeKinds)[k] /\ c \in 0 .. RowsOf(DecodeKinds)[k].len - 1
            /\ j = Starts(DecodeKinds)[k - 1] + c + 1
            /\ TokenIndex(DecodeKinds)[j] = Start[i - 1] + c
      BY <2>1, PlaceOf
    <3>2. DeliversRow(DecodeKinds, decode_output, k)
      BY <1>2 DEF Delivers
    <3>3. decode_output[j] = Out(i, c)
      BY <3>1, <3>2 DEF DeliversRow
    <3>4. j \in 1 .. m /\ j \in 1 .. m + n /\ j <= m
      BY <1>1
    <3>5. NonSpecTokenIndex[j] = Start[i - 1] + c
      BY <1>5, <3>1, <3>4
    <3>6. all[j] = decode_output[j]
      BY <1>4, <3>4 DEF Joins
    <3> QED BY <3>3, <3>4, <3>5, <3>6
  <2>2. CASE i \in OfKind(PrefillKinds)
    <3>1. PICK k \in 1 .. Count(PrefillKinds), j \in 1 .. Total(PrefillKinds) :
            /\ i = Index(PrefillKinds)[k] /\ c \in 0 .. RowsOf(PrefillKinds)[k].len - 1
            /\ j = Starts(PrefillKinds)[k - 1] + c + 1
            /\ TokenIndex(PrefillKinds)[j] = Start[i - 1] + c
      BY <2>2, PlaceOf
    <3>2. DeliversRow(PrefillKinds, prefill_output, k)
      BY <1>2 DEF Delivers
    <3>3. prefill_output[j] = Out(i, c)
      BY <3>1, <3>2 DEF DeliversRow
    <3>4. PICK l : l = m + j
      OBVIOUS
    <3>5. j \in 1 .. n /\ l \in 1 .. m + n /\ ~(l <= m) /\ l - m = j
      BY <1>1, <3>4
    <3>6. NonSpecTokenIndex[l] = Start[i - 1] + c
      BY <1>5, <3>1, <3>5
    <3>7. all[m + j] = prefill_output[j]
      BY <1>4, <3>5 DEF Joins
    <3>8. all[l] = Out(i, c)
      BY <3>3, <3>4, <3>7
    <3> QED BY <3>5, <3>6, <3>8
  <2> QED BY <2>1, <2>2, Partition
<1> QED BY <1>1, <1>3, <1>6 DEF Lands

\* No token belongs to rows of two paths.
LEMMA TokensDisjoint ==
  ASSUME BatchIs, NEW S, NEW T, S \subseteq 1 .. Len(Rows), T \subseteq 1 .. Len(Rows),
         S \intersect T = {}, NEW t \in TokensOf(Start, S)
  PROVE  t \notin TokensOf(Start, T)
<1> SUFFICES ASSUME t \in TokensOf(Start, T) PROVE FALSE
  OBVIOUS
<1>1. PICK i \in S : t \in Start[i - 1] .. Start[i] - 1
  BY DEF TokensOf
<1>2. PICK j \in T : t \in Start[j - 1] .. Start[j] - 1
  BY DEF TokensOf
<1>3. PICK N \in Nat : N = Len(Rows)
  BY RowsHaveLengths
<1>4. i \in 1 .. N /\ j \in 1 .. N /\ Lengths(Rows, N) /\ Offsets(Start, Rows, N)
  BY <1>3, RowsHaveLengths
<1>5. SearchSorted(Start, N, t) = i
  BY <1>1, <1>4, SearchSortedFinds
<1>6. SearchSorted(Start, N, t) = j
  BY <1>2, <1>4, SearchSortedFinds
<1> QED BY <1>5, <1>6

\* The place of column c of row i in the batch.
LEMMA PlaceInBatch ==
  ASSUME BatchIs, NEW i \in 1 .. Len(Rows), NEW c \in 0 .. Rows[i].len - 1
  PROVE  /\ Start[i - 1] + c \in 0 .. Start[Len(Rows)] - 1
         /\ \A S : i \in S => Start[i - 1] + c \in TokensOf(Start, S)
<1>1. PICK N \in Nat : N = Len(Rows)
  BY RowsHaveLengths
<1>2. i \in 1 .. N /\ Lengths(Rows, N) /\ Offsets(Start, Rows, N)
  BY <1>1, RowsHaveLengths
<1>3. PICK a, b, last, len : a = Start[i - 1] /\ b = Start[i] /\ last = Start[N] /\ len = Rows[i].len
  OBVIOUS
<1>4. a \in Nat /\ last \in Nat /\ len \in Nat /\ b = a + len /\ b <= last
  BY <1>2, <1>3, OffsetFacts
<1>5. c \in 0 .. len - 1
  BY <1>3
<1>6. a + c \in 0 .. last - 1 /\ a + c \in a .. b - 1
  BY <1>4, <1>5
<1>7. \A S : i \in S => Start[i - 1] + c \in TokensOf(Start, S)
  BY <1>3, <1>6 DEF TokensOf
<1> QED BY <1>1, <1>3, <1>6, <1>7

\* A batch of one kind of path is merged as it is.
LEMMA MergedAlone ==
  ASSUME BatchIs, NEW kinds, OfKind(kinds) = 1 .. Len(Rows),
         NEW f, IsList(f, NumActualTokens),
         \A i \in 1 .. Len(Rows) : Lands(TokenIndex(kinds), Start[Len(Rows)], f, i),
         \A t \in Start[Len(Rows)] + 1 .. NumActualTokens : f[t] = ZeroOutput
  PROVE  Merged(f)
<1>1. ASSUME NEW i \in 1 .. Len(Rows), NEW c \in 0 .. Rows[i].len - 1
      PROVE  f[Start[i - 1] + c + 1] = Out(i, c)
  <2>1. PICK t : t = Start[i - 1] + c
    OBVIOUS
  <2>2. PICK last \in Nat : last = Start[Len(Rows)]
    BY TokensAre
  <2>3. t \in 0 .. last - 1
    BY <2>1, <2>2, PlaceInBatch
  <2>4. PICK j \in 1 .. last : TokenIndex(kinds)[j] = t /\ f[j] = Out(i, c)
    BY <2>1, <2>2 DEF Lands
  <2>5. TokenIndex(kinds)[j] = j - 1
    BY <2>2, WholeBatch
  <2>6. j = t + 1
    BY <2>3, <2>4, <2>5
  <2> QED BY <2>1, <2>4, <2>6
<1> QED BY <1>1 DEF Merged

\* Both are scattered, each to its own tokens.
LEMMA MergedBoth ==
  ASSUME BatchIs, HasNonSpec, NEW blank, DOMAIN blank = 1 .. NumActualTokens,
         NEW f, NEW g,
         \A i \in OfKind(SpecKinds) : Lands(SpecTokenIndex, Total(SpecKinds), f, i),
         \A i \in OfKind({"decode", "prefill"}) :
           Lands(NonSpecTokenIndex, Total({"decode", "prefill"}), g, i)
  PROVE  Merged(Scatter(Scatter(blank, SpecTokenIndex, f), NonSpecTokenIndex, g))
<1> DEFINE both == {"decode", "prefill"}
           S == TokensOf(Start, OfKind(SpecKinds))
           T == TokensOf(Start, OfKind(both))
<1>1. PICK n \in Nat : n = NumActualTokens /\ n = Start[Len(Rows)]
  BY TokensAre
<1>2. PICK m1 \in Nat, m2 \in Nat : m1 = Total(SpecKinds) /\ m2 = Total(both)
  BY TokenIndexIs
<1>3. PICK index1, index2 : index1 = SpecTokenIndex /\ index2 = NonSpecTokenIndex
  OBVIOUS
<1>4. Lists(index1, m1, S) /\ Lists(index2, m2, T)
  BY <1>2, <1>3, Paths, TokenIndexIs DEF NonSpecTokenIndex
<1>5. /\ OfKind(SpecKinds) \subseteq 1 .. Len(Rows) /\ OfKind(both) \subseteq 1 .. Len(Rows)
      /\ OfKind(SpecKinds) \intersect OfKind(both) = {}
      /\ \A i \in 1 .. Len(Rows) : i \in OfKind(SpecKinds) \/ i \in OfKind(both)
  <2>1. OfKind(SpecKinds) \subseteq 1 .. Len(Rows) /\ OfKind(both) \subseteq 1 .. Len(Rows)
    BY PartIs
  <2> QED BY <2>1, Partition
<1>6. S \subseteq Nat /\ T \subseteq Nat
  <2>1. Start \in [0 .. Len(Rows) -> Nat]
    BY RowsHaveLengths DEF Offsets
  <2> QED BY <1>5, <2>1 DEF TokensOf
<1>7. \A t \in S : t \notin T
  BY <1>5, TokensDisjoint
<1>8. PICK inner, outer : inner = Scatter(blank, index1, f) /\ outer = Scatter(inner, index2, g)
  OBVIOUS
<1> HIDE DEF S, T
<1>9. Scatters(inner, blank, n, index1, m1, S, f)
  <2>1. DOMAIN blank = 1 .. n
    BY <1>1
  <2> QED BY <1>4, <1>6, <1>8, <2>1, ScatterIs
<1>10. DOMAIN inner = 1 .. n
  BY <1>9 DEF Scatters, IsList
<1>11. Scatters(outer, inner, n, index2, m2, T, g)
  BY <1>4, <1>6, <1>8, <1>10, ScatterIs
<1>12. ASSUME NEW i \in 1 .. Len(Rows), NEW c \in 0 .. Rows[i].len - 1
       PROVE  outer[Start[i - 1] + c + 1] = Out(i, c)
  <2>1. PICK t : t = Start[i - 1] + c
    OBVIOUS
  <2>2. t \in 0 .. n - 1
    BY <1>1, <2>1, PlaceInBatch
  <2>3. CASE i \in OfKind(both)
    <3>1. PICK j \in 1 .. m2 : index2[j] = t /\ g[j] = Out(i, c)
      BY <1>2, <1>3, <2>1, <2>3 DEF Lands
    <3>2. index2[j] < n
      BY <2>2, <3>1
    <3> QED BY <1>11, <2>1, <3>1, <3>2 DEF Scatters
  <2>4. CASE i \in OfKind(SpecKinds)
    <3>1. PICK j \in 1 .. m1 : index1[j] = t /\ f[j] = Out(i, c)
      BY <1>2, <1>3, <2>1, <2>4 DEF Lands
    <3>2. index1[j] < n
      BY <2>2, <3>1
    <3>3. t \in S
      BY <2>1, <2>4, PlaceInBatch DEF S
    <3>4. outer[t + 1] = inner[t + 1]
      BY <1>7, <1>11, <2>2, <3>3 DEF Scatters
    <3>5. inner[t + 1] = f[j]
      BY <1>9, <3>1, <3>2 DEF Scatters
    <3> QED BY <2>1, <3>1, <3>4, <3>5
  <2> QED BY <1>5, <2>3, <2>4
<1>13. \A t \in Start[Len(Rows)] + 1 .. NumActualTokens : outer[t] = ZeroOutput
  BY <1>1
<1>14. Merged(outer)
  BY <1>1, <1>11, <1>12, <1>13 DEF Merged, Scatters
<1> QED BY <1>3, <1>8, <1>14

LEMMA MergeIs ==
  ASSUME DispatchInv, Merge
  PROVE  Merged(output')
<1> DEFINE both == {"decode", "prefill"}
           SI == SpecTokenIndex
           NI == NonSpecTokenIndex
<1>1. /\ BatchIs /\ SpecInv /\ DecodeInv /\ PrefillInv /\ pc = "merge"
      /\ output' = IF HasSpec /\ HasNonSpec
                     THEN Scatter(Scatter([i \in 1 .. NumActualTokens |-> Uninitialized], SI, spec_output),
                                  NI, NonSpecOutput)
                     ELSE IF HasSpec THEN spec_output ELSE NonSpecOutput
  BY DEF DispatchInv, Merge
<1>2. Total(both) = Total(DecodeKinds) + Total(PrefillKinds)
  BY <1>1, NonSpecIndexIs
<1>3. HasSpec => \A i \in OfKind(SpecKinds) : Lands(SI, Total(SpecKinds), spec_output, i)
  BY <1>1, SpecLands
<1>4. HasNonSpec => \A i \in OfKind(both) : Lands(NI, Total(both), NonSpecOutput, i)
  BY <1>1, <1>2, NonSpecLands
<1>5. /\ HasSpec <=> OfKind(SpecKinds) # {}
      /\ HasNonSpec <=> OfKind(both) # {}
      /\ HasSpec \/ HasNonSpec
      /\ OfKind(SpecKinds) \union OfKind(both) = 1 .. Len(Rows)
  BY <1>1, Partition
<1>6. CASE HasSpec /\ HasNonSpec
  <2>1. PICK blank, f, g : /\ blank = [i \in 1 .. NumActualTokens |-> Uninitialized]
                           /\ f = spec_output /\ g = NonSpecOutput
    OBVIOUS
  <2>2. DOMAIN blank = 1 .. NumActualTokens
    BY <2>1
  <2>3. Merged(Scatter(Scatter(blank, SpecTokenIndex, f), NonSpecTokenIndex, g))
    BY <1>1, <1>3, <1>4, <1>6, <2>1, <2>2, MergedBoth
  <2> QED BY <1>1, <1>6, <2>1, <2>3
<1>7. CASE ~HasNonSpec
  <2>1. HasSpec /\ OfKind(SpecKinds) = 1 .. Len(Rows) /\ output' = spec_output
    BY <1>1, <1>5, <1>7
  <2>2. PICK f : f = spec_output
    OBVIOUS
  <2>3. Total(SpecKinds) = Start[Len(Rows)]
    BY <1>1, <2>1, WholeBatch DEF Total
  <2>4. Len(XSpec) = NumActualTokens
    BY <1>1, <1>7, <2>1, SpecFeeds
  <2>5. /\ IsList(f, NumActualTokens)
        /\ \A t \in Start[Len(Rows)] + 1 .. NumActualTokens : f[t] = ZeroOutput
    BY <1>1, <2>1, <2>2, <2>3, <2>4 DEF SpecInv
  <2>6. \A i \in 1 .. Len(Rows) : Lands(TokenIndex(SpecKinds), Start[Len(Rows)], f, i)
    BY <1>3, <2>1, <2>2, <2>3, Paths
  <2>7. Merged(f)
    BY <1>1, <2>1, <2>5, <2>6, MergedAlone
  <2> QED BY <2>1, <2>2, <2>7
<1>8. CASE ~HasSpec
  <2>1. HasNonSpec /\ OfKind(both) = 1 .. Len(Rows) /\ output' = NonSpecOutput
    BY <1>1, <1>5, <1>8
  <2>2. PICK f : f = NonSpecOutput
    OBVIOUS
  <2>3. Total(both) = Start[Len(Rows)]
    BY <1>1, <2>1, WholeBatch DEF Total
  <2>4. NumActualTokens = Start[Len(Rows)] /\ Start[Len(Rows)] \in Nat
    BY <1>1, <2>1, TokensAre
  <2>5. IsList(f, NumActualTokens)
    <3>1. PICK m \in Nat, n \in Nat : m = Total(DecodeKinds) /\ n = Total(PrefillKinds)
      BY <1>1, TokenIndexIs
    <3>2. PICK d, p : d = decode_output /\ p = prefill_output
      OBVIOUS
    <3>3. IsList(d, m) /\ IsList(p, n) /\ f = d \o p
      BY <1>1, <2>1, <2>2, <3>1, <3>2 DEF DecodeInv, PrefillInv, NonSpecOutput
    <3>4. Joins(d \o p, d, m, p, n)
      BY <3>3, ConcatIs
    <3> QED BY <1>2, <2>3, <2>4, <3>1, <3>3, <3>4 DEF Joins
  <2>6. \A t \in Start[Len(Rows)] + 1 .. NumActualTokens : f[t] = ZeroOutput
    BY <2>4
  <2>7. \A i \in 1 .. Len(Rows) : Lands(TokenIndex(both), Start[Len(Rows)], f, i)
    BY <1>4, <2>1, <2>2, <2>3 DEF NonSpecTokenIndex
  <2>8. Merged(f)
    BY <1>1, <2>1, <2>5, <2>6, <2>7, MergedAlone
  <2> QED BY <2>1, <2>2, <2>8
<1> QED BY <1>6, <1>7, <1>8

LEMMA InvMerge ==
  ASSUME DispatchInv, Merge
  PROVE  DispatchInv'
<1>1. /\ BatchIs /\ ControlInv /\ StateInv /\ SpecInv /\ DecodeInv /\ PrefillInv
      /\ pc = "merge" /\ pc' = "done" /\ batch' = batch /\ request' = request
      /\ conv_state' = conv_state /\ spec_output' = spec_output
      /\ decode_output' = decode_output /\ prefill_output' = prefill_output
  BY DEF DispatchInv, Merge
<1>2. /\ HasNonSpec' = HasNonSpec /\ Rows' = Rows /\ OverBudget' = OverBudget /\ Start' = Start
      /\ Total(PrefillKinds)' = Total(PrefillKinds) /\ NumActualTokens' = NumActualTokens
      /\ Index(PrefillKinds)' = Index(PrefillKinds) /\ Count(PrefillKinds)' = Count(PrefillKinds)
      /\ \A i, c : Out(i, c)' = Out(i, c)
  BY <1>1, BatchFixed
<1>3. ControlInv'
  BY <1>1, <1>2 DEF ControlInv
<1>4. StateInv'
  <2>1. \A b \in 1 .. NumRequests : Done(b)' <=> Done(b)
    BY <1>1, <1>2 DEF Done
  <2> QED BY <1>1, <2>1, StateStays
<1>5. PrefillInv'
  <2>1. IsList(prefill_output, Total(PrefillKinds))'
    BY <1>1, <1>2 DEF PrefillInv, IsList
  <2>2. Delivers(PrefillKinds, prefill_output)'
    BY <1>1, PathFrame DEF PrefillInv
  <2> QED BY <1>1, <2>1, <2>2 DEF PrefillInv
<1>6. OutputInv'
  <2>1. PICK f : f = output'
    OBVIOUS
  <2>2. Merged(f)
    BY <2>1, MergeIs
  <2>3. Merged(f)'
    BY <1>2, <2>2 DEF Merged
  <2> QED BY <1>2, <2>1, <2>2 DEF OutputInv, Merged, IsList
<1>7. SpecInv' /\ DecodeInv' /\ BatchIs'
  BY <1>1, SpecFrame, DecodeFrame, BatchFixed
<1> QED BY <1>3, <1>4, <1>5, <1>6, <1>7 DEF DispatchInv

LEMMA InvStays ==
  ASSUME DispatchInv, UNCHANGED vars
  PROVE  DispatchInv'
<1>1. /\ BatchIs /\ ControlInv /\ StateInv /\ SpecInv /\ DecodeInv /\ PrefillInv /\ OutputInv
      /\ pc' = pc /\ batch' = batch /\ request' = request
      /\ conv_state' = conv_state /\ spec_output' = spec_output /\ output' = output
      /\ decode_output' = decode_output /\ prefill_output' = prefill_output
  BY DEF DispatchInv, vars
<1>2. /\ HasSpec' = HasSpec /\ HasNonSpec' = HasNonSpec /\ Rows' = Rows /\ OverBudget' = OverBudget
      /\ Start' = Start /\ XSpec' = XSpec
      /\ \A kinds : Total(kinds)' = Total(kinds)
      /\ NumActualTokens' = NumActualTokens
      /\ Index(PrefillKinds)' = Index(PrefillKinds) /\ Count(PrefillKinds)' = Count(PrefillKinds)
      /\ \A i, c : Out(i, c)' = Out(i, c)
  BY <1>1, BatchFixed
<1>3. ControlInv'
  BY <1>1, <1>2 DEF ControlInv
<1>4. StateInv'
  <2>1. \A b \in 1 .. NumRequests : Done(b)' <=> Done(b)
    BY <1>1, <1>2 DEF Done
  <2> QED BY <1>1, <2>1, StateStays
<1>5. /\ \A kinds, k : DeliversRow(kinds, prefill_output, k)' <=> DeliversRow(kinds, prefill_output, k)
      /\ Delivers(SpecKinds, spec_output)' <=> Delivers(SpecKinds, spec_output)
      /\ Delivers(DecodeKinds, decode_output)' <=> Delivers(DecodeKinds, decode_output)
      /\ Delivers(PrefillKinds, prefill_output)' <=> Delivers(PrefillKinds, prefill_output)
  BY <1>1, PathFrame
<1>6. SpecInv'
  BY <1>1, <1>2, <1>5 DEF SpecInv, IsList
<1>7. DecodeInv'
  BY <1>1, <1>2, <1>5 DEF DecodeInv, IsList
<1>8. PrefillInv'
  BY <1>1, <1>2, <1>5 DEF PrefillInv, IsList
<1>9. OutputInv'
  BY <1>1, <1>2 DEF OutputInv, Merged, IsList
<1>10. BatchIs'
  BY <1>1, BatchFixed
<1> QED BY <1>3, <1>4, <1>6, <1>7, <1>8, <1>9, <1>10 DEF DispatchInv

LEMMA Invariance == Spec => []DispatchInv
<1>1. Init => DispatchInv
  BY InvInit
<1>2. DispatchInv /\ [Next]_vars => DispatchInv'
  <2> SUFFICES ASSUME DispatchInv, [Next]_vars PROVE DispatchInv'
    OBVIOUS
  <2>1. CASE RunSpec
    BY <2>1, InvRunSpec
  <2>2. CASE SkipSpec
    BY <2>2, InvSkipSpec
  <2>3. CASE RunDecode
    BY <2>3, InvRunDecode
  <2>4. CASE SkipDecode
    BY <2>4, InvSkipDecode
  <2>5. CASE PrefillPacked
    BY <2>5, InvPrefillPacked
  <2>6. CASE PrefillEmpty
    BY <2>6, InvPrefillEmpty
  <2>7. CASE PrefillOne
    BY <2>7, InvPrefillOne
  <2>8. CASE Merge
    BY <2>8, InvMerge
  <2>9. CASE Return
    BY <2>9, InvStays DEF Return
  <2>10. CASE UNCHANGED vars
    BY <2>10, InvStays
  <2> QED BY <2>1, <2>2, <2>3, <2>4, <2>5, <2>6, <2>7, <2>8, <2>9, <2>10 DEF Next
<1> QED BY <1>1, <1>2, PTL DEF Spec

-----------------------------------------------------------------------------
(***************************************************************************)
(* The properties.                                                         *)
(***************************************************************************)
\* Each request gets back, at the places of its own tokens, the outputs it
\* would have got alone, however the batch is split, packed, padded and merged.
THEOREM OutputCorrect == Spec => []OutputIsPerRequest
<1>1. DispatchInv => OutputIsPerRequest
  <2> SUFFICES ASSUME DispatchInv, pc = "done", NEW k \in DOMAIN batch.requests
               PROVE  SubSeq(output, RequestOffset(k) + 1, RequestOffset(k) + Rows[k].len)
                        = Conv1d(HistoryOf(k), Rows[k].len)
    BY DEF OutputIsPerRequest
  <2>1. BatchIs /\ Merged(output)
    BY DEF DispatchInv, OutputInv
  <2>2. k \in 1 .. NumRequests
    BY <2>1 DEF BatchIs
  <2>3. k \in 1 .. Len(Rows) /\ k <= NumRequests
    BY <2>1, <2>2, RowsHaveLengths
  <2>4. PICK start, len : start = RequestOffset(k) /\ len = Rows[k].len
    OBVIOUS
  <2>5. start \in Nat /\ len \in Nat /\ start = Start[k - 1]
    BY <2>1, <2>3, <2>4, RowsHaveLengths, OffsetFacts DEF RequestOffset, Start
  <2>6. SubSeq(output, start + 1, start + len) = [c \in 1 .. len |-> output[start + c]]
    <3>1. PICK a \in Int, b \in Int : a = start + 1 /\ b = start + len
      BY <2>5
    <3>2. a <= b + 1 /\ b - a + 1 = len /\ \A c \in 1 .. len : a + c - 1 = start + c
      BY <2>5, <3>1
    <3>3. SubSeq(output, a, b) = [c \in 1 .. b - a + 1 |-> output[a + c - 1]]
      BY <3>2, SubSeqIs
    <3> QED BY <3>1, <3>2, <3>3
  <2>7. ASSUME NEW c \in 1 .. len
        PROVE  output[start + c] = [j \in Tap |-> HistoryOf(k)[c - 1 + j * Dilation]]
    <3>1. PICK d : d = c - 1
      OBVIOUS
    <3>2. d \in 0 .. Rows[k].len - 1 /\ start + d + 1 = start + c
      BY <2>4, <2>5, <3>1
    <3>3. output[start + d + 1] = Out(k, d)
      BY <2>1, <2>3, <2>5, <3>2 DEF Merged
    <3>4. Out(k, d) = [j \in Tap |-> HistoryOf(k)[d + j * Dilation]]
      BY <2>3 DEF Out, ConvAt
    <3> QED BY <3>1, <3>2, <3>3, <3>4
  <2> QED BY <2>4, <2>6, <2>7 DEF Conv1d
<1> QED BY <1>1, Invariance, PTL

\* The row of each request is the one it would have left alone, and no other
\* block of the cache changes, the reserved one included.
THEOREM StateCorrect == Spec => []StateIsPerRequest
<1>1. DispatchInv => StateIsPerRequest
  <2> SUFFICES ASSUME DispatchInv, pc = "done" PROVE StateIsPerRequest
    BY DEF StateIsPerRequest
  <2>1. BatchIs /\ StateInv /\ DOMAIN batch.requests = 1 .. NumRequests
    BY DEF DispatchInv, BatchIs
  <2>2. ASSUME NEW k \in 1 .. NumRequests
        PROVE  Rows[k].block = k /\ conv_state[Rows[k].block] = RowOf(k)
    <3>1. k \in Block /\ Rows[k].block = k /\ Rows[k].kind \in Kinds
      BY <2>1, RequestBlocks
    <3>2. Done(k)
      BY <3>1 DEF Done, Kinds
    <3> QED BY <2>1, <3>1, <3>2 DEF StateInv
  <2>3. ASSUME NEW b \in Block, \A k \in 1 .. NumRequests : Rows[k].block # b
        PROVE  conv_state[b] = OldRow(b)
    <3>1. b \notin 1 .. NumRequests
      BY <2>2, <2>3
    <3> QED BY <2>1, <3>1 DEF StateInv
  <2> QED BY <2>1, <2>2, <2>3 DEF StateIsPerRequest
<1> QED BY <1>1, Invariance, PTL

\* Rows with the same lengths have the same offsets.
LEMMA OffsetsAgree ==
  ASSUME NEW n \in Nat, NEW m \in Nat, n <= m, NEW rows, NEW more,
         Lengths(rows, n), Lengths(more, m), \A k \in 1 .. n : rows[k].len = more[k].len,
         NEW q, NEW p, Offsets(q, rows, n), Offsets(p, more, m), NEW k \in 0 .. n
  PROVE  q[k] = p[k]
<1> USE DEF Offsets, Lengths
<1> SUFFICES ASSUME q[k] # p[k] PROVE FALSE
  OBVIOUS
<1> DEFINE differ == {l \in 0 .. n : q[l] # p[l]}
<1>1. differ \in SUBSET Nat /\ k \in differ
  OBVIOUS
<1>2. PICK l \in differ : \A i \in differ : l <= i
  BY <1>1, Least
<1>3. l # 0
  BY <1>2
<1>4. l \in 1 .. n /\ l \in 1 .. m /\ l - 1 \in 0 .. n /\ l - 1 \notin differ
  BY <1>2, <1>3
<1>5. q[l - 1] = p[l - 1]
  BY <1>4
<1>6. q[l] = q[l - 1] + rows[l].len /\ p[l] = p[l - 1] + more[l].len /\ rows[l].len = more[l].len
  BY <1>4
<1> QED BY <1>2, <1>5, <1>6

\* The output covers the padded batch, and its padding is zeros, for every
\* batch the bounds allow.
THEOREM PaddingCorrect == Spec => []PaddingIsZero
<1>1. DispatchInv => PaddingIsZero
  <2> SUFFICES ASSUME DispatchInv, pc = "done" PROVE PaddingIsZero
    BY DEF PaddingIsZero
  <2>1. BatchIs /\ Merged(output)
    BY DEF DispatchInv, OutputInv
  <2>2. PICK size \in Nat : size = NumActualTokens
    BY <2>1, TokensAre
  <2>3. Len(output) = size
    BY <2>1, <2>2 DEF Merged, IsList
  <2>4. PICK n \in Nat, N \in Nat : n = NumRequests /\ N = Len(Rows)
    BY <2>1, RowsHaveLengths
  <2>5. PICK requests : requests = batch.requests
    OBVIOUS
  <2>6. Lengths(requests, n)
    BY <2>1, <2>4, <2>5 DEF BatchIs, NumRequests, Lengths
  <2>7. Lengths(Rows, N) /\ Offsets(Start, Rows, N) /\ n <= N
    BY <2>1, <2>4, RowsHaveLengths
  <2>8. NumTokens(requests) = Start[n]
    <3>1. PICK q : q = QueryStartLoc(requests)
      OBVIOUS
    <3>2. Offsets(q, requests, n)
      BY <2>6, <3>1, QueryStartLocIs
    <3>3. \A k \in 1 .. n : requests[k].len = Rows[k].len
      BY <2>1, <2>4, <2>5, <2>7, RowIs
    <3>4. n \in 0 .. n
      OBVIOUS
    <3>5. PICK rows, p : rows = Rows /\ p = Start
      OBVIOUS
    <3>6. q[n] = p[n]
      BY <2>6, <2>7, <3>2, <3>3, <3>4, <3>5, OffsetsAgree
    <3>7. Len(requests) = n
      BY <2>6 DEF Lengths
    <3> QED BY <3>1, <3>5, <3>6, <3>7 DEF NumTokens
  <2>9. PICK from, last : from = Start[n] /\ last = Start[N]
    OBVIOUS
  <2>10. from \in Nat /\ last \in Nat
    BY <2>7, <2>9 DEF Offsets
  <2>11. ASSUME NEW t \in from + 1 .. size PROVE output[t] = ZeroOutput
    <3>1. CASE t > last
      BY <2>1, <2>2, <2>4, <2>9, <2>10, <3>1 DEF Merged
    <3>2. CASE ~(t > last)
      <4>1. PICK p : p = t - 1
        OBVIOUS
      <4>2. p \in 0 .. last - 1 /\ p >= from /\ t = p + 1
        BY <2>10, <3>2, <4>1
      <4>3. PICK i \in 1 .. N : p \in Start[i - 1] .. Start[i] - 1
        BY <2>7, <2>9, <4>2, RowOfToken
      <4>4. PICK a, b, len : a = Start[i - 1] /\ b = Start[i] /\ len = Rows[i].len
        OBVIOUS
      <4>5. a \in Nat /\ len \in Nat /\ b = a + len
        BY <2>7, <4>4, OffsetFacts
      <4>6. ~(i <= n)
        <5>1. ASSUME i <= n PROVE FALSE
          <6>1. i \in 0 .. N /\ n \in i .. N
            BY <2>7, <5>1
          <6>2. b <= from
            BY <2>7, <2>9, <4>4, <6>1, OffsetsIncrease
          <6> QED BY <2>10, <4>2, <4>3, <4>4, <4>5, <6>2
        <5> QED BY <5>1
      <4>7. PICK c : c = p - a
        OBVIOUS
      <4>8. c \in 0 .. Rows[i].len - 1 /\ a + c + 1 = t
        BY <4>2, <4>3, <4>4, <4>5, <4>7
      <4>9. output[a + c + 1] = Out(i, c)
        BY <2>1, <2>4, <4>4, <4>8 DEF Merged
      <4>10. Out(i, c) = ZeroOutput
        BY <2>4, <4>6 DEF Out
      <4> QED BY <4>8, <4>9, <4>10
    <3> QED BY <3>1, <3>2
  <2> QED BY <2>2, <2>3, <2>5, <2>8, <2>9, <2>11 DEF PaddingIsZero
<1> QED BY <1>1, Invariance, PTL

=============================================================================
