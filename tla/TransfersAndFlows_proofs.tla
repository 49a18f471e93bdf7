------------------------ MODULE TransfersAndFlows_proofs ------------------------
(***************************************************************************)
(* Invariance proofs about what is built on single transactions and calls: *)
(* the transfers of TransferTransaction, up to the body that moves what    *)
(* was asked for, and ContractCreateFlow, with one contract of the whole   *)
(* bytecode and the file it needs. Neither uses the other's lemmas.        *)
(*                                                                         *)
(* The proof about transfers goes from sequences in general to the body:   *)
(* totals, sorting, flattening, merging into groups, and what is read from *)
(* the body again; then every call of the application. Folds and sorting   *)
(* are reasoned about by induction over the numbers for which a statement  *)
(* holds, as sets of numbers.                                              *)
(***************************************************************************)
EXTENDS TransferTransaction, ContractCreateFlow, SequenceTheorems,
        FiniteSetTheorems, WellFoundedInduction, TLAPS

-----------------------------------------------------------------------------
(* Numbers: least and greatest ones, induction, recursion *)

\* A set of natural numbers has a least one.
LEMMA LeastOfNat ==
    ASSUME NEW T \in SUBSET Nat, T # {}
    PROVE  \E x \in T : \A y \in T : x <= y
<1> DEFINE R == {ss \in Nat \X Nat : ss[1] < ss[2]}
<1>1. IsWellFoundedOn(R, Nat)
  BY NatLessThanWellFounded DEF OpToRel
<1>2. PICK x \in T : \A y \in T : ~ (<<y, x>> \in R)
  <2> HIDE DEF R
  <2> QED BY <1>1, WFMin
<1>3. \A y \in T : x <= y
  <2> SUFFICES ASSUME NEW y \in T, y < x PROVE FALSE
    OBVIOUS
  <2>1. <<y, x>> \in R
    OBVIOUS
  <2> HIDE DEF R
  <2> QED BY <1>2, <2>1
<1> QED BY <1>3

\* Induction, over the numbers that a statement holds for.
LEMMA Induction ==
    ASSUME NEW N \in Nat, NEW G, 0 \in G, \A n \in 0..(N - 1) : n \in G => n + 1 \in G
    PROVE  \A n \in 0..N : n \in G
<1> SUFFICES ASSUME NEW m \in 0..N, m \notin G PROVE FALSE
  OBVIOUS
<1> DEFINE T == {n \in 0..N : n \notin G}
<1>1. PICK x \in T : \A y \in T : x <= y
  <2>1. T \in SUBSET Nat /\ T # {}
    OBVIOUS
  <2> HIDE DEF T
  <2> QED BY <2>1, LeastOfNat
<1>2. x \in 0..N /\ x \notin G /\ x # 0
  OBVIOUS
<1>3. x - 1 \in 0..N /\ x - 1 \in 0..(N - 1) /\ x - 1 + 1 = x
  BY <1>2
<1>4. x - 1 \in G
  <2>1. ~ (x <= x - 1)
    BY <1>2
  <2> QED BY <1>1, <2>1, <1>3
<1> QED BY <1>2, <1>3, <1>4

\* The least and the greatest of some places of a sequence.
LEMMA MinOf ==
    ASSUME NEW n \in Nat, NEW I \in SUBSET (1..n), I # {}
    PROVE  Min(I) \in I /\ \A i \in I : Min(I) <= i
<1>1. \E x \in I : \A y \in I : x <= y
  BY LeastOfNat
<1> QED BY <1>1 DEF Min

LEMMA MaxOf ==
    ASSUME NEW n \in Nat, NEW I \in SUBSET (1..n), I # {}
    PROVE  Max(I) \in I /\ \A i \in I : i <= Max(I)
<1> DEFINE T == {n - i : i \in I}
<1>1. PICK d \in T : \A e \in T : d <= e
  <2>1. \A i \in I : n - i \in Nat
    OBVIOUS
  <2>2. T \in SUBSET Nat
    BY <2>1
  <2>3. T # {}
    OBVIOUS
  <2> HIDE DEF T
  <2> QED BY <2>2, <2>3, LeastOfNat
<1>2. PICK x \in I : d = n - x
  OBVIOUS
<1>3. \A i \in I : i <= x
  <2> SUFFICES ASSUME NEW i \in I PROVE i <= x
    OBVIOUS
  <2>1. n - i \in T
    OBVIOUS
  <2>2. n - x <= n - i
    BY <1>1, <1>2, <2>1
  <2> QED BY <2>2
<1>4. \E y \in I : \A z \in I : y >= z
  BY <1>3
<1> QED BY <1>4 DEF Max

\* A fold takes the places from the last one on.
LEMMA MaxOfInterval ==
    ASSUME NEW n \in Nat, n # 0
    PROVE  Max(1..n) = n /\ (1..n) \ {Max(1..n)} = 1..(n - 1)
<1>1. 1..n \in SUBSET (1..n) /\ 1..n # {} /\ n \in 1..n
  OBVIOUS
<1>2. Max(1..n) \in 1..n /\ n <= Max(1..n)
  BY <1>1, MaxOf
<1>3. Max(1..n) = n
  BY <1>2
<1> QED BY <1>3

\* What folding a sequence makes of the sets of its indexes.
Unfolds(it, N, base, step, s) ==
    \A X \in SUBSET (1..N) :
       it[X] = IF X = {} THEN base ELSE step[<<it[X \ {Max(X)}], s[Max(X)]>>]

\* There is such a function.
LEMMA Recursion ==
    ASSUME NEW S, NEW E, NEW N \in Nat, NEW base \in S, NEW step \in [S \X E -> S],
           NEW s \in [1..N -> E]
    PROVE  \E it \in [SUBSET (1..N) -> S] : Unfolds(it, N, base, step, s)
<1> DEFINE Solves(it, n) == Unfolds(it, n, base, step, s)
    G == {n \in 0..N : \E it \in [SUBSET (1..n) -> S] : Solves(it, n)}
<1>1. 0 \in G
  <2> DEFINE it == [X \in SUBSET (1..0) |-> base]
  <2>1. \A X \in SUBSET (1..0) : X = {}
    OBVIOUS
  <2>2. it \in [SUBSET (1..0) -> S] /\ Solves(it, 0)
    BY <2>1 DEF Unfolds
  <2> HIDE DEF it, Solves
  <2>3. \E f \in [SUBSET (1..0) -> S] : Solves(f, 0)
    BY <2>2
  <2>4. 0 \in 0..N
    OBVIOUS
  <2> QED BY <2>3, <2>4, Zenon
<1>2. ASSUME NEW n \in 0..(N - 1), n \in G
      PROVE  n + 1 \in G
  <2>1. PICK it \in [SUBSET (1..n) -> S] : Solves(it, n)
    BY <1>2
  <2> DEFINE it2 == [X \in SUBSET (1..(n + 1)) |->
                        IF n + 1 \in X THEN step[<<it[X \ {n + 1}], s[n + 1]>>]
                        ELSE it[X]]
  <2>2. /\ n \in Nat /\ n + 1 \in 1..N /\ n + 1 \in Nat /\ s[n + 1] \in E
        /\ n + 1 \notin 1..n /\ 1..n \subseteq 1..(n + 1)
    OBVIOUS
  <2>3. ASSUME NEW X \in SUBSET (1..(n + 1))
        PROVE  /\ n + 1 \in X => X \ {n + 1} \in SUBSET (1..n)
               /\ n + 1 \notin X => X \in SUBSET (1..n)
    <3>1. \A i \in 1..(n + 1) : i = n + 1 \/ i \in 1..n
      BY <2>2
    <3> QED BY <3>1
  <2>4. it2 \in [SUBSET (1..(n + 1)) -> S]
    <3> SUFFICES ASSUME NEW X \in SUBSET (1..(n + 1))
                 PROVE  (IF n + 1 \in X THEN step[<<it[X \ {n + 1}], s[n + 1]>>]
                         ELSE it[X]) \in S
      OBVIOUS
    <3> QED BY <2>2, <2>3
  <2>5. ASSUME NEW X \in SUBSET (1..(n + 1)), X # {}
        PROVE  it2[X] = step[<<it2[X \ {Max(X)}], s[Max(X)]>>]
    <3>1. Max(X) \in X /\ \A i \in X : i <= Max(X)
      BY <2>2, <2>5, MaxOf
    <3>2. CASE n + 1 \in X
      <4>1. Max(X) = n + 1
        <5>1. n + 1 <= Max(X) /\ Max(X) \in 1..(n + 1)
          BY <3>1, <3>2
        <5> QED BY <5>1, <2>2
      <4>2. X \ {n + 1} \in SUBSET (1..(n + 1)) /\ n + 1 \notin X \ {n + 1}
        OBVIOUS
      <4>3. it2[X \ {n + 1}] = it[X \ {n + 1}]
        BY <4>2
      <4> QED BY <4>1, <4>3, <3>2
    <3>3. CASE n + 1 \notin X
      <4>1. X \in SUBSET (1..n) /\ X \ {Max(X)} \in SUBSET (1..n)
        BY <3>3, <2>3
      <4>2. it[X] = step[<<it[X \ {Max(X)}], s[Max(X)]>>]
        BY <4>1, <2>1, <2>5 DEF Unfolds
      <4>3. it2[X] = it[X]
        BY <3>3
      <4>4. it2[X \ {Max(X)}] = it[X \ {Max(X)}]
        <5>1. X \ {Max(X)} \in SUBSET (1..(n + 1)) /\ n + 1 \notin X \ {Max(X)}
          BY <3>3
        <5> QED BY <5>1
      <4> QED BY <4>2, <4>3, <4>4
    <3> QED BY <3>2, <3>3
  <2>6. it2[{}] = base
    <3>1. {} \in SUBSET (1..(n + 1)) /\ {} \in SUBSET (1..n) /\ n + 1 \notin {}
      OBVIOUS
    <3> HIDE DEF it2
    <3>2. it2[{}] = it[{}]
      BY <3>1 DEF it2
    <3> QED BY <3>1, <3>2, <2>1 DEF Unfolds
  <2>7. Solves(it2, n + 1)
    <3> HIDE DEF it2
    <3> QED BY <2>5, <2>6 DEF Unfolds
  <2> HIDE DEF it2, Solves
  <2>8. n + 1 \in 0..N
    BY <2>2
  <2> QED BY <2>4, <2>7, <2>8
<1>3. \A n \in 0..N : n \in G
  <2>1. \A n \in 0..(N - 1) : n \in G => n + 1 \in G
    BY <1>2
  <2> HIDE DEF G
  <2> QED BY <1>1, <2>1, Induction
<1>4. N \in G
  <2> HIDE DEF G
  <2> QED BY <1>3
<1> QED BY <1>4

-----------------------------------------------------------------------------
(* Totals *)

\* A total is the last of its partial sums.
LEMMA TotalSums ==
    ASSUME NEW x \in Seq(Int)
    PROVE  \E f \in [0..Len(x) -> Int] :
              /\ f[0] = 0
              /\ \A n \in 1..Len(x) : f[n] = f[n - 1] + x[n]
              /\ Total(x) = f[Len(x)]
<1> DEFINE N == Len(x)
    Eq(iter) == iter = [X \in SUBSET DOMAIN x |->
                   IF X = {} THEN 0 ELSE iter[X \ {Max(X)}] + x[Max(X)]]
    it == CHOOSE iter : Eq(iter)
    f == [n \in 0..N |-> it[1..n]]
<1>1. Total(x) = it[DOMAIN x]
  BY DEF Total, FoldLeft, MapThenFoldSet
<1>2. N \in Nat /\ DOMAIN x = 1..N /\ x \in [1..N -> Int]
  OBVIOUS
<1>3. Eq(it)
  <2> DEFINE step == [q \in Int \X Int |-> q[1] + q[2]]
  <2>1. step \in [Int \X Int -> Int]
    OBVIOUS
  <2>2. PICK g \in [SUBSET (1..N) -> Int] : Unfolds(g, N, 0, step, x)
    <3>1. 0 \in Int /\ N \in Nat /\ x \in [1..N -> Int]
      BY <1>2
    <3> HIDE DEF step, N
    <3> QED BY <3>1, <2>1, Recursion
  <2>3. ASSUME NEW X \in SUBSET (1..N), X # {}
        PROVE  step[<<g[X \ {Max(X)}], x[Max(X)]>>] = g[X \ {Max(X)}] + x[Max(X)]
    <3>1. Max(X) \in 1..N
      BY <1>2, <2>3, MaxOf
    <3>2. g[X \ {Max(X)}] \in Int /\ x[Max(X)] \in Int
      BY <3>1, <1>2
    <3> QED BY <3>2
  <2> HIDE DEF step
  <2>4. g = [X \in SUBSET (1..N) |->
               IF X = {} THEN 0 ELSE g[X \ {Max(X)}] + x[Max(X)]]
    <3> HIDE DEF N
    <3> QED BY <2>2, <2>3 DEF Unfolds
  <2>5. Eq(g)
    BY <2>4, <1>2
  <2> HIDE DEF Eq
  <2> QED BY <2>5
<1>4. f[0] = 0
  <2>1. it[{}] = 0 /\ 0 \in 0..N /\ 1..0 = {}
    <3> HIDE DEF it
    <3> QED BY <1>3, <1>2
  <2> HIDE DEF it
  <2> QED BY <2>1
<1>5. \A n \in 1..N : f[n] = f[n - 1] + x[n]
  <2> SUFFICES ASSUME NEW n \in 1..N PROVE f[n] = f[n - 1] + x[n]
    OBVIOUS
  <2>1. 1..n \in SUBSET DOMAIN x /\ 1..n # {} /\ n - 1 \in 0..N /\ n \in 0..N
    <3>1. n \in Nat /\ n # 0 /\ n <= N
      BY <1>2
    <3>2. 1..n \subseteq 1..N /\ n \in 1..n
      BY <3>1, <1>2
    <3> QED BY <3>1, <3>2, <1>2
  <2>2. Max(1..n) = n /\ (1..n) \ {Max(1..n)} = 1..(n - 1)
    BY MaxOfInterval
  <2> HIDE DEF it
  <2>3. it[1..n] = it[1..(n - 1)] + x[n]
    BY <1>3, <2>1, <2>2
  <2> QED BY <2>1, <2>3
<1>6. f \in [0..N -> Int]
  <2> DEFINE G == {n \in 0..N : f[n] \in Int}
  <2>1. 0 \in G
    <3> HIDE DEF f
    <3> QED BY <1>4, <1>2
  <2>2. \A n \in 0..(N - 1) : n \in G => n + 1 \in G
    <3> SUFFICES ASSUME NEW n \in 0..(N - 1), f[n] \in Int PROVE n + 1 \in G
      OBVIOUS
    <3>1. n + 1 \in 1..N /\ n + 1 - 1 = n /\ n + 1 \in 0..N
      BY <1>2
    <3> HIDE DEF f
    <3>2. f[n + 1] \in Int
      BY <3>1, <1>5, <1>2
    <3> QED BY <3>1, <3>2
  <2>3. \A n \in 0..N : n \in G
    <3> HIDE DEF G, N
    <3> QED BY <1>2, <2>1, <2>2, Induction
  <2>4. \A n \in 0..N : it[1..n] \in Int
    <3> HIDE DEF it
    <3> QED BY <2>3
  <2> HIDE DEF it
  <2> QED BY <2>4
<1>7. Total(x) = f[N]
  <2> HIDE DEF it
  <2> QED BY <1>1, <1>2
<1> HIDE DEF f
<1> QED BY <1>4, <1>5, <1>6, <1>7

\* Nothing amounts to 0.
LEMMA TotalOfNone ==
    ASSUME NEW x \in Seq(Int), \A i \in 1..Len(x) : x[i] = 0
    PROVE  Total(x) = 0
<1> DEFINE N == Len(x)
<1>1. PICK f \in [0..N -> Int] :
         f[0] = 0 /\ (\A n \in 1..N : f[n] = f[n - 1] + x[n]) /\ Total(x) = f[N]
  BY TotalSums
<1>2. N \in Nat /\ \A i \in 1..N : x[i] = 0
  OBVIOUS
<1> HIDE DEF N
<1> DEFINE G == {n \in 0..N : f[n] = 0}
<1>3. 0 \in G
  BY <1>1, <1>2
<1>4. ASSUME NEW n \in 0..(N - 1), n \in G PROVE n + 1 \in G
  <2>1. n + 1 \in 1..N /\ n + 1 \in 0..N /\ n + 1 - 1 = n
    BY <1>2
  <2>2. f[n] = 0 /\ x[n + 1] = 0 /\ f[n + 1] = f[n + 1 - 1] + x[n + 1]
    BY <2>1, <1>1, <1>2, <1>4
  <2>3. f[n + 1] = 0
    BY <2>1, <2>2
  <2> QED BY <2>1, <2>3
<1>5. \A n \in 0..N : n \in G
  <2> HIDE DEF G
  <2> QED BY <1>2, <1>3, <1>4, Induction
<1>6. N \in 0..N
  BY <1>2
<1> QED BY <1>1, <1>5, <1>6

\* A total of one amount, the others being 0, is that amount.
LEMMA TotalOfOne ==
    ASSUME NEW x \in Seq(Int), NEW k \in 1..Len(x), \A i \in 1..Len(x) : i # k => x[i] = 0
    PROVE  Total(x) = x[k]
<1> DEFINE N == Len(x)
<1>1. PICK f \in [0..N -> Int] :
         f[0] = 0 /\ (\A n \in 1..N : f[n] = f[n - 1] + x[n]) /\ Total(x) = f[N]
  BY TotalSums
<1>2. N \in Nat /\ k \in 1..N /\ x[k] \in Int /\ \A i \in 1..N : i # k => x[i] = 0
  OBVIOUS
<1> HIDE DEF N
<1> DEFINE G == {n \in 0..N : f[n] = IF n < k THEN 0 ELSE x[k]}
<1>3. 0 \in G
  BY <1>1, <1>2
<1>4. ASSUME NEW n \in 0..(N - 1), n \in G PROVE n + 1 \in G
  <2> DEFINE m == n + 1
  <2>1. m \in 1..N /\ m \in 0..N /\ m - 1 = n /\ n \in Nat
    BY <1>2
  <2>2. f[n] = IF n < k THEN 0 ELSE x[k]
    BY <1>4
  <2>4. m = n + 1
    OBVIOUS
  <2> HIDE DEF m
  <2>3. f[m] = f[n] + x[m]
    BY <2>1, <1>1
  <2>5. CASE m = k
    <3>1. f[n] = 0 /\ x[m] = x[k]
      BY <2>2, <2>4, <2>5, <2>1, <1>2
    <3>3. f[m] = 0 + x[k]
      BY <2>3, <3>1
    <3>2. f[m] = x[k]
      BY <3>3, <1>2
    <3> QED BY <3>2, <2>5, <2>1, <2>4, <1>2
  <2>6. CASE m # k
    <3>1. x[m] = 0
      BY <2>6, <2>1, <1>2
    <3>4. f[m] = f[n] + 0
      BY <2>3, <3>1
    <3>5. f[n] \in Int
      BY <2>2, <1>2
    <3>2. f[m] = f[n]
      BY <3>4, <3>5
    <3>3. f[m] = IF m < k THEN 0 ELSE x[k]
      BY <3>2, <2>2, <2>4, <2>6, <2>1, <1>2
    <3> QED BY <3>3, <2>1, <2>4
  <2> QED BY <2>5, <2>6
<1>5. \A n \in 0..N : n \in G
  <2> HIDE DEF G
  <2> QED BY <1>2, <1>3, <1>4, Induction
<1>6. N \in 0..N /\ ~ (N < k)
  BY <1>2
<1> QED BY <1>1, <1>5, <1>6

-----------------------------------------------------------------------------
(* Sorting *)

\* Less is a strict order of keys of the same length, and compares any two
\* that are different.
LEMMA LessIrreflexive ==
    ASSUME NEW m \in Nat, NEW a \in [1..m -> Int]
    PROVE  ~ Less(a, a)
BY DEF Less

LEMMA LessTransitive ==
    ASSUME NEW m \in Nat, NEW a \in [1..m -> Int], NEW b \in [1..m -> Int],
           NEW c \in [1..m -> Int], Less(a, b), Less(b, c)
    PROVE  Less(a, c)
<1>1. PICK k \in 1..m : a[k] < b[k] /\ \A l \in 1..(k - 1) : a[l] = b[l]
  BY DEF Less
<1>2. PICK h \in 1..m : b[h] < c[h] /\ \A l \in 1..(h - 1) : b[l] = c[l]
  BY DEF Less
<1>3. CASE k < h
  <2>1. k \in 1..(h - 1) /\ \A l \in 1..(k - 1) : l \in 1..(h - 1)
    BY <1>3
  <2>2. a[k] < c[k] /\ \A l \in 1..(k - 1) : a[l] = c[l]
    BY <1>1, <1>2, <2>1
  <2> QED BY <2>2 DEF Less
<1>4. CASE h < k
  <2>1. h \in 1..(k - 1) /\ \A l \in 1..(h - 1) : l \in 1..(k - 1)
    BY <1>4
  <2>2. a[h] < c[h] /\ \A l \in 1..(h - 1) : a[l] = c[l]
    BY <1>1, <1>2, <2>1
  <2> QED BY <2>2 DEF Less
<1>5. CASE h = k
  <2>1. a[k] < c[k] /\ \A l \in 1..(k - 1) : a[l] = c[l]
    <3>1. a[k] \in Int /\ b[k] \in Int /\ c[k] \in Int
      OBVIOUS
    <3> QED BY <1>1, <1>2, <1>5, <3>1
  <2> QED BY <2>1 DEF Less
<1> QED BY <1>3, <1>4, <1>5

LEMMA LessTotal ==
    ASSUME NEW m \in Nat, NEW a \in [1..m -> Int], NEW b \in [1..m -> Int], a # b
    PROVE  Less(a, b) \/ Less(b, a)
<1> DEFINE T == {k \in 1..m : a[k] # b[k]}
<1>1. T \in SUBSET Nat /\ T # {}
  OBVIOUS
<1>2. PICK k \in T : \A l \in T : k <= l
  <2> HIDE DEF T
  <2> QED BY <1>1, LeastOfNat
<1>3. k \in 1..m /\ a[k] # b[k] /\ \A l \in 1..(k - 1) : a[l] = b[l]
  <2>1. k \in 1..m /\ a[k] # b[k]
    OBVIOUS
  <2>2. ASSUME NEW l \in 1..(k - 1), a[l] # b[l] PROVE FALSE
    <3>1. l \in 1..m /\ ~ (k <= l)
      BY <2>1
    <3>2. l \in T
      BY <3>1, <2>2
    <3> QED BY <1>2, <3>1, <3>2
  <2> QED BY <2>1, <2>2
<1>4. a[k] < b[k] \/ b[k] < a[k]
  <2>1. a[k] \in Int /\ b[k] \in Int
    BY <1>3
  <2> QED BY <1>3, <2>1
<1> QED BY <1>3, <1>4 DEF Less

\* f has the numbers 1..n as its values, each once.
Permutes(f, n) ==
    /\ f \in [1..n -> 1..n]
    /\ \A k \in 1..n : \E i \in 1..n : f[i] = k
    /\ \A i, j \in 1..n : f[i] = f[j] => i = j

\* R is a strict total order of 1..n.
StrictOrder(R, n) ==
    /\ \A i \in 1..n : <<i, i>> \notin R
    /\ \A i, j, k \in 1..n : <<i, j>> \in R /\ <<j, k>> \in R => <<i, k>> \in R
    /\ \A i, j \in 1..n : i = j \/ <<i, j>> \in R \/ <<j, i>> \in R

\* What comes before i, and its rank.
Below(R, n, i) == {j \in 1..n : <<j, i>> \in R}

Ranks(R, n) == [i \in 1..n |-> Cardinality(Below(R, n, i)) + 1]

\* For a strict order of 1..n, the ranks are 1..n, each once.
LEMMA Ranking ==
    ASSUME NEW n \in Nat, NEW R, StrictOrder(R, n), NEW rank, rank = Ranks(R, n)
    PROVE  Permutes(rank, n)
<1> DEFINE D == 1..n
<1>1. IsFiniteSet(D) /\ Cardinality(D) = n
  <2>1. 1 \in Int /\ n \in Int
    OBVIOUS
  <2>2. IsFiniteSet(1..n) /\ Cardinality(1..n) = IF 1 > n THEN 0 ELSE n - 1 + 1
    BY <2>1, FS_Interval
  <2> QED BY <2>2
<1>0. rank = [i \in 1..n |-> rank[i]] /\
      \A i \in 1..n : rank[i] = Cardinality(Below(R, n, i)) + 1
  BY DEF Ranks
<1>2. \A i \in D : IsFiniteSet(Below(R, n, i)) /\ Cardinality(Below(R, n, i)) \in 0..(n - 1)
  <2> SUFFICES ASSUME NEW i \in D
               PROVE  IsFiniteSet(Below(R, n, i)) /\ Cardinality(Below(R, n, i)) \in 0..(n - 1)
    OBVIOUS
  <2>1. Below(R, n, i) \in SUBSET (D \ {i})
    BY DEF Below, StrictOrder
  <2>2. IsFiniteSet(D \ {i}) /\ Cardinality(D \ {i}) = n - 1
    BY <1>1, FS_RemoveElement
  <2> HIDE DEF D
  <2>3. IsFiniteSet(Below(R, n, i)) /\ Cardinality(Below(R, n, i)) <= n - 1
    BY <2>1, <2>2, FS_Subset
  <2>4. Cardinality(Below(R, n, i)) \in Nat
    BY <2>3, FS_CardinalityType
  <2> QED BY <2>3, <2>4
<1>3. ASSUME NEW i \in D, NEW j \in D, <<i, j>> \in R
      PROVE  rank[i] # rank[j]
  <2>1. Below(R, n, i) \in SUBSET Below(R, n, j) /\ i \in Below(R, n, j) /\ i \notin Below(R, n, i)
    BY <1>3 DEF Below, StrictOrder
  <2>2. Cardinality(Below(R, n, i)) # Cardinality(Below(R, n, j))
    <3> HIDE DEF D
    <3> QED BY <2>1, <1>2, FS_Subset
  <2>3. Cardinality(Below(R, n, i)) \in Int /\ Cardinality(Below(R, n, j)) \in Int
    <3> HIDE DEF D
    <3> QED BY <1>2
  <2>4. rank[i] = Cardinality(Below(R, n, i)) + 1 /\ rank[j] = Cardinality(Below(R, n, j)) + 1
    BY <1>0
  <2> HIDE DEF D
  <2> QED BY <2>2, <2>3, <2>4
<1>4. \A i, j \in D : rank[i] = rank[j] => i = j
  BY <1>3 DEF StrictOrder
<1>5. rank \in [D -> D]
  <2>1. \A i \in D : Cardinality(Below(R, n, i)) + 1 \in D
    <3> QED BY <1>2
  <2>4. \A i \in D : rank[i] = Cardinality(Below(R, n, i)) + 1
    BY <1>0
  <2>2. \A i \in D : rank[i] \in D
    <3> HIDE DEF D
    <3> QED BY <2>1, <2>4
  <2>3. rank = [i \in D |-> rank[i]]
    BY <1>0
  <2> HIDE DEF D
  <2> QED BY <2>2, <2>3
<1>6. rank \in Injection(D, D)
  BY <1>4, <1>5 DEF Injection, IsInjective
<1>7. rank \in Surjection(D, D)
  <2> HIDE DEF D
  <2> QED BY <1>1, <1>6, FS_Injection
<1>8. \A k \in D : \E i \in D : rank[i] = k
  BY <1>7 DEF Surjection
<1> QED BY <1>4, <1>5, <1>8 DEF Permutes

\* Sorting a list puts its elements in another order.
LEMMA SortedPermutes ==
    ASSUME NEW E, NEW s \in Seq(E), NEW m \in Nat, NEW keys \in [1..Len(s) -> [1..m -> Int]]
    PROVE  \E p : Permutes(p, Len(s)) /\ Sorted(s, keys) = [k \in 1..Len(s) |-> s[p[k]]]
<1> DEFINE n == Len(s)
    Before(i, j) == Less(keys[i], keys[j]) \/ (keys[i] = keys[j] /\ i < j)
    R == {ss \in (1..n) \X (1..n) : Before(ss[1], ss[2])}
    rank == [i \in 1..n |-> Cardinality({j \in 1..n : Before(j, i)}) + 1]
    p == [k \in 1..n |-> CHOOSE i \in 1..n : rank[i] = k]
<1>1. n \in Nat /\ DOMAIN s = 1..n /\ \A i \in 1..n : keys[i] \in [1..m -> Int]
  OBVIOUS
<1>2. Sorted(s, keys) = [k \in 1..n |-> s[CHOOSE i \in 1..n : rank[i] = k]]
  <2>1. Sorted(s, keys) = [k \in DOMAIN s |-> s[CHOOSE i \in DOMAIN s :
            [h \in DOMAIN s |-> Cardinality({j \in DOMAIN s : Before(j, h)}) + 1][i] = k]]
    BY DEF Sorted
  <2> HIDE DEF Before, n
  <2> QED BY <1>1, <2>1
<1>3. \A i, j \in 1..n : <<i, j>> \in R <=> Before(i, j)
  <2> HIDE DEF Before
  <2> QED OBVIOUS
<1>4. \A i \in 1..n : ~ Before(i, i)
  <2> HIDE DEF n
  <2> QED BY <1>1, LessIrreflexive
<1>5. ASSUME NEW i \in 1..n, NEW j \in 1..n, NEW k \in 1..n, Before(i, j), Before(j, k)
      PROVE  Before(i, k)
  <2> HIDE DEF n
  <2>1. \/ Less(keys[i], keys[j]) /\ Less(keys[j], keys[k])
        \/ Less(keys[i], keys[j]) /\ keys[j] = keys[k]
        \/ keys[i] = keys[j] /\ Less(keys[j], keys[k])
        \/ keys[i] = keys[j] /\ keys[j] = keys[k] /\ i < k
    BY <1>5
  <2>2. Less(keys[i], keys[j]) /\ Less(keys[j], keys[k]) => Less(keys[i], keys[k])
    BY <1>1, LessTransitive
  <2> QED BY <2>1, <2>2
<1>6. \A i, j \in 1..n : i = j \/ Before(i, j) \/ Before(j, i)
  <2> SUFFICES ASSUME NEW i \in 1..n, NEW j \in 1..n, i # j
               PROVE  Before(i, j) \/ Before(j, i)
    OBVIOUS
  <2> HIDE DEF n
  <2>1. CASE keys[i] = keys[j]
    BY <2>1
  <2>2. CASE keys[i] # keys[j]
    <3>1. Less(keys[i], keys[j]) \/ Less(keys[j], keys[i])
      BY <1>1, <2>2, LessTotal
    <3> QED BY <3>1
  <2> QED BY <2>1, <2>2
<1>7. ASSUME NEW i \in 1..n
      PROVE  rank[i] = Cardinality(Below(R, n, i)) + 1
  <2> HIDE DEF n
  <2> DEFINE U == {j \in 1..n : Before(j, i)}
  <2>1. U = Below(R, n, i)
    <3> HIDE DEF Before, R
    <3> QED BY <1>3 DEF Below
  <2>2. rank[i] = Cardinality(U) + 1
    <3> HIDE DEF Before
    <3> QED OBVIOUS
  <2> HIDE DEF U, rank
  <2> QED BY <2>1, <2>2
<1> HIDE DEF Before, R, n
<1>8. StrictOrder(R, n)
  <2>1. \A i \in 1..n : <<i, i>> \notin R
    BY <1>3, <1>4
  <2>2. \A i, j, k \in 1..n : <<i, j>> \in R /\ <<j, k>> \in R => <<i, k>> \in R
    BY <1>3, <1>5
  <2>3. \A i, j \in 1..n : i = j \/ <<i, j>> \in R \/ <<j, i>> \in R
    BY <1>3, <1>6
  <2> QED BY <2>1, <2>2, <2>3 DEF StrictOrder
<1>15. rank = Ranks(R, n)
  <2>1. rank = [i \in 1..n |-> rank[i]]
    OBVIOUS
  <2> HIDE DEF rank
  <2> QED BY <2>1, <1>7 DEF Ranks
<1> HIDE DEF rank
<1>16. Permutes(rank, n)
  BY <1>1, <1>8, <1>15, Ranking
<1>9. /\ rank \in [1..n -> 1..n]
      /\ \A k \in 1..n : \E i \in 1..n : rank[i] = k
      /\ \A i, j \in 1..n : rank[i] = rank[j] => i = j
  BY <1>16 DEF Permutes
<1>10. \A k \in 1..n : p[k] \in 1..n /\ rank[p[k]] = k
  BY <1>9
<1>11. p \in [1..n -> 1..n]
  BY <1>10
<1>12. \A i, j \in 1..n : p[i] = p[j] => i = j
  <2> HIDE DEF p
  <2> QED BY <1>10
<1>13. \A i \in 1..n : \E k \in 1..n : p[k] = i
  <2> SUFFICES ASSUME NEW i \in 1..n PROVE p[rank[i]] = i
    BY <1>9
  <2>1. rank[i] \in 1..n
    BY <1>9
  <2> HIDE DEF p
  <2>2. p[rank[i]] \in 1..n /\ rank[p[rank[i]]] = rank[i]
    BY <2>1, <1>10
  <2> QED BY <2>2, <1>9
<1>14. Sorted(s, keys) = [k \in 1..n |-> s[p[k]]]
  BY <1>2
<1> HIDE DEF p
<1>17. Permutes(p, n)
  BY <1>11, <1>12, <1>13 DEF Permutes
<1> QED BY <1>14, <1>17 DEF n

-----------------------------------------------------------------------------
(* A sequence of sequences, made into one *)

\* The element at p of f is the one at place[p] of the sequence group[p].
Places(f, B, N, group, place) ==
    /\ group \in [1..Len(f) -> 1..N] /\ place \in [1..Len(f) -> Nat]
    /\ \A p \in 1..Len(f) : place[p] \in 1..Len(B[group[p]]) /\ f[p] = B[group[p]][place[p]]
    /\ \A p, q \in 1..Len(f) : group[p] = group[q] /\ place[p] = place[q] => p = q
    /\ \A k \in 1..N : \A l \in 1..Len(B[k]) :
          \E p \in 1..Len(f) : group[p] = k /\ place[p] = l

\* f holds the elements of B[1..N], each as often as they do.
Flattened(f, B, N, E) == f \in Seq(E) /\ \E group, place : Places(f, B, N, group, place)

\* One sequence, and one more.
LEMMA FlattenedFirst ==
    ASSUME NEW E, NEW B, B[1] \in Seq(E)
    PROVE  Flattened(B[1], B, 1, E)
<1> DEFINE f == B[1]
    group == [p \in 1..Len(f) |-> 1]
    place == [p \in 1..Len(f) |-> p]
<1>1. Places(f, B, 1, group, place)
  <2> DEFINE n == Len(B[1])
  <2>1. n \in Nat
    OBVIOUS
  <2> HIDE DEF n
  <2>2. /\ group \in [1..n -> 1..1] /\ place \in [1..n -> Nat]
        /\ \A p \in 1..n : group[p] = 1 /\ place[p] = p
    BY <2>1 DEF n
  <2> HIDE DEF group, place
  <2> QED BY <2>1, <2>2 DEF Places, n
<1> QED BY <1>1 DEF Flattened

LEMMA FlattenedNext ==
    ASSUME NEW E, NEW B, NEW N \in Nat, NEW f, Flattened(f, B, N, E), B[N + 1] \in Seq(E)
    PROVE  Flattened(f \o B[N + 1], B, N + 1, E)
<1>1. PICK group, place : Places(f, B, N, group, place)
  BY DEF Flattened
<1> DEFINE b == B[N + 1]
    n == Len(f)
    m == Len(b)
    g == [p \in 1..(n + m) |-> IF p <= n THEN group[p] ELSE N + 1]
    h == [p \in 1..(n + m) |-> IF p <= n THEN place[p] ELSE p - n]
<1>2. /\ f \in Seq(E) /\ b \in Seq(E) /\ n \in Nat /\ m \in Nat
      /\ f \o b \in Seq(E) /\ Len(f \o b) = n + m
      /\ \A p \in 1..n : (f \o b)[p] = f[p]
      /\ \A p \in (n + 1)..(n + m) : (f \o b)[p] = b[p - n]
  BY DEF Flattened
<1> HIDE DEF n, m, b
<1>3. /\ group \in [1..n -> 1..N] /\ place \in [1..n -> Nat]
      /\ \A p \in 1..n : place[p] \in 1..Len(B[group[p]]) /\ f[p] = B[group[p]][place[p]]
      /\ \A p, q \in 1..n : group[p] = group[q] /\ place[p] = place[q] => p = q
      /\ \A k \in 1..N : \A l \in 1..Len(B[k]) : \E p \in 1..n : group[p] = k /\ place[p] = l
  BY <1>1 DEF Places, n
<1>4. /\ \A p \in 1..n : p \in 1..(n + m) /\ g[p] = group[p] /\ h[p] = place[p]
      /\ \A p \in (n + 1)..(n + m) : p \in 1..(n + m) /\ g[p] = N + 1 /\ h[p] = p - n
      /\ \A p \in 1..(n + m) : p \in 1..n \/ p \in (n + 1)..(n + m)
  BY <1>2
<1>5. g \in [1..(n + m) -> 1..(N + 1)] /\ h \in [1..(n + m) -> Nat]
  <2>1. \A p \in 1..(n + m) : g[p] \in 1..(N + 1) /\ h[p] \in Nat
    <3> HIDE DEF g, h
    <3>1. \A p \in 1..n : g[p] \in 1..(N + 1) /\ h[p] \in Nat
      BY <1>3, <1>4
    <3>2. \A p \in (n + 1)..(n + m) : g[p] \in 1..(N + 1) /\ h[p] \in Nat
      BY <1>2, <1>4
    <3> QED BY <1>4, <3>1, <3>2
  <2> QED BY <2>1
<1> HIDE DEF g, h
<1>6. \A p \in 1..(n + m) : h[p] \in 1..Len(B[g[p]]) /\ (f \o b)[p] = B[g[p]][h[p]]
  <2>1. \A p \in 1..n : h[p] \in 1..Len(B[g[p]]) /\ (f \o b)[p] = B[g[p]][h[p]]
    BY <1>2, <1>3, <1>4
  <2>2. ASSUME NEW p \in (n + 1)..(n + m)
        PROVE  h[p] \in 1..Len(B[g[p]]) /\ (f \o b)[p] = B[g[p]][h[p]]
    <3>1. g[p] = N + 1 /\ h[p] = p - n /\ (f \o b)[p] = b[p - n] /\ p - n \in 1..m
      BY <1>2, <1>4
    <3> QED BY <3>1 DEF b, m
  <2> QED BY <1>4, <2>1, <2>2
<1>7. ASSUME NEW p \in 1..(n + m), NEW q \in 1..(n + m), g[p] = g[q], h[p] = h[q]
      PROVE  p = q
  <2>1. CASE p \in 1..n /\ q \in 1..n
    BY <2>1, <1>3, <1>4, <1>7
  <2>2. CASE p \in (n + 1)..(n + m) /\ q \in (n + 1)..(n + m)
    <3>1. p - n = q - n
      BY <2>2, <1>4, <1>7
    <3> QED BY <3>1, <1>2
  <2>3. ASSUME NEW x \in 1..n, NEW y \in (n + 1)..(n + m) PROVE g[x] # g[y]
    <3>1. g[x] \in 1..N /\ g[y] = N + 1
      BY <1>3, <1>4
    <3> QED BY <3>1
  <2> QED BY <1>4, <1>7, <2>1, <2>2, <2>3
<1>8. ASSUME NEW k \in 1..(N + 1), NEW l \in 1..Len(B[k])
      PROVE  \E p \in 1..(n + m) : g[p] = k /\ h[p] = l
  <2>1. CASE k \in 1..N
    <3>1. PICK p \in 1..n : group[p] = k /\ place[p] = l
      BY <2>1, <1>3
    <3> QED BY <3>1, <1>4
  <2>2. CASE k = N + 1
    <3>1. l \in 1..m
      BY <2>2 DEF m, b
    <3> DEFINE p == n + l
    <3>2. p \in (n + 1)..(n + m) /\ p - n = l
      BY <3>1, <1>2
    <3> HIDE DEF p
    <3>3. p \in 1..(n + m) /\ g[p] = N + 1 /\ h[p] = l
      BY <3>2, <1>4
    <3> QED BY <3>3, <2>2
  <2> QED BY <2>1, <2>2
<1>9. Places(f \o b, B, N + 1, g, h)
  <2> DEFINE fb == f \o b
  <2>1. Len(fb) = n + m
    BY <1>2
  <2>2. \A p \in 1..(n + m) : h[p] \in 1..Len(B[g[p]]) /\ fb[p] = B[g[p]][h[p]]
    BY <1>6
  <2>3. \A p, q \in 1..(n + m) : g[p] = g[q] /\ h[p] = h[q] => p = q
    BY <1>7
  <2>4. \A k \in 1..(N + 1) : \A l \in 1..Len(B[k]) :
           \E p \in 1..(n + m) : g[p] = k /\ h[p] = l
    BY <1>8
  <2> HIDE DEF fb
  <2>5. Places(fb, B, N + 1, g, h)
    BY <2>1, <2>2, <2>3, <2>4, <1>5 DEF Places
  <2> QED BY <2>5 DEF fb
<1> QED BY <1>2, <1>9 DEF Flattened, b

\* FlattenSeq puts the sequences one after the other.
LEMMA FlattenSeqFlattens ==
    ASSUME NEW E, NEW N \in Nat, NEW B \in [1..N -> Seq(E)]
    PROVE  Flattened(FlattenSeq(B), B, N, E)
<1>1. Len(B) = N /\ B \in Seq(Seq(E))
  OBVIOUS
<1>2. CASE N = 0
  <2>1. FlattenSeq(B) = B /\ Len(B) = 0 /\ B \in Seq(E)
    BY <1>1, <1>2 DEF FlattenSeq
  <2>2. Places(B, B, 0, [p \in 1..0 |-> 1], [p \in 1..0 |-> 1])
    BY <2>1 DEF Places
  <2> QED BY <2>1, <2>2, <1>2 DEF Flattened
<1>3. CASE N # 0
  <2> DEFINE Eq(F) == F = [i \in 1..N |-> IF i = 1 THEN B[i] ELSE F[i - 1] \o B[i]]
      F == CHOOSE f : Eq(f)
  <2>1. FlattenSeq(B) = F[N]
    BY <1>1, <1>3 DEF FlattenSeq
  <2>2. Eq(F)
    <3> DEFINE step == [q \in Seq(E) \X Seq(E) |-> q[1] \o q[2]]
    <3>1. step \in [Seq(E) \X Seq(E) -> Seq(E)]
      OBVIOUS
    <3>2. PICK it \in [SUBSET (1..N) -> Seq(E)] : Unfolds(it, N, <<>>, step, B)
      <4>1. <<>> \in Seq(E)
        OBVIOUS
      <4> HIDE DEF step
      <4> QED BY <4>1, <3>1, Recursion
    <3> DEFINE f == [i \in 1..N |-> it[1..i]]
    <3>3. it[{}] = <<>>
      BY <3>2 DEF Unfolds
    <3>4. ASSUME NEW i \in 1..N
          PROVE  it[1..i] = it[1..(i - 1)] \o B[i] /\ it[1..i] \in Seq(E)
      <4>1. i \in Nat /\ i # 0 /\ 1..i \in SUBSET (1..N) /\ 1..i # {}
            /\ 1..(i - 1) \in SUBSET (1..N)
        <5>1. i \in Nat /\ i # 0 /\ i <= N
          OBVIOUS
        <5>2. \A j \in 1..i : j \in 1..N
          BY <5>1
        <5>3. \A j \in 1..(i - 1) : j \in 1..N
          BY <5>1
        <5>4. 1 \in 1..i
          BY <5>1
        <5> QED BY <5>1, <5>2, <5>3, <5>4
      <4>2. Max(1..i) = i /\ (1..i) \ {Max(1..i)} = 1..(i - 1)
        BY <4>1, MaxOfInterval
      <4> HIDE DEF step
      <4>3. it[1..i] = step[<<it[1..(i - 1)], B[i]>>]
        BY <3>2, <4>1, <4>2 DEF Unfolds
      <4>4. it[1..(i - 1)] \in Seq(E) /\ B[i] \in Seq(E) /\ it[1..i] \in Seq(E)
        BY <4>1
      <4> QED BY <4>3, <4>4 DEF step
    <3>5. it[1..1] = B[1]
      <4>1. 1 \in 1..N /\ 1..(1 - 1) = {} /\ B[1] \in Seq(E)
        BY <1>3
      <4>2. it[1..1] = <<>> \o B[1]
        BY <4>1, <3>3, <3>4
      <4> QED BY <4>1, <4>2
    <3>6. \A i \in 1..N : f[i] = IF i = 1 THEN B[i] ELSE f[i - 1] \o B[i]
      <4> SUFFICES ASSUME NEW i \in 1..N
                   PROVE  f[i] = IF i = 1 THEN B[i] ELSE f[i - 1] \o B[i]
        OBVIOUS
      <4>1. CASE i = 1
        BY <4>1, <3>5
      <4>2. CASE i # 1
        <5>1. i - 1 \in 1..N
          BY <4>2
        <5> QED BY <5>1, <3>4, <4>2
      <4> QED BY <4>1, <4>2
    <3>7. f = [i \in 1..N |-> f[i]]
      OBVIOUS
    <3> HIDE DEF f
    <3>8. f = [i \in 1..N |-> IF i = 1 THEN B[i] ELSE f[i - 1] \o B[i]]
      BY <3>6, <3>7
    <3>9. Eq(f)
      BY <3>8
    <3> HIDE DEF Eq
    <3> QED BY <3>9
  <2> HIDE DEF F
  <2>3. F[1] = B[1] /\ \A i \in 1..(N - 1) : F[i + 1] = F[i] \o B[i + 1]
    <3>1. 1 \in 1..N /\ \A i \in 1..(N - 1) : i + 1 \in 1..N /\ i + 1 # 1 /\ i + 1 - 1 = i
      BY <1>3
    <3>2. \A i \in 1..N : F[i] = IF i = 1 THEN B[i] ELSE F[i - 1] \o B[i]
      <4>1. F = [i \in 1..N |-> IF i = 1 THEN B[i] ELSE F[i - 1] \o B[i]]
        BY <2>2
      <4> HIDE DEF Eq
      <4> QED BY <4>1
    <3> HIDE DEF Eq
    <3>3. F[1] = B[1]
      BY <3>1, <3>2
    <3>4. ASSUME NEW i \in 1..(N - 1) PROVE F[i + 1] = F[i] \o B[i + 1]
      <4>1. F[i + 1] = IF i + 1 = 1 THEN B[i + 1] ELSE F[i + 1 - 1] \o B[i + 1]
        BY <3>1, <3>2
      <4> QED BY <3>1, <4>1
    <3> QED BY <3>3, <3>4
  <2> DEFINE G == {n \in 0..(N - 1) : Flattened(F[n + 1], B, n + 1, E)}
  <2>4. 0 \in G
    <3>1. 0 \in 0..(N - 1) /\ B[1] \in Seq(E) /\ 0 + 1 = 1
      BY <1>3
    <3>2. Flattened(B[1], B, 1, E)
      BY <3>1, FlattenedFirst
    <3> QED BY <3>1, <3>2, <2>3
  <2>5. ASSUME NEW n \in 0..(N - 1 - 1), n \in G PROVE n + 1 \in G
    <3>1. n + 1 \in 0..(N - 1) /\ n + 1 \in 1..(N - 1) /\ n + 1 \in Nat
          /\ n + 1 + 1 \in 1..N /\ B[n + 1 + 1] \in Seq(E)
      OBVIOUS
    <3>2. Flattened(F[n + 1], B, n + 1, E)
      BY <2>5
    <3>3. Flattened(F[n + 1] \o B[n + 1 + 1], B, n + 1 + 1, E)
      BY <3>1, <3>2, FlattenedNext
    <3> QED BY <3>1, <3>3, <2>3
  <2>6. \A n \in 0..(N - 1) : n \in G
    <3>1. N - 1 \in Nat /\ \A n \in 0..(N - 1 - 1) : n \in G => n + 1 \in G
      BY <1>3, <2>5
    <3> HIDE DEF G
    <3> QED BY <3>1, <2>4, Induction
  <2>7. N - 1 \in 0..(N - 1) /\ N - 1 + 1 = N
    BY <1>3
  <2>8. Flattened(F[N - 1 + 1], B, N - 1 + 1, E)
    BY <2>6, <2>7
  <2> QED BY <2>1, <2>7, <2>8
<1> QED BY <1>2, <1>3

-----------------------------------------------------------------------------
(* Merging *)

\* The sequences A[1..N] hold the first n elements of s, each once.
Distributed(A, N, s, n) ==
    /\ \A k, h \in 1..N : \A l \in 1..Len(A[k]), m \in 1..Len(A[h]) :
          A[k][l] = A[h][m] => k = h /\ l = m
    /\ \A k \in 1..N : \A l \in 1..Len(A[k]) : \E i \in 1..n : A[k][l] = s[i]
    /\ \A i \in 1..n : \E k \in 1..N : \E l \in 1..Len(A[k]) : A[k][l] = s[i]

\* No groups hold nothing, a group that is empty adds nothing, and one more
\* element may be appended to any group.
LEMMA DistributedNone ==
    ASSUME NEW A, NEW s
    PROVE  Distributed(A, 0, s, 0)
BY DEF Distributed

LEMMA DistributedEmpty ==
    ASSUME NEW A, NEW N \in Nat, NEW s, NEW n \in Nat, Distributed(A, N, s, n), NEW A2,
           \A k \in 1..N : A2[k] = A[k], A2[N + 1] = <<>>
    PROVE  Distributed(A2, N + 1, s, n)
<1>1. /\ Len(A2[N + 1]) = 0
      /\ \A k \in 1..(N + 1) : k \in 1..N \/ k = N + 1
      /\ \A k \in 1..N : k \in 1..(N + 1)
  OBVIOUS
<1>2. \A k \in 1..(N + 1) : \A l \in 1..Len(A2[k]) : k \in 1..N /\ A2[k] = A[k]
  BY <1>1
<1>3. ASSUME NEW k \in 1..(N + 1), NEW h \in 1..(N + 1), NEW l \in 1..Len(A2[k]),
             NEW m \in 1..Len(A2[h]), A2[k][l] = A2[h][m]
      PROVE  k = h /\ l = m
  <2>1. k \in 1..N /\ h \in 1..N /\ A2[k] = A[k] /\ A2[h] = A[h]
    BY <1>2
  <2>2. l \in 1..Len(A[k]) /\ m \in 1..Len(A[h]) /\ A[k][l] = A[h][m]
    BY <2>1, <1>3
  <2> QED BY <2>1, <2>2 DEF Distributed
<1>4. ASSUME NEW k \in 1..(N + 1), NEW l \in 1..Len(A2[k])
      PROVE  \E i \in 1..n : A2[k][l] = s[i]
  <2>1. k \in 1..N /\ A2[k] = A[k]
    BY <1>2
  <2>2. l \in 1..Len(A[k])
    BY <2>1
  <2> QED BY <2>1, <2>2 DEF Distributed
<1>5. ASSUME NEW i \in 1..n
      PROVE  \E k \in 1..(N + 1) : \E l \in 1..Len(A2[k]) : A2[k][l] = s[i]
  <2>1. PICK k \in 1..N : \E l \in 1..Len(A[k]) : A[k][l] = s[i]
    BY DEF Distributed
  <2> QED BY <2>1, <1>1
<1> QED BY <1>3, <1>4, <1>5 DEF Distributed

\* No element is in a list twice.
Distinct(s) == \A i, j \in 1..Len(s) : s[i] = s[j] => i = j

LEMMA DistributedAppend ==
    ASSUME NEW E, NEW s \in Seq(E), Distinct(s),
           NEW A, NEW N \in Nat, \A k \in 1..N : A[k] \in Seq(E),
           NEW n \in Nat, n + 1 <= Len(s), Distributed(A, N, s, n),
           NEW g \in 1..N, NEW A2, A2[g] = Append(A[g], s[n + 1]),
           \A k \in 1..N : k # g => A2[k] = A[k]
    PROVE  Distributed(A2, N, s, n + 1)
<1> DEFINE z == Len(A[g])
    e == s[n + 1]
<1>1. /\ z \in Nat /\ n + 1 \in 1..Len(s) /\ e \in E
      /\ Len(A2[g]) = z + 1 /\ A2[g][z + 1] = e
      /\ \A l \in 1..z : A2[g][l] = A[g][l]
      /\ \A i \in 1..n : i \in 1..Len(s) /\ s[i] # e
  <2>1. n + 1 \in 1..Len(s) /\ A[g] \in Seq(E)
    OBVIOUS
  <2>2. e \in E /\ z \in Nat
    BY <2>1
  <2>3. /\ Len(A2[g]) = z + 1 /\ A2[g][z + 1] = e
        /\ \A l \in 1..z : A2[g][l] = A[g][l]
    BY <2>1, <2>2
  <2>4. ASSUME NEW i \in 1..n PROVE i \in 1..Len(s) /\ s[i] # e
    <3>1. i \in 1..Len(s) /\ i # n + 1
      BY <2>1
    <3>2. s[i] = s[n + 1] => i = n + 1
      BY <3>1, <2>1 DEF Distinct
    <3> QED BY <3>1, <3>2
  <2> QED BY <2>1, <2>2, <2>3, <2>4
<1>12. z = Len(A[g])
  OBVIOUS
<1> HIDE DEF z, e
<1>2. \A l \in 1..Len(A2[g]) : l \in 1..z \/ l = z + 1
  BY <1>1
\* What is in A2 is in A at the same place, or is the new element.
<1>3. ASSUME NEW k \in 1..N, NEW l \in 1..Len(A2[k])
      PROVE  \/ l \in 1..Len(A[k]) /\ A2[k][l] = A[k][l]
             \/ k = g /\ l = z + 1 /\ A2[k][l] = e
  <2>1. CASE k = g
    BY <2>1, <1>1, <1>2, <1>12
  <2>2. CASE k # g
    BY <2>2
  <2> QED BY <2>1, <2>2
<1>4. \A k \in 1..N : \A l \in 1..Len(A[k]) : A[k][l] # e
  <2> SUFFICES ASSUME NEW k \in 1..N, NEW l \in 1..Len(A[k]) PROVE A[k][l] # e
    OBVIOUS
  <2>1. PICK i \in 1..n : A[k][l] = s[i]
    BY DEF Distributed
  <2> QED BY <2>1, <1>1
<1>5. ASSUME NEW k \in 1..N, NEW h \in 1..N, NEW l \in 1..Len(A2[k]),
             NEW m \in 1..Len(A2[h]), A2[k][l] = A2[h][m]
      PROVE  k = h /\ l = m
  <2>1. CASE /\ l \in 1..Len(A[k]) /\ A2[k][l] = A[k][l]
             /\ m \in 1..Len(A[h]) /\ A2[h][m] = A[h][m]
    <3>1. l \in 1..Len(A[k]) /\ m \in 1..Len(A[h]) /\ A[k][l] = A[h][m]
      BY <2>1, <1>5
    <3>2. \A x, y \in 1..N : \A u \in 1..Len(A[x]), v \in 1..Len(A[y]) :
             A[x][u] = A[y][v] => x = y /\ u = v
      BY DEF Distributed
    <3> QED BY <3>1, <3>2
  <2>2. CASE l \in 1..Len(A[k]) /\ A2[k][l] = A[k][l] /\ A2[h][m] = e
    BY <2>2, <1>4, <1>5
  <2>3. CASE m \in 1..Len(A[h]) /\ A2[h][m] = A[h][m] /\ A2[k][l] = e
    BY <2>3, <1>4, <1>5
  <2>4. CASE k = g /\ l = z + 1 /\ h = g /\ m = z + 1
    BY <2>4
  <2> QED BY <1>3, <2>1, <2>2, <2>3, <2>4
<1>6. ASSUME NEW k \in 1..N, NEW l \in 1..Len(A2[k])
      PROVE  \E i \in 1..(n + 1) : A2[k][l] = s[i]
  <2>1. CASE l \in 1..Len(A[k]) /\ A2[k][l] = A[k][l]
    <3>1. PICK i \in 1..n : A[k][l] = s[i]
      BY <2>1 DEF Distributed
    <3> QED BY <3>1, <2>1
  <2>2. CASE A2[k][l] = e
    <3>1. n + 1 \in 1..(n + 1)
      OBVIOUS
    <3> QED BY <3>1, <2>2 DEF e
  <2> QED BY <1>3, <2>1, <2>2
<1>7. ASSUME NEW i \in 1..(n + 1)
      PROVE  \E k \in 1..N : \E l \in 1..Len(A2[k]) : A2[k][l] = s[i]
  <2>1. CASE i = n + 1
    <3>1. z + 1 \in 1..Len(A2[g]) /\ A2[g][z + 1] = s[i]
      BY <1>1, <2>1 DEF e
    <3> QED BY <3>1
  <2>2. CASE i \in 1..n
    <3>1. PICK k \in 1..N : \E l \in 1..Len(A[k]) : A[k][l] = s[i]
      BY <2>2 DEF Distributed
    <3>2. PICK l \in 1..Len(A[k]) : A[k][l] = s[i]
      BY <3>1
    <3>3. l \in 1..Len(A2[k]) /\ A2[k][l] = A[k][l]
      <4>1. CASE k = g
        <5>1. l \in 1..z /\ l \in 1..(z + 1)
          BY <4>1, <3>2, <1>1, <1>12
        <5> QED BY <4>1, <5>1, <1>1
      <4>2. CASE k # g
        BY <4>2
      <4> QED BY <4>1, <4>2
    <3> QED BY <3>2, <3>3
  <2>3. i = n + 1 \/ i \in 1..n
    OBVIOUS
  <2> QED BY <2>1, <2>2, <2>3
<1> QED BY <1>5, <1>6, <1>7 DEF Distributed

\* The groups, and the state of merging.
TokenTransferList ==
    [token : Token, decimals : Decimals \cup {Null}, transfers : Seq(TokenTransfer),
     nfts : Seq(Nft)]

MergeState == [i : Nat \ {0}, j : Nat \ {0}, groups : Seq(TokenTransferList)]

\* A group is not empty, is of one token, and without NFTs it has the decimals
\* of one of its transfers.
GroupOK(g) ==
    /\ g.transfers # <<>> \/ g.nfts # <<>>
    /\ \A l \in 1..Len(g.transfers) : g.transfers[l].token = g.token
    /\ \A l \in 1..Len(g.nfts) : g.nfts[l].token = g.token
    /\ g.nfts # <<>> \/ \E l \in 1..Len(g.transfers) : g.transfers[l].decimals = g.decimals

\* The lists of a body, group by group.
TransfersOf(groups) == [k \in 1..Len(groups) |-> groups[k].transfers]
NftsOf(groups) == [k \in 1..Len(groups) |-> groups[k].nfts]

\* The invariant of merging: the groups hold what comes before i and j.
MergeInv(ts, ns, m) ==
    /\ m \in MergeState
    /\ m.i <= Len(ts) + 1 /\ m.j <= Len(ns) + 1
    /\ \A k \in 1..Len(m.groups) : GroupOK(m.groups[k])
    /\ Distributed(TransfersOf(m.groups), Len(m.groups), ts, m.i - 1)
    /\ Distributed(NftsOf(m.groups), Len(m.groups), ns, m.j - 1)

\* The group that is found is of the token.
LEMMA GroupOfToken ==
    ASSUME NEW groups \in Seq(TokenTransferList), NEW token, NEW both
    PROVE  \/ Group(groups, token, both) = 0
           \/ /\ Group(groups, token, both) \in 1..Len(groups)
              /\ groups[Group(groups, token, both)].token = token
<1>1. CASE both
  BY <1>1 DEF Group, Last
<1>2. CASE ~ both
  <2> DEFINE I == {k \in 1..Len(groups) : groups[k].token = token}
  <2>1. Group(groups, token, both) = IF I # {} THEN Max(I) ELSE 0
    BY <1>2 DEF Group, SelectLastInSeq
  <2>2. CASE I # {}
    <3>1. Len(groups) \in Nat /\ I \in SUBSET (1..Len(groups))
      OBVIOUS
    <3> HIDE DEF I
    <3>2. Max(I) \in I
      BY <3>1, <2>2, MaxOf
    <3> QED BY <2>1, <2>2, <3>2 DEF I
  <2> QED BY <2>1, <2>2
<1> QED BY <1>1, <1>2

\* The next transfer is added to the group that was found.
LEMMA TransferAdded ==
    ASSUME NEW ts \in Seq(TokenTransfer), NEW ns \in Seq(Nft), NEW m, MergeInv(ts, ns, m),
           Distinct(ts),
           m.i <= Len(ts), NEW g \in 1..Len(m.groups), m.groups[g].token = ts[m.i].token
    PROVE  /\ MergeInv(ts, ns, WithTransfer(m, g, ts[m.i]))
           /\ WithTransfer(m, g, ts[m.i]).i = m.i + 1
           /\ WithTransfer(m, g, ts[m.i]).j = m.j
<1> DEFINE t == ts[m.i]
    G == m.groups
    added == [G[g] EXCEPT !.transfers = Append(G[g].transfers, t)]
    H == [G EXCEPT ![g] = added]
    w == WithTransfer(m, g, t)
<1>1. /\ m \in MergeState /\ m.i \in Nat \ {0} /\ m.j \in Nat \ {0} /\ m.i \in 1..Len(ts)
      /\ m.i <= Len(ts) + 1 /\ m.j <= Len(ns) + 1
      /\ G \in Seq(TokenTransferList) /\ \A k \in 1..Len(G) : GroupOK(G[k])
      /\ Distributed(TransfersOf(G), Len(G), ts, m.i - 1)
      /\ Distributed(NftsOf(G), Len(G), ns, m.j - 1)
  BY DEF MergeInv, MergeState
<1>2. t \in TokenTransfer
  BY <1>1
<1>14. w = [m EXCEPT !.i = m.i + 1, !.groups = H]
  BY DEF WithTransfer
<1>3. w.i = m.i + 1 /\ w.j = m.j /\ w.groups = H
  <2> HIDE DEF H, w
  <2> QED BY <1>1, <1>14 DEF MergeState
<1>4. /\ G[g] \in TokenTransferList
      /\ G[g].transfers \in Seq(TokenTransfer)
      /\ Append(G[g].transfers, t) \in Seq(TokenTransfer)
  <2>1. G[g] \in TokenTransferList
    BY <1>1
  <2>2. G[g].transfers \in Seq(TokenTransfer)
    BY <2>1 DEF TokenTransferList
  <2> HIDE DEF t, G
  <2> QED BY <2>1, <2>2, <1>2
<1>5. /\ added \in TokenTransferList
      /\ added.token = G[g].token /\ added.decimals = G[g].decimals
      /\ added.nfts = G[g].nfts /\ added.transfers = Append(G[g].transfers, t)
  <2> HIDE DEF t, G
  <2> QED BY <1>4 DEF TokenTransferList
<1> HIDE DEF added
<1>6. H \in Seq(TokenTransferList) /\ Len(H) = Len(G)
  BY <1>1, <1>5
<1>7. /\ H[g].token = G[g].token /\ H[g].decimals = G[g].decimals
      /\ H[g].nfts = G[g].nfts /\ H[g].transfers = Append(G[g].transfers, t)
      /\ \A k \in 1..Len(G) : k # g => H[k] = G[k]
  <2>1. H[g] = added /\ \A k \in 1..Len(G) : k # g => H[k] = G[k]
    BY <1>1
  <2> QED BY <2>1, <1>5
<1>99. t.token = G[g].token
  OBVIOUS
<1> HIDE DEF H, G, t, w
<1>8. GroupOK(H[g])
  <2> DEFINE old == G[g].transfers
             new == H[g].transfers
  <2>1. /\ old \in Seq(TokenTransfer) /\ new = Append(old, t) /\ Len(new) = Len(old) + 1
        /\ Len(old) \in Nat /\ new # <<>> /\ new[Len(old) + 1] = t
        /\ \A l \in 1..Len(old) : new[l] = old[l]
    <3>1. old \in Seq(TokenTransfer) /\ new = Append(old, t)
      BY <1>4, <1>7
    <3> HIDE DEF old, new
    <3>2. /\ Len(new) = Len(old) + 1 /\ Len(old) \in Nat /\ new[Len(old) + 1] = t
          /\ \A l \in 1..Len(old) : new[l] = old[l]
      BY <3>1, <1>2
    <3>3. new # <<>>
      BY <3>2
    <3> QED BY <3>1, <3>2, <3>3
  <2>2. GroupOK(G[g])
    BY <1>1 DEF G
  <2>3. /\ \A l \in 1..Len(old) : old[l].token = G[g].token
        /\ \A l \in 1..Len(G[g].nfts) : G[g].nfts[l].token = G[g].token
        /\ G[g].nfts # <<>> \/ \E l \in 1..Len(old) : old[l].decimals = G[g].decimals
    BY <2>2 DEF GroupOK
  <2> HIDE DEF old, new
  <2>4. \A l \in 1..Len(new) : new[l].token = H[g].token
    <3> SUFFICES ASSUME NEW l \in 1..Len(new) PROVE new[l].token = H[g].token
      OBVIOUS
    <3>1. l \in 1..Len(old) \/ l = Len(old) + 1
      BY <2>1
    <3> QED BY <3>1, <2>1, <2>3, <1>7, <1>99
  <2>5. H[g].nfts # <<>> \/ \E l \in 1..Len(new) : new[l].decimals = H[g].decimals
    <3> SUFFICES ASSUME NEW l \in 1..Len(old), old[l].decimals = G[g].decimals
                 PROVE  \E h \in 1..Len(new) : new[h].decimals = H[g].decimals
      BY <2>3, <1>7
    <3>1. l \in 1..Len(new) /\ new[l] = old[l]
      BY <2>1
    <3> QED BY <3>1, <1>7
  <2> QED BY <2>1, <2>3, <2>4, <2>5, <1>7 DEF GroupOK, new
<1>9. \A k \in 1..Len(H) : GroupOK(H[k])
  <2> SUFFICES ASSUME NEW k \in 1..Len(H) PROVE GroupOK(H[k])
    OBVIOUS
  <2>1. k \in 1..Len(G)
    BY <1>6
  <2>2. CASE k = g
    BY <2>2, <1>8
  <2>3. CASE k # g
    <3>1. H[k] = G[k]
      BY <2>1, <2>3, <1>7
    <3>2. GroupOK(G[k])
      BY <2>1, <1>1
    <3> QED BY <3>1, <3>2
  <2> QED BY <2>2, <2>3
<1>10. Distributed(TransfersOf(H), Len(G), ts, m.i)
  <2> DEFINE A == TransfersOf(G)
             A2 == TransfersOf(H)
             n == m.i - 1
             N == Len(G)
  <2>1. /\ n \in Nat /\ n + 1 = m.i /\ n + 1 <= Len(ts) /\ N \in Nat /\ g \in 1..N
        /\ Distributed(A, N, ts, n)
    <3> DEFINE x == m.i
    <3>1. x \in Nat /\ x # 0 /\ x <= Len(ts)
      BY <1>1
    <3>2. N \in Nat /\ g \in 1..N /\ Distributed(A, N, ts, x - 1)
      BY <1>1 DEF G
    <3> HIDE DEF x, A, N
    <3>3. x - 1 \in Nat /\ x - 1 + 1 = x
      BY <3>1
    <3> QED BY <3>1, <3>2, <3>3 DEF x
  <2>2. \A k \in 1..N : A[k] = G[k].transfers /\ A2[k] = H[k].transfers
    BY <1>6 DEF TransfersOf
  <2>3. \A k \in 1..N : A[k] \in Seq(TokenTransfer)
    <3> SUFFICES ASSUME NEW k \in 1..N PROVE G[k].transfers \in Seq(TokenTransfer)
      BY <2>2
    <3>1. G[k] \in TokenTransferList
      BY <1>1
    <3> QED BY <3>1 DEF TokenTransferList
  <2>4. A2[g] = Append(A[g], ts[n + 1]) /\ \A k \in 1..N : k # g => A2[k] = A[k]
    BY <2>1, <2>2, <1>7 DEF t
  <2> HIDE DEF A, A2, n, N
  <2>5. Distributed(A2, N, ts, n + 1)
    BY <2>1, <2>3, <2>4, DistributedAppend
  <2> QED BY <2>1, <2>5 DEF A2, N
<1>11. Distributed(NftsOf(H), Len(G), ns, m.j - 1)
  <2>1. ASSUME NEW k \in 1..Len(G) PROVE H[k].nfts = G[k].nfts
    <3>1. CASE k = g
      BY <3>1, <1>7
    <3>2. CASE k # g
      BY <3>2, <1>7
    <3> QED BY <3>1, <3>2
  <2>2. NftsOf(H) = NftsOf(G)
    BY <2>1, <1>6 DEF NftsOf
  <2> QED BY <2>2, <1>1
<1>12. w \in MergeState
  <2>1. m.i + 1 \in Nat \ {0}
    <3> DEFINE x == m.i
    <3>1. x \in Nat
      BY <1>1
    <3> HIDE DEF x
    <3>2. x + 1 \in Nat \ {0}
      BY <3>1
    <3> QED BY <3>2 DEF x
  <2> HIDE DEF H, w
  <2> QED BY <1>1, <1>14, <1>6, <2>1 DEF MergeState
<1>13. MergeInv(ts, ns, w)
  <2>1. w.i <= Len(ts) + 1 /\ w.j <= Len(ns) + 1 /\ w.i - 1 = m.i
    <3> DEFINE x == m.i
               z == Len(ts)
               y == w.i
    <3>1. x \in Nat /\ z \in Nat /\ x <= z
      BY <1>1
    <3>2. y = x + 1
      BY <1>3
    <3>3. w.j <= Len(ns) + 1
      BY <1>1, <1>3
    <3> HIDE DEF x, y, z
    <3>4. y <= z + 1 /\ y - 1 = x
      BY <3>1, <3>2
    <3> QED BY <3>3, <3>4 DEF x, y, z
  <2> QED BY <2>1, <1>3, <1>6, <1>9, <1>10, <1>11, <1>12 DEF MergeInv
<1> QED BY <1>3, <1>13 DEF w, t

\* The next NFT is added to the group that was found.
LEMMA NftAdded ==
    ASSUME NEW ts \in Seq(TokenTransfer), NEW ns \in Seq(Nft), NEW m, MergeInv(ts, ns, m),
           Distinct(ns),
           m.j <= Len(ns), NEW g \in 1..Len(m.groups), m.groups[g].token = ns[m.j].token
    PROVE  /\ MergeInv(ts, ns, WithNftTransfer(m, g, ns[m.j]))
           /\ WithNftTransfer(m, g, ns[m.j]).i = m.i
           /\ WithNftTransfer(m, g, ns[m.j]).j = m.j + 1
<1> DEFINE t == ns[m.j]
    G == m.groups
    added == [G[g] EXCEPT !.nfts = Append(G[g].nfts, t)]
    H == [G EXCEPT ![g] = added]
    w == WithNftTransfer(m, g, t)
<1>1. /\ m \in MergeState /\ m.i \in Nat \ {0} /\ m.j \in Nat \ {0} /\ m.j \in 1..Len(ns)
      /\ m.i <= Len(ts) + 1 /\ m.j <= Len(ns) + 1
      /\ G \in Seq(TokenTransferList) /\ \A k \in 1..Len(G) : GroupOK(G[k])
      /\ Distributed(NftsOf(G), Len(G), ns, m.j - 1)
      /\ Distributed(TransfersOf(G), Len(G), ts, m.i - 1)
  BY DEF MergeInv, MergeState
<1>2. t \in Nft
  BY <1>1
<1>14. w = [m EXCEPT !.j = m.j + 1, !.groups = H]
  BY DEF WithNftTransfer
<1>3. w.i = m.i /\ w.j = m.j + 1 /\ w.groups = H
  <2> HIDE DEF H, w
  <2> QED BY <1>1, <1>14 DEF MergeState
<1>4. /\ G[g] \in TokenTransferList
      /\ G[g].nfts \in Seq(Nft)
      /\ Append(G[g].nfts, t) \in Seq(Nft)
  <2>1. G[g] \in TokenTransferList
    BY <1>1
  <2>2. G[g].nfts \in Seq(Nft)
    BY <2>1 DEF TokenTransferList
  <2> HIDE DEF t, G
  <2> QED BY <2>1, <2>2, <1>2
<1>5. /\ added \in TokenTransferList
      /\ added.token = G[g].token /\ added.decimals = G[g].decimals
      /\ added.transfers = G[g].transfers /\ added.nfts = Append(G[g].nfts, t)
  <2> HIDE DEF t, G
  <2> QED BY <1>4 DEF TokenTransferList
<1> HIDE DEF added
<1>6. H \in Seq(TokenTransferList) /\ Len(H) = Len(G)
  BY <1>1, <1>5
<1>7. /\ H[g].token = G[g].token /\ H[g].decimals = G[g].decimals
      /\ H[g].transfers = G[g].transfers /\ H[g].nfts = Append(G[g].nfts, t)
      /\ \A k \in 1..Len(G) : k # g => H[k] = G[k]
  <2>1. H[g] = added /\ \A k \in 1..Len(G) : k # g => H[k] = G[k]
    BY <1>1
  <2> QED BY <2>1, <1>5
<1>99. t.token = G[g].token
  OBVIOUS
<1> HIDE DEF H, G, t, w
<1>8. GroupOK(H[g])
  <2> DEFINE old == G[g].nfts
             new == H[g].nfts
  <2>1. /\ old \in Seq(Nft) /\ new = Append(old, t) /\ Len(new) = Len(old) + 1
        /\ Len(old) \in Nat /\ new # <<>> /\ new[Len(old) + 1] = t
        /\ \A l \in 1..Len(old) : new[l] = old[l]
    <3>1. old \in Seq(Nft) /\ new = Append(old, t)
      BY <1>4, <1>7
    <3> HIDE DEF old, new
    <3>2. /\ Len(new) = Len(old) + 1 /\ Len(old) \in Nat /\ new[Len(old) + 1] = t
          /\ \A l \in 1..Len(old) : new[l] = old[l]
      BY <3>1, <1>2
    <3>3. new # <<>>
      BY <3>2
    <3> QED BY <3>1, <3>2, <3>3
  <2>2. GroupOK(G[g])
    BY <1>1 DEF G
  <2>3. /\ \A l \in 1..Len(old) : old[l].token = G[g].token
        /\ \A l \in 1..Len(G[g].transfers) : G[g].transfers[l].token = G[g].token
    BY <2>2 DEF GroupOK
  <2> HIDE DEF old, new
  <2>4. \A l \in 1..Len(new) : new[l].token = H[g].token
    <3> SUFFICES ASSUME NEW l \in 1..Len(new) PROVE new[l].token = H[g].token
      OBVIOUS
    <3>1. l \in 1..Len(old) \/ l = Len(old) + 1
      BY <2>1
    <3> QED BY <3>1, <2>1, <2>3, <1>7, <1>99
  <2> QED BY <2>1, <2>3, <2>4, <1>7 DEF GroupOK, new
<1>9. \A k \in 1..Len(H) : GroupOK(H[k])
  <2> SUFFICES ASSUME NEW k \in 1..Len(H) PROVE GroupOK(H[k])
    OBVIOUS
  <2>1. k \in 1..Len(G)
    BY <1>6
  <2>2. CASE k = g
    BY <2>2, <1>8
  <2>3. CASE k # g
    <3>1. H[k] = G[k]
      BY <2>1, <2>3, <1>7
    <3>2. GroupOK(G[k])
      BY <2>1, <1>1
    <3> QED BY <3>1, <3>2
  <2> QED BY <2>2, <2>3
<1>10. Distributed(NftsOf(H), Len(G), ns, m.j)
  <2> DEFINE A == NftsOf(G)
             A2 == NftsOf(H)
             n == m.j - 1
             N == Len(G)
  <2>1. /\ n \in Nat /\ n + 1 = m.j /\ n + 1 <= Len(ns) /\ N \in Nat /\ g \in 1..N
        /\ Distributed(A, N, ns, n)
    <3> DEFINE x == m.j
    <3>1. x \in Nat /\ x # 0 /\ x <= Len(ns)
      BY <1>1
    <3>2. N \in Nat /\ g \in 1..N /\ Distributed(A, N, ns, x - 1)
      BY <1>1 DEF G
    <3> HIDE DEF x, A, N
    <3>3. x - 1 \in Nat /\ x - 1 + 1 = x
      BY <3>1
    <3> QED BY <3>1, <3>2, <3>3 DEF x
  <2>2. \A k \in 1..N : A[k] = G[k].nfts /\ A2[k] = H[k].nfts
    BY <1>6 DEF NftsOf
  <2>3. \A k \in 1..N : A[k] \in Seq(Nft)
    <3> SUFFICES ASSUME NEW k \in 1..N PROVE G[k].nfts \in Seq(Nft)
      BY <2>2
    <3>1. G[k] \in TokenTransferList
      BY <1>1
    <3> QED BY <3>1 DEF TokenTransferList
  <2>4. A2[g] = Append(A[g], ns[n + 1]) /\ \A k \in 1..N : k # g => A2[k] = A[k]
    BY <2>1, <2>2, <1>7 DEF t
  <2> HIDE DEF A, A2, n, N
  <2>5. Distributed(A2, N, ns, n + 1)
    BY <2>1, <2>3, <2>4, DistributedAppend
  <2> QED BY <2>1, <2>5 DEF A2, N
<1>11. Distributed(TransfersOf(H), Len(G), ts, m.i - 1)
  <2>1. ASSUME NEW k \in 1..Len(G) PROVE H[k].transfers = G[k].transfers
    <3>1. CASE k = g
      BY <3>1, <1>7
    <3>2. CASE k # g
      BY <3>2, <1>7
    <3> QED BY <3>1, <3>2
  <2>2. TransfersOf(H) = TransfersOf(G)
    BY <2>1, <1>6 DEF TransfersOf
  <2> QED BY <2>2, <1>1
<1>12. w \in MergeState
  <2>1. m.j + 1 \in Nat \ {0}
    <3> DEFINE x == m.j
    <3>1. x \in Nat
      BY <1>1
    <3> HIDE DEF x
    <3>2. x + 1 \in Nat \ {0}
      BY <3>1
    <3> QED BY <3>2 DEF x
  <2> HIDE DEF H, w
  <2> QED BY <1>1, <1>14, <1>6, <2>1 DEF MergeState
<1>13. MergeInv(ts, ns, w)
  <2>1. w.i <= Len(ts) + 1 /\ w.j <= Len(ns) + 1 /\ w.j - 1 = m.j
    <3> DEFINE x == m.j
               z == Len(ns)
               y == w.j
    <3>1. x \in Nat /\ z \in Nat /\ x <= z
      BY <1>1
    <3>2. y = x + 1
      BY <1>3
    <3>3. w.i <= Len(ts) + 1
      BY <1>1, <1>3
    <3> HIDE DEF x, y, z
    <3>4. y <= z + 1 /\ y - 1 = x
      BY <3>1, <3>2
    <3> QED BY <3>3, <3>4 DEF x, y, z
  <2> QED BY <2>1, <1>3, <1>6, <1>9, <1>10, <1>11, <1>12 DEF MergeInv
<1> QED BY <1>3, <1>13 DEF w, t

\* A group of its own for the next element.
LEMMA DistributedMore ==
    ASSUME NEW E, NEW s \in Seq(E), Distinct(s),
           NEW A, NEW N \in Nat, \A k \in 1..N : A[k] \in Seq(E),
           NEW n \in Nat, n + 1 <= Len(s), Distributed(A, N, s, n),
           NEW A2, \A k \in 1..N : A2[k] = A[k], A2[N + 1] = <<s[n + 1]>>
    PROVE  Distributed(A2, N + 1, s, n + 1)
<1> DEFINE B == [k \in 1..(N + 1) |-> IF k = N + 1 THEN <<>> ELSE A[k]]
<1>1. /\ N + 1 \in Nat /\ N + 1 \in 1..(N + 1) /\ s[n + 1] \in E
      /\ \A k \in 1..N : k # N + 1 /\ k \in 1..(N + 1)
      /\ \A k \in 1..(N + 1) : k # N + 1 => k \in 1..N
  OBVIOUS
<1>2. B[N + 1] = <<>> /\ \A k \in 1..N : B[k] = A[k]
  BY <1>1
<1>3. \A k \in 1..(N + 1) : B[k] \in Seq(E)
  BY <1>1, <1>2
<1> HIDE DEF B
<1>4. Distributed(B, N + 1, s, n)
  BY <1>2, DistributedEmpty
<1>5. A2[N + 1] = Append(B[N + 1], s[n + 1])
  BY <1>1, <1>2
<1>6. \A k \in 1..(N + 1) : k # N + 1 => A2[k] = B[k]
  <2> SUFFICES ASSUME NEW k \in 1..(N + 1), k # N + 1 PROVE A2[k] = B[k]
    OBVIOUS
  <2>1. k \in 1..N
    BY <1>1
  <2> QED BY <2>1, <1>2
<1> QED BY <1>1, <1>3, <1>4, <1>5, <1>6, DistributedAppend

\* A new group takes the next transfer, the next NFT or both.
LEMMA GroupStarted ==
    ASSUME TransferAssumption,
           NEW ts \in Seq(TokenTransfer), NEW ns \in Seq(Nft), NEW m, MergeInv(ts, ns, m),
           Distinct(ts), Distinct(ns), m.i <= Len(ts) \/ m.j <= Len(ns)
    PROVE  /\ MergeInv(ts, ns, NewGroup(ts, ns, m))
           /\ NewGroup(ts, ns, m).i + NewGroup(ts, ns, m).j > m.i + m.j
<1> DEFINE t == m.i <= Len(ts) /\ (m.j <= Len(ns) => ts[m.i].token <= ns[m.j].token)
    n == m.j <= Len(ns) /\ (m.i <= Len(ts) => ns[m.j].token <= ts[m.i].token)
    G == m.groups
    g == [token |-> IF t THEN ts[m.i].token ELSE ns[m.j].token,
          decimals |-> IF t THEN ts[m.i].decimals ELSE Null,
          transfers |-> IF t THEN <<ts[m.i]>> ELSE <<>>,
          nfts |-> IF n THEN <<ns[m.j]>> ELSE <<>>]
    H == Append(G, g)
    w == NewGroup(ts, ns, m)
    N == Len(G)
<1>1. /\ m \in MergeState /\ m.i \in Nat \ {0} /\ m.j \in Nat \ {0}
      /\ m.i <= Len(ts) + 1 /\ m.j <= Len(ns) + 1
      /\ G \in Seq(TokenTransferList) /\ \A k \in 1..Len(G) : GroupOK(G[k])
      /\ Distributed(TransfersOf(G), Len(G), ts, m.i - 1)
      /\ Distributed(NftsOf(G), Len(G), ns, m.j - 1)
  BY DEF MergeInv, MergeState
<1>2. /\ m.i <= Len(ts) => /\ ts[m.i] \in TokenTransfer /\ ts[m.i].token \in Token
                           /\ ts[m.i].token \in Nat
                           /\ ts[m.i].decimals \in Decimals \cup {Null}
      /\ m.j <= Len(ns) => ns[m.j] \in Nft /\ ns[m.j].token \in Token /\ ns[m.j].token \in Nat
  <2>1. ASSUME m.i <= Len(ts)
        PROVE  /\ ts[m.i] \in TokenTransfer /\ ts[m.i].token \in Token
               /\ ts[m.i].token \in Nat /\ ts[m.i].decimals \in Decimals \cup {Null}
    <3>1. ts[m.i] \in TokenTransfer
      BY <1>1, <2>1
    <3> QED BY <3>1 DEF TokenTransfer, TransferAssumption
  <2>2. ASSUME m.j <= Len(ns)
        PROVE  ns[m.j] \in Nft /\ ns[m.j].token \in Token /\ ns[m.j].token \in Nat
    <3>1. ns[m.j] \in Nft
      BY <1>1, <2>2
    <3> QED BY <3>1 DEF Nft, TransferAssumption
  <2> QED BY <2>1, <2>2
<1>3. (t \/ n) /\ (t => m.i <= Len(ts)) /\ (n => m.j <= Len(ns))
      /\ (t /\ n => ts[m.i].token = ns[m.j].token)
  <2>1. m.i <= Len(ts) /\ m.j <= Len(ns) =>
          \/ ts[m.i].token <= ns[m.j].token
          \/ ns[m.j].token <= ts[m.i].token
    BY <1>2
  <2>2. t /\ n => ts[m.i].token = ns[m.j].token
    BY <1>2
  <2> QED BY <2>1, <2>2
<1>4. w = [i |-> IF t THEN m.i + 1 ELSE m.i, j |-> IF n THEN m.j + 1 ELSE m.j, groups |-> H]
  BY DEF NewGroup
<1> HIDE DEF t, n, w
<1>5. /\ g.token = (IF t THEN ts[m.i].token ELSE ns[m.j].token)
      /\ g.decimals = (IF t THEN ts[m.i].decimals ELSE Null)
      /\ g.transfers = (IF t THEN <<ts[m.i]>> ELSE <<>>)
      /\ g.nfts = (IF n THEN <<ns[m.j]>> ELSE <<>>)
      /\ g = [token |-> g.token, decimals |-> g.decimals, transfers |-> g.transfers,
              nfts |-> g.nfts]
  OBVIOUS
<1> HIDE DEF g
<1>6. g \in TokenTransferList
  <2>1. g.token \in Token /\ g.decimals \in Decimals \cup {Null}
    BY <1>2, <1>3, <1>5
  <2>2. g.transfers \in Seq(TokenTransfer)
    <3>1. CASE t
      BY <3>1, <1>2, <1>3, <1>5
    <3>2. CASE ~ t
      BY <3>2, <1>5
    <3> QED BY <3>1, <3>2
  <2>3. g.nfts \in Seq(Nft)
    <3>1. CASE n
      BY <3>1, <1>2, <1>3, <1>5
    <3>2. CASE ~ n
      BY <3>2, <1>5
    <3> QED BY <3>1, <3>2
  <2> QED BY <2>1, <2>2, <2>3, <1>5 DEF TokenTransferList
<1>7. GroupOK(g)
  <2>1. CASE t
    <3>1. g.transfers = <<ts[m.i]>> /\ g.token = ts[m.i].token /\ g.decimals = ts[m.i].decimals
      BY <2>1, <1>5
    <3>2. Len(g.transfers) = 1 /\ g.transfers[1] = ts[m.i] /\ g.transfers # <<>>
      BY <3>1
    <3>3. \A l \in 1..Len(g.transfers) : g.transfers[l].token = g.token
      BY <3>1, <3>2
    <3>4. \E l \in 1..Len(g.transfers) : g.transfers[l].decimals = g.decimals
      <4>1. 1 \in 1..Len(g.transfers)
        BY <3>2
      <4> QED BY <4>1, <3>1, <3>2
    <3>5. \A l \in 1..Len(g.nfts) : g.nfts[l].token = g.token
      <4>1. CASE n
        <5>1. g.nfts = <<ns[m.j]>> /\ g.token = ns[m.j].token
          BY <4>1, <2>1, <1>3, <1>5
        <5> QED BY <5>1
      <4>2. CASE ~ n
        <5>1. Len(g.nfts) = 0
          BY <4>2, <1>5
        <5> QED BY <5>1
      <4> QED BY <4>1, <4>2
    <3> QED BY <3>2, <3>3, <3>4, <3>5 DEF GroupOK
  <2>2. CASE ~ t
    <3>1. g.transfers = <<>> /\ g.nfts = <<ns[m.j]>> /\ g.token = ns[m.j].token
      BY <2>2, <1>3, <1>5
    <3>2. Len(g.nfts) = 1 /\ g.nfts[1] = ns[m.j] /\ g.nfts # <<>> /\ Len(g.transfers) = 0
      BY <3>1
    <3>3. \A l \in 1..Len(g.nfts) : g.nfts[l].token = g.token
      BY <3>1, <3>2
    <3> QED BY <3>2, <3>3 DEF GroupOK
  <2> QED BY <2>1, <2>2
<1>8. /\ H \in Seq(TokenTransferList) /\ Len(H) = N + 1 /\ H[N + 1] = g /\ N \in Nat
      /\ \A k \in 1..N : H[k] = G[k]
  BY <1>1, <1>6
<1> HIDE DEF H, N
<1>9. \A k \in 1..Len(H) : GroupOK(H[k])
  <2> SUFFICES ASSUME NEW k \in 1..(N + 1) PROVE GroupOK(H[k])
    BY <1>8
  <2>1. k \in 1..N \/ k = N + 1
    BY <1>8
  <2> QED BY <2>1, <1>1, <1>7, <1>8 DEF N
<1>10. \A k \in 1..N : G[k].transfers \in Seq(TokenTransfer) /\ G[k].nfts \in Seq(Nft)
  <2> SUFFICES ASSUME NEW k \in 1..N
               PROVE  G[k].transfers \in Seq(TokenTransfer) /\ G[k].nfts \in Seq(Nft)
    OBVIOUS
  <2>1. G[k] \in TokenTransferList
    BY <1>1 DEF N
  <2> QED BY <2>1 DEF TokenTransferList
<1>11. /\ \A k \in 1..N : /\ TransfersOf(G)[k] = G[k].transfers /\ NftsOf(G)[k] = G[k].nfts
                          /\ TransfersOf(H)[k] = G[k].transfers /\ NftsOf(H)[k] = G[k].nfts
       /\ TransfersOf(H)[N + 1] = g.transfers /\ NftsOf(H)[N + 1] = g.nfts
  <2>1. \A k \in 1..N : k \in 1..(N + 1) /\ N + 1 \in 1..(N + 1)
    BY <1>8
  <2>2. N + 1 \in 1..(N + 1)
    BY <1>8
  <2> QED BY <2>1, <2>2, <1>8 DEF TransfersOf, NftsOf, N
<1>12. Distributed(TransfersOf(H), N + 1, ts, IF t THEN m.i ELSE m.i - 1)
  <2> DEFINE A == TransfersOf(G)
             A2 == TransfersOf(H)
             h == m.i - 1
  <2>5. h \in Nat /\ h + 1 = m.i
    BY <1>1
  <2>6. Distributed(A, N, ts, h)
    BY <1>1 DEF N
  <2>1. h \in Nat /\ h + 1 = m.i /\ Distributed(A, N, ts, h) /\ N \in Nat
    BY <2>5, <2>6, <1>8
  <2>2. /\ \A k \in 1..N : A[k] \in Seq(TokenTransfer) /\ A2[k] = A[k]
        /\ A2[N + 1] = g.transfers
    BY <1>10, <1>11
  <2> HIDE DEF A, A2, h
  <2>3. CASE t
    <3>1. h + 1 <= Len(ts) /\ A2[N + 1] = <<ts[h + 1]>>
      BY <2>1, <2>2, <2>3, <1>3, <1>5
    <3>2. Distributed(A2, N + 1, ts, h + 1)
      BY <2>1, <2>2, <3>1, DistributedMore
    <3> QED BY <3>2, <2>1, <2>3 DEF A2
  <2>4. CASE ~ t
    <3>1. A2[N + 1] = <<>>
      BY <2>2, <2>4, <1>5
    <3>2. Distributed(A2, N + 1, ts, h)
      BY <2>1, <2>2, <3>1, DistributedEmpty
    <3> QED BY <3>2, <2>4 DEF A2, h
  <2> QED BY <2>3, <2>4
<1>13. Distributed(NftsOf(H), N + 1, ns, IF n THEN m.j ELSE m.j - 1)
  <2> DEFINE A == NftsOf(G)
             A2 == NftsOf(H)
             h == m.j - 1
  <2>5. h \in Nat /\ h + 1 = m.j
    BY <1>1
  <2>6. Distributed(A, N, ns, h)
    BY <1>1 DEF N
  <2>1. h \in Nat /\ h + 1 = m.j /\ Distributed(A, N, ns, h) /\ N \in Nat
    BY <2>5, <2>6, <1>8
  <2>2. /\ \A k \in 1..N : A[k] \in Seq(Nft) /\ A2[k] = A[k]
        /\ A2[N + 1] = g.nfts
    BY <1>10, <1>11
  <2> HIDE DEF A, A2, h
  <2>3. CASE n
    <3>1. h + 1 <= Len(ns) /\ A2[N + 1] = <<ns[h + 1]>>
      BY <2>1, <2>2, <2>3, <1>3, <1>5
    <3>2. Distributed(A2, N + 1, ns, h + 1)
      BY <2>1, <2>2, <3>1, DistributedMore
    <3> QED BY <3>2, <2>1, <2>3 DEF A2
  <2>4. CASE ~ n
    <3>1. A2[N + 1] = <<>>
      BY <2>2, <2>4, <1>5
    <3>2. Distributed(A2, N + 1, ns, h)
      BY <2>1, <2>2, <3>1, DistributedEmpty
    <3> QED BY <3>2, <2>4 DEF A2, h
  <2> QED BY <2>3, <2>4
<1>14. /\ w.i = (IF t THEN m.i + 1 ELSE m.i) /\ w.j = (IF n THEN m.j + 1 ELSE m.j)
       /\ w.groups = H /\ w \in MergeState
  <2> DEFINE x == m.i
             y == m.j
  <2>1. /\ (IF t THEN x + 1 ELSE x) \in Nat \ {0}
        /\ (IF n THEN y + 1 ELSE y) \in Nat \ {0}
    <3>1. x \in Nat \ {0} /\ y \in Nat \ {0}
      BY <1>1
    <3> HIDE DEF x, y
    <3> QED BY <3>1
  <2> QED BY <2>1, <1>4, <1>8 DEF MergeState
<1>15. /\ w.i <= Len(ts) + 1 /\ w.j <= Len(ns) + 1
       /\ w.i - 1 = (IF t THEN m.i ELSE m.i - 1) /\ w.j - 1 = (IF n THEN m.j ELSE m.j - 1)
       /\ w.i + w.j > m.i + m.j
  <2> DEFINE a == Len(ts)
             b == Len(ns)
             x == m.i
             y == m.j
  <2>1. a \in Nat /\ b \in Nat
    OBVIOUS
  <2>2. x \in Nat /\ y \in Nat /\ x <= a + 1 /\ y <= b + 1
    BY <1>1
  <2>3. (t \/ n) /\ (t => x <= a) /\ (n => y <= b)
    BY <1>3
  <2>4. w.i = (IF t THEN x + 1 ELSE x) /\ w.j = (IF n THEN y + 1 ELSE y)
    BY <1>14
  <2> HIDE DEF a, b, x, y, G
  <2>5. w.i <= a + 1 /\ w.i - 1 = (IF t THEN x ELSE x - 1)
    BY <2>1, <2>2, <2>3, <2>4
  <2>6. w.j <= b + 1 /\ w.j - 1 = (IF n THEN y ELSE y - 1)
    BY <2>1, <2>2, <2>3, <2>4
  <2>7. w.i + w.j > x + y
    BY <2>2, <2>3, <2>4
  <2> QED BY <2>5, <2>6, <2>7 DEF a, b, x, y
<1>16. MergeInv(ts, ns, w)
  BY <1>8, <1>9, <1>12, <1>13, <1>14, <1>15 DEF MergeInv
<1> QED BY <1>15, <1>16 DEF w

\* Every step of merging adds something, until all is.
LEMMA MergeStepAdds ==
    ASSUME TransferAssumption,
           NEW ts \in Seq(TokenTransfer), NEW ns \in Seq(Nft), NEW m, MergeInv(ts, ns, m),
           Distinct(ts), Distinct(ns)
    PROVE  /\ MergeInv(ts, ns, MergeStep(ts, ns, m))
           /\ \/ m.i > Len(ts) /\ m.j > Len(ns) /\ MergeStep(ts, ns, m) = m
              \/ MergeStep(ts, ns, m).i + MergeStep(ts, ns, m).j > m.i + m.j
<1> DEFINE t == m.i <= Len(ts)
    n == m.j <= Len(ns)
    gt == IF t THEN Group(m.groups, ts[m.i].token, n) ELSE 0
    gn == IF n THEN Group(m.groups, ns[m.j].token, t) ELSE 0
<1>1. MergeStep(ts, ns, m) =
        IF ~ t /\ ~ n THEN m
        ELSE IF gt # 0 THEN WithTransfer(m, gt, ts[m.i])
        ELSE IF gn # 0 THEN WithNftTransfer(m, gn, ns[m.j])
        ELSE NewGroup(ts, ns, m)
  BY DEF MergeStep
<1>2. m.groups \in Seq(TokenTransferList) /\ m.i \in Nat /\ m.j \in Nat
      /\ Len(ts) \in Nat /\ Len(ns) \in Nat
  BY DEF MergeInv, MergeState
<1>3. gt # 0 => t /\ gt \in 1..Len(m.groups) /\ m.groups[gt].token = ts[m.i].token
  <2>1. CASE t
    <3> DEFINE token == ts[m.i].token
    <3>1. gt = Group(m.groups, token, n)
      BY <2>1
    <3> HIDE DEF token, n, t, gt
    <3>2. \/ Group(m.groups, token, n) = 0
          \/ /\ Group(m.groups, token, n) \in 1..Len(m.groups)
             /\ m.groups[Group(m.groups, token, n)].token = token
      BY <1>2, GroupOfToken
    <3> QED BY <2>1, <3>1, <3>2 DEF token
  <2> QED BY <2>1
<1>4. gn # 0 => n /\ gn \in 1..Len(m.groups) /\ m.groups[gn].token = ns[m.j].token
  <2>1. CASE n
    <3> DEFINE token == ns[m.j].token
    <3>1. gn = Group(m.groups, token, t)
      BY <2>1
    <3> HIDE DEF token, n, t, gn
    <3>2. \/ Group(m.groups, token, t) = 0
          \/ /\ Group(m.groups, token, t) \in 1..Len(m.groups)
             /\ m.groups[Group(m.groups, token, t)].token = token
      BY <1>2, GroupOfToken
    <3> QED BY <2>1, <3>1, <3>2 DEF token
  <2> QED BY <2>1
<1> DEFINE w == MergeStep(ts, ns, m)
<1>10. t <=> m.i <= Len(ts)
  OBVIOUS
<1>11. n <=> m.j <= Len(ns)
  OBVIOUS
<1>12. w = MergeStep(ts, ns, m)
  OBVIOUS
<1> HIDE DEF gt, gn, t, n, w
<1>5. CASE ~ t /\ ~ n
  BY <1>1, <1>2, <1>5, <1>10, <1>11
<1>6. CASE gt # 0
  <2>1. w = WithTransfer(m, gt, ts[m.i])
    BY <1>1, <1>3, <1>6, <1>12
  <2>2. m.i <= Len(ts) /\ gt \in 1..Len(m.groups) /\ m.groups[gt].token = ts[m.i].token
    BY <1>3, <1>6, <1>10
  <2>3. /\ MergeInv(ts, ns, WithTransfer(m, gt, ts[m.i]))
        /\ WithTransfer(m, gt, ts[m.i]).i = m.i + 1
        /\ WithTransfer(m, gt, ts[m.i]).j = m.j
    BY <2>2, TransferAdded
  <2>4. MergeInv(ts, ns, w) /\ w.i = m.i + 1 /\ w.j = m.j
    BY <2>1, <2>3
  <2>5. w.i + w.j > m.i + m.j
    BY <2>4, <1>2
  <2> QED BY <2>4, <2>5, <1>12
<1>7. CASE gt = 0 /\ gn # 0
  <2>1. w = WithNftTransfer(m, gn, ns[m.j])
    BY <1>1, <1>4, <1>7, <1>12
  <2>2. m.j <= Len(ns) /\ gn \in 1..Len(m.groups) /\ m.groups[gn].token = ns[m.j].token
    BY <1>4, <1>7, <1>11
  <2>3. /\ MergeInv(ts, ns, WithNftTransfer(m, gn, ns[m.j]))
        /\ WithNftTransfer(m, gn, ns[m.j]).i = m.i
        /\ WithNftTransfer(m, gn, ns[m.j]).j = m.j + 1
    BY <2>2, NftAdded
  <2>4. MergeInv(ts, ns, w) /\ w.i = m.i /\ w.j = m.j + 1
    BY <2>1, <2>3
  <2>5. w.i + w.j > m.i + m.j
    BY <2>4, <1>2
  <2> QED BY <2>4, <2>5, <1>12
<1>8. CASE gt = 0 /\ gn = 0 /\ (t \/ n)
  <2>1. w = NewGroup(ts, ns, m)
    BY <1>1, <1>8, <1>12
  <2>2. m.i <= Len(ts) \/ m.j <= Len(ns)
    BY <1>8, <1>10, <1>11
  <2>3. /\ MergeInv(ts, ns, NewGroup(ts, ns, m))
        /\ NewGroup(ts, ns, m).i + NewGroup(ts, ns, m).j > m.i + m.j
    BY <2>2, GroupStarted
  <2> QED BY <2>1, <2>3, <1>12
<1> QED BY <1>5, <1>6, <1>7, <1>8

\* The same, where what is folded stays in S.
UnfoldsIn(S, it, N, base, step, s) ==
    /\ it[{}] = base
    /\ \A X \in SUBSET (1..N) :
          X # {} /\ it[X \ {Max(X)}] \in S =>
             it[X] = step[<<it[X \ {Max(X)}], s[Max(X)]>>]

\* What folding makes of the first n elements.
FoldSteps(S, f, N, base, step, s, result) ==
    /\ f \in [0..N -> S] /\ f[0] = base /\ f[N] = result
    /\ \A n \in 1..N : f[n] = step[<<f[n - 1], s[n]>>]

\* Folding goes from each element to the next, and stays in S.
LEMMA Folding ==
    ASSUME NEW S, NEW E, NEW N \in Nat, NEW base \in S, NEW step \in [S \X E -> S],
           NEW s \in [1..N -> E], NEW it, UnfoldsIn(S, it, N, base, step, s)
    PROVE  \E f : FoldSteps(S, f, N, base, step, s, it[1..N])
<1> DEFINE f == [n \in 0..N |-> it[1..n]]
    G == {n \in 0..N : f[n] \in S}
<1>1. f[0] = base
  <2>1. 1..0 = {} /\ 0 \in 0..N
    OBVIOUS
  <2> QED BY <2>1 DEF UnfoldsIn
<1>2. ASSUME NEW n \in 1..N, f[n - 1] \in S
      PROVE  f[n] = step[<<f[n - 1], s[n]>>] /\ f[n] \in S
  <2>1. 1..n \in SUBSET (1..N) /\ 1..n # {} /\ n - 1 \in 0..N /\ n \in 0..N
    <3>1. n \in Nat /\ n # 0 /\ n <= N
      OBVIOUS
    <3>2. \A j \in 1..n : j \in 1..N
      BY <3>1
    <3>3. n \in 1..n /\ n - 1 \in 0..N /\ n \in 0..N
      BY <3>1
    <3> QED BY <3>2, <3>3
  <2>2. Max(1..n) = n /\ (1..n) \ {Max(1..n)} = 1..(n - 1)
    BY MaxOfInterval
  <2>3. it[1..(n - 1)] = f[n - 1] /\ it[1..n] = f[n]
    BY <2>1
  <2> HIDE DEF f
  <2>4. it[1..n] = step[<<it[1..(n - 1)], s[n]>>]
    BY <1>2, <2>1, <2>2, <2>3 DEF UnfoldsIn
  <2>5. s[n] \in E
    OBVIOUS
  <2> QED BY <1>2, <2>3, <2>4, <2>5
<1>3. \A n \in 0..N : n \in G
  <2>1. 0 \in G
    <3> HIDE DEF f
    <3> QED BY <1>1
  <2>2. \A n \in 0..(N - 1) : n \in G => n + 1 \in G
    <3> SUFFICES ASSUME NEW n \in 0..(N - 1), f[n] \in S PROVE n + 1 \in G
      OBVIOUS
    <3> DEFINE k == n + 1
    <3>1. k \in 1..N /\ k - 1 = n /\ k \in 0..N
      OBVIOUS
    <3> HIDE DEF f, k
    <3>2. f[k - 1] \in S
      BY <3>1
    <3>3. f[k] \in S
      BY <3>1, <3>2, <1>2
    <3>4. k \in G
      BY <3>1, <3>3
    <3> QED BY <3>4 DEF k
  <2> HIDE DEF G
  <2> QED BY <2>1, <2>2, Induction
<1>4. f \in [0..N -> S]
  <2>1. \A n \in 0..N : it[1..n] \in S
    BY <1>3
  <2> QED BY <2>1
<1>5. \A n \in 1..N : f[n] = step[<<f[n - 1], s[n]>>]
  <2> SUFFICES ASSUME NEW n \in 1..N PROVE f[n] = step[<<f[n - 1], s[n]>>]
    OBVIOUS
  <2>1. n - 1 \in 0..N
    OBVIOUS
  <2> HIDE DEF f
  <2> QED BY <2>1, <1>2, <1>4
<1>6. it[1..N] = f[N]
  OBVIOUS
<1> HIDE DEF f
<1> QED BY <1>1, <1>4, <1>5, <1>6 DEF FoldSteps

\* What merging promises.
MergedOK(ts, ns, groups) ==
    /\ groups \in Seq(TokenTransferList)
    /\ \A k \in 1..Len(groups) : GroupOK(groups[k])
    /\ Distributed(TransfersOf(groups), Len(groups), ts, Len(ts))
    /\ Distributed(NftsOf(groups), Len(groups), ns, Len(ns))

\* Merging groups all transfers and NFTs, each once.
LEMMA MergedGroups ==
    ASSUME TransferAssumption,
           NEW ts \in Seq(TokenTransfer), NEW ns \in Seq(Nft), Distinct(ts), Distinct(ns)
    PROVE  MergedOK(ts, ns, Merged(ts, ns))
<1> DEFINE S == {m \in MergeState : MergeInv(ts, ns, m)}
    E == TokenTransfer \cup Nft
    s == ts \o ns
    N == Len(s)
    base == [i |-> 1, j |-> 1, groups |-> <<>>]
    step == [q \in S \X E |-> MergeStep(ts, ns, q[1])]
    Eq(iter) == iter = [X \in SUBSET DOMAIN s |->
                   IF X = {} THEN base ELSE MergeStep(ts, ns, iter[X \ {Max(X)}])]
    it == CHOOSE iter : Eq(iter)
<1>1. Merged(ts, ns) = it[DOMAIN s].groups
  BY DEF Merged, FoldLeft, MapThenFoldSet
<1>2. N \in Nat /\ DOMAIN s = 1..N /\ N = Len(ts) + Len(ns)
  OBVIOUS
<1>3. s \in [1..N -> E]
  <2>1. s \in Seq(E)
    <3>1. ts \in Seq(E) /\ ns \in Seq(E)
      OBVIOUS
    <3> HIDE DEF E
    <3> QED BY <3>1
  <2> HIDE DEF s, E
  <2> QED BY <2>1
<1>4. base \in S
  <2>1. base.i = 1 /\ base.j = 1 /\ base.groups = <<>> /\ Len(base.groups) = 0
    OBVIOUS
  <2>2. base \in MergeState
    BY DEF MergeState
  <2> HIDE DEF base
  <2>3. /\ Distributed(TransfersOf(base.groups), Len(base.groups), ts, base.i - 1)
        /\ Distributed(NftsOf(base.groups), Len(base.groups), ns, base.j - 1)
    BY <2>1, DistributedNone
  <2>4. base.i <= Len(ts) + 1 /\ base.j <= Len(ns) + 1
    BY <2>1
  <2>5. MergeInv(ts, ns, base)
    BY <2>1, <2>2, <2>3, <2>4 DEF MergeInv
  <2> QED BY <2>2, <2>5
<1>5. \A m \in S : /\ MergeStep(ts, ns, m) \in S
                   /\ \/ m.i > Len(ts) /\ m.j > Len(ns) /\ MergeStep(ts, ns, m) = m
                      \/ MergeStep(ts, ns, m).i + MergeStep(ts, ns, m).j > m.i + m.j
  <2> SUFFICES ASSUME NEW m \in S
               PROVE  /\ MergeStep(ts, ns, m) \in S
                      /\ \/ m.i > Len(ts) /\ m.j > Len(ns) /\ MergeStep(ts, ns, m) = m
                         \/ MergeStep(ts, ns, m).i + MergeStep(ts, ns, m).j > m.i + m.j
    OBVIOUS
  <2>1. MergeInv(ts, ns, m)
    OBVIOUS
  <2>2. /\ MergeInv(ts, ns, MergeStep(ts, ns, m))
        /\ \/ m.i > Len(ts) /\ m.j > Len(ns) /\ MergeStep(ts, ns, m) = m
           \/ MergeStep(ts, ns, m).i + MergeStep(ts, ns, m).j > m.i + m.j
    BY <2>1, MergeStepAdds
  <2>3. MergeStep(ts, ns, m) \in MergeState
    BY <2>2 DEF MergeInv
  <2> QED BY <2>2, <2>3
<1>20. \A m \in S : /\ MergeInv(ts, ns, m) /\ m.groups \in Seq(TokenTransferList)
                    /\ m.i \in Nat /\ m.j \in Nat
                    /\ m.i <= Len(ts) + 1 /\ m.j <= Len(ns) + 1
  BY DEF MergeInv, MergeState
<1>6. step \in [S \X E -> S] /\ \A m \in S, e \in E : step[<<m, e>>] = MergeStep(ts, ns, m)
  <2> HIDE DEF S, E
  <2> QED BY <1>5
<1> HIDE DEF S, E, step, s, N, base
<1>7. Eq(it)
  <2>1. PICK g \in [SUBSET (1..N) -> S] : Unfolds(g, N, base, step, s)
    BY <1>2, <1>3, <1>4, <1>6, Recursion
  <2>2. ASSUME NEW X \in SUBSET (1..N), X # {}
        PROVE  step[<<g[X \ {Max(X)}], s[Max(X)]>>] = MergeStep(ts, ns, g[X \ {Max(X)}])
    <3>1. Max(X) \in 1..N
      BY <1>2, <2>2, MaxOf
    <3>2. g[X \ {Max(X)}] \in S /\ s[Max(X)] \in E
      BY <3>1, <1>3
    <3> QED BY <3>2, <1>6
  <2>3. g = [X \in SUBSET (1..N) |->
               IF X = {} THEN base ELSE MergeStep(ts, ns, g[X \ {Max(X)}])]
    BY <2>1, <2>2 DEF Unfolds
  <2>4. Eq(g)
    BY <2>3, <1>2
  <2> HIDE DEF Eq
  <2> QED BY <2>4
<1> HIDE DEF it
<1>8. UnfoldsIn(S, it, N, base, step, s)
  <2>1. it[{}] = base
    BY <1>7, <1>2
  <2>2. ASSUME NEW X \in SUBSET (1..N), X # {}, it[X \ {Max(X)}] \in S
        PROVE  it[X] = step[<<it[X \ {Max(X)}], s[Max(X)]>>]
    <3>1. Max(X) \in 1..N
      BY <1>2, <2>2, MaxOf
    <3>2. s[Max(X)] \in E
      BY <3>1, <1>3
    <3>3. it[X] = MergeStep(ts, ns, it[X \ {Max(X)}])
      BY <1>7, <1>2, <2>2
    <3> QED BY <3>2, <3>3, <2>2, <1>6
  <2> QED BY <2>1, <2>2 DEF UnfoldsIn
<1>9. PICK f : FoldSteps(S, f, N, base, step, s, it[1..N])
  <2>1. N \in Nat /\ step \in [S \X E -> S]
    BY <1>2, <1>6
  <2>2. \E f : FoldSteps(S, f, N, base, step, s, it[1..N])
    BY <2>1, <1>3, <1>4, <1>8, Folding
  <2> QED BY <2>2
<1>10. /\ f \in [0..N -> S] /\ f[0] = base
       /\ \A n \in 1..N : f[n] = MergeStep(ts, ns, f[n - 1])
  <2>1. f \in [0..N -> S] /\ f[0] = base /\ \A n \in 1..N : f[n] = step[<<f[n - 1], s[n]>>]
    BY <1>9 DEF FoldSteps
  <2>2. ASSUME NEW n \in 1..N PROVE f[n] = MergeStep(ts, ns, f[n - 1])
    <3>1. n - 1 \in 0..N /\ s[n] \in E
      BY <1>2, <1>3
    <3> QED BY <3>1, <2>1, <1>6
  <2> QED BY <2>1, <2>2
<1> DEFINE H == {n \in 0..N : f[n].i + f[n].j >= n + 2}
<1>11. \A n \in 0..N : n \in H
  <2>1. 0 \in H
    <3>1. 0 \in 0..N /\ f[0].i = 1 /\ f[0].j = 1
      BY <1>2, <1>10 DEF base
    <3> QED BY <3>1
  <2>2. ASSUME NEW n \in 0..(N - 1), n \in H PROVE n + 1 \in H
    <3> DEFINE a == f[n]
               b == f[n + 1]
    <3>1. n + 1 \in 1..N /\ n + 1 \in 0..N /\ n \in 0..N /\ n + 1 - 1 = n
      BY <1>2
    <3>2. a \in S /\ b \in S /\ b = MergeStep(ts, ns, a)
      BY <3>1, <1>10
    <3>3. a.i + a.j >= n + 2
      BY <2>2
    <3> HIDE DEF a, b
    <3>4. a.i \in Nat /\ a.j \in Nat /\ b.i \in Nat /\ b.j \in Nat
      BY <3>2, <1>20
    <3>5. (a.i > Len(ts) /\ a.j > Len(ns) /\ b = a) \/ b.i + b.j > a.i + a.j
      BY <3>2, <1>5
    <3>6. b.i + b.j >= n + 1 + 2
      <4>1. Len(ts) \in Nat /\ Len(ns) \in Nat /\ n + 1 <= Len(ts) + Len(ns)
        BY <3>1, <1>2
      <4> QED BY <4>1, <3>3, <3>4, <3>5
    <3> QED BY <3>1, <3>6 DEF b
  <2> HIDE DEF H
  <2> QED BY <1>2, <2>1, <2>2, Induction
<1> DEFINE w == f[N]
<1>12. w \in S /\ w.i + w.j >= N + 2
  <2>1. N \in 0..N
    BY <1>2
  <2> QED BY <2>1, <1>10, <1>11
<1>13. Merged(ts, ns) = w.groups
  <2>1. f[N] = it[1..N]
    BY <1>9 DEF FoldSteps
  <2> QED BY <2>1, <1>1, <1>2
<1> HIDE DEF w, H
<1>14. w.i - 1 = Len(ts) /\ w.j - 1 = Len(ns)
  <2> DEFINE a == Len(ts)
             b == Len(ns)
             x == w.i
             y == w.j
  <2>1. a \in Nat /\ b \in Nat
    OBVIOUS
  <2>2. x \in Nat /\ y \in Nat /\ x <= a + 1 /\ y <= b + 1
    BY <1>12, <1>20
  <2>3. N = a + b /\ x + y >= N + 2
    BY <1>2, <1>12
  <2> HIDE DEF a, b, x, y, N
  <2>4. x - 1 = a /\ y - 1 = b
    BY <2>1, <2>2, <2>3
  <2> QED BY <2>4 DEF a, b, x, y
<1>15. MergeInv(ts, ns, w)
  BY <1>12, <1>20
<1> QED BY <1>12, <1>13, <1>14, <1>15, <1>20 DEF MergeInv, MergedOK

-----------------------------------------------------------------------------
(* Well-formed lists *)

\* What is in a list is there once: an account, a token of an account, an NFT.
ListsType == [hbars : Seq(Hbar), tokens : Seq(TokenTransfer), nfts : Seq(Nft)]

UniqueHbars(S) == \A x, y \in S : x.account = y.account => x = y
UniqueTokens(S) == \A x, y \in S : x.token = y.token /\ x.account = y.account => x = y
UniqueNfts(S) == \A x, y \in S : x.token = y.token /\ x.serial = y.serial => x = y

HbarsOK(s) == s \in Seq(Hbar) /\ Distinct(s) /\ UniqueHbars(Range(s))
TokensOK(s) == s \in Seq(TokenTransfer) /\ Distinct(s) /\ UniqueTokens(Range(s))
NftsOK(s) == s \in Seq(Nft) /\ Distinct(s) /\ UniqueNfts(Range(s))

WellFormed(l) == l \in ListsType /\ HbarsOK(l.hbars) /\ TokensOK(l.tokens) /\ NftsOK(l.nfts)

\* What is in a sequence.
LEMMA RangeOf ==
    ASSUME NEW E, NEW s \in Seq(E)
    PROVE  /\ \A i \in 1..Len(s) : s[i] \in Range(s)
           /\ \A x \in Range(s) : x \in E /\ \E i \in 1..Len(s) : x = s[i]
<1>1. DOMAIN s = 1..Len(s) /\ \A i \in 1..Len(s) : s[i] \in E
  OBVIOUS
<1>2. \A x \in Range(s) : \E i \in 1..Len(s) : x = s[i]
  BY <1>1 DEF Range
<1> QED BY <1>1, <1>2 DEF Range

\* This is what EachOnce says of the places in the lists.
LEMMA WellFormedIff ==
    ASSUME NEW l \in ListsType
    PROVE  EachOnce(l) <=> WellFormed(l)
<1>1. l.hbars \in Seq(Hbar) /\ l.tokens \in Seq(TokenTransfer) /\ l.nfts \in Seq(Nft)
  BY DEF ListsType
<1>2. /\ DOMAIN l.hbars = 1..Len(l.hbars) /\ DOMAIN l.tokens = 1..Len(l.tokens)
      /\ DOMAIN l.nfts = 1..Len(l.nfts)
  BY <1>1
<1>3. ASSUME EachOnce(l) PROVE WellFormed(l)
  <2>1. HbarsOK(l.hbars)
    <3> DEFINE s == l.hbars
    <3>1. \A i, j \in 1..Len(s) : s[i].account = s[j].account => i = j
      BY <1>2, <1>3 DEF EachOnce
    <3>2. s \in Seq(Hbar)
      BY <1>1
    <3> HIDE DEF s
    <3>3. Distinct(s)
      BY <3>1 DEF Distinct
    <3>4. UniqueHbars(Range(s))
      <4> SUFFICES ASSUME NEW x \in Range(s), NEW y \in Range(s), x.account = y.account
                   PROVE  x = y
        BY DEF UniqueHbars
      <4>1. PICK i \in 1..Len(s) : x = s[i]
        BY <3>2, RangeOf
      <4>2. PICK j \in 1..Len(s) : y = s[j]
        BY <3>2, RangeOf
      <4> QED BY <4>1, <4>2, <3>1
    <3> QED BY <3>2, <3>3, <3>4 DEF HbarsOK, s
  <2>2. TokensOK(l.tokens)
    <3> DEFINE s == l.tokens
    <3>1. \A i, j \in 1..Len(s) :
             s[i].token = s[j].token /\ s[i].account = s[j].account => i = j
      BY <1>2, <1>3 DEF EachOnce, TokenKey
    <3>2. s \in Seq(TokenTransfer)
      BY <1>1
    <3> HIDE DEF s
    <3>3. Distinct(s)
      BY <3>1 DEF Distinct
    <3>4. UniqueTokens(Range(s))
      <4> SUFFICES ASSUME NEW x \in Range(s), NEW y \in Range(s), x.token = y.token,
                          x.account = y.account
                   PROVE  x = y
        BY DEF UniqueTokens
      <4>1. PICK i \in 1..Len(s) : x = s[i]
        BY <3>2, RangeOf
      <4>2. PICK j \in 1..Len(s) : y = s[j]
        BY <3>2, RangeOf
      <4> QED BY <4>1, <4>2, <3>1
    <3> QED BY <3>2, <3>3, <3>4 DEF TokensOK, s
  <2>3. NftsOK(l.nfts)
    <3> DEFINE s == l.nfts
    <3>1. \A i, j \in 1..Len(s) :
             s[i].token = s[j].token /\ s[i].serial = s[j].serial => i = j
      BY <1>2, <1>3 DEF EachOnce
    <3>2. s \in Seq(Nft)
      BY <1>1
    <3> HIDE DEF s
    <3>3. Distinct(s)
      BY <3>1 DEF Distinct
    <3>4. UniqueNfts(Range(s))
      <4> SUFFICES ASSUME NEW x \in Range(s), NEW y \in Range(s), x.token = y.token,
                          x.serial = y.serial
                   PROVE  x = y
        BY DEF UniqueNfts
      <4>1. PICK i \in 1..Len(s) : x = s[i]
        BY <3>2, RangeOf
      <4>2. PICK j \in 1..Len(s) : y = s[j]
        BY <3>2, RangeOf
      <4> QED BY <4>1, <4>2, <3>1
    <3> QED BY <3>2, <3>3, <3>4 DEF NftsOK, s
  <2> QED BY <2>1, <2>2, <2>3 DEF WellFormed
<1>4. ASSUME WellFormed(l) PROVE EachOnce(l)
  <2>1. ASSUME NEW i \in 1..Len(l.hbars), NEW j \in 1..Len(l.hbars),
               l.hbars[i].account = l.hbars[j].account
        PROVE  i = j
    <3>1. l.hbars[i] \in Range(l.hbars) /\ l.hbars[j] \in Range(l.hbars)
      BY <1>1, RangeOf
    <3>2. l.hbars[i] = l.hbars[j]
      BY <3>1, <2>1, <1>4 DEF WellFormed, HbarsOK, UniqueHbars
    <3> QED BY <3>2, <1>4 DEF WellFormed, HbarsOK, Distinct
  <2>2. ASSUME NEW i \in 1..Len(l.tokens), NEW j \in 1..Len(l.tokens),
               TokenKey(l.tokens[i]) = TokenKey(l.tokens[j])
        PROVE  i = j
    <3>1. l.tokens[i] \in Range(l.tokens) /\ l.tokens[j] \in Range(l.tokens)
      BY <1>1, RangeOf
    <3>2. /\ l.tokens[i].token = l.tokens[j].token
          /\ l.tokens[i].account = l.tokens[j].account
      BY <2>2 DEF TokenKey
    <3>3. l.tokens[i] = l.tokens[j]
      BY <3>1, <3>2, <1>4 DEF WellFormed, TokensOK, UniqueTokens
    <3> QED BY <3>3, <1>4 DEF WellFormed, TokensOK, Distinct
  <2>3. ASSUME NEW i \in 1..Len(l.nfts), NEW j \in 1..Len(l.nfts),
               l.nfts[i].token = l.nfts[j].token, l.nfts[i].serial = l.nfts[j].serial
        PROVE  i = j
    <3>1. l.nfts[i] \in Range(l.nfts) /\ l.nfts[j] \in Range(l.nfts)
      BY <1>1, RangeOf
    <3>2. l.nfts[i] = l.nfts[j]
      BY <3>1, <2>3, <1>4 DEF WellFormed, NftsOK, UniqueNfts
    <3> QED BY <3>2, <1>4 DEF WellFormed, NftsOK, Distinct
  <2> QED BY <1>2, <2>1, <2>2, <2>3 DEF EachOnce
<1> QED BY <1>3, <1>4

-----------------------------------------------------------------------------
(* Sorting keeps what is in a list *)

\* The same elements, and none of them twice if there were none.
SameElements(s, u, E) == u \in Seq(E) /\ Range(u) = Range(s) /\ (Distinct(s) => Distinct(u))

\* Sorting neither loses nor repeats anything.
LEMMA SortedSame ==
    ASSUME NEW E, NEW s \in Seq(E), NEW m \in Nat, NEW keys \in [1..Len(s) -> [1..m -> Int]]
    PROVE  SameElements(s, Sorted(s, keys), E)
<1> DEFINE u == Sorted(s, keys)
    n == Len(s)
<1>1. PICK p : Permutes(p, Len(s)) /\ u = [k \in 1..Len(s) |-> s[p[k]]]
  BY SortedPermutes
<1>2. /\ p \in [1..n -> 1..n] /\ \A k \in 1..n : \E i \in 1..n : p[i] = k
      /\ \A i, j \in 1..n : p[i] = p[j] => i = j
      /\ n \in Nat
  BY <1>1 DEF Permutes
<1>6. u = [k \in 1..n |-> s[p[k]]]
  BY <1>1
<1>7. n = Len(s)
  OBVIOUS
<1> HIDE DEF u, n
<1>3. u \in Seq(E) /\ Len(u) = n /\ \A k \in 1..n : u[k] = s[p[k]]
  <2>1. \A k \in 1..n : p[k] \in 1..n /\ s[p[k]] \in E
    BY <1>2, <1>7
  <2>2. u \in [1..n -> E]
    BY <1>6, <2>1
  <2> QED BY <1>2, <1>6, <2>2
<1>4. Range(u) = Range(s)
  <2>1. ASSUME NEW x \in Range(u) PROVE x \in Range(s)
    <3>1. PICK k \in 1..n : x = u[k]
      BY <1>3, RangeOf
    <3>2. p[k] \in 1..Len(s) /\ x = s[p[k]]
      BY <3>1, <1>2, <1>3, <1>7
    <3> QED BY <3>2, RangeOf
  <2>2. ASSUME NEW x \in Range(s) PROVE x \in Range(u)
    <3>1. PICK k \in 1..n : x = s[k]
      BY <1>7, RangeOf
    <3>2. PICK i \in 1..n : p[i] = k
      BY <1>2
    <3>3. i \in 1..Len(u) /\ x = u[i]
      BY <3>1, <3>2, <1>3
    <3> QED BY <3>3, <1>3, RangeOf
  <2> QED BY <2>1, <2>2
<1>5. Distinct(s) => Distinct(u)
  <2> SUFFICES ASSUME Distinct(s), NEW i \in 1..n, NEW j \in 1..n, u[i] = u[j]
               PROVE  i = j
    BY <1>3 DEF Distinct
  <2>1. p[i] \in 1..n /\ p[j] \in 1..n /\ s[p[i]] = s[p[j]]
    BY <1>2, <1>3
  <2>2. p[i] = p[j]
    BY <2>1, <1>7 DEF Distinct
  <2> QED BY <2>2, <1>2
<1> QED BY <1>3, <1>4, <1>5 DEF SameElements, u

\* l and m hold the same.
SameLists(l, m) ==
    /\ Range(l.hbars) = Range(m.hbars) /\ Range(l.tokens) = Range(m.tokens)
    /\ Range(l.nfts) = Range(m.nfts)

\* Sorting leaves well-formed lists of the same transfers.
LEMMA SortedWellFormed ==
    ASSUME TransferAssumption, NEW l, WellFormed(l)
    PROVE  WellFormed(SortedOf(l)) /\ SameLists(SortedOf(l), l)
<1> DEFINE hs == l.hbars
    ts == l.tokens
    ns == l.nfts
<1>1. hs \in Seq(Hbar) /\ ts \in Seq(TokenTransfer) /\ ns \in Seq(Nft)
  BY DEF WellFormed, ListsType
<1>2. SameElements(hs, Sorted(hs, HbarKeys(hs)), Hbar)
  <2> HIDE DEF hs
  <2>1. HbarKeys(hs) \in [1..Len(hs) -> [1..1 -> Int]]
    <3>1. \A i \in 1..Len(hs) : <<hs[i].account>> \in [1..1 -> Int]
      <4> SUFFICES ASSUME NEW i \in 1..Len(hs) PROVE <<hs[i].account>> \in [1..1 -> Int]
        OBVIOUS
      <4>1. hs[i] \in Hbar
        BY <1>1
      <4>2. hs[i].account \in Int
        BY <4>1 DEF Hbar, TransferAssumption
      <4> QED BY <4>2
    <3>2. DOMAIN hs = 1..Len(hs)
      BY <1>1
    <3> QED BY <3>1, <3>2 DEF HbarKeys
  <2> QED BY <1>1, <2>1, SortedSame
<1>3. SameElements(ts, Sorted(ts, TokenKeys(ts)), TokenTransfer)
  <2> HIDE DEF ts
  <2>1. TokenKeys(ts) \in [1..Len(ts) -> [1..2 -> Int]]
    <3>1. \A i \in 1..Len(ts) : TokenKey(ts[i]) \in [1..2 -> Int]
      <4> SUFFICES ASSUME NEW i \in 1..Len(ts) PROVE TokenKey(ts[i]) \in [1..2 -> Int]
        OBVIOUS
      <4>1. ts[i] \in TokenTransfer
        BY <1>1
      <4>2. ts[i].token \in Int /\ ts[i].account \in Int
        BY <4>1 DEF TokenTransfer, TransferAssumption
      <4> QED BY <4>2 DEF TokenKey
    <3>2. DOMAIN ts = 1..Len(ts)
      BY <1>1
    <3> QED BY <3>1, <3>2 DEF TokenKeys
  <2> QED BY <1>1, <2>1, SortedSame
<1>4. SameElements(ns, Sorted(ns, NftKeys(ns)), Nft)
  <2> HIDE DEF ns
  <2>1. NftKeys(ns) \in [1..Len(ns) -> [1..3 -> Int]]
    <3>1. \A i \in 1..Len(ns) :
             <<ns[i].sender, ns[i].receiver, ns[i].serial>> \in [1..3 -> Int]
      <4> SUFFICES ASSUME NEW i \in 1..Len(ns)
                   PROVE  <<ns[i].sender, ns[i].receiver, ns[i].serial>> \in [1..3 -> Int]
        OBVIOUS
      <4>1. ns[i] \in Nft
        BY <1>1
      <4>2. ns[i].sender \in Int /\ ns[i].receiver \in Int /\ ns[i].serial \in Int
        BY <4>1 DEF Nft, TransferAssumption
      <4> QED BY <4>2
    <3>2. DOMAIN ns = 1..Len(ns)
      BY <1>1
    <3> QED BY <3>1, <3>2 DEF NftKeys
  <2> QED BY <1>1, <2>1, SortedSame
<1> DEFINE m == SortedOf(l)
<1>5. /\ m.hbars = Sorted(hs, HbarKeys(hs)) /\ m.tokens = Sorted(ts, TokenKeys(ts))
      /\ m.nfts = Sorted(ns, NftKeys(ns))
      /\ m = [hbars |-> m.hbars, tokens |-> m.tokens, nfts |-> m.nfts]
  BY DEF SortedOf
<1> HIDE DEF m
<1>6. /\ m.hbars \in Seq(Hbar) /\ Range(m.hbars) = Range(hs)
      /\ Distinct(hs) => Distinct(m.hbars)
  BY <1>2, <1>5 DEF SameElements
<1>7. /\ m.tokens \in Seq(TokenTransfer) /\ Range(m.tokens) = Range(ts)
      /\ Distinct(ts) => Distinct(m.tokens)
  BY <1>3, <1>5 DEF SameElements
<1>8. /\ m.nfts \in Seq(Nft) /\ Range(m.nfts) = Range(ns)
      /\ Distinct(ns) => Distinct(m.nfts)
  BY <1>4, <1>5 DEF SameElements
<1>9. m \in ListsType
  BY <1>5, <1>6, <1>7, <1>8 DEF ListsType
<1>10. HbarsOK(m.hbars) /\ TokensOK(m.tokens) /\ NftsOK(m.nfts)
  <2>1. HbarsOK(m.hbars)
    BY <1>6 DEF WellFormed, HbarsOK
  <2>2. TokensOK(m.tokens)
    BY <1>7 DEF WellFormed, TokensOK
  <2>3. NftsOK(m.nfts)
    BY <1>8 DEF WellFormed, NftsOK
  <2> QED BY <2>1, <2>2, <2>3
<1> QED BY <1>6, <1>7, <1>8, <1>9, <1>10 DEF WellFormed, SameLists, m

-----------------------------------------------------------------------------
(* What well-formed lists amount to *)

\* If everything is there once, totals depend on what is in the lists, not on
\* where.
IsHbarTotal(S, a, v) ==
    /\ \A x \in S : x.account = a => v = x.amount
    /\ (\A x \in S : x.account # a) => v = 0

IsTokenTotal(S, key, v) ==
    /\ \A x \in S : TokenKey(x) = key => v = x.amount
    /\ (\A x \in S : TokenKey(x) # key) => v = 0

IsParties(S, token, serial, v) ==
    /\ \A x \in S : x.token = token /\ x.serial = serial => v = <<x.sender, x.receiver>>
    /\ (\A x \in S : ~ (x.token = token /\ x.serial = serial)) => v = Null

\* What HbarTotal computes.
LEMMA HbarTotalIs ==
    ASSUME NEW s, HbarsOK(s), NEW a
    PROVE  IsHbarTotal(Range(s), a, HbarTotal(s, a))
<1> DEFINE y == [i \in 1..Len(s) |-> IF s[i].account = a THEN s[i].amount ELSE 0]
<1>1. s \in Seq(Hbar) /\ Distinct(s) /\ UniqueHbars(Range(s))
  BY DEF HbarsOK
<1>2. HbarTotal(s, a) = Total(y)
  <2>1. DOMAIN s = 1..Len(s)
    BY <1>1
  <2> QED BY <2>1 DEF HbarTotal
<1>3. y \in Seq(Int) /\ Len(y) = Len(s)
      /\ \A i \in 1..Len(s) : y[i] = IF s[i].account = a THEN s[i].amount ELSE 0
  <2>1. ASSUME NEW i \in 1..Len(s)
        PROVE  (IF s[i].account = a THEN s[i].amount ELSE 0) \in Int
    <3>1. s[i] \in Hbar
      BY <1>1
    <3> QED BY <3>1 DEF Hbar
  <2>2. Len(s) \in Nat
    BY <1>1
  <2>3. y \in [1..Len(s) -> Int]
    BY <2>1
  <2> QED BY <2>2, <2>3
<1> HIDE DEF y
<1>4. ASSUME NEW x \in Range(s), x.account = a PROVE HbarTotal(s, a) = x.amount
  <2>1. PICK k \in 1..Len(s) : x = s[k]
    BY <1>1, RangeOf
  <2>2. ASSUME NEW i \in 1..Len(s), i # k PROVE y[i] = 0
    <3>1. s[i] \in Range(s) /\ s[i] # x
      BY <1>1, <2>1, <2>2, RangeOf DEF Distinct
    <3>2. s[i].account # a
      BY <3>1, <1>1, <1>4 DEF UniqueHbars
    <3> QED BY <3>2, <1>3
  <2>3. k \in 1..Len(y) /\ \A i \in 1..Len(y) : i # k => y[i] = 0
    BY <2>2, <1>3
  <2>4. Total(y) = y[k]
    BY <2>3, <1>3, TotalOfOne
  <2> QED BY <2>1, <2>4, <1>2, <1>3, <1>4
<1>5. ASSUME \A x \in Range(s) : x.account # a PROVE HbarTotal(s, a) = 0
  <2>1. \A i \in 1..Len(y) : y[i] = 0
    BY <1>1, <1>3, <1>5, RangeOf
  <2> QED BY <2>1, <1>2, <1>3, TotalOfNone
<1> QED BY <1>4, <1>5 DEF IsHbarTotal

\* What TokenTotal computes.
LEMMA TokenTotalIs ==
    ASSUME NEW s, TokensOK(s), NEW a
    PROVE  IsTokenTotal(Range(s), a, TokenTotal(s, a))
<1> DEFINE y == [i \in 1..Len(s) |-> IF TokenKey(s[i]) = a THEN s[i].amount ELSE 0]
<1>1. s \in Seq(TokenTransfer) /\ Distinct(s) /\ UniqueTokens(Range(s))
  BY DEF TokensOK
<1>2. TokenTotal(s, a) = Total(y)
  <2>1. DOMAIN s = 1..Len(s)
    BY <1>1
  <2> QED BY <2>1 DEF TokenTotal
<1>3. y \in Seq(Int) /\ Len(y) = Len(s)
      /\ \A i \in 1..Len(s) : y[i] = IF TokenKey(s[i]) = a THEN s[i].amount ELSE 0
  <2>1. ASSUME NEW i \in 1..Len(s)
        PROVE  (IF TokenKey(s[i]) = a THEN s[i].amount ELSE 0) \in Int
    <3>1. s[i] \in TokenTransfer
      BY <1>1
    <3> QED BY <3>1 DEF TokenTransfer
  <2>2. Len(s) \in Nat
    BY <1>1
  <2>3. y \in [1..Len(s) -> Int]
    BY <2>1
  <2> QED BY <2>2, <2>3
<1> HIDE DEF y
<1>4. ASSUME NEW x \in Range(s), TokenKey(x) = a PROVE TokenTotal(s, a) = x.amount
  <2>1. PICK k \in 1..Len(s) : x = s[k]
    BY <1>1, RangeOf
  <2>2. ASSUME NEW i \in 1..Len(s), i # k PROVE y[i] = 0
    <3>1. s[i] \in Range(s) /\ s[i] # x
      BY <1>1, <2>1, <2>2, RangeOf DEF Distinct
    <3>2. TokenKey(s[i]) # a
      <4>1. ~ (s[i].token = x.token /\ s[i].account = x.account)
        BY <3>1, <1>1 DEF UniqueTokens
      <4> QED BY <4>1, <1>4 DEF TokenKey
    <3> QED BY <3>2, <1>3
  <2>3. k \in 1..Len(y) /\ \A i \in 1..Len(y) : i # k => y[i] = 0
    BY <2>2, <1>3
  <2>4. Total(y) = y[k]
    BY <2>3, <1>3, TotalOfOne
  <2> QED BY <2>1, <2>4, <1>2, <1>3, <1>4
<1>5. ASSUME \A x \in Range(s) : TokenKey(x) # a PROVE TokenTotal(s, a) = 0
  <2>1. \A i \in 1..Len(y) : y[i] = 0
    BY <1>1, <1>3, <1>5, RangeOf
  <2> QED BY <2>1, <1>2, <1>3, TotalOfNone
<1> QED BY <1>4, <1>5 DEF IsTokenTotal

\* What Parties finds.
LEMMA PartiesIs ==
    ASSUME NEW s, NftsOK(s), NEW token, NEW serial
    PROVE  IsParties(Range(s), token, serial, Parties(s, token, serial))
<1> DEFINE I == {i \in 1..Len(s) : s[i].token = token /\ s[i].serial = serial}
    i == IF I # {} THEN Max(I) ELSE 0
<1>1. s \in Seq(Nft) /\ Distinct(s) /\ UniqueNfts(Range(s)) /\ Len(s) \in Nat
  BY DEF NftsOK
<1>2. Parties(s, token, serial) = IF i = 0 THEN Null ELSE <<s[i].sender, s[i].receiver>>
  BY DEF Parties, SelectLastInSeq
<1>3. I # {} => Max(I) \in I
  <2>1. I \in SUBSET (1..Len(s))
    OBVIOUS
  <2> HIDE DEF I
  <2> QED BY <2>1, <1>1, MaxOf
<1>4. ASSUME NEW x \in Range(s), x.token = token, x.serial = serial
      PROVE  Parties(s, token, serial) = <<x.sender, x.receiver>>
  <2>1. PICK k \in 1..Len(s) : x = s[k]
    BY <1>1, RangeOf
  <2>2. k \in I
    BY <2>1, <1>4
  <2>3. i \in I /\ i \in 1..Len(s) /\ i # 0
    BY <2>2, <1>3
  <2>4. s[i] \in Range(s) /\ s[i].token = token /\ s[i].serial = serial
    BY <2>3, <1>1, RangeOf
  <2>5. s[i] = x
    BY <2>4, <1>1, <1>4 DEF UniqueNfts
  <2> HIDE DEF i
  <2> QED BY <1>2, <2>3, <2>5
<1>5. ASSUME \A x \in Range(s) : ~ (x.token = token /\ x.serial = serial)
      PROVE  Parties(s, token, serial) = Null
  <2>1. I = {}
    BY <1>1, <1>5, RangeOf
  <2>2. i = 0
    BY <2>1
  <2> HIDE DEF i
  <2> QED BY <1>2, <2>2
<1> QED BY <1>4, <1>5 DEF IsParties

\* Lists that hold the same, but for decimals, amount to the same.
SameOutcome(l, m) ==
    /\ Range(l.hbars) = Range(m.hbars) /\ Range(l.nfts) = Range(m.nfts)
    /\ WithoutDecimals(l.tokens) = WithoutDecimals(m.tokens)

\* Totals do not depend on decimals.
LEMMA TotalWithoutDecimals ==
    ASSUME NEW s \in Seq(TokenTransfer), NEW key, NEW v, IsTokenTotal(Range(s), key, v)
    PROVE  IsTokenTotal(WithoutDecimals(s), key, v)
<1>1. \A t \in Range(s) : /\ TokenKey([t EXCEPT !.decimals = Null]) = TokenKey(t)
                          /\ [t EXCEPT !.decimals = Null].amount = t.amount
  <2> SUFFICES ASSUME NEW t \in Range(s)
               PROVE  /\ TokenKey([t EXCEPT !.decimals = Null]) = TokenKey(t)
                      /\ [t EXCEPT !.decimals = Null].amount = t.amount
    OBVIOUS
  <2>1. t \in TokenTransfer
    BY RangeOf
  <2> QED BY <2>1 DEF TokenKey, TokenTransfer
<1>2. \A x \in WithoutDecimals(s) : \E t \in Range(s) :
         TokenKey(x) = TokenKey(t) /\ x.amount = t.amount
  BY <1>1 DEF WithoutDecimals
<1>3. \A t \in Range(s) : \E x \in WithoutDecimals(s) :
         TokenKey(x) = TokenKey(t) /\ x.amount = t.amount
  BY <1>1 DEF WithoutDecimals
<1> QED BY <1>2, <1>3 DEF IsTokenTotal

\* There is one such total, and one such pair of parties.
LEMMA TokenTotalUnique ==
    ASSUME NEW S, NEW key, NEW v, NEW w, IsTokenTotal(S, key, v), IsTokenTotal(S, key, w)
    PROVE  v = w
BY DEF IsTokenTotal

LEMMA HbarTotalUnique ==
    ASSUME NEW S, NEW a, NEW v, NEW w, IsHbarTotal(S, a, v), IsHbarTotal(S, a, w)
    PROVE  v = w
BY DEF IsHbarTotal

LEMMA PartiesUnique ==
    ASSUME NEW S, NEW token, NEW serial, NEW v, NEW w, IsParties(S, token, serial, v),
           IsParties(S, token, serial, w)
    PROVE  v = w
BY DEF IsParties

\* Well-formed lists that hold the same amount to the same.
LEMMA OutcomeSame ==
    ASSUME NEW l, NEW m, WellFormed(l), WellFormed(m), SameOutcome(l, m)
    PROVE  Outcome(l) = Outcome(m)
<1>1. /\ HbarsOK(l.hbars) /\ TokensOK(l.tokens) /\ NftsOK(l.nfts)
      /\ HbarsOK(m.hbars) /\ TokensOK(m.tokens) /\ NftsOK(m.nfts)
  BY DEF WellFormed
<1>2. \A a \in Account : HbarTotal(l.hbars, a) = HbarTotal(m.hbars, a)
  <2> SUFFICES ASSUME NEW a \in Account PROVE HbarTotal(l.hbars, a) = HbarTotal(m.hbars, a)
    OBVIOUS
  <2>1. /\ IsHbarTotal(Range(l.hbars), a, HbarTotal(l.hbars, a))
        /\ IsHbarTotal(Range(m.hbars), a, HbarTotal(m.hbars, a))
    BY <1>1, HbarTotalIs
  <2>2. Range(l.hbars) = Range(m.hbars)
    BY DEF SameOutcome
  <2> QED BY <2>1, <2>2, HbarTotalUnique
<1>3. \A x \in Token \X Account : TokenTotal(l.tokens, x) = TokenTotal(m.tokens, x)
  <2> SUFFICES ASSUME NEW x \in Token \X Account
               PROVE  TokenTotal(l.tokens, x) = TokenTotal(m.tokens, x)
    OBVIOUS
  <2>1. /\ IsTokenTotal(Range(l.tokens), x, TokenTotal(l.tokens, x))
        /\ IsTokenTotal(Range(m.tokens), x, TokenTotal(m.tokens, x))
    BY <1>1, TokenTotalIs
  <2>2. l.tokens \in Seq(TokenTransfer) /\ m.tokens \in Seq(TokenTransfer)
    BY <1>1 DEF TokensOK
  <2>3. /\ IsTokenTotal(WithoutDecimals(l.tokens), x, TokenTotal(l.tokens, x))
        /\ IsTokenTotal(WithoutDecimals(m.tokens), x, TokenTotal(m.tokens, x))
    BY <2>1, <2>2, TotalWithoutDecimals
  <2>4. WithoutDecimals(l.tokens) = WithoutDecimals(m.tokens)
    BY DEF SameOutcome
  <2> QED BY <2>3, <2>4, TokenTotalUnique
<1>4. \A x \in Token \X Serial : Parties(l.nfts, x[1], x[2]) = Parties(m.nfts, x[1], x[2])
  <2> SUFFICES ASSUME NEW x \in Token \X Serial
               PROVE  Parties(l.nfts, x[1], x[2]) = Parties(m.nfts, x[1], x[2])
    OBVIOUS
  <2>1. /\ IsParties(Range(l.nfts), x[1], x[2], Parties(l.nfts, x[1], x[2]))
        /\ IsParties(Range(m.nfts), x[1], x[2], Parties(m.nfts, x[1], x[2]))
    BY <1>1, PartiesIs
  <2>2. Range(l.nfts) = Range(m.nfts)
    BY DEF SameOutcome
  <2> QED BY <2>1, <2>2, PartiesUnique
<1> QED BY <1>2, <1>3, <1>4 DEF Outcome

-----------------------------------------------------------------------------
(* The body, and what is read from it *)

\* Putting the groups together gives what was distributed.
LEMMA FlattenedDistributed ==
    ASSUME NEW E, NEW s \in Seq(E), NEW A, NEW N \in Nat, NEW f, Flattened(f, A, N, E),
           Distributed(A, N, s, Len(s))
    PROVE  SameElements(s, f, E) /\ Distinct(f)
<1>1. PICK group, place : Places(f, A, N, group, place)
  BY DEF Flattened
<1>2. f \in Seq(E)
  BY DEF Flattened
<1>3. /\ \A p \in 1..Len(f) : /\ group[p] \in 1..N /\ place[p] \in 1..Len(A[group[p]])
                              /\ f[p] = A[group[p]][place[p]]
      /\ \A p, q \in 1..Len(f) : group[p] = group[q] /\ place[p] = place[q] => p = q
      /\ \A k \in 1..N : \A l \in 1..Len(A[k]) :
            \E p \in 1..Len(f) : group[p] = k /\ place[p] = l
  BY <1>1 DEF Places
<1>4. /\ \A k, h \in 1..N : \A l \in 1..Len(A[k]), m \in 1..Len(A[h]) :
            A[k][l] = A[h][m] => k = h /\ l = m
      /\ \A k \in 1..N : \A l \in 1..Len(A[k]) : \E i \in 1..Len(s) : A[k][l] = s[i]
      /\ \A i \in 1..Len(s) : \E k \in 1..N : \E l \in 1..Len(A[k]) : A[k][l] = s[i]
  BY DEF Distributed
<1>5. Distinct(f)
  <2> SUFFICES ASSUME NEW p \in 1..Len(f), NEW q \in 1..Len(f), f[p] = f[q]
               PROVE  p = q
    BY DEF Distinct
  <2> DEFINE k == group[p]
             l == place[p]
             g == group[q]
             m == place[q]
  <2>1. /\ k \in 1..N /\ l \in 1..Len(A[k]) /\ g \in 1..N /\ m \in 1..Len(A[g])
        /\ A[k][l] = A[g][m]
    BY <1>3
  <2>2. k = g /\ l = m => p = q
    BY <1>3
  <2> HIDE DEF k, l, g, m
  <2> QED BY <2>1, <2>2, <1>4
<1>6. ASSUME NEW x \in Range(f) PROVE x \in Range(s)
  <2>1. PICK p \in 1..Len(f) : x = f[p]
    BY <1>2, RangeOf
  <2> DEFINE k == group[p]
             l == place[p]
  <2>3. k \in 1..N /\ l \in 1..Len(A[k]) /\ f[p] = A[k][l]
    BY <1>3
  <2> HIDE DEF k, l
  <2>2. PICK i \in 1..Len(s) : f[p] = s[i]
    BY <2>3, <1>4
  <2> QED BY <2>1, <2>2, RangeOf
<1>7. ASSUME NEW x \in Range(s) PROVE x \in Range(f)
  <2>1. PICK i \in 1..Len(s) : x = s[i]
    BY RangeOf
  <2>2. PICK k \in 1..N : \E l \in 1..Len(A[k]) : A[k][l] = s[i]
    BY <1>4
  <2>3. PICK l \in 1..Len(A[k]) : A[k][l] = s[i]
    BY <2>2
  <2>4. PICK p \in 1..Len(f) : group[p] = k /\ place[p] = l
    BY <1>3
  <2>5. f[p] = x
    BY <2>1, <2>3, <2>4, <1>3
  <2> QED BY <2>5, <1>2, RangeOf
<1>8. Range(f) = Range(s)
  BY <1>6, <1>7
<1> QED BY <1>2, <1>5, <1>8 DEF SameElements

\* What is read of the decimals of a group.
ReadDecimals(g) == IF g.decimals = 0 THEN Null ELSE g.decimals

\* A group as it is in the body: its transfers have no decimals of their own,
\* and are read with those of the group.
LEMMA ReadEncoded ==
    ASSUME NEW g \in TokenTransferList
    PROVE  /\ Encoded(g).nfts = g.nfts /\ Encoded(g).token = g.token
           /\ Encoded(g).transfers = [i \in 1..Len(g.transfers) |->
                                         [g.transfers[i] EXCEPT !.decimals = Null]]
           /\ Read(Encoded(g)) \in Seq(TokenTransfer)
           /\ Len(Read(Encoded(g))) = Len(g.transfers)
           /\ \A i \in 1..Len(g.transfers) :
                 Read(Encoded(g))[i] = [g.transfers[i] EXCEPT !.decimals = ReadDecimals(g)]
<1> DEFINE ts == g.transfers
    es == [i \in 1..Len(ts) |-> [ts[i] EXCEPT !.decimals = Null]]
    e == Encoded(g)
    d == ReadDecimals(g)
    r == [i \in 1..Len(ts) |-> [ts[i] EXCEPT !.decimals = d]]
<1>1. ts \in Seq(TokenTransfer) /\ d \in Decimals \cup {Null} /\ Len(ts) \in Nat
      /\ DOMAIN ts = 1..Len(ts)
  BY DEF TokenTransferList, ReadDecimals
<1>2. e = [g EXCEPT !.transfers = es]
  BY <1>1 DEF Encoded
<1>3. e.nfts = g.nfts /\ e.token = g.token /\ e.decimals = g.decimals /\ e.transfers = es
  <2> HIDE DEF es, e
  <2> QED BY <1>2 DEF TokenTransferList
<1>4. \A i \in 1..Len(ts) : ts[i] \in TokenTransfer
  BY <1>1
<1>5. Read(e) = r
  <2>1. Read(e) = [i \in DOMAIN es |-> [es[i] EXCEPT !.decimals = d]]
    <3> HIDE DEF e, es
    <3> QED BY <1>3 DEF Read, ReadDecimals
  <2>2. ASSUME NEW i \in 1..Len(ts)
        PROVE  [es[i] EXCEPT !.decimals = d] = [ts[i] EXCEPT !.decimals = d]
    <3>1. es[i] = [ts[i] EXCEPT !.decimals = Null]
      OBVIOUS
    <3>2. ts[i] \in TokenTransfer
      BY <1>4
    <3> HIDE DEF es, ts, d
    <3> QED BY <3>1, <3>2 DEF TokenTransfer
  <2>3. DOMAIN es = 1..Len(ts)
    OBVIOUS
  <2> HIDE DEF es, e, d, ts
  <2> QED BY <2>1, <2>2, <2>3
<1>6. r \in Seq(TokenTransfer) /\ Len(r) = Len(ts)
  <2>1. ASSUME NEW i \in 1..Len(ts) PROVE [ts[i] EXCEPT !.decimals = d] \in TokenTransfer
    <3>1. ts[i] \in TokenTransfer
      BY <1>4
    <3> HIDE DEF ts, d
    <3> QED BY <3>1, <1>1 DEF TokenTransfer
  <2> HIDE DEF ts, d
  <2> QED BY <2>1, <1>1
<1>7. \A i \in 1..Len(ts) : r[i] = [ts[i] EXCEPT !.decimals = d]
  OBVIOUS
<1> HIDE DEF r, e
<1> QED BY <1>3, <1>5, <1>6, <1>7 DEF e

\* The decimals are kept that all transfers of a token agree on.
KeepsDecimals(l, r) ==
    \A t \in Range(l.tokens) :
       /\ t.decimals # 0
       /\ \A u \in Range(l.tokens) : u.token = t.token => u.decimals = t.decimals
       /\ \A n \in Range(l.nfts) : n.token # t.token
       => t \in Range(r.tokens)

\* The groups of a body are not empty, and each is of one token.
GroupsOK(data) ==
    \A g \in Range(data.groups) :
       /\ g.transfers # <<>> \/ g.nfts # <<>>
       /\ \A t \in Range(g.transfers) \cup Range(g.nfts) : t.token = g.token

\* Reading the body of well-formed lists gives well-formed lists that hold the
\* same, and loses only decimals the transfers of a token do not agree on.
LEMMA RoundTrip ==
    ASSUME TransferAssumption, NEW l, WellFormed(l)
    PROVE  /\ WellFormed(Decoded(DataOf(l))) /\ SameOutcome(Decoded(DataOf(l)), l)
           /\ KeepsDecimals(l, Decoded(DataOf(l))) /\ GroupsOK(DataOf(l))
<1> DEFINE ts == l.tokens
    ns == l.nfts
    G == Merged(ts, ns)
    N == Len(G)
    A == TransfersOf(G)
    data == DataOf(l)
    r == Decoded(data)
    R == [k \in 1..N |-> Read(Encoded(G[k]))]
    f == FlattenSeq(R)
    h == FlattenSeq(NftsOf(G))
<1>1. /\ ts \in Seq(TokenTransfer) /\ Distinct(ts) /\ UniqueTokens(Range(ts))
      /\ ns \in Seq(Nft) /\ Distinct(ns) /\ UniqueNfts(Range(ns))
      /\ l.hbars \in Seq(Hbar) /\ HbarsOK(l.hbars)
  BY DEF WellFormed, TokensOK, NftsOK, HbarsOK
<1>2. MergedOK(ts, ns, G)
  <2> HIDE DEF ts, ns
  <2> QED BY <1>1, MergedGroups
<1>3. /\ G \in Seq(TokenTransferList) /\ \A k \in 1..N : GroupOK(G[k])
      /\ Distributed(A, N, ts, Len(ts)) /\ Distributed(NftsOf(G), N, ns, Len(ns))
  BY <1>2 DEF MergedOK
<1>30. data = [hbars |-> l.hbars, groups |-> [k \in DOMAIN G |-> Encoded(G[k])]]
  BY DEF DataOf
<1> HIDE DEF G, ts, ns, data
<1>4. N \in Nat /\ DOMAIN G = 1..N /\ \A k \in 1..N : G[k] \in TokenTransferList
  BY <1>3
<1>5. /\ data.hbars = l.hbars /\ data.groups = [k \in 1..N |-> Encoded(G[k])]
  BY <1>30, <1>4
<1>6. /\ \A k \in 1..N : A[k] = G[k].transfers /\ NftsOf(G)[k] = G[k].nfts
      /\ \A k \in 1..N : G[k].transfers \in Seq(TokenTransfer) /\ G[k].nfts \in Seq(Nft)
  <2>1. \A k \in 1..N : A[k] = G[k].transfers /\ NftsOf(G)[k] = G[k].nfts
    BY DEF TransfersOf, NftsOf
  <2>2. \A k \in 1..N : G[k].transfers \in Seq(TokenTransfer) /\ G[k].nfts \in Seq(Nft)
    BY <1>4 DEF TokenTransferList
  <2> QED BY <2>1, <2>2
<1>7. r.hbars = l.hbars /\ r.tokens = f /\ r.nfts = h
      /\ r = [hbars |-> r.hbars, tokens |-> r.tokens, nfts |-> r.nfts]
  <2>1. [k \in 1..N |-> data.groups[k].nfts] = NftsOf(G)
    <3>1. \A k \in 1..N : data.groups[k].nfts = G[k].nfts
      <4> SUFFICES ASSUME NEW k \in 1..N PROVE data.groups[k].nfts = G[k].nfts
        OBVIOUS
      <4>1. data.groups[k] = Encoded(G[k])
        BY <1>5
      <4>2. Encoded(G[k]).nfts = G[k].nfts
        BY <1>4, ReadEncoded
      <4> QED BY <4>1, <4>2
    <3> QED BY <3>1 DEF NftsOf
  <2>2. [k \in 1..N |-> Read(data.groups[k])] = R
    BY <1>5
  <2>3. DOMAIN data.groups = 1..N
    BY <1>5
  <2>4. r = [hbars |-> data.hbars,
             tokens |-> FlattenSeq([k \in 1..N |-> Read(data.groups[k])]),
             nfts |-> FlattenSeq([k \in 1..N |-> data.groups[k].nfts])]
    BY <2>3 DEF Decoded
  <2> HIDE DEF r, R, N
  <2> QED BY <2>1, <2>2, <2>4, <1>5
<1>8. \A k \in 1..N : /\ R[k] \in Seq(TokenTransfer) /\ Len(R[k]) = Len(A[k])
                      /\ \A i \in 1..Len(A[k]) :
                            R[k][i] = [A[k][i] EXCEPT !.decimals = ReadDecimals(G[k])]
  <2> SUFFICES ASSUME NEW k \in 1..N
               PROVE  /\ R[k] \in Seq(TokenTransfer) /\ Len(R[k]) = Len(A[k])
                      /\ \A i \in 1..Len(A[k]) :
                            R[k][i] = [A[k][i] EXCEPT !.decimals = ReadDecimals(G[k])]
    OBVIOUS
  <2>1. R[k] = Read(Encoded(G[k])) /\ A[k] = G[k].transfers
    BY <1>6
  <2>2. G[k] \in TokenTransferList
    BY <1>4
  <2> HIDE DEF R, A, N
  <2>3. /\ Read(Encoded(G[k])) \in Seq(TokenTransfer)
        /\ Len(Read(Encoded(G[k]))) = Len(G[k].transfers)
        /\ \A i \in 1..Len(G[k].transfers) :
              Read(Encoded(G[k]))[i]
                = [G[k].transfers[i] EXCEPT !.decimals = ReadDecimals(G[k])]
    BY <2>2, ReadEncoded
  <2> QED BY <2>1, <2>3
<1> HIDE DEF N
<1>9. Flattened(f, R, N, TokenTransfer)
  <2>1. R \in [1..N -> Seq(TokenTransfer)]
    BY <1>8
  <2> HIDE DEF R
  <2> QED BY <2>1, <1>4, FlattenSeqFlattens
<1>10. Flattened(h, NftsOf(G), N, Nft)
  <2>1. NftsOf(G) \in [1..N -> Seq(Nft)]
    BY <1>6 DEF NftsOf, N
  <2> QED BY <2>1, <1>4, FlattenSeqFlattens
<1> HIDE DEF f, h, R, A, r
<1>11. /\ \A k \in 1..N : \A i \in 1..Len(A[k]) : A[k][i] \in Range(ts)
       /\ \A t \in Range(ts) : \E k \in 1..N : \E i \in 1..Len(A[k]) : A[k][i] = t
       /\ \A k, g \in 1..N : \A i \in 1..Len(A[k]), j \in 1..Len(A[g]) :
             A[k][i] = A[g][j] => k = g /\ i = j
  <2>1. ASSUME NEW k \in 1..N, NEW i \in 1..Len(A[k]) PROVE A[k][i] \in Range(ts)
    <3>0. \A g \in 1..N : \A p \in 1..Len(A[g]) : \E j \in 1..Len(ts) : A[g][p] = ts[j]
      BY <1>3, Zenon DEF Distributed
    <3>1. PICK j \in 1..Len(ts) : A[k][i] = ts[j]
      BY <3>0, Zenon
    <3> QED BY <3>1, <1>1, RangeOf
  <2>2. ASSUME NEW t \in Range(ts)
        PROVE  \E k \in 1..N : \E i \in 1..Len(A[k]) : A[k][i] = t
    <3>1. PICK j \in 1..Len(ts) : t = ts[j]
      BY <1>1, RangeOf, SMTT(30)
    <3> QED BY <3>1, <1>3 DEF Distributed
  <2>3. \A k, g \in 1..N : \A i \in 1..Len(A[k]), j \in 1..Len(A[g]) :
             A[k][i] = A[g][j] => k = g /\ i = j
    BY <1>3 DEF Distributed
  <2> QED BY <2>1, <2>2, <2>3
<1>12. \A k \in 1..N : \A i \in 1..Len(A[k]) :
          /\ A[k][i] \in TokenTransfer /\ A[k][i].token = G[k].token
          /\ R[k][i].token = A[k][i].token /\ R[k][i].account = A[k][i].account
          /\ [R[k][i] EXCEPT !.decimals = Null] = [A[k][i] EXCEPT !.decimals = Null]
          /\ (ReadDecimals(G[k]) = A[k][i].decimals => R[k][i] = A[k][i])
  <2> SUFFICES ASSUME NEW k \in 1..N, NEW i \in 1..Len(A[k])
               PROVE  /\ A[k][i] \in TokenTransfer /\ A[k][i].token = G[k].token
                      /\ R[k][i].token = A[k][i].token /\ R[k][i].account = A[k][i].account
                      /\ [R[k][i] EXCEPT !.decimals = Null] = [A[k][i] EXCEPT !.decimals = Null]
                      /\ (ReadDecimals(G[k]) = A[k][i].decimals => R[k][i] = A[k][i])
    OBVIOUS
  <2> DEFINE a == A[k][i]
             d == ReadDecimals(G[k])
  <2>1. a \in TokenTransfer
    BY <1>1, <1>11, RangeOf
  <2>2. a.token = G[k].token
    BY <1>3, <1>6 DEF GroupOK
  <2>3. R[k][i] = [a EXCEPT !.decimals = d]
    BY <1>8
  <2> HIDE DEF a, d
  <2>4. /\ R[k][i].token = a.token /\ R[k][i].account = a.account
        /\ [R[k][i] EXCEPT !.decimals = Null] = [a EXCEPT !.decimals = Null]
        /\ d = a.decimals => R[k][i] = a
    BY <2>1, <2>3 DEF TokenTransfer
  <2> QED BY <2>1, <2>2, <2>4 DEF a, d
<1>13. PICK group, place : Places(f, R, N, group, place)
  BY <1>9 DEF Flattened
<1>14. /\ f \in Seq(TokenTransfer)
       /\ \A p \in 1..Len(f) : /\ group[p] \in 1..N /\ place[p] \in 1..Len(A[group[p]])
                               /\ f[p] = R[group[p]][place[p]]
       /\ \A p, q \in 1..Len(f) : group[p] = group[q] /\ place[p] = place[q] => p = q
       /\ \A k \in 1..N : \A i \in 1..Len(A[k]) :
             \E p \in 1..Len(f) : group[p] = k /\ place[p] = i /\ f[p] = R[k][i]
  <2>1. f \in Seq(TokenTransfer)
    BY <1>9 DEF Flattened
  <2>2. \A p \in 1..Len(f) : /\ group[p] \in 1..N /\ place[p] \in 1..Len(R[group[p]])
                               /\ f[p] = R[group[p]][place[p]]
    BY <1>13 DEF Places
  <2>3. \A p, q \in 1..Len(f) : group[p] = group[q] /\ place[p] = place[q] => p = q
    BY <1>13 DEF Places
  <2>4. \A k \in 1..N : \A i \in 1..Len(R[k]) :
             \E p \in 1..Len(f) : group[p] = k /\ place[p] = i
    BY <1>13 DEF Places
  <2>5. \A k \in 1..N : \A i \in 1..Len(A[k]) :
             \E p \in 1..Len(f) : group[p] = k /\ place[p] = i /\ f[p] = R[k][i]
    <3> SUFFICES ASSUME NEW k \in 1..N, NEW i \in 1..Len(A[k])
                 PROVE  \E p \in 1..Len(f) : group[p] = k /\ place[p] = i /\ f[p] = R[k][i]
      OBVIOUS
    <3>1. PICK p \in 1..Len(f) : group[p] = k /\ place[p] = i
      BY <2>4, <1>8
    <3> QED BY <3>1, <2>2
  <2> QED BY <2>1, <2>2, <2>3, <2>5, <1>8
<1>15. ASSUME NEW p \in 1..Len(f), NEW q \in 1..Len(f), f[p].token = f[q].token,
              f[p].account = f[q].account
       PROVE  p = q
  <2> DEFINE k == group[p]
             i == place[p]
             g == group[q]
             j == place[q]
  <2>1. /\ k \in 1..N /\ i \in 1..Len(A[k]) /\ g \in 1..N /\ j \in 1..Len(A[g])
        /\ f[p] = R[k][i] /\ f[q] = R[g][j]
    BY <1>14
  <2>2. k = g /\ i = j => p = q
    BY <1>14
  <2> HIDE DEF k, i, g, j
  <2>6. R[k][i].token = A[k][i].token /\ R[k][i].account = A[k][i].account
    BY <2>1, <1>12
  <2>7. R[g][j].token = A[g][j].token /\ R[g][j].account = A[g][j].account
    BY <2>1, <1>12
  <2>3. A[k][i].token = A[g][j].token /\ A[k][i].account = A[g][j].account
    BY <2>1, <2>6, <2>7, <1>15
  <2>4. A[k][i] \in Range(ts) /\ A[g][j] \in Range(ts)
    BY <2>1, <1>11
  <2>5. A[k][i] = A[g][j]
    BY <2>3, <2>4, <1>1 DEF UniqueTokens
  <2> QED BY <2>1, <2>2, <2>5, <1>11
<1>16. TokensOK(f)
  <2>1. Distinct(f)
    BY <1>15 DEF Distinct
  <2>2. UniqueTokens(Range(f))
    <3> SUFFICES ASSUME NEW x \in Range(f), NEW y \in Range(f), x.token = y.token,
                        x.account = y.account
                 PROVE  x = y
      BY DEF UniqueTokens
    <3>1. PICK p \in 1..Len(f) : x = f[p]
      BY <1>14, RangeOf
    <3>2. PICK q \in 1..Len(f) : y = f[q]
      BY <1>14, RangeOf
    <3> QED BY <3>1, <3>2, <1>15
  <2> QED BY <2>1, <2>2, <1>14 DEF TokensOK
<1>17. WithoutDecimals(f) = WithoutDecimals(ts)
  <2>1. ASSUME NEW x \in Range(f)
        PROVE  \E t \in Range(ts) : [x EXCEPT !.decimals = Null] = [t EXCEPT !.decimals = Null]
    <3>1. PICK p \in 1..Len(f) : x = f[p]
      BY <1>14, RangeOf
    <3> DEFINE k == group[p]
               i == place[p]
               t == A[k][i]
    <3>2. k \in 1..N /\ i \in 1..Len(A[k]) /\ x = R[k][i]
      BY <3>1, <1>14
    <3> HIDE DEF k, i
    <3>3. t \in Range(ts)
      BY <3>2, <1>11
    <3>4. [x EXCEPT !.decimals = Null] = [t EXCEPT !.decimals = Null]
      BY <3>2, <1>12
    <3> HIDE DEF t
    <3> QED BY <3>3, <3>4
  <2>2. ASSUME NEW t \in Range(ts)
        PROVE  \E x \in Range(f) : [x EXCEPT !.decimals = Null] = [t EXCEPT !.decimals = Null]
    <3>1. PICK k \in 1..N : \E i \in 1..Len(A[k]) : A[k][i] = t
      BY <1>11
    <3>2. PICK i \in 1..Len(A[k]) : A[k][i] = t
      BY <3>1
    <3>3. PICK p \in 1..Len(f) : f[p] = R[k][i]
      BY <1>14
    <3>4. f[p] \in Range(f)
      BY <1>14, RangeOf
    <3>5. [f[p] EXCEPT !.decimals = Null] = [t EXCEPT !.decimals = Null]
      BY <3>2, <3>3, <1>12
    <3> QED BY <3>4, <3>5
  <2> HIDE DEF N
  <2>3. ASSUME NEW y \in WithoutDecimals(f) PROVE y \in WithoutDecimals(ts)
    <3>1. PICK x \in Range(f) : y = [x EXCEPT !.decimals = Null]
      BY DEF WithoutDecimals
    <3>2. PICK t \in Range(ts) : y = [t EXCEPT !.decimals = Null]
      BY <3>1, <2>1
    <3> QED BY <3>2 DEF WithoutDecimals
  <2>4. ASSUME NEW y \in WithoutDecimals(ts) PROVE y \in WithoutDecimals(f)
    <3>1. PICK t \in Range(ts) : y = [t EXCEPT !.decimals = Null]
      BY DEF WithoutDecimals
    <3>2. PICK x \in Range(f) : y = [x EXCEPT !.decimals = Null]
      BY <3>1, <2>2
    <3> QED BY <3>2 DEF WithoutDecimals
  <2> QED BY <2>3, <2>4
<1>18. SameElements(ns, h, Nft) /\ Distinct(h)
  BY <1>1, <1>3, <1>4, <1>10, FlattenedDistributed
<1>19. h \in Seq(Nft) /\ Range(h) = Range(ns) /\ NftsOK(h)
  BY <1>1, <1>18 DEF SameElements, NftsOK
<1>20. WellFormed(r) /\ SameOutcome(r, l)
  <2>1. r \in ListsType
    BY <1>1, <1>7, <1>14, <1>19 DEF ListsType
  <2> QED BY <2>1, <1>1, <1>7, <1>16, <1>17, <1>19 DEF WellFormed, SameOutcome, ts, ns
<1>21. KeepsDecimals(l, r)
  <2> SUFFICES ASSUME NEW t \in Range(ts), t.decimals # 0,
                      \A u \in Range(ts) : u.token = t.token => u.decimals = t.decimals,
                      \A n \in Range(ns) : n.token # t.token
               PROVE  t \in Range(f)
    BY <1>7 DEF KeepsDecimals, ts, ns
  <2>1. PICK k \in 1..N : \E i \in 1..Len(A[k]) : A[k][i] = t
    BY <1>11
  <2>2. PICK i \in 1..Len(A[k]) : A[k][i] = t
    BY <2>1
  <2>3. t.token = G[k].token
    BY <2>2, <1>12
  <2>4. /\ \A j \in 1..Len(G[k].nfts) : G[k].nfts[j].token = G[k].token
        /\ G[k].nfts # <<>> \/ \E j \in 1..Len(G[k].transfers) :
                                  G[k].transfers[j].decimals = G[k].decimals
    BY <1>3 DEF GroupOK, N
  <2>5. G[k].nfts = <<>>
    <3> SUFFICES ASSUME G[k].nfts # <<>> PROVE FALSE
      OBVIOUS
    <3>1. 1 \in 1..Len(G[k].nfts)
      <4> DEFINE e == G[k].nfts
      <4>1. e \in Seq(Nft) /\ e # <<>>
        BY <1>6
      <4> HIDE DEF e
      <4>2. 1 \in 1..Len(e)
        BY <4>1
      <4> QED BY <4>2 DEF e
    <3>2. PICK j \in 1..Len(ns) : NftsOf(G)[k][1] = ns[j]
      BY <3>1, <1>3, <1>6 DEF Distributed
    <3>3. ns[j] \in Range(ns)
      BY <1>1, RangeOf
    <3>4. ns[j].token = G[k].token
      BY <3>1, <3>2, <2>4, <1>6
    <3> QED BY <3>3, <3>4, <2>3
  <2>6. PICK j \in 1..Len(A[k]) : A[k][j].decimals = G[k].decimals
    BY <2>4, <2>5, <1>6
  <2>7. A[k][j] \in Range(ts) /\ A[k][j].token = t.token
    BY <1>11, <1>12, <2>3
  <2>8. G[k].decimals = t.decimals
    BY <2>6, <2>7
  <2>9. ReadDecimals(G[k]) = A[k][i].decimals
    BY <2>2, <2>8 DEF ReadDecimals
  <2>10. R[k][i] = t
    BY <2>2, <2>9, <1>12
  <2>11. PICK p \in 1..Len(f) : f[p] = R[k][i]
    BY <1>14
  <2> QED BY <2>10, <2>11, <1>14, RangeOf
<1>22. GroupsOK(data)
  <2> SUFFICES ASSUME NEW g \in Range(data.groups)
               PROVE  /\ g.transfers # <<>> \/ g.nfts # <<>>
                      /\ \A t \in Range(g.transfers) \cup Range(g.nfts) : t.token = g.token
    BY DEF GroupsOK
  <2>1. PICK k \in 1..N : g = Encoded(G[k])
    BY <1>5 DEF Range
  <2>2. /\ g.nfts = G[k].nfts /\ g.token = G[k].token
        /\ g.transfers = [i \in 1..Len(G[k].transfers) |->
                             [G[k].transfers[i] EXCEPT !.decimals = Null]]
    BY <2>1, <1>4, ReadEncoded
  <2>3. DOMAIN g.transfers = 1..Len(A[k]) /\ DOMAIN g.nfts = 1..Len(G[k].nfts)
    BY <2>2, <1>6
  <2>4. g.transfers # <<>> \/ g.nfts # <<>>
    <3>1. G[k].transfers # <<>> \/ G[k].nfts # <<>>
      BY <1>3 DEF GroupOK, N
    <3>2. CASE G[k].nfts # <<>>
      BY <3>2, <2>2
    <3>3. CASE G[k].transfers # <<>>
      <4> DEFINE e == G[k].transfers
      <4>1. e \in Seq(TokenTransfer) /\ e # <<>>
        BY <3>3, <1>6
      <4> HIDE DEF e
      <4>2. 1 \in 1..Len(e)
        BY <4>1
      <4>3. 1 \in DOMAIN g.transfers
        BY <4>2, <2>3, <1>6 DEF e
      <4> QED BY <4>3
    <3> QED BY <3>1, <3>2, <3>3
  <2>5. ASSUME NEW t \in Range(g.transfers) PROVE t.token = g.token
    <3>1. PICK i \in 1..Len(A[k]) : t = g.transfers[i]
      BY <2>3 DEF Range
    <3> DEFINE a == A[k][i]
    <3>2. a \in TokenTransfer /\ a.token = g.token
      BY <2>2, <1>12
    <3>4. A[k] = G[k].transfers
      BY <1>6
    <3>3. t = [a EXCEPT !.decimals = Null]
      BY <3>1, <3>4, <2>2
    <3> HIDE DEF a
    <3>5. t.token = a.token
      BY <3>2, <3>3 DEF TokenTransfer
    <3> QED BY <3>2, <3>5
  <2>6. ASSUME NEW t \in Range(g.nfts) PROVE t.token = g.token
    <3>1. PICK i \in 1..Len(G[k].nfts) : t = G[k].nfts[i]
      BY <2>2, <2>3 DEF Range
    <3> QED BY <3>1, <2>2, <1>3 DEF GroupOK, N
  <2> QED BY <2>4, <2>5, <2>6
<1> QED BY <1>20, <1>21, <1>22 DEF r, data

-----------------------------------------------------------------------------
(* Changing the lists *)

\* The same from place to place: no account is there twice.
LEMMA HbarsOnce ==
    ASSUME NEW s \in Seq(Hbar), \A i, j \in 1..Len(s) : s[i].account = s[j].account => i = j
    PROVE  HbarsOK(s)
<1>1. Distinct(s)
  BY DEF Distinct
<1>2. UniqueHbars(Range(s))
  <2> SUFFICES ASSUME NEW x \in Range(s), NEW y \in Range(s), x.account = y.account
               PROVE  x = y
    BY DEF UniqueHbars
  <2>1. PICK i \in 1..Len(s) : x = s[i]
    BY RangeOf
  <2>2. PICK j \in 1..Len(s) : y = s[j]
    BY RangeOf
  <2> QED BY <2>1, <2>2
<1> QED BY <1>1, <1>2 DEF HbarsOK

\* What is known of the places of such a list.
LEMMA HbarsOnceOK ==
    ASSUME NEW s, HbarsOK(s)
    PROVE  /\ s \in Seq(Hbar) /\ Len(s) \in Nat /\ DOMAIN s = 1..Len(s)
           /\ \A i \in 1..Len(s) : s[i] \in Hbar /\ s[i].amount \in Int
           /\ \A i, j \in 1..Len(s) : s[i].account = s[j].account => i = j
<1>1. s \in Seq(Hbar) /\ Distinct(s) /\ UniqueHbars(Range(s))
  BY DEF HbarsOK
<1>2. Len(s) \in Nat /\ DOMAIN s = 1..Len(s) /\ \A i \in 1..Len(s) : s[i] \in Hbar
  BY <1>1
<1>3. \A i \in 1..Len(s) : s[i].amount \in Int
  BY <1>2 DEF Hbar
<1>4. ASSUME NEW i \in 1..Len(s), NEW j \in 1..Len(s), s[i].account = s[j].account
      PROVE  i = j
  <2>1. s[i] \in Range(s) /\ s[j] \in Range(s)
    BY <1>1, RangeOf
  <2>2. s[i] = s[j]
    BY <2>1, <1>1, <1>4 DEF UniqueHbars
  <2> QED BY <2>2, <1>1 DEF Distinct
<1> QED BY <1>1, <1>2, <1>3, <1>4

\* The total of an account is the amount at its place.
LEMMA HbarTotalAt ==
    ASSUME NEW s, HbarsOK(s), NEW a
    PROVE  /\ \A k \in 1..Len(s) : s[k].account = a => HbarTotal(s, a) = s[k].amount
           /\ (\A k \in 1..Len(s) : s[k].account # a) => HbarTotal(s, a) = 0
           /\ HbarTotal(s, a) \in Int
<1>1. IsHbarTotal(Range(s), a, HbarTotal(s, a))
  BY HbarTotalIs
<1>2. s \in Seq(Hbar) /\ \A i \in 1..Len(s) : s[i].amount \in Int
  BY HbarsOnceOK
<1>3. \A k \in 1..Len(s) : s[k].account = a => HbarTotal(s, a) = s[k].amount
  BY <1>1, <1>2, RangeOf DEF IsHbarTotal
<1>4. (\A k \in 1..Len(s) : s[k].account # a) => HbarTotal(s, a) = 0
  <2> SUFFICES ASSUME \A k \in 1..Len(s) : s[k].account # a PROVE HbarTotal(s, a) = 0
    OBVIOUS
  <2>1. \A x \in Range(s) : x.account # a
    BY <1>2, RangeOf
  <2> QED BY <2>1, <1>1 DEF IsHbarTotal
<1>5. HbarTotal(s, a) \in Int
  <2>1. CASE \E k \in 1..Len(s) : s[k].account = a
    BY <2>1, <1>2, <1>3
  <2>2. CASE \A k \in 1..Len(s) : s[k].account # a
    BY <2>2, <1>4
  <2> QED BY <2>1, <2>2
<1> QED BY <1>3, <1>4, <1>5

\* The same accounts, other amounts.
LEMMA HbarsChanged ==
    ASSUME NEW s, HbarsOK(s), NEW u \in Seq(Hbar), Len(u) = Len(s),
           \A k \in 1..Len(s) : u[k].account = s[k].account
    PROVE  HbarsOK(u)
<1>1. \A i, j \in 1..Len(s) : s[i].account = s[j].account => i = j
  BY HbarsOnceOK
<1> QED BY <1>1, HbarsOnce

\* The total of an account changes as the amount at its place does.
LEMMA HbarsChangedBy ==
    ASSUME NEW s, HbarsOK(s), NEW u, HbarsOK(u), Len(u) = Len(s),
           \A k \in 1..Len(s) : u[k].account = s[k].account,
           NEW a, NEW d \in Int, d = 0 \/ \E k \in 1..Len(s) : s[k].account = a,
           \A k \in 1..Len(s) : s[k].account = a => u[k].amount = s[k].amount + d
    PROVE  HbarTotal(u, a) = HbarTotal(s, a) + d
<1>1. /\ \A k \in 1..Len(s) : s[k].account = a => HbarTotal(s, a) = s[k].amount
      /\ (\A k \in 1..Len(s) : s[k].account # a) => HbarTotal(s, a) = 0
  BY HbarTotalAt
<1>2. /\ \A k \in 1..Len(u) : u[k].account = a => HbarTotal(u, a) = u[k].amount
      /\ (\A k \in 1..Len(u) : u[k].account # a) => HbarTotal(u, a) = 0
  BY HbarTotalAt
<1>3. CASE \E k \in 1..Len(s) : s[k].account = a
  BY <1>3, <1>1, <1>2
<1>4. CASE \A k \in 1..Len(s) : s[k].account # a
  <2>1. HbarTotal(s, a) = 0 /\ HbarTotal(u, a) = 0 /\ d = 0
    BY <1>4, <1>1, <1>2
  <2> QED BY <2>1
<1> QED BY <1>3, <1>4

\* An account that is not there yet.
LEMMA HbarsAppended ==
    ASSUME NEW s, HbarsOK(s), NEW h \in Hbar, \A k \in 1..Len(s) : s[k].account # h.account
    PROVE  /\ HbarsOK(Append(s, h))
           /\ \A a : HbarTotal(Append(s, h), a)
                       = HbarTotal(s, a) + (IF a = h.account THEN h.amount ELSE 0)
<1> DEFINE u == Append(s, h)
    n == Len(s)
<1>1. /\ s \in Seq(Hbar) /\ n \in Nat
      /\ \A i, j \in 1..n : s[i].account = s[j].account => i = j
  BY HbarsOnceOK
<1>2. /\ u \in Seq(Hbar) /\ Len(u) = n + 1 /\ u[n + 1] = h /\ \A k \in 1..n : u[k] = s[k]
      /\ n + 1 \in 1..(n + 1) /\ \A k \in 1..n : k \in 1..(n + 1)
      /\ \A k \in 1..(n + 1) : k \in 1..n \/ k = n + 1
  BY <1>1
<1>3. \A k \in 1..n : s[k].account # h.account
  OBVIOUS
<1> HIDE DEF u, n
<1>4. HbarsOK(u)
  <2>1. ASSUME NEW i \in 1..Len(u), NEW j \in 1..Len(u), u[i].account = u[j].account
        PROVE  i = j
    BY <2>1, <1>1, <1>2, <1>3
  <2> QED BY <2>1, <1>2, HbarsOnce
<1>5. ASSUME NEW a
      PROVE  HbarTotal(u, a) = HbarTotal(s, a) + (IF a = h.account THEN h.amount ELSE 0)
  <2>1. /\ \A k \in 1..n : s[k].account = a => HbarTotal(s, a) = s[k].amount
        /\ (\A k \in 1..n : s[k].account # a) => HbarTotal(s, a) = 0
        /\ HbarTotal(s, a) \in Int
    BY HbarTotalAt DEF n
  <2>2. /\ \A k \in 1..(n + 1) : u[k].account = a => HbarTotal(u, a) = u[k].amount
        /\ (\A k \in 1..(n + 1) : u[k].account # a) => HbarTotal(u, a) = 0
    BY <1>2, <1>4, HbarTotalAt
  <2>3. CASE a = h.account
    <3>1. HbarTotal(s, a) = 0 /\ HbarTotal(u, a) = h.amount /\ h.amount \in Int
      BY <2>1, <2>2, <2>3, <1>2, <1>3 DEF Hbar
    <3> QED BY <3>1, <2>3
  <2>4. CASE a # h.account
    <3>1. HbarTotal(u, a) = HbarTotal(s, a)
      <4>1. CASE \E k \in 1..n : s[k].account = a
        BY <4>1, <2>1, <2>2, <1>2
      <4>2. CASE \A k \in 1..n : s[k].account # a
        <5>1. \A k \in 1..(n + 1) : u[k].account # a
          BY <4>2, <2>4, <1>2
        <5> QED BY <5>1, <4>2, <2>1, <2>2
      <4> QED BY <4>1, <4>2
    <3> QED BY <3>1, <2>1, <2>4
  <2> QED BY <2>3, <2>4
<1> QED BY <1>4, <1>5 DEF u

\* Tokens: no token of an account is there twice.
LEMMA TokensOnce ==
    ASSUME NEW s \in Seq(TokenTransfer), \A i, j \in 1..Len(s) : TokenKey(s[i]) = TokenKey(s[j]) => i = j
    PROVE  TokensOK(s)
<1>1. Distinct(s)
  BY DEF Distinct
<1>2. UniqueTokens(Range(s))
  <2> SUFFICES ASSUME NEW x \in Range(s), NEW y \in Range(s), TokenKey(x) = TokenKey(y)
               PROVE  x = y
    BY DEF UniqueTokens, TokenKey
  <2>1. PICK i \in 1..Len(s) : x = s[i]
    BY RangeOf
  <2>2. PICK j \in 1..Len(s) : y = s[j]
    BY RangeOf
  <2> QED BY <2>1, <2>2
<1> QED BY <1>1, <1>2 DEF TokensOK

\* What is known of the places of such a list.
LEMMA TokensOnceOK ==
    ASSUME NEW s, TokensOK(s)
    PROVE  /\ s \in Seq(TokenTransfer) /\ Len(s) \in Nat /\ DOMAIN s = 1..Len(s)
           /\ \A i \in 1..Len(s) : s[i] \in TokenTransfer /\ s[i].amount \in Int
           /\ \A i, j \in 1..Len(s) : TokenKey(s[i]) = TokenKey(s[j]) => i = j
<1>1. s \in Seq(TokenTransfer) /\ Distinct(s) /\ UniqueTokens(Range(s))
  BY DEF TokensOK
<1>2. Len(s) \in Nat /\ DOMAIN s = 1..Len(s) /\ \A i \in 1..Len(s) : s[i] \in TokenTransfer
  BY <1>1
<1>3. \A i \in 1..Len(s) : s[i].amount \in Int
  BY <1>2 DEF TokenTransfer
<1>4. ASSUME NEW i \in 1..Len(s), NEW j \in 1..Len(s), TokenKey(s[i]) = TokenKey(s[j])
      PROVE  i = j
  <2>1. s[i] \in Range(s) /\ s[j] \in Range(s)
    BY <1>1, RangeOf
  <2>2. s[i] = s[j]
    BY <2>1, <1>1, <1>4 DEF UniqueTokens, TokenKey
  <2> QED BY <2>2, <1>1 DEF Distinct
<1> QED BY <1>1, <1>2, <1>3, <1>4

\* The total of a token of an account is the amount at its place.
LEMMA TokenTotalAt ==
    ASSUME NEW s, TokensOK(s), NEW a
    PROVE  /\ \A k \in 1..Len(s) : TokenKey(s[k]) = a => TokenTotal(s, a) = s[k].amount
           /\ (\A k \in 1..Len(s) : TokenKey(s[k]) # a) => TokenTotal(s, a) = 0
           /\ TokenTotal(s, a) \in Int
<1>1. IsTokenTotal(Range(s), a, TokenTotal(s, a))
  BY TokenTotalIs
<1>2. s \in Seq(TokenTransfer) /\ \A i \in 1..Len(s) : s[i].amount \in Int
  BY TokensOnceOK
<1>3. \A k \in 1..Len(s) : TokenKey(s[k]) = a => TokenTotal(s, a) = s[k].amount
  BY <1>1, <1>2, RangeOf DEF IsTokenTotal
<1>4. (\A k \in 1..Len(s) : TokenKey(s[k]) # a) => TokenTotal(s, a) = 0
  <2> SUFFICES ASSUME \A k \in 1..Len(s) : TokenKey(s[k]) # a PROVE TokenTotal(s, a) = 0
    OBVIOUS
  <2>1. \A x \in Range(s) : TokenKey(x) # a
    BY <1>2, RangeOf
  <2> QED BY <2>1, <1>1 DEF IsTokenTotal
<1>5. TokenTotal(s, a) \in Int
  <2>1. CASE \E k \in 1..Len(s) : TokenKey(s[k]) = a
    BY <2>1, <1>2, <1>3
  <2>2. CASE \A k \in 1..Len(s) : TokenKey(s[k]) # a
    BY <2>2, <1>4
  <2> QED BY <2>1, <2>2
<1> QED BY <1>3, <1>4, <1>5

\* The same accounts of the same tokens, other amounts.
LEMMA TokensChanged ==
    ASSUME NEW s, TokensOK(s), NEW u \in Seq(TokenTransfer), Len(u) = Len(s),
           \A k \in 1..Len(s) : TokenKey(u[k]) = TokenKey(s[k])
    PROVE  TokensOK(u)
<1>1. \A i, j \in 1..Len(s) : TokenKey(s[i]) = TokenKey(s[j]) => i = j
  BY TokensOnceOK
<1> QED BY <1>1, TokensOnce

\* The total changes as the amount at its place does.
LEMMA TokensChangedBy ==
    ASSUME NEW s, TokensOK(s), NEW u, TokensOK(u), Len(u) = Len(s),
           \A k \in 1..Len(s) : TokenKey(u[k]) = TokenKey(s[k]),
           NEW a, NEW d \in Int, d = 0 \/ \E k \in 1..Len(s) : TokenKey(s[k]) = a,
           \A k \in 1..Len(s) : TokenKey(s[k]) = a => u[k].amount = s[k].amount + d
    PROVE  TokenTotal(u, a) = TokenTotal(s, a) + d
<1>1. /\ \A k \in 1..Len(s) : TokenKey(s[k]) = a => TokenTotal(s, a) = s[k].amount
      /\ (\A k \in 1..Len(s) : TokenKey(s[k]) # a) => TokenTotal(s, a) = 0
  BY TokenTotalAt
<1>2. /\ \A k \in 1..Len(u) : TokenKey(u[k]) = a => TokenTotal(u, a) = u[k].amount
      /\ (\A k \in 1..Len(u) : TokenKey(u[k]) # a) => TokenTotal(u, a) = 0
  BY TokenTotalAt
<1>3. CASE \E k \in 1..Len(s) : TokenKey(s[k]) = a
  BY <1>3, <1>1, <1>2
<1>4. CASE \A k \in 1..Len(s) : TokenKey(s[k]) # a
  <2>1. TokenTotal(s, a) = 0 /\ TokenTotal(u, a) = 0 /\ d = 0
    BY <1>4, <1>1, <1>2
  <2> QED BY <2>1
<1> QED BY <1>3, <1>4

\* A token of an account that is not there yet.
LEMMA TokensAppended ==
    ASSUME NEW s, TokensOK(s), NEW h \in TokenTransfer, \A k \in 1..Len(s) : TokenKey(s[k]) # TokenKey(h)
    PROVE  /\ TokensOK(Append(s, h))
           /\ \A a : TokenTotal(Append(s, h), a)
                       = TokenTotal(s, a) + (IF a = TokenKey(h) THEN h.amount ELSE 0)
<1> DEFINE u == Append(s, h)
    n == Len(s)
<1>1. /\ s \in Seq(TokenTransfer) /\ n \in Nat
      /\ \A i, j \in 1..n : TokenKey(s[i]) = TokenKey(s[j]) => i = j
  BY TokensOnceOK
<1>2. /\ u \in Seq(TokenTransfer) /\ Len(u) = n + 1 /\ u[n + 1] = h /\ \A k \in 1..n : u[k] = s[k]
      /\ n + 1 \in 1..(n + 1) /\ \A k \in 1..n : k \in 1..(n + 1)
      /\ \A k \in 1..(n + 1) : k \in 1..n \/ k = n + 1
  BY <1>1
<1>3. \A k \in 1..n : TokenKey(s[k]) # TokenKey(h)
  OBVIOUS
<1> HIDE DEF u, n
<1>4. TokensOK(u)
  <2>1. ASSUME NEW i \in 1..Len(u), NEW j \in 1..Len(u), TokenKey(u[i]) = TokenKey(u[j])
        PROVE  i = j
    BY <2>1, <1>1, <1>2, <1>3
  <2> QED BY <2>1, <1>2, TokensOnce
<1>5. ASSUME NEW a
      PROVE  TokenTotal(u, a) = TokenTotal(s, a) + (IF a = TokenKey(h) THEN h.amount ELSE 0)
  <2>1. /\ \A k \in 1..n : TokenKey(s[k]) = a => TokenTotal(s, a) = s[k].amount
        /\ (\A k \in 1..n : TokenKey(s[k]) # a) => TokenTotal(s, a) = 0
        /\ TokenTotal(s, a) \in Int
    BY TokenTotalAt DEF n
  <2>2. /\ \A k \in 1..(n + 1) : TokenKey(u[k]) = a => TokenTotal(u, a) = u[k].amount
        /\ (\A k \in 1..(n + 1) : TokenKey(u[k]) # a) => TokenTotal(u, a) = 0
    BY <1>2, <1>4, TokenTotalAt
  <2>3. CASE a = TokenKey(h)
    <3>1. TokenTotal(s, a) = 0 /\ TokenTotal(u, a) = h.amount /\ h.amount \in Int
      BY <2>1, <2>2, <2>3, <1>2, <1>3 DEF TokenTransfer
    <3> QED BY <3>1, <2>3
  <2>4. CASE a # TokenKey(h)
    <3>1. TokenTotal(u, a) = TokenTotal(s, a)
      <4>1. CASE \E k \in 1..n : TokenKey(s[k]) = a
        BY <4>1, <2>1, <2>2, <1>2
      <4>2. CASE \A k \in 1..n : TokenKey(s[k]) # a
        <5>1. \A k \in 1..(n + 1) : TokenKey(u[k]) # a
          BY <4>2, <2>4, <1>2
        <5> QED BY <5>1, <4>2, <2>1, <2>2
      <4> QED BY <4>1, <4>2
    <3> QED BY <3>1, <2>1, <2>4
  <2> QED BY <2>3, <2>4
<1> QED BY <1>4, <1>5 DEF u

\* NFTs: none is there twice.
LEMMA NftsOnce ==
    ASSUME NEW s \in Seq(Nft),
           \A i, j \in 1..Len(s) : s[i].token = s[j].token /\ s[i].serial = s[j].serial => i = j
    PROVE  NftsOK(s)
<1>1. Distinct(s)
  BY DEF Distinct
<1>2. UniqueNfts(Range(s))
  <2> SUFFICES ASSUME NEW x \in Range(s), NEW y \in Range(s), x.token = y.token,
                      x.serial = y.serial
               PROVE  x = y
    BY DEF UniqueNfts
  <2>1. PICK i \in 1..Len(s) : x = s[i]
    BY RangeOf
  <2>2. PICK j \in 1..Len(s) : y = s[j]
    BY RangeOf
  <2> QED BY <2>1, <2>2
<1> QED BY <1>1, <1>2 DEF NftsOK

\* What is known of the places of such a list.
LEMMA NftsOnceOK ==
    ASSUME NEW s, NftsOK(s)
    PROVE  /\ s \in Seq(Nft) /\ Len(s) \in Nat /\ DOMAIN s = 1..Len(s)
           /\ \A i \in 1..Len(s) : s[i] \in Nft
           /\ \A i, j \in 1..Len(s) :
                 s[i].token = s[j].token /\ s[i].serial = s[j].serial => i = j
<1>1. s \in Seq(Nft) /\ Distinct(s) /\ UniqueNfts(Range(s))
  BY DEF NftsOK
<1>2. Len(s) \in Nat /\ DOMAIN s = 1..Len(s) /\ \A i \in 1..Len(s) : s[i] \in Nft
  BY <1>1
<1>4. ASSUME NEW i \in 1..Len(s), NEW j \in 1..Len(s), s[i].token = s[j].token,
             s[i].serial = s[j].serial
      PROVE  i = j
  <2>1. s[i] \in Range(s) /\ s[j] \in Range(s)
    BY <1>1, RangeOf
  <2>2. s[i] = s[j]
    BY <2>1, <1>1, <1>4 DEF UniqueNfts
  <2> QED BY <2>2, <1>1 DEF Distinct
<1> QED BY <1>1, <1>2, <1>4

\* The same NFTs, and parties that may be others.
LEMMA NftsChanged ==
    ASSUME NEW s, NftsOK(s), NEW u \in Seq(Nft), Len(u) = Len(s),
           \A k \in 1..Len(s) : u[k].token = s[k].token /\ u[k].serial = s[k].serial
    PROVE  NftsOK(u)
<1>1. \A i, j \in 1..Len(s) : s[i].token = s[j].token /\ s[i].serial = s[j].serial => i = j
  BY NftsOnceOK
<1> QED BY <1>1, NftsOnce

\* The parties in a list, at the place of the NFT.
PartiesIn(s, token, serial, v) ==
    /\ \A k \in 1..Len(s) : s[k].token = token /\ s[k].serial = serial =>
          v = <<s[k].sender, s[k].receiver>>
    /\ (\A k \in 1..Len(s) : ~ (s[k].token = token /\ s[k].serial = serial)) => v = Null

\* These are the ones that Parties finds, and no others.
LEMMA PartiesAt ==
    ASSUME NEW s, NftsOK(s), NEW token, NEW serial
    PROVE  PartiesIn(s, token, serial, Parties(s, token, serial))
<1> DEFINE v == Parties(s, token, serial)
<1>1. IsParties(Range(s), token, serial, v)
  BY PartiesIs
<1>2. s \in Seq(Nft)
  BY NftsOnceOK
<1> HIDE DEF v
<1>3. \A k \in 1..Len(s) : s[k].token = token /\ s[k].serial = serial =>
         v = <<s[k].sender, s[k].receiver>>
  BY <1>1, <1>2, RangeOf DEF IsParties
<1>4. (\A k \in 1..Len(s) : ~ (s[k].token = token /\ s[k].serial = serial)) => v = Null
  <2> SUFFICES ASSUME \A k \in 1..Len(s) : ~ (s[k].token = token /\ s[k].serial = serial)
               PROVE  v = Null
    OBVIOUS
  <2>1. \A x \in Range(s) : ~ (x.token = token /\ x.serial = serial)
    BY <1>2, RangeOf
  <2> QED BY <2>1, <1>1 DEF IsParties
<1> QED BY <1>3, <1>4 DEF PartiesIn, v

LEMMA PartiesInUnique ==
    ASSUME NEW s, NEW token, NEW serial, NEW v, NEW w, PartiesIn(s, token, serial, v),
           PartiesIn(s, token, serial, w)
    PROVE  v = w
BY DEF PartiesIn

LEMMA PartiesOf ==
    ASSUME NEW s, NftsOK(s), NEW token, NEW serial, NEW v, PartiesIn(s, token, serial, v)
    PROVE  Parties(s, token, serial) = v
BY PartiesAt, PartiesInUnique

\* An NFT that is not there yet.
LEMMA NftsAppended ==
    ASSUME NEW s, NftsOK(s), NEW n \in Nft,
           \A k \in 1..Len(s) : ~ (s[k].token = n.token /\ s[k].serial = n.serial)
    PROVE  /\ NftsOK(Append(s, n))
           /\ \A token, serial :
                 Parties(Append(s, n), token, serial)
                   = IF n.token = token /\ n.serial = serial THEN <<n.sender, n.receiver>>
                     ELSE Parties(s, token, serial)
<1> DEFINE u == Append(s, n)
    m == Len(s)
<1>1. /\ s \in Seq(Nft) /\ m \in Nat
      /\ \A i, j \in 1..m : s[i].token = s[j].token /\ s[i].serial = s[j].serial => i = j
  BY NftsOnceOK
<1>2. /\ u \in Seq(Nft) /\ Len(u) = m + 1 /\ u[m + 1] = n /\ \A k \in 1..m : u[k] = s[k]
      /\ m + 1 \in 1..(m + 1) /\ \A k \in 1..m : k \in 1..(m + 1)
      /\ \A k \in 1..(m + 1) : k \in 1..m \/ k = m + 1
  BY <1>1
<1>3. \A k \in 1..m : ~ (s[k].token = n.token /\ s[k].serial = n.serial)
  OBVIOUS
<1>6. m = Len(s)
  OBVIOUS
<1> HIDE DEF u, m
<1>4. NftsOK(u)
  <2>1. ASSUME NEW i \in 1..Len(u), NEW j \in 1..Len(u), u[i].token = u[j].token,
               u[i].serial = u[j].serial
        PROVE  i = j
    BY <2>1, <1>1, <1>2, <1>3
  <2> QED BY <2>1, <1>2, NftsOnce
<1>5. ASSUME NEW token, NEW serial
      PROVE  Parties(u, token, serial)
               = IF n.token = token /\ n.serial = serial THEN <<n.sender, n.receiver>>
                 ELSE Parties(s, token, serial)
  <2> DEFINE v == Parties(s, token, serial)
             w == IF n.token = token /\ n.serial = serial THEN <<n.sender, n.receiver>> ELSE v
  <2>1. PartiesIn(s, token, serial, v)
    BY PartiesAt
  <2> HIDE DEF v
  <2>2. \A k \in 1..(m + 1) : u[k].token = token /\ u[k].serial = serial =>
           w = <<u[k].sender, u[k].receiver>>
    <3> SUFFICES ASSUME NEW k \in 1..(m + 1), u[k].token = token, u[k].serial = serial
                 PROVE  w = <<u[k].sender, u[k].receiver>>
      OBVIOUS
    <3>1. CASE k = m + 1
      BY <3>1, <1>2
    <3>2. CASE k \in 1..m
      <4>1. s[k].token = token /\ s[k].serial = serial /\ u[k] = s[k]
        BY <3>2, <1>2
      <4>2. ~ (n.token = token /\ n.serial = serial)
        BY <4>1, <3>2, <1>3
      <4>3. v = <<s[k].sender, s[k].receiver>>
        BY <4>1, <3>2, <2>1, <1>6 DEF PartiesIn
      <4> QED BY <4>1, <4>2, <4>3
    <3> QED BY <3>1, <3>2, <1>2
  <2>3. (\A k \in 1..(m + 1) : ~ (u[k].token = token /\ u[k].serial = serial)) => w = Null
    <3> SUFFICES ASSUME \A k \in 1..(m + 1) : ~ (u[k].token = token /\ u[k].serial = serial)
                 PROVE  w = Null
      OBVIOUS
    <3>1. ~ (n.token = token /\ n.serial = serial)
      BY <1>2
    <3>2. \A k \in 1..m : ~ (s[k].token = token /\ s[k].serial = serial)
      BY <1>2
    <3>3. v = Null
      BY <3>2, <2>1, <1>6 DEF PartiesIn
    <3> QED BY <3>1, <3>3
  <2> HIDE DEF w
  <2>4. PartiesIn(u, token, serial, w)
    BY <2>2, <2>3, <1>2 DEF PartiesIn
  <2>5. Parties(u, token, serial) = w
    BY <2>4, <1>4, PartiesOf
  <2> QED BY <2>5 DEF w, v
<1> QED BY <1>4, <1>5 DEF u

-----------------------------------------------------------------------------
(* Adding to the lists *)

\* The place that is looked for, 0 if there is none.
LEMMA FirstPlace ==
    ASSUME NEW n \in Nat, NEW I \in SUBSET (1..n), NEW i, i = IF I # {} THEN Min(I) ELSE 0
    PROVE  /\ I = {} => i = 0
           /\ I # {} => i \in I /\ i \in 1..n /\ i # 0 /\ \A j \in I : i <= j
<1>1. I # {} => Min(I) \in I /\ \A j \in I : Min(I) <= j
  BY MinOf
<1>2. CASE I = {}
  BY <1>2
<1>3. CASE I # {}
  <2>1. i = Min(I) /\ i \in I /\ \A j \in I : i <= j
    BY <1>1, <1>3
  <2>2. i \in 1..n /\ i # 0
    BY <2>1
  <2> QED BY <1>3, <2>1, <2>2
<1> QED BY <1>2, <1>3

\* Adding hbar changes one account's total, by the amount.
LEMMA WithHbarAdds ==
    ASSUME NEW s, HbarsOK(s), NEW h \in Hbar
    PROVE  /\ HbarsOK(WithHbar(s, h))
           /\ \A a : HbarTotal(WithHbar(s, h), a)
                       = HbarTotal(s, a) + (IF a = h.account THEN h.amount ELSE 0)
<1> DEFINE n == Len(s)
    I == {j \in 1..n : s[j].account = h.account}
    i == IF I # {} THEN Min(I) ELSE 0
    u == WithHbar(s, h)
<1>1. u = IF i = 0 THEN Append(s, h) ELSE [s EXCEPT ![i].amount = s[i].amount + h.amount]
  BY DEF WithHbar, SelectInSeq
<1>2. /\ s \in Seq(Hbar) /\ n \in Nat /\ DOMAIN s = 1..n
      /\ \A j \in 1..n : s[j] \in Hbar /\ s[j].amount \in Int
      /\ \A j, k \in 1..n : s[j].account = s[k].account => j = k
  BY HbarsOnceOK
<1>3. /\ I = {} => i = 0
      /\ I # {} => i \in I /\ i \in 1..n /\ i # 0
  <2>1. I \in SUBSET (1..n)
    OBVIOUS
  <2> HIDE DEF I, n
  <2> QED BY <2>1, <1>2, FirstPlace
<1> HIDE DEF i, u
<1>4. CASE I = {}
  <2>1. \A k \in 1..Len(s) : s[k].account # h.account
    BY <1>4
  <2>2. u = Append(s, h)
    BY <1>1, <1>3, <1>4
  <2> QED BY <2>1, <2>2, HbarsAppended DEF u
<1>5. CASE I # {}
  <2> DEFINE e == [s[i] EXCEPT !.amount = s[i].amount + h.amount]
  <2>1. i \in 1..n /\ s[i].account = h.account /\ i # 0 /\ s[i] \in Hbar /\ h.amount \in Int
        /\ s[i].amount \in Int
    BY <1>2, <1>3, <1>5 DEF Hbar
  <2>2. e \in Hbar /\ e.account = h.account /\ e.amount = s[i].amount + h.amount
    BY <2>1 DEF Hbar
  <2>3. u = [s EXCEPT ![i] = e]
    BY <1>1, <2>1
  <2> HIDE DEF e, n
  <2>4. /\ u \in Seq(Hbar) /\ Len(u) = Len(s) /\ u[i] = e
        /\ \A k \in 1..n : k # i => u[k] = s[k]
    BY <1>2, <2>1, <2>2, <2>3
  <2>5. \A k \in 1..Len(s) : u[k].account = s[k].account
    BY <2>1, <2>2, <2>4 DEF n
  <2>6. HbarsOK(u)
    BY <2>4, <2>5, HbarsChanged
  <2>7. ASSUME NEW a
        PROVE  HbarTotal(u, a) = HbarTotal(s, a) + (IF a = h.account THEN h.amount ELSE 0)
    <3> DEFINE d == IF a = h.account THEN h.amount ELSE 0
    <3>1. d \in Int /\ (d = 0 \/ \E k \in 1..Len(s) : s[k].account = a)
      BY <2>1 DEF n
    <3>2. \A k \in 1..Len(s) : s[k].account = a => u[k].amount = s[k].amount + d
      <4> SUFFICES ASSUME NEW k \in 1..n, s[k].account = a
                   PROVE  u[k].amount = s[k].amount + d
        BY DEF n
      <4>1. CASE k = i
        BY <4>1, <2>1, <2>2, <2>4
      <4>2. CASE k # i
        <5>1. a # h.account
          BY <4>2, <2>1, <1>2
        <5>2. u[k] = s[k] /\ s[k].amount \in Int
          BY <4>2, <2>4, <1>2
        <5> QED BY <5>1, <5>2
      <4> QED BY <4>1, <4>2
    <3> HIDE DEF d
    <3>3. HbarTotal(u, a) = HbarTotal(s, a) + d
      BY <2>4, <2>5, <2>6, <3>1, <3>2, HbarsChangedBy
    <3> QED BY <3>3 DEF d
  <2> QED BY <2>6, <2>7 DEF u
<1> QED BY <1>4, <1>5

\* Adding tokens changes one total, by the amount.
LEMMA WithTokenAdds ==
    ASSUME NEW s, TokensOK(s), NEW t \in TokenTransfer
    PROVE  /\ TokensOK(WithToken(s, t))
           /\ \A a : TokenTotal(WithToken(s, t), a)
                       = TokenTotal(s, a) + (IF a = TokenKey(t) THEN t.amount ELSE 0)
<1> DEFINE n == Len(s)
    I == {j \in 1..n : s[j].token = t.token /\ s[j].account = t.account}
    i == IF I # {} THEN Min(I) ELSE 0
    u == WithToken(s, t)
<1>1. u = IF i = 0 THEN Append(s, t)
          ELSE [s EXCEPT ![i].amount = s[i].amount + t.amount, ![i].decimals = t.decimals]
  BY DEF WithToken, SelectInSeq
<1>2. /\ s \in Seq(TokenTransfer) /\ n \in Nat /\ DOMAIN s = 1..n
      /\ \A j \in 1..n : s[j] \in TokenTransfer /\ s[j].amount \in Int
      /\ \A j, k \in 1..n : TokenKey(s[j]) = TokenKey(s[k]) => j = k
  BY TokensOnceOK
<1>3. /\ I = {} => i = 0
      /\ I # {} => i \in I /\ i \in 1..n /\ i # 0
  <2>1. I \in SUBSET (1..n)
    OBVIOUS
  <2> HIDE DEF I, n
  <2> QED BY <2>1, <1>2, FirstPlace
<1> HIDE DEF i, u
<1>4. CASE I = {}
  <2>1. \A k \in 1..Len(s) : TokenKey(s[k]) # TokenKey(t)
    BY <1>4 DEF TokenKey
  <2>2. u = Append(s, t)
    BY <1>1, <1>3, <1>4
  <2> QED BY <2>1, <2>2, TokensAppended DEF u
<1>5. CASE I # {}
  <2> DEFINE e == [s[i] EXCEPT !.amount = s[i].amount + t.amount, !.decimals = t.decimals]
  <2>1. i \in 1..n /\ s[i].token = t.token /\ s[i].account = t.account /\ i # 0
        /\ s[i] \in TokenTransfer /\ t.amount \in Int /\ s[i].amount \in Int
        /\ t.decimals \in Decimals \cup {Null}
    BY <1>2, <1>3, <1>5 DEF TokenTransfer
  <2>2. /\ e \in TokenTransfer /\ e.token = t.token /\ e.account = t.account
        /\ e.amount = s[i].amount + t.amount
    <3> DEFINE a == s[i]
               amount == s[i].amount + t.amount
    <3>1. a \in TokenTransfer /\ amount \in Int
      BY <2>1
    <3>2. e = [a EXCEPT !.amount = amount, !.decimals = t.decimals]
      OBVIOUS
    <3>3. a.token = t.token /\ a.account = t.account
      BY <2>1
    <3> HIDE DEF a, e
    <3>5. amount = s[i].amount + t.amount
      OBVIOUS
    <3> HIDE DEF amount
    <3>4. /\ e \in TokenTransfer /\ e.token = a.token /\ e.account = a.account
          /\ e.amount = amount
      BY <2>1, <3>1, <3>2 DEF TokenTransfer
    <3> QED BY <3>3, <3>4, <3>5
  <2>8. TokenKey(e) = TokenKey(t) /\ TokenKey(s[i]) = TokenKey(t)
    BY <2>1, <2>2 DEF TokenKey
  <2>3. u = [s EXCEPT ![i] = e]
    <3>1. u = [[s EXCEPT ![i] = [s[i] EXCEPT !.amount = s[i].amount + t.amount]]
                  EXCEPT ![i] = [[s[i] EXCEPT !.amount = s[i].amount + t.amount]
                                    EXCEPT !.decimals = t.decimals]]
      BY <1>1, <1>2, <2>1
    <3> QED BY <3>1
  <2> HIDE DEF e, n
  <2>4. /\ u \in Seq(TokenTransfer) /\ Len(u) = Len(s) /\ u[i] = e
        /\ \A k \in 1..n : k # i => u[k] = s[k]
    BY <1>2, <2>1, <2>2, <2>3
  <2>5. \A k \in 1..Len(s) : TokenKey(u[k]) = TokenKey(s[k])
    BY <2>1, <2>8, <2>4 DEF n
  <2>6. TokensOK(u)
    BY <2>4, <2>5, TokensChanged
  <2>7. ASSUME NEW a
        PROVE  TokenTotal(u, a) = TokenTotal(s, a) + (IF a = TokenKey(t) THEN t.amount ELSE 0)
    <3> DEFINE d == IF a = TokenKey(t) THEN t.amount ELSE 0
    <3>1. d \in Int /\ (d = 0 \/ \E k \in 1..Len(s) : TokenKey(s[k]) = a)
      BY <2>1, <2>8 DEF n
    <3>2. \A k \in 1..Len(s) : TokenKey(s[k]) = a => u[k].amount = s[k].amount + d
      <4> SUFFICES ASSUME NEW k \in 1..n, TokenKey(s[k]) = a
                   PROVE  u[k].amount = s[k].amount + d
        BY DEF n
      <4>1. CASE k = i
        BY <4>1, <2>1, <2>2, <2>4, <2>8
      <4>2. CASE k # i
        <5>1. a # TokenKey(t)
          BY <4>2, <2>1, <2>8, <1>2
        <5>2. u[k] = s[k] /\ s[k].amount \in Int
          BY <4>2, <2>4, <1>2
        <5> QED BY <5>1, <5>2
      <4> QED BY <4>1, <4>2
    <3> HIDE DEF d
    <3>3. TokenTotal(u, a) = TokenTotal(s, a) + d
      BY <2>4, <2>5, <2>6, <3>1, <3>2, TokensChangedBy
    <3> QED BY <3>3 DEF d
  <2> QED BY <2>6, <2>7 DEF u
<1> QED BY <1>4, <1>5

\* Adding an NFT changes its parties.
LEMMA WithNftAdds ==
    ASSUME NEW s, NftsOK(s), NEW n \in Nft
    PROVE  /\ NftsOK(WithNft(s, n))
           /\ \A token, serial :
                 Parties(WithNft(s, n), token, serial)
                   = IF n.token = token /\ n.serial = serial THEN <<n.sender, n.receiver>>
                     ELSE Parties(s, token, serial)
<1> DEFINE m == Len(s)
    I == {j \in 1..m : s[j].token = n.token /\ s[j].serial = n.serial}
    i == IF I # {} THEN Min(I) ELSE 0
    u == WithNft(s, n)
<1>1. u = IF i = 0 THEN Append(s, n)
          ELSE [s EXCEPT ![i].sender = n.sender, ![i].receiver = n.receiver]
  BY DEF WithNft, SelectInSeq
<1>2. /\ s \in Seq(Nft) /\ m \in Nat /\ DOMAIN s = 1..m
      /\ \A j \in 1..m : s[j] \in Nft
      /\ \A j, k \in 1..m : s[j].token = s[k].token /\ s[j].serial = s[k].serial => j = k
  BY NftsOnceOK
<1>3. /\ I = {} => i = 0
      /\ I # {} => i \in I /\ i \in 1..m /\ i # 0
  <2>1. I \in SUBSET (1..m)
    OBVIOUS
  <2> HIDE DEF I, m
  <2> QED BY <2>1, <1>2, FirstPlace
<1> HIDE DEF i, u
<1>4. CASE I = {}
  <2>1. \A k \in 1..Len(s) : ~ (s[k].token = n.token /\ s[k].serial = n.serial)
    BY <1>4
  <2>2. u = Append(s, n)
    BY <1>1, <1>3, <1>4
  <2> QED BY <2>1, <2>2, NftsAppended DEF u
<1>5. CASE I # {}
  <2> DEFINE e == [s[i] EXCEPT !.sender = n.sender, !.receiver = n.receiver]
  <2>1. i \in 1..m /\ s[i].token = n.token /\ s[i].serial = n.serial /\ i # 0
        /\ s[i] \in Nft /\ n.sender \in Account /\ n.receiver \in Account
    BY <1>2, <1>3, <1>5 DEF Nft
  <2>2. /\ e \in Nft /\ e.token = n.token /\ e.serial = n.serial
        /\ e.sender = n.sender /\ e.receiver = n.receiver
    BY <2>1 DEF Nft
  <2>3. u = [s EXCEPT ![i] = e]
    <3>1. u = [[s EXCEPT ![i] = [s[i] EXCEPT !.sender = n.sender]]
                  EXCEPT ![i] = [[s[i] EXCEPT !.sender = n.sender]
                                    EXCEPT !.receiver = n.receiver]]
      BY <1>1, <1>2, <2>1
    <3> QED BY <3>1
  <2> HIDE DEF e, m
  <2>4. /\ u \in Seq(Nft) /\ Len(u) = Len(s) /\ u[i] = e
        /\ \A k \in 1..m : k # i => u[k] = s[k]
    BY <1>2, <2>1, <2>2, <2>3
  <2>5. \A k \in 1..Len(s) : u[k].token = s[k].token /\ u[k].serial = s[k].serial
    BY <2>1, <2>2, <2>4 DEF m
  <2>6. NftsOK(u)
    BY <2>4, <2>5, NftsChanged
  <2>7. ASSUME NEW token, NEW serial
        PROVE  Parties(u, token, serial)
                 = IF n.token = token /\ n.serial = serial THEN <<n.sender, n.receiver>>
                   ELSE Parties(s, token, serial)
    <3> DEFINE v == Parties(s, token, serial)
               w == IF n.token = token /\ n.serial = serial THEN <<n.sender, n.receiver>>
                    ELSE v
    <3>1. PartiesIn(s, token, serial, v)
      BY PartiesAt
    <3> HIDE DEF v
    <3>2. \A k \in 1..m : u[k].token = token /\ u[k].serial = serial =>
             w = <<u[k].sender, u[k].receiver>>
      <4> SUFFICES ASSUME NEW k \in 1..m, u[k].token = token, u[k].serial = serial
                   PROVE  w = <<u[k].sender, u[k].receiver>>
        OBVIOUS
      <4>1. CASE k = i
        BY <4>1, <2>2, <2>4
      <4>2. CASE k # i
        <5>1. u[k] = s[k] /\ s[k].token = token /\ s[k].serial = serial
          BY <4>2, <2>4
        <5>2. ~ (n.token = token /\ n.serial = serial)
          BY <5>1, <4>2, <2>1, <1>2
        <5>3. v = <<s[k].sender, s[k].receiver>>
          BY <5>1, <3>1 DEF PartiesIn, m
        <5> QED BY <5>1, <5>2, <5>3
      <4> QED BY <4>1, <4>2
    <3>3. (\A k \in 1..m : ~ (u[k].token = token /\ u[k].serial = serial)) => w = Null
      <4> SUFFICES ASSUME \A k \in 1..m : ~ (u[k].token = token /\ u[k].serial = serial)
                   PROVE  w = Null
        OBVIOUS
      <4>1. ~ (n.token = token /\ n.serial = serial)
        BY <2>1, <2>2, <2>4
      <4>2. \A k \in 1..m : ~ (s[k].token = token /\ s[k].serial = serial)
        BY <2>5 DEF m
      <4>3. v = Null
        BY <4>2, <3>1 DEF PartiesIn, m
      <4> QED BY <4>1, <4>3
    <3> HIDE DEF w
    <3>4. Len(u) = m
      BY <2>4 DEF m
    <3>5. PartiesIn(u, token, serial, w)
      BY <3>2, <3>3, <3>4 DEF PartiesIn
    <3>6. Parties(u, token, serial) = w
      BY <3>5, <2>6, PartiesOf
    <3> QED BY <3>6 DEF w, v
  <2> QED BY <2>6, <2>7 DEF u
<1> QED BY <1>4, <1>5

\* The loop that sets the decimals leaves every token of an account where it
\* was; without a mismatch it adds the amount at the place of t.
LEMMA UpdatedKeeps ==
    ASSUME NEW s, TokensOK(s), NEW t \in TokenTransfer
    PROVE  /\ TokensOK(Updated(s, t)) /\ Len(Updated(s, t)) = Len(s)
           /\ \A k \in 1..Len(s) : TokenKey(Updated(s, t)[k]) = TokenKey(s[k])
           /\ Mismatch(s, t) = 0 =>
                 \A k \in 1..Len(s) :
                    Updated(s, t)[k].amount
                      = s[k].amount + (IF TokenKey(s[k]) = TokenKey(t) THEN t.amount ELSE 0)
<1> DEFINE u == Updated(s, t)
    n == Len(s)
    m == Mismatch(s, t)
    amount(k) == IF s[k].account = t.account THEN s[k].amount + t.amount ELSE s[k].amount
    e(k) == [s[k] EXCEPT !.decimals = t.decimals, !.amount = amount(k)]
<1>1. /\ s \in Seq(TokenTransfer) /\ n \in Nat /\ DOMAIN s = 1..n
      /\ \A k \in 1..n : s[k] \in TokenTransfer /\ s[k].amount \in Int
  BY TokensOnceOK
<1>2. u = [k \in 1..n |-> IF s[k].token # t.token \/ m \in 1..k THEN s[k] ELSE e(k)]
  BY <1>1 DEF Updated
<1>3. t.amount \in Int /\ t.decimals \in Decimals \cup {Null}
  BY DEF TokenTransfer
<1> HIDE DEF u, m
<1>4. ASSUME NEW k \in 1..n
      PROVE  /\ e(k) \in TokenTransfer /\ TokenKey(e(k)) = TokenKey(s[k])
             /\ e(k).amount = amount(k)
  <2> DEFINE a == s[k]
             x == amount(k)
             w == e(k)
  <2>1. a \in TokenTransfer /\ x \in Int
    BY <1>1, <1>3
  <2>2. w = [a EXCEPT !.decimals = t.decimals, !.amount = x]
    OBVIOUS
  <2> HIDE DEF a, x, w
  <2>3. /\ w \in TokenTransfer /\ w.token = a.token /\ w.account = a.account
        /\ w.amount = x
    BY <2>1, <2>2, <1>3 DEF TokenTransfer
  <2>4. TokenKey(w) = TokenKey(a)
    BY <2>3 DEF TokenKey
  <2> QED BY <2>3, <2>4 DEF w, x, a
<1> HIDE DEF e
<1>5. \A k \in 1..n : u[k] = IF s[k].token # t.token \/ m \in 1..k THEN s[k] ELSE e(k)
  BY <1>2
<1>6. \A k \in 1..n : u[k] \in TokenTransfer /\ TokenKey(u[k]) = TokenKey(s[k])
  BY <1>1, <1>4, <1>5
<1>7. u \in Seq(TokenTransfer) /\ Len(u) = n
  <2>1. u \in [1..n -> TokenTransfer]
    BY <1>2, <1>6
  <2> HIDE DEF n
  <2> QED BY <2>1, <1>1
<1>8. TokensOK(u)
  BY <1>6, <1>7, TokensChanged
<1>9. ASSUME m = 0, NEW k \in 1..n
      PROVE  u[k].amount
               = s[k].amount + (IF TokenKey(s[k]) = TokenKey(t) THEN t.amount ELSE 0)
  <2>1. m \notin 1..k
    BY <1>9
  <2>2. CASE s[k].token # t.token
    <3>1. u[k] = s[k] /\ TokenKey(s[k]) # TokenKey(t)
      BY <2>2, <1>5 DEF TokenKey
    <3> QED BY <3>1, <1>1
  <2>3. CASE s[k].token = t.token
    <3>1. u[k].amount = amount(k)
      BY <2>1, <2>3, <1>4, <1>5
    <3>2. TokenKey(s[k]) = TokenKey(t) <=> s[k].account = t.account
      BY <2>3 DEF TokenKey
    <3> QED BY <3>1, <3>2, <1>1
  <2> QED BY <2>2, <2>3
<1> QED BY <1>6, <1>7, <1>8, <1>9 DEF u, m

\* What a transfer that expects decimals leaves of the list.
WithDecimals(s, t) ==
    IF Mismatch(s, t) # 0 \/ \E i \in DOMAIN s : s[i].token = t.token /\ s[i].account = t.account
    THEN Updated(s, t) ELSE Append(Updated(s, t), t)

\* Whether it adds to a transfer or appends one, the total of t changes by its
\* amount, unless there is a mismatch.
LEMMA WithDecimalsAdds ==
    ASSUME NEW s, TokensOK(s), NEW t \in TokenTransfer
    PROVE  /\ TokensOK(WithDecimals(s, t))
           /\ Mismatch(s, t) # 0 => WithDecimals(s, t) = Updated(s, t)
           /\ Mismatch(s, t) = 0 =>
                 \A a : TokenTotal(WithDecimals(s, t), a)
                          = TokenTotal(s, a) + (IF a = TokenKey(t) THEN t.amount ELSE 0)
<1> DEFINE u == Updated(s, t)
    found == \E i \in 1..Len(s) : TokenKey(s[i]) = TokenKey(t)
    w == WithDecimals(s, t)
<1>1. /\ TokensOK(u) /\ Len(u) = Len(s)
      /\ \A k \in 1..Len(s) : TokenKey(u[k]) = TokenKey(s[k])
      /\ Mismatch(s, t) = 0 =>
            \A k \in 1..Len(s) :
               u[k].amount = s[k].amount + (IF TokenKey(s[k]) = TokenKey(t) THEN t.amount ELSE 0)
  BY UpdatedKeeps
<1>2. w = IF Mismatch(s, t) # 0 \/ found THEN u ELSE Append(u, t)
  <2>1. DOMAIN s = 1..Len(s)
    BY TokensOnceOK
  <2> QED BY <2>1 DEF WithDecimals, TokenKey
<1>3. t.amount \in Int /\ \A k \in 1..Len(s) : s[k].amount \in Int
  BY TokensOnceOK DEF TokenTransfer
<1>10. found <=> \E i \in 1..Len(s) : TokenKey(s[i]) = TokenKey(t)
  OBVIOUS
<1> HIDE DEF u, w, found
<1>4. ASSUME Mismatch(s, t) = 0, NEW a
      PROVE  found \/ a # TokenKey(t) =>
                TokenTotal(u, a) = TokenTotal(s, a) + (IF a = TokenKey(t) THEN t.amount ELSE 0)
  <2> SUFFICES ASSUME found \/ a # TokenKey(t)
               PROVE  TokenTotal(u, a)
                        = TokenTotal(s, a) + (IF a = TokenKey(t) THEN t.amount ELSE 0)
    OBVIOUS
  <2> DEFINE d == IF a = TokenKey(t) THEN t.amount ELSE 0
  <2>1. d \in Int /\ (d = 0 \/ \E k \in 1..Len(s) : TokenKey(s[k]) = a)
    BY <1>3, <1>10
  <2>2. \A k \in 1..Len(s) : TokenKey(s[k]) = a => u[k].amount = s[k].amount + d
    BY <1>1, <1>4
  <2> HIDE DEF d
  <2>3. TokenTotal(u, a) = TokenTotal(s, a) + d
    BY <1>1, <2>1, <2>2, TokensChangedBy
  <2> QED BY <2>3 DEF d
<1>5. CASE Mismatch(s, t) # 0
  BY <1>1, <1>2, <1>5 DEF u, w
<1>6. CASE Mismatch(s, t) = 0 /\ found
  <2>1. w = u
    BY <1>2, <1>6
  <2> QED BY <2>1, <1>1, <1>4, <1>6 DEF w
<1>7. CASE Mismatch(s, t) = 0 /\ ~ found
  <2>1. w = Append(u, t)
    BY <1>2, <1>7
  <2>2. \A k \in 1..Len(u) : TokenKey(u[k]) # TokenKey(t)
    BY <1>1, <1>7, <1>10
  <2>3. /\ TokensOK(w)
        /\ \A a : TokenTotal(w, a)
                    = TokenTotal(u, a) + (IF a = TokenKey(t) THEN t.amount ELSE 0)
    BY <2>1, <2>2, <1>1, TokensAppended
  <2>4. ASSUME NEW a
        PROVE  TokenTotal(u, a) = TokenTotal(s, a)
    <3>1. TokenTotal(s, a) \in Int
      BY TokenTotalAt
    <3>2. CASE a # TokenKey(t)
      <4>1. TokenTotal(u, a) = TokenTotal(s, a) + 0
        BY <3>2, <1>4, <1>7
      <4> QED BY <4>1, <3>1
    <3>3. CASE a = TokenKey(t)
      <4>1. TokenTotal(u, a) = 0
        BY <2>2, <3>3, <1>1, TokenTotalAt
      <4>2. TokenTotal(s, a) = 0
        <5>1. \A k \in 1..Len(s) : TokenKey(s[k]) # a
          BY <3>3, <1>7, <1>10
        <5> QED BY <5>1, TokenTotalAt
      <4> QED BY <4>1, <4>2
    <3> QED BY <3>2, <3>3
  <2> QED BY <2>3, <2>4, <1>7 DEF w
<1> QED BY <1>5, <1>6, <1>7

-----------------------------------------------------------------------------
(* Approvals *)

\* Setting approvals changes no total and no parties.
Approving(s, i, approved) == [s EXCEPT ![i].approved = approved]

LEMMA HbarApproved ==
    ASSUME NEW s, HbarsOK(s), NEW i \in DOMAIN s, NEW approved \in BOOLEAN
    PROVE  /\ HbarsOK(Approving(s, i, approved))
           /\ \A a : HbarTotal(Approving(s, i, approved), a) = HbarTotal(s, a)
<1> DEFINE u == Approving(s, i, approved)
    n == Len(s)
    e == [s[i] EXCEPT !.approved = approved]
<1>1. /\ s \in Seq(Hbar) /\ n \in Nat /\ DOMAIN s = 1..n
      /\ \A k \in 1..n : s[k] \in Hbar /\ s[k].amount \in Int
  BY HbarsOnceOK
<1>2. e \in Hbar /\ e.account = s[i].account /\ e.amount = s[i].amount
  <2> DEFINE x == s[i]
  <2>1. x \in Hbar
    BY <1>1
  <2> HIDE DEF x
  <2>2. [x EXCEPT !.approved = approved] \in Hbar
        /\ [x EXCEPT !.approved = approved].account = x.account
        /\ [x EXCEPT !.approved = approved].amount = x.amount
    BY <2>1 DEF Hbar
  <2> QED BY <2>2 DEF x
<1>3. u = [s EXCEPT ![i] = e]
  BY DEF Approving
<1> HIDE DEF u, e, n
<1>4. u \in Seq(Hbar) /\ Len(u) = Len(s) /\ u[i] = e /\ \A k \in 1..n : k # i => u[k] = s[k]
  BY <1>1, <1>2, <1>3
<1>5. \A k \in 1..Len(s) : u[k].account = s[k].account /\ u[k].amount = s[k].amount + 0
  <2> SUFFICES ASSUME NEW k \in 1..n
               PROVE  u[k].account = s[k].account /\ u[k].amount = s[k].amount + 0
    BY DEF n
  <2>1. u[k].account = s[k].account /\ u[k].amount = s[k].amount
    BY <1>2, <1>4
  <2> QED BY <2>1, <1>1
<1>6. HbarsOK(u)
  BY <1>4, <1>5, HbarsChanged
<1>7. ASSUME NEW a PROVE HbarTotal(u, a) = HbarTotal(s, a)
  <2> DEFINE d == 0
  <2>1. d \in Int /\ d = 0
    OBVIOUS
  <2>2. \A k \in 1..Len(s) : s[k].account = a => u[k].amount = s[k].amount + d
    BY <1>5
  <2> HIDE DEF d
  <2>3. HbarTotal(u, a) = HbarTotal(s, a) + d
    BY <1>4, <1>5, <1>6, <2>1, <2>2, HbarsChangedBy
  <2>4. HbarTotal(s, a) \in Int
    BY HbarTotalAt
  <2> QED BY <2>1, <2>3, <2>4
<1> QED BY <1>6, <1>7 DEF u

LEMMA TokenApproved ==
    ASSUME NEW s, TokensOK(s), NEW i \in DOMAIN s, NEW approved \in BOOLEAN
    PROVE  /\ TokensOK(Approving(s, i, approved))
           /\ \A a : TokenTotal(Approving(s, i, approved), a) = TokenTotal(s, a)
<1> DEFINE u == Approving(s, i, approved)
    n == Len(s)
    e == [s[i] EXCEPT !.approved = approved]
<1>1. /\ s \in Seq(TokenTransfer) /\ n \in Nat /\ DOMAIN s = 1..n
      /\ \A k \in 1..n : s[k] \in TokenTransfer /\ s[k].amount \in Int
  BY TokensOnceOK
<1>2. e \in TokenTransfer /\ TokenKey(e) = TokenKey(s[i]) /\ e.amount = s[i].amount
  <2> DEFINE x == s[i]
  <2>1. x \in TokenTransfer
    BY <1>1
  <2> HIDE DEF x
  <2>2. [x EXCEPT !.approved = approved] \in TokenTransfer
        /\ [x EXCEPT !.approved = approved].account = x.account
        /\ [x EXCEPT !.approved = approved].token = x.token
        /\ [x EXCEPT !.approved = approved].amount = x.amount
    BY <2>1 DEF TokenTransfer
  <2> QED BY <2>2 DEF x, TokenKey
<1>3. u = [s EXCEPT ![i] = e]
  BY DEF Approving
<1> HIDE DEF u, e, n
<1>4. u \in Seq(TokenTransfer) /\ Len(u) = Len(s) /\ u[i] = e
      /\ \A k \in 1..n : k # i => u[k] = s[k]
  BY <1>1, <1>2, <1>3
<1>5. \A k \in 1..Len(s) : TokenKey(u[k]) = TokenKey(s[k]) /\ u[k].amount = s[k].amount + 0
  <2> SUFFICES ASSUME NEW k \in 1..n
               PROVE  TokenKey(u[k]) = TokenKey(s[k]) /\ u[k].amount = s[k].amount + 0
    BY DEF n
  <2>1. TokenKey(u[k]) = TokenKey(s[k]) /\ u[k].amount = s[k].amount
    BY <1>2, <1>4
  <2> QED BY <2>1, <1>1
<1>6. TokensOK(u)
  BY <1>4, <1>5, TokensChanged
<1>7. ASSUME NEW a PROVE TokenTotal(u, a) = TokenTotal(s, a)
  <2> DEFINE d == 0
  <2>1. d \in Int /\ d = 0
    OBVIOUS
  <2>2. \A k \in 1..Len(s) : TokenKey(s[k]) = a => u[k].amount = s[k].amount + d
    BY <1>5
  <2> HIDE DEF d
  <2>3. TokenTotal(u, a) = TokenTotal(s, a) + d
    BY <1>4, <1>5, <1>6, <2>1, <2>2, TokensChangedBy
  <2>4. TokenTotal(s, a) \in Int
    BY TokenTotalAt
  <2> QED BY <2>1, <2>3, <2>4
<1> QED BY <1>6, <1>7 DEF u

LEMMA NftApproved ==
    ASSUME NEW s, NftsOK(s), NEW i \in DOMAIN s, NEW approved \in BOOLEAN
    PROVE  /\ NftsOK(Approving(s, i, approved))
           /\ \A token, serial : Parties(Approving(s, i, approved), token, serial)
                                   = Parties(s, token, serial)
<1> DEFINE u == Approving(s, i, approved)
    n == Len(s)
    e == [s[i] EXCEPT !.approved = approved]
<1>1. s \in Seq(Nft) /\ n \in Nat /\ DOMAIN s = 1..n /\ \A k \in 1..n : s[k] \in Nft
  BY NftsOnceOK
<1>2. /\ e \in Nft /\ e.token = s[i].token /\ e.serial = s[i].serial
      /\ e.sender = s[i].sender /\ e.receiver = s[i].receiver
  <2> DEFINE x == s[i]
             y == [x EXCEPT !.approved = approved]
  <2>1. x \in Nft
    BY <1>1
  <2> HIDE DEF x
  <2>2. /\ y \in Nft /\ y.token = x.token /\ y.serial = x.serial
        /\ y.sender = x.sender /\ y.receiver = x.receiver
    BY <2>1 DEF Nft
  <2> QED BY <2>2 DEF x
<1>3. u = [s EXCEPT ![i] = e]
  BY DEF Approving
<1> HIDE DEF u, e, n
<1>4. u \in Seq(Nft) /\ Len(u) = Len(s) /\ u[i] = e /\ \A k \in 1..n : k # i => u[k] = s[k]
  BY <1>1, <1>2, <1>3
<1>5. \A k \in 1..Len(s) : /\ u[k].token = s[k].token /\ u[k].serial = s[k].serial
                           /\ u[k].sender = s[k].sender /\ u[k].receiver = s[k].receiver
  BY <1>2, <1>4 DEF n
<1>6. NftsOK(u)
  BY <1>4, <1>5, NftsChanged
<1>7. ASSUME NEW token, NEW serial
      PROVE  Parties(u, token, serial) = Parties(s, token, serial)
  <2> DEFINE v == Parties(s, token, serial)
  <2>1. PartiesIn(s, token, serial, v)
    BY PartiesAt
  <2> HIDE DEF v
  <2>2. PartiesIn(u, token, serial, v)
    BY <2>1, <1>4, <1>5 DEF PartiesIn
  <2>3. Parties(u, token, serial) = v
    BY <2>2, <1>6, PartiesOf
  <2> QED BY <2>3 DEF v
<1> QED BY <1>6, <1>7 DEF u

-----------------------------------------------------------------------------
(* What the constructors add *)

\* Transfers of hbar that are given to the constructor, whether or not accounts
\* are given twice.
LEMMA HbarsFolded ==
    ASSUME NEW p \in Seq(Hbar)
    PROVE  /\ HbarsOK(FoldLeft(WithHbar, <<>>, p))
           /\ \A a : HbarTotal(FoldLeft(WithHbar, <<>>, p), a) = HbarTotal(p, a)
<1> DEFINE S == {s \in Seq(Hbar) : HbarsOK(s)}
    E == Hbar
    N == Len(p)
    base == <<>>
    step == [q \in S \X E |-> WithHbar(q[1], q[2])]
    Eq(iter) == iter = [X \in SUBSET DOMAIN p |->
                   IF X = {} THEN base ELSE WithHbar(iter[X \ {Max(X)}], p[Max(X)])]
    it == CHOOSE iter : Eq(iter)
    result == FoldLeft(WithHbar, <<>>, p)
<1>1. result = it[DOMAIN p]
  BY DEF FoldLeft, MapThenFoldSet
<1>2. N \in Nat /\ DOMAIN p = 1..N /\ p \in [1..N -> E] /\ \A i \in 1..N : p[i] \in Hbar
  OBVIOUS
<1>3. base \in S /\ HbarsOK(base)
  <2>1. base \in Seq(Hbar) /\ Len(base) = 0
    OBVIOUS
  <2>2. \A i, j \in 1..Len(base) : base[i].account = base[j].account => i = j
    BY <2>1
  <2> HIDE DEF base
  <2>3. HbarsOK(base)
    BY <2>1, <2>2, HbarsOnce
  <2> QED BY <2>1, <2>3
<1>4. \A s \in S, h \in Hbar :
         /\ WithHbar(s, h) \in S
         /\ \A a : HbarTotal(WithHbar(s, h), a)
                     = HbarTotal(s, a) + (IF a = h.account THEN h.amount ELSE 0)
  <2> SUFFICES ASSUME NEW s \in S, NEW h \in Hbar
               PROVE  /\ WithHbar(s, h) \in S
                      /\ \A a : HbarTotal(WithHbar(s, h), a)
                                  = HbarTotal(s, a) + (IF a = h.account THEN h.amount ELSE 0)
    OBVIOUS
  <2>1. HbarsOK(s)
    OBVIOUS
  <2>2. /\ HbarsOK(WithHbar(s, h))
        /\ \A a : HbarTotal(WithHbar(s, h), a)
                    = HbarTotal(s, a) + (IF a = h.account THEN h.amount ELSE 0)
    BY <2>1, WithHbarAdds
  <2>3. WithHbar(s, h) \in Seq(Hbar)
    BY <2>2 DEF HbarsOK
  <2> QED BY <2>2, <2>3
<1>5. \A s \in S : HbarsOK(s)
  OBVIOUS
<1>6. step \in [S \X E -> S] /\ \A s \in S, h \in E : step[<<s, h>>] = WithHbar(s, h)
  <2> HIDE DEF S
  <2> QED BY <1>4
<1>7. E = Hbar
  OBVIOUS
<1> HIDE DEF S, E, N, step
<1>8. Eq(it)
  <2> HIDE DEF base
  <2>1. PICK g \in [SUBSET (1..N) -> S] : Unfolds(g, N, base, step, p)
    BY <1>2, <1>3, <1>6, Recursion
  <2>2. ASSUME NEW X \in SUBSET (1..N), X # {}
        PROVE  step[<<g[X \ {Max(X)}], p[Max(X)]>>] = WithHbar(g[X \ {Max(X)}], p[Max(X)])
    <3>1. Max(X) \in 1..N
      BY <1>2, <2>2, MaxOf
    <3>2. g[X \ {Max(X)}] \in S /\ p[Max(X)] \in E
      BY <3>1, <1>2
    <3> QED BY <3>2, <1>6
  <2>3. g = [X \in SUBSET (1..N) |->
               IF X = {} THEN base ELSE WithHbar(g[X \ {Max(X)}], p[Max(X)])]
    BY <2>1, <2>2 DEF Unfolds
  <2>4. Eq(g)
    BY <2>3, <1>2
  <2> HIDE DEF Eq
  <2> QED BY <2>4
<1> HIDE DEF it, base, result
<1>9. UnfoldsIn(S, it, N, base, step, p)
  <2>1. it[{}] = base
    BY <1>8, <1>2
  <2>2. ASSUME NEW X \in SUBSET (1..N), X # {}, it[X \ {Max(X)}] \in S
        PROVE  it[X] = step[<<it[X \ {Max(X)}], p[Max(X)]>>]
    <3>1. Max(X) \in 1..N
      BY <1>2, <2>2, MaxOf
    <3>2. p[Max(X)] \in E
      BY <3>1, <1>2
    <3>3. it[X] = WithHbar(it[X \ {Max(X)}], p[Max(X)])
      BY <1>8, <1>2, <2>2
    <3> QED BY <3>2, <3>3, <2>2, <1>6
  <2> QED BY <2>1, <2>2 DEF UnfoldsIn
<1>10. PICK f : FoldSteps(S, f, N, base, step, p, it[1..N])
  <2>1. N \in Nat /\ step \in [S \X E -> S] /\ base \in S /\ p \in [1..N -> E]
    BY <1>2, <1>3, <1>6
  <2>2. \E f : FoldSteps(S, f, N, base, step, p, it[1..N])
    BY <2>1, <1>9, Folding
  <2> QED BY <2>2
<1>11. /\ f \in [0..N -> S] /\ f[0] = base /\ f[N] = result
       /\ \A n \in 1..N : f[n] = WithHbar(f[n - 1], p[n])
  <2>1. /\ f \in [0..N -> S] /\ f[0] = base /\ f[N] = it[1..N]
        /\ \A n \in 1..N : f[n] = step[<<f[n - 1], p[n]>>]
    BY <1>10 DEF FoldSteps
  <2>2. ASSUME NEW n \in 1..N PROVE f[n] = WithHbar(f[n - 1], p[n])
    <3>1. n - 1 \in 0..N /\ p[n] \in E
      BY <1>2
    <3> QED BY <3>1, <2>1, <1>6
  <2> QED BY <2>1, <2>2, <1>1, <1>2
<1>12. HbarsOK(result)
  <2>1. N \in 0..N
    BY <1>2
  <2> QED BY <2>1, <1>5, <1>11
<1>13. ASSUME NEW a PROVE HbarTotal(result, a) = HbarTotal(p, a)
  <2> DEFINE y == [i \in 1..N |-> IF p[i].account = a THEN p[i].amount ELSE 0]
  <2>1. HbarTotal(p, a) = Total(y)
    BY <1>2 DEF HbarTotal
  <2>2. y \in Seq(Int) /\ Len(y) = N
    <3>1. \A i \in 1..N : (IF p[i].account = a THEN p[i].amount ELSE 0) \in Int
      BY <1>2 DEF Hbar
    <3>2. y \in [1..N -> Int]
      BY <3>1
    <3> QED BY <3>2, <1>2
  <2>3. \A i \in 1..N : y[i] = IF p[i].account = a THEN p[i].amount ELSE 0
    OBVIOUS
  <2> HIDE DEF y
  <2>4. PICK F \in [0..N -> Int] :
           F[0] = 0 /\ (\A n \in 1..N : F[n] = F[n - 1] + y[n]) /\ Total(y) = F[N]
    BY <2>2, TotalSums
  <2> DEFINE G == {n \in 0..N : HbarTotal(f[n], a) = F[n]}
  <2>5. 0 \in G
    <3>1. HbarTotal(base, a) = 0
      <4>1. \A k \in 1..Len(base) : base[k].account # a
        BY DEF base
      <4> QED BY <4>1, <1>3, HbarTotalAt
    <3>2. 0 \in 0..N
      BY <1>2
    <3> QED BY <3>1, <3>2, <2>4, <1>11
  <2>6. ASSUME NEW n \in 0..(N - 1), n \in G PROVE n + 1 \in G
    <3> DEFINE m == n + 1
    <3>1. m \in 1..N /\ m - 1 = n /\ m \in 0..N /\ n \in 0..N
      BY <1>2
    <3> HIDE DEF m
    <3>2. f[m] = WithHbar(f[n], p[m]) /\ f[n] \in S /\ p[m] \in Hbar
      BY <3>1, <1>2, <1>11
    <3>3. HbarTotal(f[m], a)
            = HbarTotal(f[n], a) + (IF a = p[m].account THEN p[m].amount ELSE 0)
      BY <3>2, <1>4
    <3>4. F[m] = F[n] + y[m] /\ y[m] = IF a = p[m].account THEN p[m].amount ELSE 0
      BY <3>1, <2>3, <2>4
    <3>5. HbarTotal(f[n], a) = F[n]
      BY <2>6
    <3>6. HbarTotal(f[m], a) = F[m]
      BY <3>3, <3>4, <3>5
    <3>7. m \in G
      BY <3>1, <3>6
    <3> QED BY <3>7 DEF m
  <2>7. \A n \in 0..N : n \in G
    <3> HIDE DEF G
    <3> QED BY <1>2, <2>5, <2>6, Induction
  <2>8. N \in G
    <3>1. N \in 0..N
      BY <1>2
    <3> HIDE DEF G
    <3> QED BY <3>1, <2>7
  <2> QED BY <2>1, <2>4, <2>8, <1>11
<1> QED BY <1>12, <1>13 DEF result

\* Transfers of tokens that are given to the constructor.
LEMMA TokensFolded ==
    ASSUME NEW p \in Seq(TokenTransfer)
    PROVE  /\ TokensOK(FoldLeft(WithToken, <<>>, p))
           /\ \A a : TokenTotal(FoldLeft(WithToken, <<>>, p), a) = TokenTotal(p, a)
<1> DEFINE S == {s \in Seq(TokenTransfer) : TokensOK(s)}
    E == TokenTransfer
    N == Len(p)
    base == <<>>
    step == [q \in S \X E |-> WithToken(q[1], q[2])]
    Eq(iter) == iter = [X \in SUBSET DOMAIN p |->
                   IF X = {} THEN base ELSE WithToken(iter[X \ {Max(X)}], p[Max(X)])]
    it == CHOOSE iter : Eq(iter)
    result == FoldLeft(WithToken, <<>>, p)
<1>1. result = it[DOMAIN p]
  BY DEF FoldLeft, MapThenFoldSet
<1>2. N \in Nat /\ DOMAIN p = 1..N /\ p \in [1..N -> E] /\ \A i \in 1..N : p[i] \in TokenTransfer
  OBVIOUS
<1>3. base \in S /\ TokensOK(base)
  <2>1. base \in Seq(TokenTransfer) /\ Len(base) = 0
    OBVIOUS
  <2>2. \A i, j \in 1..Len(base) : TokenKey(base[i]) = TokenKey(base[j]) => i = j
    BY <2>1
  <2> HIDE DEF base
  <2>3. TokensOK(base)
    BY <2>1, <2>2, TokensOnce
  <2> QED BY <2>1, <2>3
<1>4. \A s \in S, h \in TokenTransfer :
         /\ WithToken(s, h) \in S
         /\ \A a : TokenTotal(WithToken(s, h), a)
                     = TokenTotal(s, a) + (IF a = TokenKey(h) THEN h.amount ELSE 0)
  <2> SUFFICES ASSUME NEW s \in S, NEW h \in TokenTransfer
               PROVE  /\ WithToken(s, h) \in S
                      /\ \A a : TokenTotal(WithToken(s, h), a)
                                  = TokenTotal(s, a) + (IF a = TokenKey(h) THEN h.amount ELSE 0)
    OBVIOUS
  <2>1. TokensOK(s)
    OBVIOUS
  <2>2. /\ TokensOK(WithToken(s, h))
        /\ \A a : TokenTotal(WithToken(s, h), a)
                    = TokenTotal(s, a) + (IF a = TokenKey(h) THEN h.amount ELSE 0)
    BY <2>1, WithTokenAdds
  <2>3. WithToken(s, h) \in Seq(TokenTransfer)
    BY <2>2 DEF TokensOK
  <2> QED BY <2>2, <2>3
<1>5. \A s \in S : TokensOK(s)
  OBVIOUS
<1>6. step \in [S \X E -> S] /\ \A s \in S, h \in E : step[<<s, h>>] = WithToken(s, h)
  <2> HIDE DEF S
  <2> QED BY <1>4
<1>7. E = TokenTransfer
  OBVIOUS
<1> HIDE DEF S, E, N, step
<1>8. Eq(it)
  <2> HIDE DEF base
  <2>1. PICK g \in [SUBSET (1..N) -> S] : Unfolds(g, N, base, step, p)
    BY <1>2, <1>3, <1>6, Recursion
  <2>2. ASSUME NEW X \in SUBSET (1..N), X # {}
        PROVE  step[<<g[X \ {Max(X)}], p[Max(X)]>>] = WithToken(g[X \ {Max(X)}], p[Max(X)])
    <3>1. Max(X) \in 1..N
      BY <1>2, <2>2, MaxOf
    <3>2. g[X \ {Max(X)}] \in S /\ p[Max(X)] \in E
      BY <3>1, <1>2
    <3> QED BY <3>2, <1>6
  <2>3. g = [X \in SUBSET (1..N) |->
               IF X = {} THEN base ELSE WithToken(g[X \ {Max(X)}], p[Max(X)])]
    BY <2>1, <2>2 DEF Unfolds
  <2>4. Eq(g)
    BY <2>3, <1>2
  <2> HIDE DEF Eq
  <2> QED BY <2>4
<1> HIDE DEF it, base, result
<1>9. UnfoldsIn(S, it, N, base, step, p)
  <2>1. it[{}] = base
    BY <1>8, <1>2
  <2>2. ASSUME NEW X \in SUBSET (1..N), X # {}, it[X \ {Max(X)}] \in S
        PROVE  it[X] = step[<<it[X \ {Max(X)}], p[Max(X)]>>]
    <3>1. Max(X) \in 1..N
      BY <1>2, <2>2, MaxOf
    <3>2. p[Max(X)] \in E
      BY <3>1, <1>2
    <3>3. it[X] = WithToken(it[X \ {Max(X)}], p[Max(X)])
      BY <1>8, <1>2, <2>2
    <3> QED BY <3>2, <3>3, <2>2, <1>6
  <2> QED BY <2>1, <2>2 DEF UnfoldsIn
<1>10. PICK f : FoldSteps(S, f, N, base, step, p, it[1..N])
  <2>1. N \in Nat /\ step \in [S \X E -> S] /\ base \in S /\ p \in [1..N -> E]
    BY <1>2, <1>3, <1>6
  <2>2. \E f : FoldSteps(S, f, N, base, step, p, it[1..N])
    BY <2>1, <1>9, Folding
  <2> QED BY <2>2
<1>11. /\ f \in [0..N -> S] /\ f[0] = base /\ f[N] = result
       /\ \A n \in 1..N : f[n] = WithToken(f[n - 1], p[n])
  <2>1. /\ f \in [0..N -> S] /\ f[0] = base /\ f[N] = it[1..N]
        /\ \A n \in 1..N : f[n] = step[<<f[n - 1], p[n]>>]
    BY <1>10 DEF FoldSteps
  <2>2. ASSUME NEW n \in 1..N PROVE f[n] = WithToken(f[n - 1], p[n])
    <3>1. n - 1 \in 0..N /\ p[n] \in E
      BY <1>2
    <3> QED BY <3>1, <2>1, <1>6
  <2> QED BY <2>1, <2>2, <1>1, <1>2
<1>12. TokensOK(result)
  <2>1. N \in 0..N
    BY <1>2
  <2> QED BY <2>1, <1>5, <1>11
<1>13. ASSUME NEW a PROVE TokenTotal(result, a) = TokenTotal(p, a)
  <2> DEFINE y == [i \in 1..N |-> IF TokenKey(p[i]) = a THEN p[i].amount ELSE 0]
  <2>1. TokenTotal(p, a) = Total(y)
    BY <1>2 DEF TokenTotal
  <2>2. y \in Seq(Int) /\ Len(y) = N
    <3>1. \A i \in 1..N : (IF TokenKey(p[i]) = a THEN p[i].amount ELSE 0) \in Int
      BY <1>2 DEF TokenTransfer
    <3>2. y \in [1..N -> Int]
      BY <3>1
    <3> QED BY <3>2, <1>2
  <2>3. \A i \in 1..N : y[i] = IF TokenKey(p[i]) = a THEN p[i].amount ELSE 0
    OBVIOUS
  <2> HIDE DEF y
  <2>4. PICK F \in [0..N -> Int] :
           F[0] = 0 /\ (\A n \in 1..N : F[n] = F[n - 1] + y[n]) /\ Total(y) = F[N]
    BY <2>2, TotalSums
  <2> DEFINE G == {n \in 0..N : TokenTotal(f[n], a) = F[n]}
  <2>5. 0 \in G
    <3>1. TokenTotal(base, a) = 0
      <4>1. \A k \in 1..Len(base) : TokenKey(base[k]) # a
        BY DEF base
      <4> QED BY <4>1, <1>3, TokenTotalAt
    <3>2. 0 \in 0..N
      BY <1>2
    <3> QED BY <3>1, <3>2, <2>4, <1>11
  <2>6. ASSUME NEW n \in 0..(N - 1), n \in G PROVE n + 1 \in G
    <3> DEFINE m == n + 1
    <3>1. m \in 1..N /\ m - 1 = n /\ m \in 0..N /\ n \in 0..N
      BY <1>2
    <3> HIDE DEF m
    <3>2. f[m] = WithToken(f[n], p[m]) /\ f[n] \in S /\ p[m] \in TokenTransfer
      BY <3>1, <1>2, <1>11
    <3>3. TokenTotal(f[m], a)
            = TokenTotal(f[n], a) + (IF a = TokenKey(p[m]) THEN p[m].amount ELSE 0)
      BY <3>2, <1>4
    <3>4. F[m] = F[n] + y[m] /\ y[m] = IF a = TokenKey(p[m]) THEN p[m].amount ELSE 0
      BY <3>1, <2>3, <2>4
    <3>5. TokenTotal(f[n], a) = F[n]
      BY <2>6
    <3>6. TokenTotal(f[m], a) = F[m]
      BY <3>3, <3>4, <3>5
    <3>7. m \in G
      BY <3>1, <3>6
    <3> QED BY <3>7 DEF m
  <2>7. \A n \in 0..N : n \in G
    <3> HIDE DEF G
    <3> QED BY <1>2, <2>5, <2>6, Induction
  <2>8. N \in G
    <3>1. N \in 0..N
      BY <1>2
    <3> HIDE DEF G
    <3> QED BY <3>1, <2>7
  <2> QED BY <2>1, <2>4, <2>8, <1>11
<1> QED BY <1>12, <1>13 DEF result

\* NFTs that are given to the constructor: the last of the same counts.
LEMMA NftsFolded ==
    ASSUME NEW p \in Seq(Nft)
    PROVE  /\ NftsOK(FoldLeft(WithNft, <<>>, p))
           /\ \A token, serial :
                 Parties(FoldLeft(WithNft, <<>>, p), token, serial) = Parties(p, token, serial)
<1> DEFINE S == {s \in Seq(Nft) : NftsOK(s)}
    E == Nft
    N == Len(p)
    base == <<>>
    step == [q \in S \X E |-> WithNft(q[1], q[2])]
    Eq(iter) == iter = [X \in SUBSET DOMAIN p |->
                   IF X = {} THEN base ELSE WithNft(iter[X \ {Max(X)}], p[Max(X)])]
    it == CHOOSE iter : Eq(iter)
    result == FoldLeft(WithNft, <<>>, p)
<1>1. result = it[DOMAIN p]
  BY DEF FoldLeft, MapThenFoldSet
<1>2. N \in Nat /\ DOMAIN p = 1..N /\ p \in [1..N -> E] /\ \A i \in 1..N : p[i] \in Nft
  OBVIOUS
<1>3. base \in S /\ NftsOK(base)
  <2>1. base \in Seq(Nft) /\ Len(base) = 0
    OBVIOUS
  <2>2. \A i, j \in 1..Len(base) : base[i].token = base[j].token /\ base[i].serial = base[j].serial => i = j
    BY <2>1
  <2> HIDE DEF base
  <2>3. NftsOK(base)
    BY <2>1, <2>2, NftsOnce
  <2> QED BY <2>1, <2>3
<1>4. \A s \in S, h \in Nft :
         /\ WithNft(s, h) \in S
         /\ \A token, serial :
               Parties(WithNft(s, h), token, serial)
                 = IF h.token = token /\ h.serial = serial THEN <<h.sender, h.receiver>>
                   ELSE Parties(s, token, serial)
  <2> SUFFICES ASSUME NEW s \in S, NEW h \in Nft
               PROVE  /\ WithNft(s, h) \in S
                      /\ \A token, serial :
                            Parties(WithNft(s, h), token, serial)
                              = IF h.token = token /\ h.serial = serial
                                THEN <<h.sender, h.receiver>>
                                ELSE Parties(s, token, serial)
    OBVIOUS
  <2>1. NftsOK(s)
    OBVIOUS
  <2>2. /\ NftsOK(WithNft(s, h))
        /\ \A token, serial :
               Parties(WithNft(s, h), token, serial)
                 = IF h.token = token /\ h.serial = serial THEN <<h.sender, h.receiver>>
                   ELSE Parties(s, token, serial)
    BY <2>1, WithNftAdds
  <2>3. WithNft(s, h) \in Seq(Nft)
    BY <2>2 DEF NftsOK
  <2> QED BY <2>2, <2>3
<1>5. \A s \in S : NftsOK(s)
  OBVIOUS
<1>6. step \in [S \X E -> S] /\ \A s \in S, h \in E : step[<<s, h>>] = WithNft(s, h)
  <2> HIDE DEF S
  <2> QED BY <1>4
<1>7. E = Nft
  OBVIOUS
<1> HIDE DEF S, E, N, step
<1>8. Eq(it)
  <2> HIDE DEF base
  <2>1. PICK g \in [SUBSET (1..N) -> S] : Unfolds(g, N, base, step, p)
    BY <1>2, <1>3, <1>6, Recursion
  <2>2. ASSUME NEW X \in SUBSET (1..N), X # {}
        PROVE  step[<<g[X \ {Max(X)}], p[Max(X)]>>] = WithNft(g[X \ {Max(X)}], p[Max(X)])
    <3>1. Max(X) \in 1..N
      BY <1>2, <2>2, MaxOf
    <3>2. g[X \ {Max(X)}] \in S /\ p[Max(X)] \in E
      BY <3>1, <1>2
    <3> QED BY <3>2, <1>6
  <2>3. g = [X \in SUBSET (1..N) |->
               IF X = {} THEN base ELSE WithNft(g[X \ {Max(X)}], p[Max(X)])]
    BY <2>1, <2>2 DEF Unfolds
  <2>4. Eq(g)
    BY <2>3, <1>2
  <2> HIDE DEF Eq
  <2> QED BY <2>4
<1> HIDE DEF it, base, result
<1>9. UnfoldsIn(S, it, N, base, step, p)
  <2>1. it[{}] = base
    BY <1>8, <1>2
  <2>2. ASSUME NEW X \in SUBSET (1..N), X # {}, it[X \ {Max(X)}] \in S
        PROVE  it[X] = step[<<it[X \ {Max(X)}], p[Max(X)]>>]
    <3>1. Max(X) \in 1..N
      BY <1>2, <2>2, MaxOf
    <3>2. p[Max(X)] \in E
      BY <3>1, <1>2
    <3>3. it[X] = WithNft(it[X \ {Max(X)}], p[Max(X)])
      BY <1>8, <1>2, <2>2
    <3> QED BY <3>2, <3>3, <2>2, <1>6
  <2> QED BY <2>1, <2>2 DEF UnfoldsIn
<1>10. PICK f : FoldSteps(S, f, N, base, step, p, it[1..N])
  <2>1. N \in Nat /\ step \in [S \X E -> S] /\ base \in S /\ p \in [1..N -> E]
    BY <1>2, <1>3, <1>6
  <2>2. \E f : FoldSteps(S, f, N, base, step, p, it[1..N])
    BY <2>1, <1>9, Folding
  <2> QED BY <2>2
<1>11. /\ f \in [0..N -> S] /\ f[0] = base /\ f[N] = result
       /\ \A n \in 1..N : f[n] = WithNft(f[n - 1], p[n])
  <2>1. /\ f \in [0..N -> S] /\ f[0] = base /\ f[N] = it[1..N]
        /\ \A n \in 1..N : f[n] = step[<<f[n - 1], p[n]>>]
    BY <1>10 DEF FoldSteps
  <2>2. ASSUME NEW n \in 1..N PROVE f[n] = WithNft(f[n - 1], p[n])
    <3>1. n - 1 \in 0..N /\ p[n] \in E
      BY <1>2
    <3> QED BY <3>1, <2>1, <1>6
  <2> QED BY <2>1, <2>2, <1>1, <1>2
<1>12. NftsOK(result)
  <2>1. N \in 0..N
    BY <1>2
  <2> QED BY <2>1, <1>5, <1>11
<1>13. ASSUME NEW token, NEW serial
       PROVE  Parties(result, token, serial) = Parties(p, token, serial)
  <2> DEFINE Of(i) == p[i].token = token /\ p[i].serial = serial
             J(n) == {i \in 1..n : Of(i)}
             P(n) == IF J(n) = {} THEN Null ELSE <<p[Max(J(n))].sender, p[Max(J(n))].receiver>>
             G == {n \in 0..N : Parties(f[n], token, serial) = P(n)}
  <2>1. Parties(p, token, serial) = P(N)
    <3> DEFINE i == IF J(N) # {} THEN Max(J(N)) ELSE 0
    <3>1. Parties(p, token, serial) = IF i = 0 THEN Null ELSE <<p[i].sender, p[i].receiver>>
      BY DEF Parties, SelectLastInSeq, N
    <3>2. J(N) # {} => Max(J(N)) \in 1..N /\ Max(J(N)) # 0
      <4> SUFFICES ASSUME J(N) # {} PROVE Max(J(N)) \in 1..N /\ Max(J(N)) # 0
        OBVIOUS
      <4>1. J(N) \in SUBSET (1..N)
        OBVIOUS
      <4>3. Max(J(N)) \in J(N)
        <5> HIDE DEF J
        <5> QED BY <4>1, <1>2, MaxOf
      <4> QED BY <4>1, <4>3
    <3> HIDE DEF J
    <3> QED BY <3>1, <3>2
  <2>2. \A n \in 0..(N - 1) : P(n + 1) = IF Of(n + 1) THEN <<p[n + 1].sender, p[n + 1].receiver>>
                                         ELSE P(n)
    <3> SUFFICES ASSUME NEW n \in 0..(N - 1)
                 PROVE  P(n + 1) = IF Of(n + 1) THEN <<p[n + 1].sender, p[n + 1].receiver>>
                                   ELSE P(n)
      OBVIOUS
    <3>1. n + 1 \in Nat /\ \A i \in 1..(n + 1) : i \in 1..n \/ i = n + 1
      BY <1>2
    <3>2. CASE Of(n + 1)
      <4>1. n + 1 \in J(n + 1) /\ J(n + 1) \in SUBSET (1..(n + 1)) /\ J(n + 1) # {}
        BY <3>1, <3>2
      <4> HIDE DEF J
      <4>2. Max(J(n + 1)) \in J(n + 1) /\ n + 1 <= Max(J(n + 1))
        BY <4>1, <3>1, MaxOf
      <4>3. Max(J(n + 1)) \in 1..(n + 1)
        BY <4>1, <4>2
      <4>4. Max(J(n + 1)) = n + 1
        BY <4>2, <4>3
      <4> QED BY <4>1, <4>4, <3>2
    <3>3. CASE ~ Of(n + 1)
      <4>1. J(n + 1) = J(n)
        <5>1. \A i \in J(n + 1) : i \in J(n)
          BY <3>1, <3>3
        <5>2. \A i \in 1..n : i \in 1..(n + 1)
          BY <1>2
        <5> QED BY <5>1, <5>2
      <4> HIDE DEF J
      <4> QED BY <4>1, <3>3
    <3> QED BY <3>2, <3>3
  <2>3. P(0) = Null
    OBVIOUS
  <2>9. \A n \in 1..N : Of(n) <=> (p[n].token = token /\ p[n].serial = serial)
    OBVIOUS
  <2> HIDE DEF P, Of
  <2>5. 0 \in G
    <3>1. Parties(base, token, serial) = Null
      <4>1. PartiesIn(base, token, serial, Null)
        BY DEF base, PartiesIn
      <4> QED BY <4>1, <1>3, PartiesOf
    <3>2. 0 \in 0..N
      BY <1>2
    <3> QED BY <3>1, <3>2, <2>3, <1>11
  <2>6. ASSUME NEW n \in 0..(N - 1), n \in G PROVE n + 1 \in G
    <3> DEFINE m == n + 1
    <3>1. m \in 1..N /\ m - 1 = n /\ m \in 0..N /\ n \in 0..N
      BY <1>2
    <3>4. P(m) = IF Of(m) THEN <<p[m].sender, p[m].receiver>> ELSE P(n)
      BY <2>2
    <3> HIDE DEF m
    <3>2. f[m] = WithNft(f[n], p[m]) /\ f[n] \in S /\ p[m] \in Nft
      BY <3>1, <1>2, <1>11
    <3>3. Parties(f[m], token, serial)
            = IF p[m].token = token /\ p[m].serial = serial THEN <<p[m].sender, p[m].receiver>>
              ELSE Parties(f[n], token, serial)
      <4> DEFINE h == p[m]
                 g == f[n]
      <4>1. f[m] = WithNft(g, h) /\ g \in S /\ h \in Nft
        BY <3>2
      <4> HIDE DEF h, g
      <4>2. Parties(WithNft(g, h), token, serial)
              = IF h.token = token /\ h.serial = serial THEN <<h.sender, h.receiver>>
                ELSE Parties(g, token, serial)
        BY <4>1, <1>4
      <4> QED BY <4>1, <4>2 DEF h, g
    <3>5. Parties(f[n], token, serial) = P(n)
      BY <2>6
    <3>6. Parties(f[m], token, serial) = P(m)
      BY <3>1, <3>3, <3>4, <3>5, <2>9
    <3>7. m \in G
      BY <3>1, <3>6
    <3> QED BY <3>7 DEF m
  <2>7. \A n \in 0..N : n \in G
    <3> HIDE DEF G
    <3> QED BY <1>2, <2>5, <2>6, Induction
  <2>8. N \in G
    <3>1. N \in 0..N
      BY <1>2
    <3> HIDE DEF G
    <3> QED BY <3>1, <2>7
  <2> QED BY <2>1, <2>8, <1>11
<1> QED BY <1>12, <1>13 DEF result

-----------------------------------------------------------------------------
(* What is read from the bytes, and what is asked for *)

\* In another order, lists amount to the same.
LEMMA SameListsOutcome ==
    ASSUME NEW l, NEW m, WellFormed(l), WellFormed(m), SameLists(m, l)
    PROVE  Outcome(m) = Outcome(l)
<1>1. SameOutcome(m, l)
  BY DEF SameLists, SameOutcome, WithoutDecimals
<1> QED BY <1>1, OutcomeSame

\* What is read from the bytes of l.
Reread(l) == Decoded(DataOf(SortedOf(l)))

\* Sorting, making the body and reading it again.
LEMMA SortedRoundTrip ==
    ASSUME TransferAssumption, NEW l, WellFormed(l)
    PROVE  /\ WellFormed(SortedOf(l)) /\ Outcome(SortedOf(l)) = Outcome(l)
           /\ WellFormed(Reread(l)) /\ Outcome(Reread(l)) = Outcome(l)
           /\ SameOutcome(Reread(l), l) /\ KeepsDecimals(l, Reread(l))
           /\ GroupsOK(DataOf(SortedOf(l)))
<1> DEFINE m == SortedOf(l)
    r == Reread(l)
<1>1. WellFormed(m) /\ SameLists(m, l)
  BY SortedWellFormed
<1>2. r = Decoded(DataOf(m))
  BY DEF Reread
<1> HIDE DEF m, r
<1>3. Outcome(m) = Outcome(l)
  BY <1>1, SameListsOutcome
<1>4. WellFormed(r) /\ SameOutcome(r, m) /\ KeepsDecimals(m, r) /\ GroupsOK(DataOf(m))
  BY <1>1, <1>2, RoundTrip
<1>5. Outcome(r) = Outcome(m)
  BY <1>1, <1>4, OutcomeSame
<1>6. SameOutcome(r, l)
  BY <1>1, <1>4 DEF SameLists, SameOutcome, WithoutDecimals
<1>7. KeepsDecimals(l, r)
  BY <1>1, <1>4 DEF SameLists, KeepsDecimals
<1> QED BY <1>1, <1>3, <1>4, <1>5, <1>6, <1>7 DEF m, r

\* One total changes, by the amount of h.
AddsHbar(s, u, h) ==
    \A a : /\ HbarTotal(u, a)
               = HbarTotal(s, a) + (IF a = h.account THEN h.amount ELSE 0)
          /\ HbarTotal(s, a) \in Int

\* What the application has asked for, with h.
HbarAsked(o, h) == [o EXCEPT !.hbars[h.account] = @ + h.amount]

\* What the application asks for is added to what the lists amount to.
LEMMA OutcomeOfHbar ==
    ASSUME NEW l, NEW m, NEW h \in Hbar, m.tokens = l.tokens, m.nfts = l.nfts,
           AddsHbar(l.hbars, m.hbars, h)
    PROVE  Outcome(m) = HbarAsked(Outcome(l), h)
<1> DEFINE x == [a \in Account |-> HbarTotal(l.hbars, a)]
    y == [a \in Account |-> HbarTotal(m.hbars, a)]
<1>1. h.account \in Account
  BY DEF Hbar
<1>2. y = [x EXCEPT ![h.account] = x[h.account] + h.amount]
  <2>1. \A a \in Account : y[a] = IF a = h.account THEN x[h.account] + h.amount ELSE x[a]
    BY DEF AddsHbar
  <2> QED BY <2>1
<1>3. Outcome(l).hbars = x /\ Outcome(m).hbars = y
  BY DEF Outcome
<1>4. Outcome(m) = [Outcome(l) EXCEPT !.hbars = y]
  <2> DEFINE o1 == [a \in Token \X Account |-> TokenTotal(l.tokens, a)]
             o2 == [a \in Token \X Serial |-> Parties(l.nfts, a[1], a[2])]
  <2>1. Outcome(l) = [hbars |-> x, tokens |-> o1, nfts |-> o2]
    BY DEF Outcome
  <2>2. Outcome(m) = [hbars |-> y, tokens |-> o1, nfts |-> o2]
    BY DEF Outcome
  <2> HIDE DEF x, y, o1, o2
  <2> QED BY <2>1, <2>2
<1> HIDE DEF x, y
<1> QED BY <1>2, <1>3, <1>4 DEF HbarAsked

\* The same of tokens.
LEMMA OutcomeOfToken ==
    ASSUME NEW l, NEW m, NEW t \in TokenTransfer, m.hbars = l.hbars, m.nfts = l.nfts,
           \A a : TokenTotal(m.tokens, a)
                    = TokenTotal(l.tokens, a) + (IF a = TokenKey(t) THEN t.amount ELSE 0),
           \A a : TokenTotal(l.tokens, a) \in Int
    PROVE  Outcome(m) = [Outcome(l) EXCEPT !.tokens[<<t.token, t.account>>] = @ + t.amount]
<1> DEFINE x == [a \in Token \X Account |-> TokenTotal(l.tokens, a)]
    y == [a \in Token \X Account |-> TokenTotal(m.tokens, a)]
    key == <<t.token, t.account>>
<1>1. key \in Token \X Account /\ key = TokenKey(t)
  BY DEF TokenTransfer, TokenKey
<1> HIDE DEF key
<1>2. y = [x EXCEPT ![key] = x[key] + t.amount]
  <2>1. \A a \in Token \X Account : y[a] = IF a = key THEN x[key] + t.amount ELSE x[a]
    BY <1>1
  <2> QED BY <2>1
<1>3. Outcome(l).tokens = x /\ Outcome(m).tokens = y
  BY DEF Outcome
<1>4. Outcome(m) = [Outcome(l) EXCEPT !.tokens = y]
  <2> DEFINE o1 == [a \in Account |-> HbarTotal(l.hbars, a)]
             o2 == [a \in Token \X Serial |-> Parties(l.nfts, a[1], a[2])]
  <2>1. Outcome(l) = [hbars |-> o1, tokens |-> x, nfts |-> o2]
    BY DEF Outcome
  <2>2. Outcome(m) = [hbars |-> o1, tokens |-> y, nfts |-> o2]
    BY DEF Outcome
  <2> HIDE DEF x, y, o1, o2
  <2> QED BY <2>1, <2>2
<1> HIDE DEF x, y
<1> QED BY <1>2, <1>3, <1>4 DEF key

\* The same of NFTs, whose parties are replaced.
LEMMA OutcomeOfNft ==
    ASSUME NEW l, NEW m, NEW n \in Nft, m.hbars = l.hbars, m.tokens = l.tokens,
           \A token, serial :
              Parties(m.nfts, token, serial)
                = IF n.token = token /\ n.serial = serial THEN <<n.sender, n.receiver>>
                  ELSE Parties(l.nfts, token, serial)
    PROVE  Outcome(m) = [Outcome(l) EXCEPT !.nfts[<<n.token, n.serial>>]
                                             = <<n.sender, n.receiver>>]
<1> DEFINE x == [a \in Token \X Serial |-> Parties(l.nfts, a[1], a[2])]
    y == [a \in Token \X Serial |-> Parties(m.nfts, a[1], a[2])]
    key == <<n.token, n.serial>>
    v == <<n.sender, n.receiver>>
<1>1. key \in Token \X Serial /\ \A a \in Token \X Serial :
         a = key <=> n.token = a[1] /\ n.serial = a[2]
  BY DEF Nft
<1>5. \A a \in Token \X Serial : y[a] = IF a = key THEN v ELSE x[a]
  <2> SUFFICES ASSUME NEW a \in Token \X Serial PROVE y[a] = IF a = key THEN v ELSE x[a]
    OBVIOUS
  <2>1. a = key <=> n.token = a[1] /\ n.serial = a[2]
    BY <1>1
  <2> HIDE DEF key
  <2> QED BY <2>1
<1>3. Outcome(l).nfts = x /\ Outcome(m).nfts = y
  BY DEF Outcome
<1>4. Outcome(m) = [Outcome(l) EXCEPT !.nfts = y]
  <2> DEFINE o1 == [a \in Account |-> HbarTotal(l.hbars, a)]
             o2 == [a \in Token \X Account |-> TokenTotal(l.tokens, a)]
  <2>1. Outcome(l) = [hbars |-> o1, tokens |-> o2, nfts |-> x]
    BY DEF Outcome
  <2>2. Outcome(m) = [hbars |-> o1, tokens |-> o2, nfts |-> y]
    BY DEF Outcome
  <2> HIDE DEF x, y, o1, o2
  <2> QED BY <2>1, <2>2
<1>6. y = [a \in Token \X Serial |-> y[a]] /\ x = [a \in Token \X Serial |-> x[a]]
  OBVIOUS
<1> HIDE DEF x, y, key, v
<1>2. y = [x EXCEPT ![key] = v]
  BY <1>5, <1>6, <1>1
<1> QED BY <1>2, <1>3, <1>4 DEF key, v

\* The same totals and parties.
LEMMA OutcomeOfSame ==
    ASSUME NEW l, NEW m, \A a : HbarTotal(m.hbars, a) = HbarTotal(l.hbars, a),
           \A a : TokenTotal(m.tokens, a) = TokenTotal(l.tokens, a),
           \A token, serial : Parties(m.nfts, token, serial) = Parties(l.nfts, token, serial)
    PROVE  Outcome(m) = Outcome(l)
BY DEF Outcome

-----------------------------------------------------------------------------
(* The inductive invariant *)

\* What the body moves once it is frozen, and what is in the lists before.
Moved == IF frozen THEN Decoded(body) ELSE Current

\* The inductive invariant: TransferTypeOK says nothing of the body, and the
\* invariants of the runs nothing of the lists a call starts from.
TransferIInv ==
    /\ TransferTypeOK /\ WellFormed(Current)
    /\ frozen => WellFormed(Decoded(body)) /\ GroupsOK(body)
    /\ torn \/ Outcome(Moved) = asked

\* The record of well-formed lists.
LEMMA WellFormedLists ==
    ASSUME NEW h, NEW t, NEW n, HbarsOK(h), TokensOK(t), NftsOK(n)
    PROVE  WellFormed([hbars |-> h, tokens |-> t, nfts |-> n])
<1> DEFINE l == [hbars |-> h, tokens |-> t, nfts |-> n]
<1>1. h \in Seq(Hbar) /\ t \in Seq(TokenTransfer) /\ n \in Seq(Nft)
  BY DEF HbarsOK, TokensOK, NftsOK
<1>2. l \in ListsType /\ l.hbars = h /\ l.tokens = t /\ l.nfts = n
  BY <1>1 DEF ListsType
<1> HIDE DEF l
<1>3. WellFormed(l)
  BY <1>2 DEF WellFormed
<1> QED BY <1>3 DEF l

\* The variables of the lists, from the record of them.
LEMMA CurrentLists ==
    ASSUME WellFormed(Current)
    PROVE  /\ HbarsOK(hbars) /\ TokensOK(tokens) /\ NftsOK(nfts)
           /\ hbars \in Seq(Hbar) /\ tokens \in Seq(TokenTransfer) /\ nfts \in Seq(Nft)
           /\ \A a : HbarTotal(hbars, a) \in Int /\ TokenTotal(tokens, a) \in Int
<1>1. HbarsOK(hbars) /\ TokensOK(tokens) /\ NftsOK(nfts)
  BY DEF WellFormed, Current
<1>2. hbars \in Seq(Hbar) /\ tokens \in Seq(TokenTransfer) /\ nfts \in Seq(Nft)
  BY <1>1 DEF HbarsOK, TokensOK, NftsOK
<1> QED BY <1>1, <1>2, HbarTotalAt, TokenTotalAt

\* What is added at a time is a transfer, and so is what is given to the
\* constructor.
LEMMA InputTypes ==
    ASSUME TransferAssumption
    PROVE  /\ HbarsAdded \subseteq Hbar /\ TokensAdded \subseteq TokenTransfer
           /\ NftsAdded \subseteq Nft /\ Approvals \subseteq BOOLEAN
<1>1. Amounts \subseteq Int /\ Approvals \subseteq BOOLEAN
  BY DEF TransferAssumption
<1>2. HbarsAdded \subseteq Hbar
  BY <1>1 DEF HbarsAdded, Hbar
<1>3. TokensAdded \subseteq TokenTransfer
  BY <1>1 DEF TokensAdded, TokenTransfer
<1>4. NftsAdded \subseteq Nft
  BY <1>1 DEF NftsAdded, Nft
<1> QED BY <1>1, <1>2, <1>3, <1>4

\* What a step that asks for a transfer has to show of the lists it leaves.
LEMMA AddKeeps ==
    ASSUME TransferIInv, Add, HbarsOK(hbars'), TokensOK(tokens'), NftsOK(nfts'),
           torn' \in BOOLEAN, calls' \in 0..MaxCalls,
           torn' \/ Outcome(Current') = asked'
    PROVE  TransferIInv'
<1>1. airdrop' \in BOOLEAN /\ frozen' = FALSE
  BY DEF TransferIInv, TransferTypeOK, Add
<1>2. WellFormed(Current')
  BY WellFormedLists DEF Current
<1>3. hbars' \in Seq(Hbar) /\ tokens' \in Seq(TokenTransfer) /\ nfts' \in Seq(Nft)
  BY DEF HbarsOK, TokensOK, NftsOK
<1>4. TransferTypeOK'
  BY <1>1, <1>3 DEF TransferTypeOK
<1>5. Moved' = Current'
  BY <1>1 DEF Moved
<1> QED BY <1>1, <1>2, <1>4, <1>5 DEF TransferIInv

\* The parts of the invariant that a step uses.
LEMMA Unfrozen ==
    ASSUME TransferIInv, ~ frozen
    PROVE  /\ HbarsOK(hbars) /\ TokensOK(tokens) /\ NftsOK(nfts)
           /\ torn \in BOOLEAN /\ (torn \/ Outcome(Current) = asked)
           /\ \A a : HbarTotal(hbars, a) \in Int /\ TokenTotal(tokens, a) \in Int
<1>1. WellFormed(Current) /\ torn \in BOOLEAN
  BY DEF TransferIInv, TransferTypeOK
<1>2. torn \/ Outcome(Current) = asked
  BY DEF TransferIInv, Moved
<1> QED BY <1>1, <1>2, CurrentLists

\* Adding hbar.
LEMMA HbarStep ==
    ASSUME TransferIInv, NEW h \in Hbar, AddHbarTransfer(h), calls' \in 0..MaxCalls
    PROVE  TransferIInv'
<1>1. /\ Add /\ ~ frozen /\ hbars' = WithHbar(hbars, h)
      /\ asked' = HbarAsked(asked, h)
      /\ tokens' = tokens /\ nfts' = nfts /\ torn' = torn
  BY DEF AddHbarTransfer, Add, HbarAsked
<1>2. /\ HbarsOK(hbars) /\ TokensOK(tokens) /\ NftsOK(nfts)
      /\ torn \in BOOLEAN /\ (torn \/ Outcome(Current) = asked)
      /\ \A a : HbarTotal(hbars, a) \in Int
  BY <1>1, Unfrozen
<1>3. /\ HbarsOK(hbars')
      /\ \A a : HbarTotal(hbars', a)
                  = HbarTotal(hbars, a) + (IF a = h.account THEN h.amount ELSE 0)
  BY <1>1, <1>2, WithHbarAdds
<1>4. /\ Current.hbars = hbars /\ Current.tokens = tokens /\ Current.nfts = nfts
      /\ Current'.hbars = hbars' /\ Current'.tokens = tokens' /\ Current'.nfts = nfts'
  BY DEF Current
<1>5. Outcome(Current') = HbarAsked(Outcome(Current), h)
  <2> DEFINE l == Current
             m == Current'
  <2>1. /\ m.tokens = l.tokens /\ m.nfts = l.nfts
        /\ AddsHbar(l.hbars, m.hbars, h)
    BY <1>1, <1>2, <1>3, <1>4 DEF AddsHbar
  <2> HIDE DEF l, m
  <2>2. Outcome(m) = HbarAsked(Outcome(l), h)
    BY <2>1, OutcomeOfHbar
  <2> QED BY <2>2 DEF l, m
<1>6. torn' \/ Outcome(Current') = asked'
  BY <1>1, <1>2, <1>5
<1> QED BY <1>1, <1>2, <1>3, <1>6, AddKeeps

\* Both ways of adding a transfer of a token: only one that throws half-way
\* leaves other totals than before and the transfer.
LEMMA TokenAdded ==
    ASSUME TransferIInv, NEW t \in TokenTransfer, Add, TokensOK(tokens'),
           hbars' = hbars, nfts' = nfts, torn' = torn, calls' \in 0..MaxCalls,
           \A a : TokenTotal(tokens', a)
                    = TokenTotal(tokens, a) + (IF a = TokenKey(t) THEN t.amount ELSE 0),
           asked' = [asked EXCEPT !.tokens[<<t.token, t.account>>] = @ + t.amount]
    PROVE  TransferIInv'
<1>1. ~ frozen
  BY DEF Add
<1>2. /\ HbarsOK(hbars) /\ TokensOK(tokens) /\ NftsOK(nfts)
      /\ torn \in BOOLEAN /\ (torn \/ Outcome(Current) = asked)
      /\ \A a : TokenTotal(tokens, a) \in Int
  BY <1>1, Unfrozen
<1>4. /\ Current.hbars = hbars /\ Current.tokens = tokens /\ Current.nfts = nfts
      /\ Current'.hbars = hbars' /\ Current'.tokens = tokens' /\ Current'.nfts = nfts'
  BY DEF Current
<1>5. Outcome(Current')
        = [Outcome(Current) EXCEPT !.tokens[<<t.token, t.account>>] = @ + t.amount]
  <2> DEFINE l == Current
             m == Current'
  <2>1. /\ m.hbars = l.hbars /\ m.nfts = l.nfts
        /\ \A a : TokenTotal(m.tokens, a)
                    = TokenTotal(l.tokens, a) + (IF a = TokenKey(t) THEN t.amount ELSE 0)
        /\ \A a : TokenTotal(l.tokens, a) \in Int
    BY <1>2, <1>4
  <2> HIDE DEF l, m
  <2>2. Outcome(m) = [Outcome(l) EXCEPT !.tokens[<<t.token, t.account>>] = @ + t.amount]
    BY <2>1, OutcomeOfToken
  <2> QED BY <2>2 DEF l, m
<1>6. torn' \/ Outcome(Current') = asked'
  BY <1>2, <1>5
<1> QED BY <1>2, <1>6, AddKeeps

\* Adding tokens.
LEMMA TokenStep ==
    ASSUME TransferIInv, NEW t \in TokenTransfer, AddTokenTransfer(t),
           calls' \in 0..MaxCalls
    PROVE  TransferIInv'
<1>1. /\ Add /\ ~ frozen /\ tokens' = WithToken(tokens, t)
      /\ asked' = [asked EXCEPT !.tokens[<<t.token, t.account>>] = @ + t.amount]
      /\ hbars' = hbars /\ nfts' = nfts /\ torn' = torn
  BY DEF AddTokenTransfer, Add
<1>2. TokensOK(tokens)
  BY <1>1, Unfrozen
<1>3. /\ TokensOK(tokens')
      /\ \A a : TokenTotal(tokens', a)
                  = TokenTotal(tokens, a) + (IF a = TokenKey(t) THEN t.amount ELSE 0)
  BY <1>1, <1>2, WithTokenAdds
<1> QED BY <1>1, <1>3, TokenAdded

\* Adding tokens with decimals: a call that throws has either changed nothing,
\* or `torn' records it.
LEMMA DecimalsStep ==
    ASSUME TransferIInv, NEW t \in TokenTransfer, AddTokenTransferWithDecimals(t),
           calls' \in 0..MaxCalls
    PROVE  TransferIInv'
<1> DEFINE throws == Mismatch(tokens, t) # 0
    updated == Updated(tokens, t)
<1>1. /\ Add /\ ~ frozen /\ tokens' = WithDecimals(tokens, t)
      /\ asked' = IF throws THEN asked
                  ELSE [asked EXCEPT !.tokens[<<t.token, t.account>>] = @ + t.amount]
      /\ torn' = (torn \/ (throws /\ updated # tokens))
      /\ hbars' = hbars /\ nfts' = nfts
  BY DEF AddTokenTransferWithDecimals, Add, WithDecimals
<1>2. /\ HbarsOK(hbars) /\ TokensOK(tokens) /\ NftsOK(nfts)
      /\ torn \in BOOLEAN /\ (torn \/ Outcome(Current) = asked)
  BY <1>1, Unfrozen
<1>3. /\ TokensOK(tokens')
      /\ throws => tokens' = updated
      /\ ~ throws =>
            \A a : TokenTotal(tokens', a)
                     = TokenTotal(tokens, a) + (IF a = TokenKey(t) THEN t.amount ELSE 0)
  BY <1>1, <1>2, WithDecimalsAdds
<1> HIDE DEF throws, updated
<1>4. CASE throws
  <2>1. torn' \in BOOLEAN
    BY <1>1, <1>2
  <2>2. torn' \/ (tokens' = tokens /\ Outcome(Current) = asked)
    BY <1>1, <1>2, <1>3, <1>4
  <2>3. tokens' = tokens => Current' = Current
    BY <1>1 DEF Current
  <2>4. torn' \/ Outcome(Current') = asked'
    BY <1>1, <1>4, <2>2, <2>3
  <2> QED BY <1>1, <1>2, <1>3, <2>1, <2>4, AddKeeps
<1>5. CASE ~ throws
  <2>1. torn' = torn
    BY <1>1, <1>2, <1>5
  <2> QED BY <1>1, <1>3, <1>5, <2>1, TokenAdded
<1> QED BY <1>4, <1>5

\* Adding an NFT.
LEMMA NftStep ==
    ASSUME TransferIInv, NEW n \in Nft, AddNftTransfer(n), calls' \in 0..MaxCalls
    PROVE  TransferIInv'
<1>1. /\ Add /\ ~ frozen /\ nfts' = WithNft(nfts, n)
      /\ asked' = [asked EXCEPT !.nfts[<<n.token, n.serial>>] = <<n.sender, n.receiver>>]
      /\ hbars' = hbars /\ tokens' = tokens /\ torn' = torn
  BY DEF AddNftTransfer, Add
<1>2. /\ HbarsOK(hbars) /\ TokensOK(tokens) /\ NftsOK(nfts)
      /\ torn \in BOOLEAN /\ (torn \/ Outcome(Current) = asked)
  BY <1>1, Unfrozen
<1>3. /\ NftsOK(nfts')
      /\ \A token, serial :
            Parties(nfts', token, serial)
              = IF n.token = token /\ n.serial = serial THEN <<n.sender, n.receiver>>
                ELSE Parties(nfts, token, serial)
  BY <1>1, <1>2, WithNftAdds
<1>4. /\ Current.hbars = hbars /\ Current.tokens = tokens /\ Current.nfts = nfts
      /\ Current'.hbars = hbars' /\ Current'.tokens = tokens' /\ Current'.nfts = nfts'
  BY DEF Current
<1>5. Outcome(Current')
        = [Outcome(Current) EXCEPT !.nfts[<<n.token, n.serial>>] = <<n.sender, n.receiver>>]
  <2> DEFINE l == Current
             m == Current'
  <2>1. /\ m.hbars = l.hbars /\ m.tokens = l.tokens
        /\ \A token, serial :
              Parties(m.nfts, token, serial)
                = IF n.token = token /\ n.serial = serial THEN <<n.sender, n.receiver>>
                  ELSE Parties(l.nfts, token, serial)
    BY <1>1, <1>3, <1>4
  <2> HIDE DEF l, m
  <2>2. Outcome(m) = [Outcome(l) EXCEPT !.nfts[<<n.token, n.serial>>]
                                          = <<n.sender, n.receiver>>]
    BY <2>1, OutcomeOfNft
  <2> QED BY <2>2 DEF l, m
<1>6. torn' \/ Outcome(Current') = asked'
  BY <1>1, <1>2, <1>5
<1> QED BY <1>1, <1>2, <1>3, <1>6, AddKeeps

\* A step that leaves what was asked for, what is frozen and the totals.
LEMMA SameKeeps ==
    ASSUME TransferIInv, HbarsOK(hbars'), TokensOK(tokens'), NftsOK(nfts'),
           UNCHANGED <<airdrop, frozen, body, asked, torn>>, calls' \in 0..MaxCalls,
           Outcome(Current') = Outcome(Current)
    PROVE  TransferIInv'
<1>2. WellFormed(Current')
  BY WellFormedLists DEF Current
<1>3. hbars' \in Seq(Hbar) /\ tokens' \in Seq(TokenTransfer) /\ nfts' \in Seq(Nft)
  BY DEF HbarsOK, TokensOK, NftsOK
<1>4. TransferTypeOK'
  BY <1>3 DEF TransferTypeOK, TransferIInv
<1>5. frozen' => WellFormed(Decoded(body')) /\ GroupsOK(body')
  BY DEF TransferIInv
<1>6. torn' \/ Outcome(Moved') = asked'
  <2>1. CASE frozen
    <3>1. Moved' = Moved
      BY <2>1 DEF Moved
    <3> QED BY <3>1 DEF TransferIInv
  <2>2. CASE ~ frozen
    <3>1. Moved' = Current' /\ Moved = Current
      BY <2>2 DEF Moved
    <3> QED BY <3>1 DEF TransferIInv
  <2> QED BY <2>1, <2>2
<1> QED BY <1>2, <1>4, <1>5, <1>6 DEF TransferIInv

\* Setting approvals, of what is in the lists but not of a body that is frozen.
LEMMA ApprovalStep ==
    ASSUME TransferIInv, NEW approved \in BOOLEAN, SetApproval(approved),
           calls' \in 0..MaxCalls
    PROVE  TransferIInv'
<1>1. HbarsOK(hbars) /\ TokensOK(tokens) /\ NftsOK(nfts)
  BY CurrentLists DEF TransferIInv
<1>2. UNCHANGED <<airdrop, frozen, body, asked, torn>>
  BY DEF SetApproval
<1>3. \/ \E i \in DOMAIN hbars :
            hbars' = Approving(hbars, i, approved) /\ tokens' = tokens /\ nfts' = nfts
      \/ \E i \in DOMAIN tokens :
            tokens' = Approving(tokens, i, approved) /\ hbars' = hbars /\ nfts' = nfts
      \/ \E i \in DOMAIN nfts :
            nfts' = Approving(nfts, i, approved) /\ hbars' = hbars /\ tokens' = tokens
  BY DEF SetApproval, Approving
<1>4. /\ HbarsOK(hbars') /\ TokensOK(tokens') /\ NftsOK(nfts')
      /\ \A a : HbarTotal(hbars', a) = HbarTotal(hbars, a)
      /\ \A a : TokenTotal(tokens', a) = TokenTotal(tokens, a)
      /\ \A token, serial : Parties(nfts', token, serial) = Parties(nfts, token, serial)
  <2>1. CASE \E i \in DOMAIN hbars :
                hbars' = Approving(hbars, i, approved) /\ tokens' = tokens /\ nfts' = nfts
    BY <1>1, <2>1, HbarApproved
  <2>2. CASE \E i \in DOMAIN tokens :
                tokens' = Approving(tokens, i, approved) /\ hbars' = hbars /\ nfts' = nfts
    BY <1>1, <2>2, TokenApproved
  <2>3. CASE \E i \in DOMAIN nfts :
                nfts' = Approving(nfts, i, approved) /\ hbars' = hbars /\ tokens' = tokens
    BY <1>1, <2>3, NftApproved
  <2> QED BY <1>3, <2>1, <2>2, <2>3
<1>5. Outcome(Current') = Outcome(Current)
  <2>1. /\ Current.hbars = hbars /\ Current.tokens = tokens /\ Current.nfts = nfts
        /\ Current'.hbars = hbars' /\ Current'.tokens = tokens' /\ Current'.nfts = nfts'
    BY DEF Current
  <2> QED BY <1>4, <2>1, OutcomeOfSame
<1> QED BY <1>1, <1>2, <1>4, <1>5, SameKeeps

\* The record of the lists, from the variables that a step sets to its parts.
LEMMA SetLists ==
    ASSUME NEW l, WellFormed(l), Lists(l)
    PROVE  Current' = l /\ HbarsOK(hbars') /\ TokensOK(tokens') /\ NftsOK(nfts')
<1>1. hbars' = l.hbars /\ tokens' = l.tokens /\ nfts' = l.nfts
  BY DEF Lists
<1>2. l = [hbars |-> l.hbars, tokens |-> l.tokens, nfts |-> l.nfts]
  BY DEF WellFormed, ListsType
<1> QED BY <1>1, <1>2 DEF WellFormed, Current

\* Freezing: what the body moves is what the lists amounted to.
LEMMA FreezeStep ==
    ASSUME TransferAssumption, TransferIInv, Freeze, calls' \in 0..MaxCalls
    PROVE  TransferIInv'
<1>1. /\ ~ frozen /\ Lists(SortedOf(Current)) /\ frozen' = TRUE
      /\ body' = DataOf(SortedOf(Current))
      /\ airdrop' = airdrop /\ asked' = asked /\ torn' = torn
  BY DEF Freeze, SortedLists
<1>2. /\ WellFormed(SortedOf(Current)) /\ WellFormed(Reread(Current))
      /\ Outcome(Reread(Current)) = Outcome(Current)
      /\ GroupsOK(DataOf(SortedOf(Current)))
  BY SortedRoundTrip DEF TransferIInv
<1>3. /\ Current' = SortedOf(Current)
      /\ HbarsOK(hbars') /\ TokensOK(tokens') /\ NftsOK(nfts')
  BY <1>1, <1>2, SetLists
<1>4. hbars' \in Seq(Hbar) /\ tokens' \in Seq(TokenTransfer) /\ nfts' \in Seq(Nft)
  BY <1>3 DEF HbarsOK, TokensOK, NftsOK
<1>5. TransferTypeOK'
  BY <1>1, <1>4 DEF TransferTypeOK, TransferIInv
<1>6. Moved' = Reread(Current) /\ Decoded(body') = Reread(Current)
  BY <1>1 DEF Moved, Reread
<1>7. torn \/ Outcome(Current) = asked
  BY <1>1, Unfrozen
<1>8. torn' \/ Outcome(Moved') = asked'
  BY <1>1, <1>2, <1>6, <1>7
<1>9. WellFormed(Current') /\ WellFormed(Decoded(body')) /\ GroupsOK(body')
  BY <1>1, <1>2, <1>3, <1>6
<1> QED BY <1>5, <1>8, <1>9 DEF TransferIInv

\* Reading bytes, of lists that may still be changed or of a frozen body.
LEMMA ReloadStep ==
    ASSUME TransferAssumption, TransferIInv, Reload, calls' \in 0..MaxCalls
    PROVE  TransferIInv'
<1>1. UNCHANGED <<airdrop, frozen, body, asked, torn>>
  BY DEF Reload
<1>2. CASE ~ frozen
  <2>1. Lists(Reread(Current))
    BY <1>2 DEF Reload, Reread, SortedLists
  <2>2. WellFormed(Reread(Current)) /\ Outcome(Reread(Current)) = Outcome(Current)
    BY SortedRoundTrip DEF TransferIInv
  <2>3. /\ Current' = Reread(Current)
        /\ HbarsOK(hbars') /\ TokensOK(tokens') /\ NftsOK(nfts')
    BY <2>1, <2>2, SetLists
  <2> QED BY <1>1, <2>2, <2>3, SameKeeps
<1>3. CASE frozen
  <2>1. Lists(Decoded(body))
    BY <1>3 DEF Reload
  <2>2. WellFormed(Decoded(body)) /\ GroupsOK(body)
    BY <1>3 DEF TransferIInv
  <2>3. /\ Current' = Decoded(body)
        /\ HbarsOK(hbars') /\ TokensOK(tokens') /\ NftsOK(nfts')
    BY <2>1, <2>2, SetLists
  <2>4. hbars' \in Seq(Hbar) /\ tokens' \in Seq(TokenTransfer) /\ nfts' \in Seq(Nft)
    BY <2>3 DEF HbarsOK, TokensOK, NftsOK
  <2>5. TransferTypeOK'
    BY <1>1, <2>4 DEF TransferTypeOK, TransferIInv
  <2>6. Moved' = Moved
    BY <1>1, <1>3 DEF Moved
  <2>7. torn' \/ Outcome(Moved') = asked'
    BY <1>1, <2>6 DEF TransferIInv
  <2>8. WellFormed(Current') /\ WellFormed(Decoded(body')) /\ GroupsOK(body')
    BY <1>1, <2>2, <2>3
  <2> QED BY <2>5, <2>7, <2>8 DEF TransferIInv
<1> QED BY <1>2, <1>3

\* What the constructor leaves.
LEMMA TransferInitially ==
    ASSUME TransferAssumption, TransferInit
    PROVE  TransferIInv
<1>1. /\ airdrop \in BOOLEAN /\ frozen = FALSE /\ calls \in 0..MaxCalls
  BY DEF TransferInit, TransferAssumption
<1>2. PICK p \in IF airdrop THEN AirdropProps ELSE Props :
         /\ hbars = FoldLeft(WithHbar, <<>>, p.hbars)
         /\ tokens = IF airdrop THEN FoldLeft(WithToken, <<>>, p.tokens) ELSE <<>>
         /\ nfts = IF airdrop THEN FoldLeft(WithNft, <<>>, p.nfts) ELSE <<>>
         /\ asked = Outcome(p)
         /\ torn = (~ airdrop /\ (p.tokens # <<>> \/ p.nfts # <<>>))
  BY DEF TransferInit
<1>3. p \in Props \cup AirdropProps
  BY <1>1, <1>2
<1>4. p.hbars \in Seq(Hbar) /\ p.tokens \in Seq(TokenTransfer) /\ p.nfts \in Seq(Nft)
  BY <1>3 DEF TransferAssumption
<1>5. HbarsOK(hbars) /\ \A a : HbarTotal(hbars, a) = HbarTotal(p.hbars, a)
  BY <1>2, <1>4, HbarsFolded
<1> DEFINE ts == FoldLeft(WithToken, <<>>, p.tokens)
    ns == FoldLeft(WithNft, <<>>, p.nfts)
<1>6. TokensOK(ts) /\ \A a : TokenTotal(ts, a) = TokenTotal(p.tokens, a)
  BY <1>4, TokensFolded
<1>7. /\ NftsOK(ns)
      /\ \A token, serial : Parties(ns, token, serial) = Parties(p.nfts, token, serial)
  BY <1>4, NftsFolded
<1>8. TokensOK(<<>>) /\ NftsOK(<<>>)
  <2>1. <<>> \in Seq(TokenTransfer) /\ <<>> \in Seq(Nft) /\ Len(<<>>) = 0
    OBVIOUS
  <2>2. \A i, j \in 1..Len(<<>>) : FALSE
    BY <2>1
  <2> QED BY <2>1, <2>2, TokensOnce, NftsOnce
<1> HIDE DEF ts, ns
<1>9. TokensOK(tokens) /\ NftsOK(nfts)
  BY <1>1, <1>2, <1>6, <1>7, <1>8 DEF ts, ns
<1>10. /\ Current.hbars = hbars /\ Current.tokens = tokens /\ Current.nfts = nfts
       /\ WellFormed(Current)
  BY <1>5, <1>9, WellFormedLists DEF Current
<1>11. torn \/ Outcome(Current) = asked
  <2>1. CASE airdrop
    <3>1. tokens = ts /\ nfts = ns
      BY <1>2, <2>1 DEF ts, ns
    <3> QED BY <1>2, <1>5, <1>6, <1>7, <1>10, <3>1, OutcomeOfSame
  <2>2. CASE ~ airdrop /\ ~ torn
    <3>1. p.tokens = <<>> /\ p.nfts = <<>> /\ tokens = <<>> /\ nfts = <<>>
      BY <1>2, <2>2
    <3> QED BY <1>2, <1>5, <1>10, <3>1, OutcomeOfSame
  <2> QED BY <1>1, <2>1, <2>2
<1>12. hbars \in Seq(Hbar) /\ tokens \in Seq(TokenTransfer) /\ nfts \in Seq(Nft)
  BY <1>5, <1>9 DEF HbarsOK, TokensOK, NftsOK
<1>13. torn \in BOOLEAN
  BY <1>2
<1>14. TransferTypeOK
  BY <1>1, <1>12, <1>13 DEF TransferTypeOK
<1>15. Moved = Current
  BY <1>1 DEF Moved
<1> QED BY <1>1, <1>10, <1>11, <1>14, <1>15 DEF TransferIInv

\* The inductive invariant holds in every reachable state.
LEMMA TransferInvariance ==
    ASSUME TransferAssumption
    PROVE  TransferSpec => []TransferIInv
<1>1. TransferInit => TransferIInv
  BY TransferInitially
<1>2. TransferIInv /\ [TransferNext]_transferVars => TransferIInv'
  <2> SUFFICES ASSUME TransferIInv, [TransferNext]_transferVars
               PROVE  TransferIInv'
    OBVIOUS
  <2>1. CASE TransferNext
    <3>1. calls' \in 0..MaxCalls
      <4>1. calls \in 0..MaxCalls /\ MaxCalls \in Nat
        BY DEF TransferIInv, TransferTypeOK, TransferAssumption
      <4>2. calls < MaxCalls /\ calls' = calls + 1
        BY <2>1 DEF TransferNext
      <4> QED BY <4>1, <4>2
    <3>2. ASSUME NEW h \in HbarsAdded, AddHbarTransfer(h) PROVE TransferIInv'
      BY <3>1, <3>2, InputTypes, HbarStep
    <3>3. ASSUME NEW t \in TokensAdded, AddTokenTransfer(t) PROVE TransferIInv'
      BY <3>1, <3>3, InputTypes, TokenStep
    <3>4. ASSUME NEW t \in TokensAdded, AddTokenTransferWithDecimals(t)
          PROVE  TransferIInv'
      BY <3>1, <3>4, InputTypes, DecimalsStep
    <3>5. ASSUME NEW n \in NftsAdded, AddNftTransfer(n) PROVE TransferIInv'
      BY <3>1, <3>5, InputTypes, NftStep
    <3>6. ASSUME NEW approved \in Approvals, SetApproval(approved) PROVE TransferIInv'
      BY <3>1, <3>6, InputTypes, ApprovalStep
    <3>7. CASE Freeze
      BY <3>1, <3>7, FreezeStep
    <3>8. CASE Reload
      BY <3>1, <3>8, ReloadStep
    <3> QED BY <2>1, <3>2, <3>3, <3>4, <3>5, <3>6, <3>7, <3>8 DEF TransferNext
  <2>2. CASE UNCHANGED transferVars
    <3>1. /\ hbars' = hbars /\ tokens' = tokens /\ nfts' = nfts /\ calls' = calls
          /\ UNCHANGED <<airdrop, frozen, body, asked, torn>>
      BY <2>2 DEF transferVars, lists
    <3>2. Current' = Current /\ Moved' = Moved
      BY <3>1 DEF Current, Moved
    <3>3. TransferTypeOK'
      BY <3>1 DEF TransferTypeOK, TransferIInv
    <3> QED BY <3>1, <3>2, <3>3 DEF TransferIInv
  <2> QED BY <2>1, <2>2
<1> QED BY <1>1, <1>2, PTL DEF TransferSpec

\* What is sent, or would be: TransferIInv of a frozen body, the round trip of
\* one that would be made now.
LEMMA DataIsWellFormed ==
    ASSUME TransferAssumption, TransferIInv
    PROVE  /\ WellFormed(Decoded(Data)) /\ GroupsOK(Data)
           /\ torn \/ Outcome(Decoded(Data)) = asked
<1>1. CASE frozen
  <2>1. Data = body /\ Moved = Decoded(body)
    BY <1>1 DEF Data, Moved
  <2> QED BY <1>1, <2>1 DEF TransferIInv
<1>2. CASE ~ frozen
  <2>1. Data = DataOf(SortedOf(Current)) /\ Decoded(Data) = Reread(Current)
    BY <1>2 DEF Data, SortedLists, Reread
  <2>2. /\ WellFormed(Reread(Current)) /\ Outcome(Reread(Current)) = Outcome(Current)
        /\ GroupsOK(DataOf(SortedOf(Current)))
    BY SortedRoundTrip DEF TransferIInv
  <2>3. torn \/ Outcome(Current) = asked
    BY <1>2, Unfrozen
  <2> QED BY <2>1, <2>2, <2>3
<1> QED BY <1>1, <1>2

\* The round trip of the current lists.
LEMMA RereadIsSame ==
    ASSUME TransferAssumption, TransferIInv
    PROVE  DecodedIsSame
<1> DEFINE r == Decoded(DataOf(SortedLists))
<1>1. SameOutcome(r, Current) /\ KeepsDecimals(Current, r)
  BY SortedRoundTrip DEF TransferIInv, SortedLists, Reread
<1> HIDE DEF r
<1>2. Current.hbars = hbars /\ Current.tokens = tokens /\ Current.nfts = nfts
  BY DEF Current
<1>3. /\ Range(r.hbars) = Range(hbars) /\ Range(r.nfts) = Range(nfts)
      /\ WithoutDecimals(r.tokens) = WithoutDecimals(tokens)
  BY <1>1, <1>2 DEF SameOutcome
<1>4. \A t \in Range(tokens) :
         /\ t.decimals # 0
         /\ \A u \in Range(tokens) : u.token = t.token => u.decimals = t.decimals
         /\ \A n \in Range(nfts) : n.token # t.token
         => t \in Range(r.tokens)
  BY <1>1, <1>2 DEF KeepsDecimals
<1> QED BY <1>3, <1>4 DEF DecodedIsSame, r

-----------------------------------------------------------------------------
(* Theorems about transfers *)

\* The lists that the application's calls leave, and those their bytes are read
\* as, hold no account, token of an account or NFT twice; and what is read is
\* what was there, for any accounts, tokens, amounts and number of calls.
THEOREM TransferCorrect == TransferSpec => []TransferInv
<1>1. TransferIInv => TransferInv
  <2> SUFFICES ASSUME TransferIInv PROVE TransferInv
    OBVIOUS
  <2>1. WellFormed(Current) /\ WellFormed(Decoded(Data)) /\ TransferTypeOK
    BY TransferAssumption, DataIsWellFormed DEF TransferIInv
  <2>2. EachOnce(Current) /\ EachOnce(Decoded(Data))
    BY <2>1, WellFormedIff DEF WellFormed
  <2> QED BY <2>1, <2>2, TransferAssumption, RereadIsSame DEF TransferInv
<1>2. TransferSpec => []TransferIInv
  BY TransferAssumption, TransferInvariance
<1> QED BY <1>1, <1>2, PTL

\* The body moves exactly what was asked for, in groups of one token each: for
\* any sequence of adding, approving, freezing and reading bytes, unless a call
\* has thrown half-way or the constructor has dropped what it was given.
THEOREM BodyCorrect == TransferSpec => []BodyMovesWhatIsAsked
<1>1. TransferIInv => BodyMovesWhatIsAsked
  BY TransferAssumption, DataIsWellFormed DEF BodyMovesWhatIsAsked, GroupsOK
<1>2. TransferSpec => []TransferIInv
  BY TransferAssumption, TransferInvariance
<1> QED BY <1>1, <1>2, PTL

-----------------------------------------------------------------------------
(* ContractCreateFlow: the inductive invariant *)

IsWhole(f) == f \in DOMAIN files /\ files[f].length = length

\* A call that has a file knows it; from `naming' on the file is whole.
FilesAreKnown ==
    \A c \in Call :
        /\ call[c].at = "appending" => call[c].file \in DOMAIN files
        /\ call[c].at \notin {"new", "appending", "rejected"} =>
              IsWhole(call[c].file)

\* The file that the contract transaction names is whole. Frozen, it has one ID
\* that is locked, unless it is signed on demand.
TransactionIsReady ==
    /\ withSigner => ~ onDemand
    /\ contractCreate.file # 0 => IsWhole(contractCreate.file)
    /\ contractCreate.frozen =>
          /\ contractCreate.file # 0 /\ contractCreate.id # 0
          /\ ~ onDemand => contractCreate.id = 1 /\ contractCreate.locked
    /\ ~ contractCreate.frozen => contractCreate.id = 0
    /\ \A c \in Call :
          /\ call[c].at = "populating" => contractCreate.file # 0 /\ withSigner
          /\ call[c].at \in {"executing", "receipt", "deleting", "resolved"} =>
                contractCreate.frozen

\* What the network has seen is the frozen transaction with one of its IDs,
\* and each ID makes one contract.
AcceptedIsFrozen ==
    /\ accepted \subseteq 1..contractCreate.id
    /\ \A i \in DOMAIN contracts :
          contracts[i].length = length /\ contracts[i].id \in accepted
    /\ \A i, j \in DOMAIN contracts : contracts[i].id = contracts[j].id => i = j

\* Files are deleted when there is a contract, by the calls that resolve.
DeletedLast ==
    /\ \A f \in DOMAIN files : files[f].deleted => contracts # <<>>
    /\ \A c \in Call :
          /\ call[c].at \in {"deleting", "resolved"} => contracts # <<>>
          /\ call[c].at = "resolved" => files[call[c].file].deleted

IInv ==
    /\ TypeOK /\ FilesAreKnown /\ TransactionIsReady
    /\ AcceptedIsFrozen /\ DeletedLast

-----------------------------------------------------------------------------
(* ContractCreateFlow: initial state and steps *)

LEMMA ConstantFacts ==
    /\ \A l \in Lengths : l \in Nat
    /\ FirstPart \in Nat /\ ChunkSize \in Nat /\ None \notin Nat
    /\ MaxIds \in Nat \ {0}
BY FlowAssumption DEF FlowAssumption

LEMMA LeastFacts ==
    ASSUME NEW a \in Nat, NEW b \in Nat
    PROVE  Least(a, b) \in Nat /\ Least(a, b) <= a /\ (a <= b => Least(a, b) = a)
BY DEF Least

LEMMA FrozenFacts ==
    ASSUME NEW t,
           t \in [file : 0..Len(files), frozen : BOOLEAN, locked : BOOLEAN,
                  id : 0..MaxIds]
    PROVE  /\ Frozen(t) \in [file : 0..Len(files), frozen : BOOLEAN, locked : BOOLEAN,
                             id : 0..MaxIds]
           /\ Frozen(t).file = t.file /\ Frozen(t).frozen = TRUE /\ Frozen(t).id = 1
           /\ ~ onDemand => Frozen(t).locked = TRUE
<1> DEFINE u == [t EXCEPT !.frozen = TRUE]
           v == [u EXCEPT !.id = 1]
<1>1. /\ u \in [file : 0..Len(files), frozen : BOOLEAN, locked : BOOLEAN, id : 0..MaxIds]
      /\ u.file = t.file /\ u.frozen = TRUE
  OBVIOUS
<1>2. Frozen(t) = [v EXCEPT !.locked = ~ onDemand]
  BY DEF Frozen
<1>3. 1 \in 0..MaxIds
  BY ConstantFacts
<1> HIDE DEF u
<1>4. /\ v \in [file : 0..Len(files), frozen : BOOLEAN, locked : BOOLEAN, id : 0..MaxIds]
      /\ v.file = t.file /\ v.frozen = TRUE /\ v.id = 1
  BY <1>1, <1>3
<1> HIDE DEF v
<1>5. QED
  BY <1>2, <1>4

LEMMA ToKeeps ==
    ASSUME NEW c \in Call, TypeOK,
           NEW at \in {"new", "appending", "naming", "populating", "executing",
                       "receipt", "deleting", "resolved", "rejected"},
           To(c, at)
    PROVE  call' \in [Call -> [at : {"new", "appending", "naming", "populating",
                                    "executing", "receipt", "deleting", "resolved",
                                    "rejected"},
                              file : 0..Len(files)]]
BY DEF TypeOK, To

LEMMA InitInv == Init => IInv
<1> SUFFICES ASSUME Init PROVE IInv
  OBVIOUS
<1>1. TypeOK
  BY ConstantFacts DEF Init, TypeOK, New
<1>2. FilesAreKnown /\ TransactionIsReady
  BY DEF Init, FilesAreKnown, TransactionIsReady, New
<1>3. AcceptedIsFrozen /\ DeletedLast
  BY DEF Init, AcceptedIsFrozen, DeletedLast, New
<1>4. QED
  BY <1>1, <1>2, <1>3 DEF IInv

LEMMA CreateFileInv ==
    ASSUME IInv, UNCHANGED flowVars, NEW c \in Call, NEW seen \in BOOLEAN,
           CreateFile(c, seen)
    PROVE  IInv'
<1> USE DEF IInv, flowVars
<1> DEFINE f == [length |-> Least(length, FirstPart), deleted |-> FALSE]
<1>1. length \in Nat /\ files \in Seq(File) /\ f \in File
  BY ConstantFacts, LeastFacts DEF TypeOK, File
<1>2. files' = Append(files, f)
  BY DEF CreateFile, FirstContents
<1>3. /\ files' \in Seq(File) /\ Len(files') = Len(files) + 1
      /\ \A i \in 1..Len(files) : files'[i] = files[i]
      /\ files'[Len(files) + 1] = f
  BY <1>1, <1>2, AppendProperties
<1>4. /\ DOMAIN files = 1..Len(files) /\ DOMAIN files' = 1..Len(files')
      /\ Len(files) \in Nat
  BY <1>1, <1>3, LenProperties
<1>5. ~ NeedsAppend => f.length = length
  BY <1>1, ConstantFacts, LeastFacts DEF NeedsAppend
<1> HIDE DEF f
<1>6. TypeOK'
  BY <1>3, <1>4 DEF TypeOK, CreateFile, AfterFile
<1>7. FilesAreKnown'
  BY <1>3, <1>4, <1>5 DEF FilesAreKnown, TypeOK, CreateFile, AfterFile, IsWhole
<1>8. TransactionIsReady'
  BY <1>3, <1>4 DEF TransactionIsReady, TypeOK, CreateFile, AfterFile, IsWhole
<1>9. AcceptedIsFrozen'
  BY DEF AcceptedIsFrozen, CreateFile
<1>10. DeletedLast'
  <2>1. \A i \in DOMAIN files' : files'[i].deleted => contracts' # <<>>
    BY <1>3, <1>4 DEF DeletedLast, CreateFile, f
  <2>2. \A d \in Call : call'[d].at \in {"deleting", "resolved"} =>
            d # c /\ call'[d] = call[d]
    BY DEF TypeOK, CreateFile, AfterFile
  <2>3. QED
    BY <1>3, <1>4, <2>1, <2>2 DEF DeletedLast, FilesAreKnown, IsWhole, CreateFile
<1>11. QED
  BY <1>6, <1>7, <1>8, <1>9, <1>10

LEMMA RenewFileInv ==
    ASSUME IInv, UNCHANGED flowVars, NEW c \in Call, RenewFile(c)
    PROVE  IInv'
<1> USE DEF IInv, flowVars
<1> DEFINE f == [length |-> Least(length, FirstPart), deleted |-> FALSE]
<1>1. length \in Nat /\ files \in Seq(File) /\ f \in File
  BY ConstantFacts, LeastFacts DEF TypeOK, File
<1>2. files' = Append(files, f)
  BY DEF RenewFile, FirstContents
<1>3. /\ files' \in Seq(File) /\ Len(files') = Len(files) + 1
      /\ \A i \in 1..Len(files) : files'[i] = files[i]
      /\ files'[Len(files) + 1] = f
  BY <1>1, <1>2, AppendProperties
<1>4. /\ DOMAIN files = 1..Len(files) /\ DOMAIN files' = 1..Len(files')
      /\ Len(files) \in Nat
  BY <1>1, <1>3, LenProperties
<1>5. f.deleted = FALSE
  OBVIOUS
<1> HIDE DEF f
<1>6. UNCHANGED <<contractCreate, call, accepted, contracts>>
  BY DEF RenewFile
<1>7. \A i : IsWhole(i) => IsWhole(i)'
  BY <1>3, <1>4 DEF IsWhole
<1>8. TypeOK'
  BY <1>3, <1>4, <1>6 DEF TypeOK
<1>9. FilesAreKnown'
  BY <1>3, <1>4, <1>6, <1>7 DEF FilesAreKnown
<1>10. TransactionIsReady'
  BY <1>6, <1>7 DEF TransactionIsReady
<1>11. AcceptedIsFrozen'
  BY <1>6 DEF AcceptedIsFrozen
<1>12. DeletedLast'
  BY <1>3, <1>4, <1>5, <1>6 DEF DeletedLast, FilesAreKnown, IsWhole
<1>13. QED
  BY <1>8, <1>9, <1>10, <1>11, <1>12

LEMMA AppendChunkInv ==
    ASSUME IInv, UNCHANGED flowVars, NEW c \in Call, NEW seen \in BOOLEAN,
           AppendChunk(c, seen)
    PROVE  IInv'
<1> USE DEF IInv, flowVars
<1> DEFINE file == call[c].file
           size == Least(length, files[file].length + ChunkSize)
<1>1. file \in DOMAIN files /\ call[c].at = "appending"
  BY DEF AppendChunk, FilesAreKnown
<1> HIDE DEF file
<1>2. length \in Nat /\ files[file] \in File
  BY <1>1, ConstantFacts DEF TypeOK
<1>3. files[file].length \in Nat /\ files[file].length + ChunkSize \in Nat
  BY <1>2, ConstantFacts DEF File
<1>4. size \in Nat /\ (files[file].length = length => size = length)
  BY <1>2, <1>3, ConstantFacts DEF Least
<1> HIDE DEF size
<1> DEFINE appended == [files[file] EXCEPT !.length = size]
<1>5. files' = [files EXCEPT ![file] = appended]
  BY DEF AppendChunk, file, size
<1>6. appended \in File /\ appended.length = size
      /\ appended.deleted = files[file].deleted
  BY <1>2, <1>4 DEF File
<1> HIDE DEF appended
<1>7. /\ files' \in Seq(File) /\ DOMAIN files' = DOMAIN files
      /\ Len(files') = Len(files)
      /\ \A i \in DOMAIN files : files'[i].deleted = files[i].deleted
      /\ \A i \in DOMAIN files : i # file => files'[i] = files[i]
      /\ files'[file].length = size
  BY <1>1, <1>5, <1>6, ExceptSeq DEF TypeOK
<1>8. \A i : IsWhole(i) => IsWhole(i)'
  BY <1>1, <1>2, <1>4, <1>7 DEF IsWhole
<1>9. TypeOK'
  <2>1. call' \in [Call -> [at : {"new", "appending", "naming", "populating",
                                 "executing", "receipt", "deleting", "resolved",
                                 "rejected"},
                           file : 0..Len(files)]]
    BY DEF TypeOK, AppendChunk, To
  <2>2. UNCHANGED <<length, maxChunks, withSigner, onDemand, contractCreate,
                    accepted, contracts>>
    BY DEF AppendChunk
  <2>3. QED
    BY <1>7, <2>1, <2>2 DEF TypeOK
<1>10. FilesAreKnown'
  BY <1>1, <1>2, <1>7, <1>8
     DEF FilesAreKnown, TypeOK, AppendChunk, To, IsWhole, size, file
<1>11. TransactionIsReady'
  BY <1>8 DEF TransactionIsReady, TypeOK, AppendChunk, To
<1>12. AcceptedIsFrozen'
  BY DEF AcceptedIsFrozen, AppendChunk
<1>13. DeletedLast'
  BY <1>7 DEF DeletedLast, FilesAreKnown, IsWhole, TypeOK, AppendChunk, To
<1>14. QED
  BY <1>9, <1>10, <1>11, <1>12, <1>13

LEMMA NameFileInv ==
    ASSUME IInv, UNCHANGED flowVars, NEW c \in Call, NameFile(c)
    PROVE  IInv'
<1> USE DEF IInv, flowVars
<1>1. call[c].at = "naming" /\ IsWhole(call[c].file) /\ UNCHANGED files
  BY DEF NameFile, FilesAreKnown, networkVars
<1>2. call[c].file # 0
  BY <1>1, LenProperties DEF IsWhole, TypeOK
<1> DEFINE t == [contractCreate EXCEPT !.file = call[c].file]
<1>3. /\ t \in [file : 0..Len(files), frozen : BOOLEAN,
         locked : BOOLEAN, id : 0..MaxIds]
      /\ t.file = call[c].file /\ t.frozen = contractCreate.frozen
      /\ t.id = contractCreate.id
  BY DEF TypeOK
<1>4. \/ To(c, "rejected") /\ contractCreate' = contractCreate
      \/ /\ To(c, "populating") /\ contractCreate' = t
         /\ ~ contractCreate.frozen /\ withSigner
      \/ To(c, "executing") /\ contractCreate' = Frozen(t) /\ ~ contractCreate.frozen
  BY DEF NameFile
<1> HIDE DEF t
<1>5. /\ contractCreate' \in [file : 0..Len(files), frozen : BOOLEAN,
         locked : BOOLEAN, id : 0..MaxIds]
      /\ contractCreate'.file \in {contractCreate.file, call[c].file}
      /\ contractCreate'.frozen =>
            \/ contractCreate.frozen
            \/ /\ contractCreate'.id = 1
               /\ ~ onDemand => contractCreate'.locked
               /\ contractCreate'.file = call[c].file
      /\ contractCreate.frozen => contractCreate' = contractCreate
      /\ ~ contractCreate'.frozen =>
            contractCreate'.id = contractCreate.id /\ ~ contractCreate.frozen
      /\ call'[c].at = "executing" => contractCreate'.frozen
      /\ call'[c].at = "populating" =>
            contractCreate'.file = call[c].file /\ withSigner
  <2>1. contractCreate \in [file : 0..Len(files), frozen : BOOLEAN,
         locked : BOOLEAN, id : 0..MaxIds]
        /\ call[c] \in [at : {"new", "appending", "naming", "populating",
                             "executing", "receipt", "deleting", "resolved",
                             "rejected"}, file : 0..Len(files)]
        /\ c \in DOMAIN call /\ onDemand \in BOOLEAN
    BY DEF TypeOK
  <2>2. \A at : To(c, at) => call'[c].at = at
    BY <2>1 DEF To
  <2>3. CASE contractCreate' = contractCreate /\ To(c, "rejected")
    <3>1. call'[c].at = "rejected"
      BY <2>2, <2>3
    <3>2. QED
      BY <2>1, <2>3, <3>1
  <2>4. CASE /\ contractCreate' = t /\ ~ contractCreate.frozen /\ withSigner
             /\ To(c, "populating")
    <3>1. call'[c].at = "populating"
      BY <2>2, <2>4
    <3>2. QED
      BY <1>3, <2>1, <2>4, <3>1
  <2>5. CASE /\ contractCreate' = Frozen(t) /\ ~ contractCreate.frozen
             /\ To(c, "executing")
    <3>1. call'[c].at = "executing"
      BY <2>2, <2>5
    <3>2. /\ contractCreate' \in [file : 0..Len(files), frozen : BOOLEAN,
                                  locked : BOOLEAN, id : 0..MaxIds]
          /\ contractCreate'.file = call[c].file /\ contractCreate'.frozen
          /\ contractCreate'.id = 1 /\ (~ onDemand => contractCreate'.locked)
      <4>1. /\ Frozen(t) \in [file : 0..Len(files), frozen : BOOLEAN,
                              locked : BOOLEAN, id : 0..MaxIds]
            /\ Frozen(t).file = t.file /\ Frozen(t).frozen = TRUE
            /\ Frozen(t).id = 1 /\ (~ onDemand => Frozen(t).locked = TRUE)
        BY <1>3, <2>1, FrozenFacts
      <4>2. QED
        BY <1>3, <2>5, <4>1
    <3>3. QED
      BY <2>5, <3>1, <3>2
  <2>6. QED
    BY <1>4, <2>3, <2>4, <2>5
<1>6. /\ call'[c].at \in {"rejected", "populating", "executing"}
      /\ call'[c].file = call[c].file
      /\ \A d \in Call \ {c} : call'[d] = call[d]
      /\ call' \in [Call -> [at : {"new", "appending", "naming", "populating",
                                  "executing", "receipt", "deleting", "resolved",
                                  "rejected"},
                            file : 0..Len(files)]]
  <2>1. PICK at \in {"rejected", "populating", "executing"} :
            call' = [call EXCEPT ![c].at = at]
    BY <1>4 DEF To
  <2>2. QED
    BY <2>1 DEF TypeOK
<1>7. TypeOK'
  BY <1>5, <1>6 DEF TypeOK, NameFile, networkVars
<1>8. FilesAreKnown'
  BY <1>1, <1>6 DEF FilesAreKnown, IsWhole
<1>9. TransactionIsReady'
  BY <1>1, <1>2, <1>5, <1>6 DEF TransactionIsReady, IsWhole
<1>10. AcceptedIsFrozen'
  <2>1. UNCHANGED <<accepted, contracts>>
    BY DEF NameFile, networkVars
  <2>2. accepted' \subseteq 1..contractCreate'.id
    <3>1. CASE contractCreate.frozen
      BY <1>5, <2>1, <3>1 DEF AcceptedIsFrozen
    <3>2. CASE ~ contractCreate.frozen
      <4>1. accepted = {}
        BY <3>2 DEF AcceptedIsFrozen, TransactionIsReady
      <4>2. QED
        BY <2>1, <4>1
    <3>3. QED
      BY <3>1, <3>2
  <2>3. QED
    BY <2>1, <2>2 DEF AcceptedIsFrozen
<1>11. DeletedLast'
  BY <1>1, <1>6 DEF DeletedLast, NameFile, networkVars
<1>12. QED
  BY <1>7, <1>8, <1>9, <1>10, <1>11

LEMMA PopulatedInv ==
    ASSUME IInv, UNCHANGED flowVars, NEW c \in Call, Populated(c)
    PROVE  IInv'
<1> USE DEF IInv, flowVars
<1>1. /\ contractCreate' \in [file : 0..Len(files), frozen : BOOLEAN,
         locked : BOOLEAN, id : 0..MaxIds]
      /\ contractCreate'.file = contractCreate.file
      /\ contractCreate'.frozen /\ contractCreate'.id = 1
      /\ contractCreate'.locked
  <2>1. /\ onDemand \in BOOLEAN /\ ~ onDemand
        /\ contractCreate \in [file : 0..Len(files), frozen : BOOLEAN,
                               locked : BOOLEAN, id : 0..MaxIds]
    BY DEF TypeOK, Populated, TransactionIsReady
  <2>2. contractCreate' = Frozen(contractCreate)
    BY DEF Populated
  <2>3. /\ Frozen(contractCreate) \in [file : 0..Len(files), frozen : BOOLEAN,
                                       locked : BOOLEAN, id : 0..MaxIds]
        /\ Frozen(contractCreate).file = contractCreate.file
        /\ Frozen(contractCreate).frozen = TRUE
        /\ Frozen(contractCreate).id = 1
        /\ ~ onDemand => Frozen(contractCreate).locked = TRUE
    BY <2>1, FrozenFacts
  <2>4. QED
    BY <2>1, <2>2, <2>3
<1>2. TypeOK'
  BY <1>1 DEF TypeOK, Populated, To, networkVars
<1>3. FilesAreKnown'
  BY DEF FilesAreKnown, TypeOK, IsWhole, Populated, To, networkVars
<1>4. TransactionIsReady'
  BY <1>1 DEF TransactionIsReady, TypeOK, IsWhole, Populated, To, networkVars
<1>5. AcceptedIsFrozen'
  BY <1>1 DEF AcceptedIsFrozen, TransactionIsReady, TypeOK,
                Populated, To, networkVars
<1>6. DeletedLast'
  BY DEF DeletedLast, TypeOK, Populated, To, networkVars
<1>7. QED
  BY <1>2, <1>3, <1>4, <1>5, <1>6

LEMMA ExecuteContractInv ==
    ASSUME IInv, UNCHANGED flowVars, NEW c \in Call, NEW seen \in BOOLEAN,
           ExecuteContract(c, seen)
    PROVE  IInv'
<1> USE DEF IInv, flowVars
<1>1. /\ contractCreate.frozen
      /\ contractCreate \in [file : 0..Len(files), frozen : BOOLEAN,
                             locked : BOOLEAN, id : 0..MaxIds]
      /\ contractCreate.id \in 1..MaxIds
  BY ConstantFacts DEF ExecuteContract, TransactionIsReady, TypeOK
<1>2. contractCreate' = [contractCreate EXCEPT !.locked = @ \/ seen]
  BY DEF ExecuteContract
<1>3. /\ contractCreate' \in [file : 0..Len(files), frozen : BOOLEAN,
                              locked : BOOLEAN, id : 0..MaxIds]
      /\ contractCreate'.file = contractCreate.file
      /\ contractCreate'.frozen /\ contractCreate'.id = contractCreate.id
      /\ contractCreate.locked => contractCreate'.locked
  BY <1>1, <1>2
<1>4. accepted' = accepted \cup {contractCreate.id} /\ UNCHANGED <<files, contracts>>
  BY DEF ExecuteContract
<1>5. accepted' \subseteq 1..contractCreate'.id /\ accepted' \subseteq 1..MaxIds
  <2>1. accepted \subseteq 1..contractCreate.id /\ accepted \subseteq 1..MaxIds
    BY DEF AcceptedIsFrozen, TypeOK
  <2>2. contractCreate.id \in 1..contractCreate.id
    BY <1>1, ConstantFacts
  <2>3. QED
    BY <1>1, <1>3, <1>4, <2>1, <2>2
<1>6. TypeOK'
  <2>1. call' \in [Call -> [at : {"new", "appending", "naming", "populating",
                                 "executing", "receipt", "deleting", "resolved",
                                 "rejected"},
                           file : 0..Len(files)]]
    BY DEF TypeOK, ExecuteContract, To, AfterExecution
  <2>2. QED
    BY <1>3, <1>4, <1>5, <2>1 DEF TypeOK
<1>7. FilesAreKnown'
  BY DEF FilesAreKnown, TypeOK, IsWhole, ExecuteContract, To, AfterExecution
<1>8. TransactionIsReady'
  <2>1. \A d \in Call :
            /\ call'[d].at = "populating" => call[d].at = "populating"
            /\ call'[d].at \in {"executing", "receipt", "deleting", "resolved"} =>
                  d = c \/ call'[d] = call[d]
    BY DEF TypeOK, ExecuteContract, To, AfterExecution
  <2>2. QED
    BY <1>1, <1>3, <1>4, <2>1 DEF TransactionIsReady, IsWhole
<1>9. AcceptedIsFrozen'
  BY <1>4, <1>5 DEF AcceptedIsFrozen
<1>10. DeletedLast'
  BY DEF DeletedLast, TypeOK, ExecuteContract, To, AfterExecution
<1>11. QED
  BY <1>6, <1>7, <1>8, <1>9, <1>10

LEMMA ExpireInv ==
    ASSUME IInv, UNCHANGED flowVars, NEW c \in Call, Expire(c)
    PROVE  IInv'
<1> USE DEF IInv, flowVars
<1>1. /\ contractCreate.frozen /\ ~ contractCreate.locked
      /\ contractCreate \in [file : 0..Len(files), frozen : BOOLEAN,
                             locked : BOOLEAN, id : 0..MaxIds]
      /\ contractCreate.id \in Nat /\ contractCreate.id + 1 \in 1..MaxIds
  BY ConstantFacts DEF Expire, MayRenew, TransactionIsReady, TypeOK
<1>2. onDemand
  BY <1>1 DEF TransactionIsReady
<1>3. contractCreate' = [contractCreate EXCEPT !.id = contractCreate.id + 1]
  BY DEF Expire
<1>4. /\ contractCreate' \in [file : 0..Len(files), frozen : BOOLEAN,
                              locked : BOOLEAN, id : 0..MaxIds]
      /\ contractCreate'.file = contractCreate.file
      /\ contractCreate'.frozen /\ contractCreate'.id = contractCreate.id + 1
  BY <1>1, <1>3
<1>5. UNCHANGED <<call, files, accepted, contracts>>
  BY DEF Expire, networkVars
<1>6. accepted' \subseteq 1..contractCreate'.id
  BY <1>1, <1>4, <1>5 DEF AcceptedIsFrozen
<1>7. TypeOK'
  BY <1>4, <1>5 DEF TypeOK
<1>8. FilesAreKnown'
  BY <1>5 DEF FilesAreKnown, IsWhole
<1>9. TransactionIsReady'
  BY <1>1, <1>2, <1>4, <1>5 DEF TransactionIsReady, IsWhole
<1>10. AcceptedIsFrozen'
  BY <1>5, <1>6 DEF AcceptedIsFrozen
<1>11. DeletedLast'
  BY <1>5 DEF DeletedLast
<1>12. QED
  BY <1>7, <1>8, <1>9, <1>10, <1>11

LEMMA CreateContractInv ==
    ASSUME IInv, UNCHANGED flowVars, NEW id \in accepted, CreateContract(id)
    PROVE  IInv'
<1> USE DEF IInv, flowVars
<1> DEFINE k == [id |-> id, length |-> length]
<1>1. id \in Nat /\ contractCreate.frozen
  <2>1. id \in 1..contractCreate.id /\ id \in 1..MaxIds
    BY DEF AcceptedIsFrozen, TypeOK
  <2>2. contractCreate.id # 0
    BY <2>1
  <2>3. QED
    BY <2>1, <2>2 DEF TransactionIsReady
<1>2. files[contractCreate.file].length = length
  BY <1>1 DEF TransactionIsReady, IsWhole
<1>3. contracts' = Append(contracts, k)
  BY <1>2 DEF CreateContract
<1>4. contracts \in Seq([id : Nat, length : Nat]) /\ k \in [id : Nat, length : Nat]
  BY <1>1, ConstantFacts DEF TypeOK
<1>5. k.id = id /\ k.length = length
  OBVIOUS
<1> HIDE DEF k
<1>6. /\ contracts' \in Seq([id : Nat, length : Nat])
      /\ Len(contracts') = Len(contracts) + 1
      /\ \A i \in 1..Len(contracts) : contracts'[i] = contracts[i]
      /\ contracts'[Len(contracts) + 1] = k
  BY <1>3, <1>4, AppendProperties
<1>7. /\ DOMAIN contracts = 1..Len(contracts) /\ DOMAIN contracts' = 1..Len(contracts')
      /\ Len(contracts) \in Nat
  BY <1>4, <1>6, LenProperties
<1>8. contracts' # <<>>
  BY <1>6, <1>7, EmptySeq
<1>9. \A i \in DOMAIN contracts : contracts[i].id # id
  BY DEF CreateContract, Range
<1>10. UNCHANGED <<contractCreate, call, files, accepted>>
  BY DEF CreateContract
<1>11. TypeOK'
  BY <1>6, <1>10 DEF TypeOK
<1>12. FilesAreKnown'
  BY <1>10 DEF FilesAreKnown, IsWhole
<1>13. TransactionIsReady'
  BY <1>10 DEF TransactionIsReady, IsWhole
<1>14. AcceptedIsFrozen'
  <2>1. \A i \in DOMAIN contracts' :
            \/ i \in DOMAIN contracts /\ contracts'[i] = contracts[i]
            \/ i = Len(contracts) + 1 /\ contracts'[i] = k
    BY <1>6, <1>7
  <2>2. \A i \in DOMAIN contracts' :
            contracts'[i].length = length' /\ contracts'[i].id \in accepted'
    BY <1>5, <1>10, <2>1 DEF AcceptedIsFrozen
  <2>3. \A i, j \in DOMAIN contracts' :
            contracts'[i].id = contracts'[j].id => i = j
    BY <1>5, <1>9, <2>1 DEF AcceptedIsFrozen
  <2>4. QED
    BY <1>10, <2>2, <2>3 DEF AcceptedIsFrozen
<1>15. DeletedLast'
  BY <1>8, <1>10 DEF DeletedLast
<1>16. QED
  BY <1>11, <1>12, <1>13, <1>14, <1>15

LEMMA ReceiptInv ==
    ASSUME IInv, UNCHANGED flowVars, NEW c \in Call, Receipt(c)
    PROVE  IInv'
<1> USE DEF IInv, flowVars
<1>1. contracts # <<>>
  <2>1. ASSUME contracts = <<>> PROVE FALSE
    BY <2>1, EmptySeq DEF Receipt, Range
  <2>2. QED
    BY <2>1
<1>2. TypeOK'
  <2>1. call' \in [Call -> [at : {"new", "appending", "naming", "populating",
                                 "executing", "receipt", "deleting", "resolved",
                                 "rejected"},
                           file : 0..Len(files)]]
    BY ToKeeps DEF Receipt
  <2>2. UNCHANGED <<length, maxChunks, withSigner, onDemand, contractCreate,
                    files, accepted, contracts>>
    BY DEF Receipt, networkVars
  <2>3. QED
    BY <2>1, <2>2 DEF TypeOK
<1>3. FilesAreKnown'
  BY DEF FilesAreKnown, TypeOK, IsWhole, Receipt, To, networkVars
<1>4. TransactionIsReady'
  BY DEF TransactionIsReady, TypeOK, IsWhole, Receipt, To, networkVars
<1>5. AcceptedIsFrozen'
  BY DEF AcceptedIsFrozen, Receipt, networkVars
<1>6. DeletedLast'
  BY <1>1 DEF DeletedLast, TypeOK, Receipt, To, networkVars
<1>7. QED
  BY <1>2, <1>3, <1>4, <1>5, <1>6

LEMMA DeleteFileInv ==
    ASSUME IInv, UNCHANGED flowVars, NEW c \in Call, NEW seen \in BOOLEAN,
           DeleteFile(c, seen)
    PROVE  IInv'
<1> USE DEF IInv, flowVars
<1> DEFINE file == call[c].file
           gone == [files[file] EXCEPT !.deleted = TRUE]
<1>1. file \in DOMAIN files /\ call[c].at = "deleting" /\ contracts # <<>>
  BY DEF DeleteFile, FilesAreKnown, DeletedLast, IsWhole
<1>2. files' = [files EXCEPT ![file] = gone]
  BY DEF DeleteFile
<1> HIDE DEF file
<1>3. gone \in File /\ gone.length = files[file].length /\ gone.deleted
  <2>1. files[file] \in File
    BY <1>1 DEF TypeOK
  <2>2. QED
    BY <2>1 DEF File
<1> HIDE DEF gone
<1>4. /\ files' \in Seq(File) /\ DOMAIN files' = DOMAIN files
      /\ Len(files') = Len(files)
      /\ \A i \in DOMAIN files : i # file => files'[i] = files[i]
      /\ files'[file] = gone
  BY <1>1, <1>2, <1>3, ExceptSeq DEF TypeOK
<1>5. \A i : IsWhole(i) => IsWhole(i)'
  BY <1>1, <1>3, <1>4 DEF IsWhole
<1>6. TypeOK'
  <2>1. call' \in [Call -> [at : {"new", "appending", "naming", "populating",
                                 "executing", "receipt", "deleting", "resolved",
                                 "rejected"},
                           file : 0..Len(files)]]
    BY DEF TypeOK, DeleteFile, Settles, To
  <2>2. UNCHANGED <<length, maxChunks, withSigner, onDemand, contractCreate,
                    accepted, contracts>>
    BY DEF DeleteFile
  <2>3. QED
    BY <1>4, <2>1, <2>2 DEF TypeOK
<1>7. FilesAreKnown'
  BY <1>1, <1>5 DEF FilesAreKnown, TypeOK, DeleteFile, Settles, To
<1>8. TransactionIsReady'
  BY <1>5 DEF TransactionIsReady, TypeOK, DeleteFile, Settles, To
<1>9. AcceptedIsFrozen'
  BY DEF AcceptedIsFrozen, DeleteFile
<1>10. DeletedLast'
  <2>1. \A d \in Call : call'[d].file = call[d].file
    BY DEF TypeOK, DeleteFile, Settles, To
  <2>2. \A d \in Call : call'[d].at = "resolved" =>
            d = c \/ call[d].at = "resolved"
    BY DEF TypeOK, DeleteFile, Settles, To
  <2>3. \A d \in Call : call[d].at = "resolved" => call[d].file \in DOMAIN files
    BY DEF FilesAreKnown, IsWhole
  <2>4. QED
    BY <1>1, <1>3, <1>4, <2>1, <2>2, <2>3 DEF DeletedLast, DeleteFile, file
<1>11. QED
  BY <1>6, <1>7, <1>8, <1>9, <1>10

LEMMA FailInv ==
    ASSUME IInv, UNCHANGED flowVars, NEW c \in Call, Fail(c)
    PROVE  IInv'
<1> USE DEF IInv, flowVars
<1>1. TypeOK'
  <2>1. call' \in [Call -> [at : {"new", "appending", "naming", "populating",
                                 "executing", "receipt", "deleting", "resolved",
                                 "rejected"},
                           file : 0..Len(files)]]
    BY ToKeeps DEF Fail
  <2>2. UNCHANGED <<length, maxChunks, withSigner, onDemand, contractCreate,
                    files, accepted, contracts>>
    BY DEF Fail, networkVars
  <2>3. QED
    BY <2>1, <2>2 DEF TypeOK
<1>2. FilesAreKnown'
  BY DEF FilesAreKnown, TypeOK, IsWhole, Fail, To, networkVars
<1>3. TransactionIsReady'
  BY DEF TransactionIsReady, TypeOK, IsWhole, Fail, To, networkVars
<1>4. AcceptedIsFrozen'
  BY DEF AcceptedIsFrozen, TransactionIsReady, TypeOK,
         Fail, To, networkVars
<1>5. DeletedLast'
  BY DEF DeletedLast, TypeOK, Fail, To, networkVars
<1>6. QED
  BY <1>1, <1>2, <1>3, <1>4, <1>5

LEMMA StutterInv == IInv /\ UNCHANGED vars => IInv'
BY DEF IInv, TypeOK, FilesAreKnown, TransactionIsReady, AcceptedIsFrozen,
       DeletedLast, IsWhole, vars, flowVars, networkVars

LEMMA NextInv == IInv /\ [Next]_vars => IInv'
<1> SUFFICES ASSUME IInv, [Next]_vars PROVE IInv'
  OBVIOUS
<1>1. CASE UNCHANGED vars
  BY <1>1, StutterInv
<1>2. CASE Next
  <2>1. UNCHANGED flowVars
    BY <1>2 DEF Next
  <2>2. ASSUME NEW id \in accepted, CreateContract(id) PROVE IInv'
    BY <2>1, <2>2, CreateContractInv
  <2>3. ASSUME NEW c \in Call,
               \/ NameFile(c) \/ Populated(c) \/ Receipt(c) \/ Fail(c)
               \/ RenewFile(c) \/ Expire(c)
        PROVE  IInv'
    BY <2>1, <2>3, NameFileInv, PopulatedInv, ReceiptInv, FailInv,
       RenewFileInv, ExpireInv
  <2>4. ASSUME NEW c \in Call, NEW seen \in BOOLEAN,
               \/ CreateFile(c, seen) \/ AppendChunk(c, seen)
               \/ ExecuteContract(c, seen) \/ DeleteFile(c, seen)
        PROVE  IInv'
    BY <2>1, <2>4, CreateFileInv, AppendChunkInv, ExecuteContractInv, DeleteFileInv
  <2>5. QED
    BY <1>2, <2>2, <2>3, <2>4 DEF Next
<1>3. QED
  BY <1>1, <1>2

LEMMA Invariance == Spec => []IInv
<1>1. Init => IInv
  BY InitInv
<1>2. IInv /\ [Next]_vars => IInv'
  BY NextInv
<1>3. QED
  BY <1>1, <1>2, PTL DEF Spec

-----------------------------------------------------------------------------
(* Theorems about ContractCreateFlow *)

\* Each ID makes one contract: different contracts have different IDs of the
\* transaction.
LEMMA ContractsAreCounted == IInv => OneContractPerId
<1> SUFFICES ASSUME IInv PROVE OneContractPerId
  OBVIOUS
<1> DEFINE n == Len(contracts)
           m == contractCreate.id
           idOf == [i \in 1..n |-> contracts[i].id]
<1>1. DOMAIN contracts = 1..n /\ n \in Nat /\ m \in Nat
  BY LenProperties DEF IInv, TypeOK
<1>2. idOf \in Injection(1..n, 1..m)
  <2>1. idOf \in [1..n -> 1..m]
    BY <1>1 DEF IInv, AcceptedIsFrozen
  <2>2. \A i, j \in 1..n : idOf[i] = idOf[j] => i = j
    BY <1>1 DEF IInv, AcceptedIsFrozen
  <2>3. QED
    BY <2>1, <2>2 DEF Injection, IsInjective
<1> HIDE DEF idOf
<1>3. /\ IsFiniteSet(1..n) /\ Cardinality(1..n) = n
      /\ IsFiniteSet(1..m) /\ Cardinality(1..m) = m
  <2>1. \A a \in Nat : Cardinality(1..a) = a /\ IsFiniteSet(1..a)
    BY FS_Interval
  <2>2. QED
    BY <1>1, <2>1
<1>4. n <= m
  BY <1>2, <1>3, FS_Injection
<1>5. ~ onDemand => m <= 1
  BY <1>1 DEF IInv, TransactionIsReady
<1>6. QED
  BY <1>1, <1>4, <1>5 DEF OneContractPerId

\* Every contract is made of the whole bytecode, whichever call and whichever
\* file it came from. And a flow creates at most one, however often and however
\* concurrently it is executed; or with a client that signs on demand, at most
\* one for each ID that its transaction has had.
THEOREM FlowCorrect == Spec => []FlowInv
<1>1. IInv => TypeOK /\ ContractsHaveWholeBytecode
  BY DEF IInv, AcceptedIsFrozen, ContractsHaveWholeBytecode, Range
<1>2. IInv => FlowInv
  BY <1>1, ContractsAreCounted DEF FlowInv
<1>3. QED
  BY <1>2, Invariance, PTL

\* The file that the contract transaction names is not deleted before there is
\* a contract, although other calls delete their files.
THEOREM FileCorrect == Spec => []FileIsKeptForContract
<1>1. IInv => FileIsKeptForContract
  BY DEF IInv, TransactionIsReady, DeletedLast, IsWhole, FileIsKeptForContract
<1>2. QED
  BY <1>1, Invariance, PTL

\* A call that resolves has its contract and has deleted its file.
THEOREM ResolvedCorrect == Spec => []ResolvedCallsCleanUp
<1>1. IInv => ResolvedCallsCleanUp
  BY DEF IInv, DeletedLast, ResolvedCallsCleanUp
<1>2. QED
  BY <1>1, Invariance, PTL
=============================================================================
