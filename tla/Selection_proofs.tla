--------------------------- MODULE Selection_proofs ---------------------------
(***************************************************************************)
(* What Selection's operator returns for no index, for one more index      *)
(* above all others, and for the indices of a sequence that grows.         *)
(***************************************************************************)
EXTENDS Selection, Sequences, FiniteSetTheorems, TLAPS

\* The members not above k are finitely many, and no more than all.
LEMMA RankRange ==
    ASSUME NEW K \in SUBSET Int, IsFiniteSet(K), NEW k \in K
    PROVE  /\ IsFiniteSet({j \in K : j <= k})
           /\ Rank(K, k) \in 1 .. Cardinality(K)
  <1> DEFINE B == {j \in K : j <= k}
  <1>1. B \in SUBSET K /\ k \in B
    OBVIOUS
  <1>2. IsFiniteSet(B) /\ Cardinality(B) <= Cardinality(K)
    BY <1>1, FS_Subset
  <1>3. Cardinality(B) \in Nat /\ Cardinality(K) \in Nat
    BY <1>2, FS_CardinalityType
  <1>4. Cardinality(B) # 0
    BY <1>1, <1>2, FS_EmptySet
  <1>5. QED
    BY <1>2, <1>3, <1>4 DEF Rank

\* A larger member has a larger rank.
LEMMA RankGrows ==
    ASSUME NEW K \in SUBSET Int, IsFiniteSet(K),
           NEW j \in K, NEW k \in K, j < k
    PROVE  Rank(K, j) < Rank(K, k)
  <1> DEFINE A == {i \in K : i <= j}
             B == {i \in K : i <= k}
  <1>1. IsFiniteSet(B) /\ A \in SUBSET B /\ A # B
    <2>1. k \in B /\ k \notin A
      OBVIOUS
    <2>2. \A i \in A : i <= k
      OBVIOUS
    <2>3. QED
      BY <2>1, <2>2, RankRange
  <1>2. Cardinality(A) <= Cardinality(B) /\ Cardinality(A) # Cardinality(B)
    BY <1>1, FS_Subset
  <1>3. Cardinality(A) \in Nat /\ Cardinality(B) \in Nat
    BY <1>1, FS_Subset, FS_CardinalityType
  <1>4. QED
    BY <1>2, <1>3 DEF Rank

\* No two members share a rank.
LEMMA RankUnique ==
    ASSUME NEW K \in SUBSET Int, IsFiniteSet(K),
           NEW j \in K, NEW k \in K, Rank(K, j) = Rank(K, k)
    PROVE  j = k
  <1>1. \A i \in K : i \in Int /\ Rank(K, i) \in 1 .. Cardinality(K)
    BY RankRange
  <1>2. ~(j < k) /\ ~(k < j)
    BY <1>1, RankGrows
  <1>3. QED
    BY <1>1, <1>2

\* Every number up to the size of K is the rank of a member: there are as many
\* ranks as members, and no two members share one.
LEMMA NthIn ==
    ASSUME NEW K \in SUBSET Int, IsFiniteSet(K), NEW i \in 1 .. Cardinality(K)
    PROVE  Nth(K, i) \in K /\ Rank(K, Nth(K, i)) = i
  <1> DEFINE n == Cardinality(K)
             r == [k \in K |-> Rank(K, k)]
  <1>1. n \in Nat
    BY FS_CardinalityType
  <1>0. \A k \in K : k \in Int /\ Rank(K, k) \in 1 .. n
    BY RankRange
  <1>2. \E k \in K : Rank(K, k) = i
    <2> SUFFICES ASSUME \A k \in K : Rank(K, k) # i PROVE FALSE
      OBVIOUS
    <2> DEFINE T == (1 .. n) \ {i}
    <2>1. IsFiniteSet(1 .. n) /\ Cardinality(1 .. n) = n
      BY <1>1, FS_Interval
    <2>2. IsFiniteSet(T) /\ Cardinality(T) = n - 1
      BY <2>1, FS_RemoveElement
    <2>3. r \in [K -> T]
      BY <1>0
    <2>4. Cardinality(T) < Cardinality(K)
      BY <2>2, <1>1
    <2> HIDE DEF r, T
    <2>5. PICK j \in K, k \in K : j # k /\ r[j] = r[k]
      BY <2>2, <2>3, <2>4, FS_PigeonHole
    <2>6. Rank(K, j) = Rank(K, k)
      BY <2>5 DEF r
    <2>7. QED
      BY <2>5, <2>6, RankUnique
  <1>3. QED
    BY <1>2 DEF Nth

\* Which member it is.
LEMMA NthOfRank ==
    ASSUME NEW K \in SUBSET Int, IsFiniteSet(K), NEW k \in K
    PROVE  Nth(K, Rank(K, k)) = k
  <1>1. Rank(K, k) \in 1 .. Cardinality(K)
    BY RankRange
  <1>2. PICK j \in K : j = Nth(K, Rank(K, k)) /\ Rank(K, j) = Rank(K, k)
    BY <1>1, NthIn
  <1>3. j = k
    BY <1>2, RankUnique
  <1>4. QED
    BY <1>2, <1>3

\* Nothing is selected by no index.
LEMMA InOrderEmpty ==
    ASSUME NEW f
    PROVE  InOrder(f, {}) = <<>>
  BY FS_EmptySet DEF InOrder

\* What is selected is a sequence of the function's values.
LEMMA InOrderType ==
    ASSUME NEW K \in SUBSET Int, IsFiniteSet(K), NEW S, NEW f,
           \A k \in K : f[k] \in S
    PROVE  InOrder(f, K) \in Seq(S) /\ Len(InOrder(f, K)) = Cardinality(K)
  <1>1. Cardinality(K) \in Nat
    BY FS_CardinalityType
  <1>2. \A i \in 1 .. Cardinality(K) : f[Nth(K, i)] \in S
    BY NthIn
  <1>3. QED
    BY <1>1, <1>2 DEF InOrder

\* Two functions that agree at the indices select the same.
LEMMA InOrderAgree ==
    ASSUME NEW K \in SUBSET Int, IsFiniteSet(K), NEW f, NEW g,
           \A k \in K : f[k] = g[k]
    PROVE  InOrder(f, K) = InOrder(g, K)
  BY NthIn DEF InOrder

\* With an index above all others, its value comes behind all others.
LEMMA InOrderAppend ==
    ASSUME NEW K \in SUBSET Int, IsFiniteSet(K), NEW m \in Int,
           \A k \in K : k < m, NEW f
    PROVE  InOrder(f, K \cup {m}) = Append(InOrder(f, K), f[m])
  <1> DEFINE L == K \cup {m}
             n == Cardinality(K)
  <1>1. n \in Nat /\ Cardinality(L) = n + 1 /\ IsFiniteSet(L) /\ L \in SUBSET Int
    BY FS_CardinalityType, FS_AddElement
  <1>0. \A k \in K : k \in Int /\ Rank(K, k) \in 1 .. n
    BY RankRange
  <1>2. \A k \in K : Rank(L, k) = Rank(K, k)
    <2> SUFFICES ASSUME NEW k \in K PROVE Rank(L, k) = Rank(K, k)
      OBVIOUS
    <2>1. {j \in L : j <= k} = {j \in K : j <= k}
      BY <1>0
    <2>2. QED
      BY <2>1 DEF Rank
  <1>3. Rank(L, m) = n + 1
    <2>1. \A k \in L : k \in Int /\ k <= m
      BY <1>0
    <2>2. {j \in L : j <= m} = L
      BY <2>1
    <2>3. QED
      BY <2>2, <1>1 DEF Rank
  <1>4. \A i \in 1 .. n : Nth(L, i) = Nth(K, i)
    <2> SUFFICES ASSUME NEW i \in 1 .. n PROVE Nth(L, i) = Nth(K, i)
      OBVIOUS
    <2>1. PICK k \in K : k = Nth(K, i) /\ Rank(K, k) = i
      BY NthIn
    <2>2. k \in L /\ Rank(L, k) = i
      BY <2>1, <1>2
    <2>3. Nth(L, i) = k
      BY <2>2, <1>1, NthOfRank
    <2>4. QED
      BY <2>1, <2>3
  <1>5. Nth(L, n + 1) = m
    <2>1. m \in L
      OBVIOUS
    <2>2. QED
      BY <2>1, <1>1, <1>3, NthOfRank
  <1> HIDE DEF L, n
  <1>6. InOrder(f, L) = [i \in 1 .. n + 1 |-> IF i = n + 1 THEN f[m] ELSE f[Nth(K, i)]]
    <2>1. \A i \in 1 .. n + 1 :
             f[Nth(L, i)] = IF i = n + 1 THEN f[m] ELSE f[Nth(K, i)]
      BY <1>1, <1>4, <1>5
    <2>2. QED
      BY <1>1, <2>1 DEF InOrder
  <1>7. Append(InOrder(f, K), f[m])
            = [i \in 1 .. n + 1 |-> IF i = n + 1 THEN f[m] ELSE f[Nth(K, i)]]
    BY <1>1 DEF InOrder, n
  <1>8. QED
    BY <1>6, <1>7 DEF L

\* The indices at which a sequence has good values are finitely many.
LEMMA IndicesFinite ==
    ASSUME NEW S, NEW s \in Seq(S), NEW Good
    PROVE  LET K == {i \in DOMAIN s : s[i] \in Good}
           IN  K \in SUBSET Int /\ IsFiniteSet(K)
  <1> DEFINE K == {i \in DOMAIN s : s[i] \in Good}
  <1>1. DOMAIN s = 1 .. Len(s) /\ Len(s) \in Nat
    OBVIOUS
  <1>2. K \in SUBSET (1 .. Len(s)) /\ IsFiniteSet(1 .. Len(s))
    BY <1>1, FS_Interval
  <1>3. IsFiniteSet(K)
    BY <1>2, FS_Subset
  <1>4. QED
    BY <1>2, <1>3

\* The good values of a sequence: one that is appended comes behind all others,
\* and any other value changes nothing.
LEMMA SelectAppend ==
    ASSUME NEW S, NEW s \in Seq(S), NEW e \in S, NEW Good
    PROVE  LET K == {i \in DOMAIN s : s[i] \in Good}
               t == Append(s, e)
               L == {i \in DOMAIN t : t[i] \in Good}
           IN  InOrder(t, L) = IF e \in Good THEN Append(InOrder(s, K), e)
                                             ELSE InOrder(s, K)
  <1> DEFINE K == {i \in DOMAIN s : s[i] \in Good}
             t == Append(s, e)
             L == {i \in DOMAIN t : t[i] \in Good}
             n == Len(s)
  <1>1. n \in Nat /\ DOMAIN s = 1 .. n
    OBVIOUS
  <1>2. /\ DOMAIN t = 1 .. n + 1
        /\ t[n + 1] = e
        /\ \A i \in 1 .. n : t[i] = s[i]
    OBVIOUS
  <1>3. K \in SUBSET Int /\ IsFiniteSet(K)
    BY IndicesFinite
  <1> HIDE DEF t, n
  <1>4. InOrder(t, K) = InOrder(s, K)
    BY <1>1, <1>2, <1>3, InOrderAgree
  <1>5. CASE e \in Good
    <2>1. L = K \cup {n + 1}
      BY <1>1, <1>2, <1>5
    <2>2. n + 1 \in Int /\ \A k \in K : k < n + 1
      BY <1>1
    <2> HIDE DEF K
    <2>3. InOrder(t, K \cup {n + 1}) = Append(InOrder(t, K), t[n + 1])
      BY <1>1, <1>3, <2>2, InOrderAppend
    <2>4. QED
      BY <1>2, <1>4, <1>5, <2>1, <2>3 DEF t, K
  <1>6. CASE e \notin Good
    <2>1. L = K
      BY <1>1, <1>2, <1>6
    <2>2. QED
      BY <1>4, <1>6, <2>1 DEF t
  <1>7. QED
    BY <1>5, <1>6

=============================================================================
