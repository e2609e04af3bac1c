------------------------- MODULE SubsequenceProofs -------------------------
(***************************************************************************)
(* What filtering a sequence keeps.  The positions kept are enumerated by  *)
(* one increasing function only, and that gives the effect of filtering on *)
(* a sequence that grows at its end or shrinks at its front.               *)
(***************************************************************************)
EXTENDS Subsequences, Sequences, FiniteSetTheorems, WellFoundedInduction, NaturalsInduction,
        TLAPS

(* A set of natural numbers that is not empty has a least element: what    *)
(* the proofs use in place of induction.                                   *)
LEMMA LeastNatural ==
  ASSUME NEW T \in SUBSET Nat, T # {}
  PROVE  \E x \in T : \A y \in T : x <= y
<1> DEFINE R == {ss \in Nat \X Nat : ss[1] < ss[2]}
<1>1. IsWellFoundedOn(R, Nat)
  BY NatLessThanWellFounded, Zenon DEF OpToRel
<1>2. PICK x \in T : \A y \in T : ~ (<<y, x>> \in R)
  BY <1>1, WFMin
<1>3. ASSUME NEW y \in T PROVE x <= y
  <2>1. x \in Nat /\ y \in Nat
    OBVIOUS
  <2>2. <<y, x>> \in Nat \X Nat /\ <<y, x>>[1] = y /\ <<y, x>>[2] = x
    BY <2>1
  <2>3. ~(y < x)
    BY <1>2, <2>2
  <2>4. QED
    BY <2>1, <2>3
<1>4. QED
  BY <1>3

-----------------------------------------------------------------------------
(* Positions: a finite set of integers. *)

(* The ranks of a set of positions are the numbers up to its cardinality,  *)
(* in the order of the positions.                                          *)
LEMMA RankFacts ==
  ASSUME NEW K \in SUBSET Int, IsFiniteSet(K)
  PROVE  /\ \A k \in K : Rank(K, k) \in 1..Cardinality(K)
         /\ \A j, k \in K : j < k => Rank(K, j) < Rank(K, k)
         /\ \A n \in 1..Cardinality(K) : \E k \in K : Rank(K, k) = n
<1> DEFINE UpTo(k) == {j \in K : j <= k}
           N == Cardinality(K)
<1>1. \A k : UpTo(k) \in SUBSET K
  OBVIOUS
<1>2. /\ N \in Nat
      /\ \A k : IsFiniteSet(UpTo(k)) /\ Cardinality(UpTo(k)) \in Nat /\ Cardinality(UpTo(k)) <= N
  BY <1>1, FS_Subset, FS_CardinalityType
<1>3. ASSUME NEW k \in K PROVE Rank(K, k) \in 1..N
  <2>1. k \in UpTo(k)
    OBVIOUS
  <2>2. Cardinality(UpTo(k)) # 0
    BY <1>2, <2>1, FS_EmptySet
  <2>3. QED
    BY <1>2, <2>2 DEF Rank
<1>4. ASSUME NEW j \in K, NEW k \in K, j < k PROVE Rank(K, j) < Rank(K, k)
  <2>1. UpTo(j) \in SUBSET UpTo(k) /\ k \in UpTo(k) /\ k \notin UpTo(j)
    <3>1. j \in Int /\ k \in Int /\ \A x \in K : x \in Int
      OBVIOUS
    <3>2. \A x \in Int : x <= j => x <= k
      BY <1>4, <3>1
    <3>3. ~(k <= j)
      BY <1>4, <3>1
    <3>4. \A x \in UpTo(j) : x \in UpTo(k)
      BY <3>1, <3>2
    <3>5. k \in UpTo(k) /\ k \notin UpTo(j)
      BY <3>1, <3>3
    <3>6. QED
      BY <3>4, <3>5, Zenon
  <2>2. /\ Cardinality(UpTo(j)) <= Cardinality(UpTo(k))
        /\ Cardinality(UpTo(j)) # Cardinality(UpTo(k))
    BY <1>2, <2>1, FS_Subset
  <2>3. QED
    BY <1>2, <2>2 DEF Rank
<1>5. ASSUME NEW n \in 1..N PROVE \E k \in K : Rank(K, k) = n
  <2> DEFINE f == [k \in K |-> Rank(K, k)]
  <2>1. f \in [K -> 1..N]
    BY <1>3
  <2>2. \A j, k \in K : f[j] = f[k] => j = k
    <3>1. ASSUME NEW j \in K, NEW k \in K, f[j] = f[k] PROVE j = k
      <4>1. Rank(K, j) = Rank(K, k) /\ Rank(K, j) \in Nat
        BY <1>2, <1>3, <3>1
      <4>2. ~(j < k) /\ ~(k < j)
        BY <1>4, <4>1
      <4>3. QED
        BY <4>2
    <3>2. QED
      BY <3>1
  <2>3. f \in Injection(K, 1..N)
    BY <2>1, <2>2 DEF Injection, IsInjective
  <2>4. IsFiniteSet(1..N) /\ Cardinality(1..N) = N
    <3>1. Cardinality(1..N) = IF 1 > N THEN 0 ELSE N - 1 + 1
      BY <1>2, FS_Interval
    <3>2. QED
      BY <1>2, <3>1, FS_Interval
  <2>5. f \in Surjection(K, 1..N)
    BY <2>3, <2>4, FS_Injection
  <2>6. QED
    BY <2>5 DEF Surjection
<1>6. QED
  BY <1>3, <1>4, <1>5

(* The n-th position has rank n, and later ones are greater. *)
LEMMA NthFacts ==
  ASSUME NEW K \in SUBSET Int, IsFiniteSet(K)
  PROVE  /\ Cardinality(K) \in Nat
         /\ \A n \in 1..Cardinality(K) : Nth(K, n) \in K /\ Rank(K, Nth(K, n)) = n
         /\ \A m, n \in 1..Cardinality(K) : m < n => Nth(K, m) < Nth(K, n)
         /\ \A k \in K : Rank(K, k) \in 1..Cardinality(K) /\ Nth(K, Rank(K, k)) = k
<1>1. Cardinality(K) \in Nat
  BY FS_CardinalityType
<1>2. \A n \in 1..Cardinality(K) : Nth(K, n) \in K /\ Rank(K, Nth(K, n)) = n
  BY RankFacts DEF Nth
<1>3. ASSUME NEW j \in K, NEW k \in K, Rank(K, j) = Rank(K, k) PROVE j = k
  <2>1. Rank(K, j) \in Nat
    BY <1>1, RankFacts
  <2>2. ~(j < k) /\ ~(k < j)
    BY <1>3, <2>1, RankFacts
  <2>3. QED
    BY <2>2
<1>4. ASSUME NEW m \in 1..Cardinality(K), NEW n \in 1..Cardinality(K), m < n
      PROVE  Nth(K, m) < Nth(K, n)
  <2>1. Nth(K, m) \in Int /\ Nth(K, n) \in Int
    BY <1>2
  <2>2. ~(Nth(K, n) < Nth(K, m)) /\ Nth(K, n) # Nth(K, m)
    <3>1. Rank(K, Nth(K, m)) = m /\ Rank(K, Nth(K, n)) = n /\ ~(n < m) /\ m # n
      BY <1>1, <1>2, <1>4
    <3>2. Nth(K, n) < Nth(K, m) => Rank(K, Nth(K, n)) < Rank(K, Nth(K, m))
      BY <1>2, RankFacts
    <3>3. QED
      BY <3>1, <3>2
  <2>3. QED
    BY <2>1, <2>2
<1>5. \A k \in K : Rank(K, k) \in 1..Cardinality(K) /\ Nth(K, Rank(K, k)) = k
  BY <1>2, <1>3, RankFacts
<1>6. QED
  BY <1>1, <1>2, <1>4, <1>5

Enumerates(f, n, K) ==
  /\ n \in Nat /\ K \in SUBSET Int
  /\ f \in [1..n -> K]
  /\ \A i, j \in 1..n : i < j => f[i] < f[j]
  /\ \A k \in K : \E i \in 1..n : f[i] = k

(* An increasing enumeration of the positions is the one that Nth gives. *)
LEMMA Enumeration ==
  ASSUME NEW K, NEW n, NEW f, Enumerates(f, n, K)
  PROVE  /\ IsFiniteSet(K)
         /\ Cardinality(K) = n
         /\ \A i \in 1..n : Nth(K, i) = f[i]
<1> USE DEF Enumerates
<1>1. \A i, j \in 1..n : f[i] = f[j] => i = j
  <2>1. ASSUME NEW i \in 1..n, NEW j \in 1..n, f[i] = f[j] PROVE i = j
    <3>0. f[i] \in Int
      OBVIOUS
    <3>1. ~(f[i] < f[j]) /\ ~(f[j] < f[i])
      BY <2>1, <3>0
    <3>2. ~(i < j) /\ ~(j < i)
      BY <3>1
    <3>3. QED
      BY <3>2
  <2>2. QED
    BY <2>1
<1>2. f \in Bijection(1..n, K)
  BY <1>1 DEF Bijection, Injection, IsInjective, Surjection
<1>3. ExistsBijection(1..n, K)
  BY <1>2 DEF ExistsBijection
<1>4. IsFiniteSet(K) /\ Cardinality(K) = n
  BY <1>3, FS_NatBijection, FS_CountingElements
<1>5. ASSUME NEW i \in 1..n PROVE Rank(K, f[i]) = i
  <2> DEFINE U == {j \in K : j <= f[i]}
             g == [m \in 1..i |-> f[m]]
  <2>1. \A m \in 1..i : m \in 1..n
    OBVIOUS
  <2>2. \A m \in 1..i : f[m] \in U
    <3>1. ASSUME NEW m \in 1..i PROVE f[m] <= f[i]
      <4>1. m = i \/ m < i
        OBVIOUS
      <4>2. f[m] \in Int /\ f[i] \in Int
        BY <2>1
      <4>3. QED
        BY <2>1, <4>1, <4>2
    <3>2. QED
      BY <2>1, <3>1
  <2>3. \A k \in U : \E m \in 1..i : f[m] = k
    <3>1. ASSUME NEW k \in U PROVE \E m \in 1..i : f[m] = k
      <4>1. PICK m \in 1..n : f[m] = k
        OBVIOUS
      <4>2. ~(i < m)
        <5>1. i < m => f[i] < f[m]
          OBVIOUS
        <5>2. f[m] <= f[i] /\ f[m] \in Int /\ f[i] \in Int
          BY <4>1
        <5>3. QED
          BY <5>1, <5>2
      <4>3. QED
        BY <4>1, <4>2
    <3>2. QED
      BY <3>1
  <2>4. g \in Bijection(1..i, U)
    BY <1>1, <2>1, <2>2, <2>3 DEF Bijection, Injection, IsInjective, Surjection
  <2>5. ExistsBijection(1..i, U)
    BY <2>4 DEF ExistsBijection
  <2>6. QED
    BY <2>5, FS_CountingElements DEF Rank
<1>6. \A i \in 1..n : Nth(K, i) = f[i]
  BY <1>4, <1>5, NthFacts
<1>7. QED
  BY <1>4, <1>6

-----------------------------------------------------------------------------
(* Picking. *)

(* The positions of a sequence are finitely many. *)
LEMMA PositionsFinite ==
  ASSUME NEW S, NEW s \in Seq(S), NEW K \in SUBSET DOMAIN s
  PROVE  IsFiniteSet(K) /\ K \in SUBSET Int
<1>1. DOMAIN s = 1..Len(s) /\ Len(s) \in Nat
  OBVIOUS
<1>2. IsFiniteSet(DOMAIN s)
  BY <1>1, FS_Interval
<1>3. QED
  BY <1>1, <1>2, FS_Subset

(* What is picked are the elements at the positions, in order. *)
LEMMA PickedFacts ==
  ASSUME NEW S, NEW s \in Seq(S), NEW K \in SUBSET DOMAIN s
  PROVE  /\ Picked(s, K) \in Seq(S)
         /\ Len(Picked(s, K)) = Cardinality(K)
         /\ Cardinality(K) \in Nat
         /\ \A n \in 1..Cardinality(K) : Nth(K, n) \in K /\ Picked(s, K)[n] = s[Nth(K, n)]
         /\ \A m, n \in 1..Cardinality(K) : m < n => Nth(K, m) < Nth(K, n)
         /\ \A k \in K : \E n \in 1..Cardinality(K) : Nth(K, n) = k
<1>1. IsFiniteSet(K) /\ K \in SUBSET Int
  BY PositionsFinite
<1>2. /\ Cardinality(K) \in Nat
      /\ \A n \in 1..Cardinality(K) : Nth(K, n) \in K
      /\ \A m, n \in 1..Cardinality(K) : m < n => Nth(K, m) < Nth(K, n)
      /\ \A k \in K : \E n \in 1..Cardinality(K) : Nth(K, n) = k
  BY <1>1, NthFacts
<1>3. \A k \in K : s[k] \in S
  OBVIOUS
<1>4. Picked(s, K) \in [1..Cardinality(K) -> S]
  BY <1>2, <1>3 DEF Picked
<1>5. Picked(s, K) \in Seq(S) /\ Len(Picked(s, K)) = Cardinality(K)
  BY <1>2, <1>4
<1>6. \A n \in 1..Cardinality(K) : Picked(s, K)[n] = s[Nth(K, n)]
  BY DEF Picked
<1>7. QED
  BY <1>2, <1>5, <1>6

Moves(f, S, s, K, t, L) ==
  /\ s \in Seq(S) /\ K \in SUBSET DOMAIN s
  /\ L \in SUBSET Int /\ f \in [K -> L]
  /\ \A j, k \in K : j < k => f[j] < f[k]
  /\ \A l \in L : \E k \in K : f[k] = l
  /\ \A k \in K : t[f[k]] = s[k]

(* Two sequences pick the same when the positions in one are those in the  *)
(* other, moved but still in the same order, and hold the same elements.   *)
LEMMA PickedMoved ==
  ASSUME NEW S, NEW s, NEW K, NEW t, NEW L, NEW f, Moves(f, S, s, K, t, L)
  PROVE  Picked(t, L) = Picked(s, K)
<1> USE DEF Moves
<1> DEFINE N == Cardinality(K)
           g == [n \in 1..N |-> f[Nth(K, n)]]
<1>1. /\ N \in Nat
      /\ \A n \in 1..N : Nth(K, n) \in K /\ Picked(s, K)[n] = s[Nth(K, n)]
      /\ \A m, n \in 1..N : m < n => Nth(K, m) < Nth(K, n)
      /\ \A k \in K : \E n \in 1..N : Nth(K, n) = k
  BY PickedFacts
<1> HIDE DEF N
<1>2. g \in [1..N -> L]
  BY <1>1
<1>3. \A m, n \in 1..N : m < n => g[m] < g[n]
  BY <1>1
<1>4. Enumerates(g, N, L)
  <2>1. \A l \in L : \E n \in 1..N : g[n] = l
    BY <1>1
  <2>2. QED
    BY <1>1, <1>2, <1>3, <2>1 DEF Enumerates
<1>5. \A n \in 1..N : t[g[n]] = s[Nth(K, n)]
  BY <1>1
<1> HIDE DEF g
<1>6. Cardinality(L) = N /\ \A n \in 1..N : Nth(L, n) = g[n]
  BY <1>4, Enumeration
<1>7. /\ Picked(t, L) = [n \in 1..N |-> t[Nth(L, n)]]
      /\ Picked(s, K) = [n \in 1..N |-> s[Nth(K, n)]]
  BY <1>6 DEF Picked, N
<1>8. \A n \in 1..N : t[Nth(L, n)] = s[Nth(K, n)]
  BY <1>5, <1>6
<1>9. QED
  BY <1>7, <1>8

(* Nothing is picked from no positions. *)
LEMMA PickedNone ==
  ASSUME NEW s
  PROVE  Picked(s, {}) = <<>>
<1>1. Cardinality({}) = 0
  BY FS_EmptySet
<1>2. 1..0 = {}
  OBVIOUS
<1>3. QED
  BY <1>1, <1>2 DEF Picked

Grows(S, s, K, e, L) ==
  s \in Seq(S) /\ K \in SUBSET DOMAIN s /\ e \in S /\ L = K \cup {Len(s) + 1}

(* A sequence that grows at its end: what was picked stays, and the new    *)
(* element comes last if it is picked too.                                 *)
LEMMA PickedGrows ==
  ASSUME NEW S, NEW s, NEW K, NEW e, NEW L, Grows(S, s, K, e, L)
  PROVE  /\ Picked(Append(s, e), K) = Picked(s, K)
         /\ Picked(Append(s, e), L) = Append(Picked(s, K), e)
<1>0. s \in Seq(S) /\ K \in SUBSET DOMAIN s /\ e \in S /\ L = K \cup {Len(s) + 1}
  BY DEF Grows
<1> DEFINE t == Append(s, e)
           N == Cardinality(K)
           g == [n \in 1..(N + 1) |-> IF n = N + 1 THEN Len(s) + 1 ELSE Nth(K, n)]
<1>1. /\ K \in SUBSET Int /\ Len(s) \in Nat
      /\ \A k \in K : t[k] = s[k] /\ k < Len(s) + 1
      /\ t[Len(s) + 1] = e
  BY <1>0, PositionsFinite
<1>2. /\ N \in Nat
      /\ Picked(s, K) \in Seq(S) /\ Len(Picked(s, K)) = N
      /\ \A n \in 1..N : Nth(K, n) \in K /\ Picked(s, K)[n] = s[Nth(K, n)]
      /\ \A m, n \in 1..N : m < n => Nth(K, m) < Nth(K, n)
      /\ \A k \in K : \E n \in 1..N : Nth(K, n) = k
  BY <1>0, PickedFacts
<1>3. Picked(t, K) = Picked(s, K)
  <2>1. \A n \in 1..N : t[Nth(K, n)] = s[Nth(K, n)]
    BY <1>1, <1>2
  <2>2. QED
    BY <2>1 DEF Picked
<1> HIDE DEF N, t
<1>4. Enumerates(g, N + 1, L)
  <2>1. N + 1 \in Nat /\ L \in SUBSET Int /\ g \in [1..(N + 1) -> L]
    BY <1>0, <1>1, <1>2
  <2>2. \A i, j \in 1..(N + 1) : i < j => g[i] < g[j]
    BY <1>0, <1>1, <1>2
  <2>3. \A l \in L : \E n \in 1..(N + 1) : g[n] = l
    <3>1. ASSUME NEW l \in K PROVE \E n \in 1..(N + 1) : g[n] = l
      <4>1. PICK n \in 1..N : Nth(K, n) = l
        BY <1>2
      <4>2. n \in 1..(N + 1) /\ n # N + 1
        BY <1>2
      <4>3. QED
        BY <4>1, <4>2
    <3>2. N + 1 \in 1..(N + 1) /\ g[N + 1] = Len(s) + 1
      BY <1>2
    <3>3. QED
      BY <1>0, <3>1, <3>2
  <2>4. QED
    BY <2>1, <2>2, <2>3 DEF Enumerates
<1>5. \A n \in 1..(N + 1) : t[g[n]] = Append(Picked(s, K), e)[n]
  BY <1>0, <1>1, <1>2
<1> HIDE DEF g
<1>6. Cardinality(L) = N + 1 /\ \A n \in 1..(N + 1) : Nth(L, n) = g[n]
  BY <1>4, Enumeration
<1>7. Picked(t, L) = [n \in 1..(N + 1) |-> t[Nth(L, n)]]
  BY <1>6 DEF Picked
<1>8. Append(Picked(s, K), e) = [n \in 1..(N + 1) |-> Append(Picked(s, K), e)[n]]
  <2>1. Append(Picked(s, K), e) \in Seq(S) /\ Len(Append(Picked(s, K), e)) = N + 1
    BY <1>0, <1>2
  <2>2. \A q \in Seq(S) : q = [n \in 1..Len(q) |-> q[n]]
    OBVIOUS
  <2> DEFINE q == Append(Picked(s, K), e)
  <2> HIDE DEF q
  <2>3. q = [n \in 1..(N + 1) |-> q[n]]
    BY <2>1, <2>2 DEF q
  <2>4. QED
    BY <2>3 DEF q
<1>9. Picked(t, L) = Append(Picked(s, K), e)
  BY <1>5, <1>6, <1>7, <1>8
<1>10. QED
  BY <1>3, <1>9 DEF t

Shifted(s, K, n, L) ==
  /\ n \in 0..Len(s) /\ L \in SUBSET Int
  /\ \A k \in K : n < k
  /\ \A l \in Int : (l \in L) <=> (l + n \in K)

(* A sequence that loses its first n elements, none of them picked. *)
LEMMA PickedShrinks ==
  ASSUME NEW S, NEW s \in Seq(S), NEW K \in SUBSET DOMAIN s, NEW n, NEW L,
         Shifted(s, K, n, L)
  PROVE  Picked(SubSeq(s, n + 1, Len(s)), L) = Picked(s, K)
<1> DEFINE t == SubSeq(s, n + 1, Len(s))
           f == [k \in K |-> k - n]
<1>0. Len(s) \in Nat /\ n \in Nat /\ n <= Len(s)
  BY DEF Shifted
<1>1. \A k \in K : k \in 1..Len(s) /\ k \in Int
  OBVIOUS
<1>2. f \in [K -> L]
  BY <1>0, <1>1 DEF Shifted
<1>3. \A j, k \in K : j < k => f[j] < f[k]
  BY <1>0, <1>1 DEF Shifted
<1>4. \A l \in L : \E k \in K : f[k] = l
  <2>1. ASSUME NEW l \in L PROVE l + n \in K /\ f[l + n] = l
    BY <1>0, <1>1 DEF Shifted
  <2>2. QED
    BY <2>1
<1>5. \A k \in K : t[f[k]] = s[k]
  <2>1. ASSUME NEW k \in K PROVE t[k - n] = s[k]
    <3>1. k \in 1..Len(s) /\ n < k
      BY <1>1 DEF Shifted
    <3> HIDE DEF t
    <3>2. k - n \in 1..(Len(s) - n) /\ (k - n) + n = k
      BY <1>0, <3>1
    <3>3. QED
      BY <1>0, <3>1, <3>2 DEF t
  <2>2. QED
    BY <2>1
<1> HIDE DEF f, t
<1>6. Picked(t, L) = Picked(s, K)
  <2>1. Moves(f, S, s, K, t, L)
    BY <1>2, <1>3, <1>4, <1>5 DEF Moves, Shifted
  <2>2. QED
    BY <2>1, PickedMoved
<1>7. QED
  BY <1>6 DEF t

(* What is picked first comes from the first position. *)
LEMMA PickedFirst ==
  ASSUME NEW S, NEW s \in Seq(S), NEW K \in SUBSET DOMAIN s,
         NEW k \in K, \A j \in K : k <= j
  PROVE  Picked(s, K) = <<s[k]>> \o Picked(s, K \ {k})
<1> DEFINE M == K \ {k}
           N == Cardinality(M)
           g == [n \in 1..(N + 1) |-> IF n = 1 THEN k ELSE Nth(M, n - 1)]
<1>1. K \in SUBSET Int /\ Len(s) \in Nat /\ s[k] \in S /\ M \in SUBSET DOMAIN s
  BY PositionsFinite
<1> HIDE DEF M
<1>2. /\ N \in Nat
      /\ Picked(s, M) \in Seq(S) /\ Len(Picked(s, M)) = N
      /\ \A n \in 1..N : Nth(M, n) \in M /\ Picked(s, M)[n] = s[Nth(M, n)]
      /\ \A m, n \in 1..N : m < n => Nth(M, m) < Nth(M, n)
      /\ \A j \in M : \E n \in 1..N : Nth(M, n) = j
  BY <1>1, PickedFacts
<1>3. /\ \A j \in M : j \in K /\ k < j
      /\ \A j \in K : j = k \/ j \in M
  BY <1>1 DEF M
<1> HIDE DEF N
<1>4. Enumerates(g, N + 1, K)
  <2>1. N + 1 \in Nat /\ K \in SUBSET Int /\ g \in [1..(N + 1) -> K]
    BY <1>1, <1>2, <1>3
  <2>2. \A i, j \in 1..(N + 1) : i < j => g[i] < g[j]
    BY <1>1, <1>2, <1>3
  <2>3. \A l \in K : \E n \in 1..(N + 1) : g[n] = l
    <3>1. ASSUME NEW l \in M PROVE \E n \in 1..(N + 1) : g[n] = l
      <4>1. PICK n \in 1..N : Nth(M, n) = l
        BY <1>2
      <4>2. n + 1 \in 1..(N + 1) /\ n + 1 # 1 /\ (n + 1) - 1 = n
        BY <1>2
      <4>3. QED
        BY <4>1, <4>2
    <3>2. 1 \in 1..(N + 1) /\ g[1] = k
      BY <1>2
    <3>3. QED
      BY <1>3, <3>1, <3>2
  <2>4. QED
    BY <2>1, <2>2, <2>3 DEF Enumerates
<1> DEFINE c == <<s[k]>> \o Picked(s, M)
<1>5. \A n \in 1..(N + 1) : s[g[n]] = c[n]
  BY <1>1, <1>2
<1>6. c = [n \in 1..(N + 1) |-> c[n]]
  BY <1>1, <1>2
<1> HIDE DEF g, c
<1>7. Cardinality(K) = N + 1 /\ \A n \in 1..(N + 1) : Nth(K, n) = g[n]
  BY <1>4, Enumeration
<1>8. Picked(s, K) = [n \in 1..(N + 1) |-> s[Nth(K, n)]]
  BY <1>7 DEF Picked
<1>9. Picked(s, K) = c
  BY <1>5, <1>6, <1>7, <1>8
<1>10. QED
  BY <1>9 DEF c, M

(* A sequence without its first n elements. *)
LEMMA SuffixFacts ==
  ASSUME NEW S, NEW s \in Seq(S), NEW n \in 0..Len(s)
  PROVE  /\ SubSeq(s, n + 1, Len(s)) \in Seq(S)
         /\ Len(SubSeq(s, n + 1, Len(s))) = Len(s) - n
         /\ \A i \in 1..(Len(s) - n) : SubSeq(s, n + 1, Len(s))[i] = s[i + n]
<1>1. Len(s) \in Nat /\ n \in Nat /\ n <= Len(s)
  OBVIOUS
<1>2. SubSeq(s, n + 1, Len(s)) = [i \in 1..(Len(s) - n) |-> s[i + n]]
  BY <1>1
<1>3. \A i \in 1..(Len(s) - n) : i + n \in 1..Len(s) /\ s[i + n] \in S
  BY <1>1
<1> DEFINE t == [i \in 1..(Len(s) - n) |-> s[i + n]]
<1>4. t \in Seq(S) /\ Len(t) = Len(s) - n
  BY <1>1, <1>3
<1>5. QED
  BY <1>2, <1>4

Cut(S, s, K, n, L) ==
  /\ s \in Seq(S) /\ K \in SUBSET DOMAIN s
  /\ n \in 0..Len(s) /\ L \in SUBSET Int
  /\ \A l \in Int : (l \in L) <=> (1 <= l /\ l + n \in K)

(* A sequence that loses its first n elements: what was picked loses the   *)
(* first c of its own, the ones that came from those n.                    *)
LEMMA PickedSplits ==
  ASSUME NEW S, NEW s, NEW K, NEW n, NEW L, Cut(S, s, K, n, L)
  PROVE  \E c \in 0..Cardinality(K) :
           /\ \A i \in 1..Cardinality(K) : (Nth(K, i) <= n) <=> (i <= c)
           /\ Picked(SubSeq(s, n + 1, Len(s)), L) = SubSeq(Picked(s, K), c + 1, Cardinality(K))
<1> DEFINE N == Cardinality(K)
           T == {c \in 0..N : \A i \in 1..N : Nth(K, i) <= n => i <= c}
<1>1. /\ N \in Nat
      /\ Picked(s, K) \in Seq(S) /\ Len(Picked(s, K)) = N
      /\ \A i \in 1..N : Nth(K, i) \in K /\ Picked(s, K)[i] = s[Nth(K, i)]
      /\ \A i, j \in 1..N : i < j => Nth(K, i) < Nth(K, j)
      /\ \A k \in K : \E i \in 1..N : Nth(K, i) = k
  BY PickedFacts DEF Cut
<1>2. Len(s) \in Nat /\ n \in Nat /\ n <= Len(s) /\ \A k \in K : k \in Int /\ 1 <= k /\ k <= Len(s)
  BY DEF Cut
<1> HIDE DEF N
<1>3. PICK c \in T : \A d \in T : c <= d
  <2>1. T \in SUBSET Nat /\ N \in T
    BY <1>1
  <2> HIDE DEF T
  <2>2. QED
    BY <2>1, LeastNatural
<1>4. c \in 0..N
  OBVIOUS
<1>5. ASSUME NEW i \in 1..N PROVE (Nth(K, i) <= n) <=> (i <= c)
  <2>1. Nth(K, i) <= n => i <= c
    OBVIOUS
  <2>2. ASSUME i <= c, ~(Nth(K, i) <= n) PROVE FALSE
    <3>1. ASSUME NEW j \in 1..N, Nth(K, j) <= n PROVE j <= i - 1
      <4>1. Nth(K, i) \in Int /\ Nth(K, j) \in Int
        BY <1>1, <1>2
      <4>2. ~(i < j) /\ i # j
        BY <1>1, <1>2, <2>2, <3>1, <4>1
      <4>3. QED
        BY <4>2
    <3>2. i - 1 \in T
      <4>1. i - 1 \in 0..N
        BY <1>1
      <4>2. QED
        BY <3>1, <4>1
    <3>3. QED
      BY <1>3, <1>4, <2>2, <3>2
  <2>3. QED
    BY <2>1, <2>2
<1> HIDE DEF T
<1> DEFINE t == SubSeq(s, n + 1, Len(s))
           g == [i \in 1..(N - c) |-> Nth(K, i + c) - n]
<1>6. \A i \in 1..(N - c) : i + c \in 1..N /\ Nth(K, i + c) \in K /\ n < Nth(K, i + c)
  <2>1. ASSUME NEW i \in 1..(N - c) PROVE i + c \in 1..N /\ ~(i + c <= c)
    BY <1>1, <1>4
  <2>2. QED
    BY <1>1, <1>2, <1>5, <2>1
<1>7. N - c \in Nat
  BY <1>1, <1>4
<1>8. Enumerates(g, N - c, L)
  <2>1. ASSUME NEW i \in 1..(N - c) PROVE g[i] \in L /\ g[i] = Nth(K, i + c) - n
    <3>1. Nth(K, i + c) \in Int /\ n < Nth(K, i + c) /\ Nth(K, i + c) \in K
      BY <1>2, <1>6
    <3>2. 1 <= Nth(K, i + c) - n /\ (Nth(K, i + c) - n) + n = Nth(K, i + c) /\ Nth(K, i + c) - n \in Int
      BY <1>2, <3>1
    <3>3. QED
      BY <3>1, <3>2 DEF Cut
  <2>2. \A i, j \in 1..(N - c) : i < j => g[i] < g[j]
    <3>1. ASSUME NEW i \in 1..(N - c), NEW j \in 1..(N - c), i < j PROVE g[i] < g[j]
      <4>1. i + c < j + c
        BY <1>4, <1>1, <3>1
      <4>2. Nth(K, i + c) < Nth(K, j + c)
        BY <1>1, <1>6, <4>1
      <4>3. QED
        BY <1>2, <1>6, <4>2
    <3>2. QED
      BY <3>1
  <2>3. \A l \in L : \E i \in 1..(N - c) : g[i] = l
    <3>1. ASSUME NEW l \in L PROVE \E i \in 1..(N - c) : g[i] = l
      <4>1. l \in Int /\ 1 <= l /\ l + n \in K
        BY DEF Cut
      <4>2. PICK m \in 1..N : Nth(K, m) = l + n
        BY <1>1, <4>1
      <4>3. ~(m <= c)
        BY <1>2, <1>5, <4>1, <4>2
      <4>4. m - c \in 1..(N - c) /\ (m - c) + c = m
        BY <1>1, <1>4, <4>3
      <4>5. g[m - c] = l
        BY <1>2, <4>1, <4>2, <4>4
      <4>6. QED
        BY <4>4, <4>5
    <3>2. QED
      BY <3>1
  <2>4. g \in [1..(N - c) -> L]
    BY <2>1
  <2> HIDE DEF g
  <2>5. QED
    BY <1>7, <2>2, <2>3, <2>4 DEF Enumerates, Cut
<1>9. \A i \in 1..(N - c) : t[g[i]] = s[Nth(K, i + c)]
  <2>1. ASSUME NEW i \in 1..(N - c) PROVE t[Nth(K, i + c) - n] = s[Nth(K, i + c)]
    <3>1. PICK k \in K : k = Nth(K, i + c) /\ n < k
      BY <1>6
    <3>2. k - n \in 1..(Len(s) - n) /\ (k - n) + n = k
      BY <1>2, <3>1
    <3>3. t[k - n] = s[k]
      BY <1>2, <3>1, <3>2
    <3>4. QED
      BY <3>1, <3>3
  <2>2. QED
    BY <2>1
<1> HIDE DEF g, t
<1>10. Cardinality(L) = N - c /\ \A i \in 1..(N - c) : Nth(L, i) = g[i]
  BY <1>8, Enumeration
<1>11. Picked(t, L) = [i \in 1..(N - c) |-> s[Nth(K, i + c)]]
  BY <1>9, <1>10 DEF Picked
<1>12. SubSeq(Picked(s, K), c + 1, N) = [i \in 1..(N - c) |-> s[Nth(K, i + c)]]
  <2> DEFINE p == Picked(s, K)
  <2>1. p \in Seq(S) /\ Len(p) = N /\ \A i \in 1..(N - c) : p[i + c] = s[Nth(K, i + c)]
    BY <1>1, <1>6
  <2> HIDE DEF p
  <2>2. SubSeq(p, c + 1, N) = [i \in 1..(N - c) |-> p[i + c]]
    BY <1>1, <1>4, <2>1
  <2>3. QED
    BY <2>1, <2>2 DEF p
<1>13. QED
  BY <1>4, <1>5, <1>11, <1>12 DEF N, t
=============================================================================
