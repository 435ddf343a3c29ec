--------------------------- MODULE SublistsProofs ---------------------------
(***************************************************************************)
(* What picking the places in a set makes of a list: a list of its entries,*)
(* each in a place of its own, in their order; what it makes of a longer   *)
(* list; and that two filters one after the other are one.                 *)
(***************************************************************************)
EXTENDS Sublists, TLAPS, FiniteSetTheorems, SequenceTheorems, WellFoundedInduction,
        NaturalsInduction

\* A non-empty set of natural numbers has a least one.
LEMMA Least ==
  ASSUME NEW T \in SUBSET Nat, T # {}
  PROVE  \E m \in T : \A n \in T : m <= n
<1> DEFINE R == OpToRel(<, Nat)
<1>1. IsWellFoundedOn(R, Nat)
  BY NatLessThanWellFounded
<1>2. \A m, n \in Nat : n < m => <<n, m>> \in R
  BY DEF OpToRel
<1> HIDE DEF R
<1>3. PICK m \in T : \A n \in T : <<n, m>> \notin R
  BY <1>1, WFMin
<1>4. ASSUME NEW n \in T PROVE m <= n
  <2>1. ~(n < m)
    BY <1>2, <1>3
  <2> QED BY <2>1
<1> QED BY <1>4

LEMMA RankType ==
  ASSUME NEW N \in Nat, NEW S \in SUBSET (1..N), NEW i \in Nat
  PROVE  /\ IsFiniteSet(S)
         /\ IsFiniteSet({j \in S : j <= i})
         /\ Rank(S, i) \in Nat
         /\ Rank(S, i) <= Cardinality(S)
<1>1. IsFiniteSet(1..N)
  BY FS_Interval
<1>2. IsFiniteSet(S)
  BY <1>1, FS_Subset
<1>3. {j \in S : j <= i} \subseteq S
  OBVIOUS
<1>4. IsFiniteSet({j \in S : j <= i}) /\ Cardinality({j \in S : j <= i}) <= Cardinality(S)
  BY <1>2, <1>3, FS_Subset
<1> QED BY <1>2, <1>4, FS_CardinalityType DEF Rank

\* From one place to the next the rank grows by one in S and not elsewhere.
LEMMA RankStep ==
  ASSUME NEW N \in Nat, NEW S \in SUBSET (1..N), NEW i \in 1..N
  PROVE  Rank(S, i) = IF i \in S THEN Rank(S, i - 1) + 1 ELSE Rank(S, i - 1)
<1> DEFINE B == {j \in S : j <= i - 1}
<1>1. i - 1 \in Nat
  OBVIOUS
<1>2. IsFiniteSet(B) /\ Cardinality(B) \in Nat
  BY <1>1, RankType, FS_CardinalityType
<1> \A j \in S : j \in Nat /\ 1 <= j /\ j <= N
  OBVIOUS
<1>3. {j \in S : j <= i} = IF i \in S THEN B \cup {i} ELSE B
  <2>1. \A j \in S : j <= i <=> j <= i - 1 \/ j = i
    OBVIOUS
  <2> QED BY <2>1
<1>4. i \notin B
  OBVIOUS
<1> HIDE DEF B
<1>5. Cardinality(B \cup {i}) = Cardinality(B) + 1
  BY <1>2, <1>4, FS_AddElement
<1> QED BY <1>3, <1>5 DEF Rank, B

\* Every number up to the size of S is the rank of a member.
LEMMA RankReached ==
  ASSUME NEW N \in Nat, NEW S \in SUBSET (1..N), NEW n \in 1..Cardinality(S)
  PROVE  \E i \in S : Rank(S, i) = n
<1> DEFINE T == {i \in 0..N : Rank(S, i) >= n}
<1> \A j \in S : j \in Nat /\ 1 <= j /\ j <= N
  OBVIOUS
<1>1. IsFiniteSet(S) /\ Cardinality(S) \in Nat
  BY RankType, FS_CardinalityType
<1>2. {j \in S : j <= N} = S
  OBVIOUS
<1>3. N \in T
  BY <1>1, <1>2 DEF Rank
<1>4. T \subseteq Nat
  OBVIOUS
<1>5. PICK i \in T : \A j \in T : i <= j
  BY <1>3, <1>4, Least
<1>6. i # 0
  <2>1. {j \in S : j <= 0} = {}
    <3>1. \A j \in S : ~(j <= 0)
      OBVIOUS
    <3> QED BY <3>1
  <2>2. Rank(S, 0) = 0
    BY <2>1, FS_EmptySet DEF Rank
  <2> QED BY <2>2
<1>7. i \in 1..N /\ i - 1 \in 0..N /\ i - 1 \notin T
  BY <1>5, <1>6
<1>8. Rank(S, i) \in Nat /\ Rank(S, i - 1) \in Nat
  <2>1. i \in Nat /\ i - 1 \in Nat
    BY <1>7
  <2> QED BY <2>1, RankType
<1>9. Rank(S, i) >= n /\ Rank(S, i - 1) < n
  BY <1>7, <1>8
<1>10. i \in S /\ Rank(S, i) = n
  BY <1>7, <1>8, <1>9, RankStep
<1> QED BY <1>10

\* Two members have different ranks.
LEMMA RankInjective ==
  ASSUME NEW N \in Nat, NEW S \in SUBSET (1..N), NEW i \in S, NEW j \in S, i < j
  PROVE  Rank(S, i) < Rank(S, j)
<1> DEFINE A == {m \in S : m <= i}
           B == {m \in S : m <= j}
<1>1. i \in Nat /\ j \in Nat
  OBVIOUS
<1>2. IsFiniteSet(A) /\ IsFiniteSet(B)
  BY <1>1, RankType
<1> \A m \in S : m \in Nat /\ 1 <= m /\ m <= N
  OBVIOUS
<1>3. A \cup {j} \subseteq B /\ j \notin A
  <2>1. \A m \in S : m <= i => m <= j
    OBVIOUS
  <2>2. j <= j /\ ~(j <= i)
    OBVIOUS
  <2> QED BY <2>1, <2>2
<1> HIDE DEF A, B
<1>4. IsFiniteSet(A \cup {j}) /\ Cardinality(A \cup {j}) = Cardinality(A) + 1
  BY <1>2, <1>3, FS_AddElement
<1>5. Cardinality(A \cup {j}) <= Cardinality(B)
  BY <1>2, <1>3, FS_Subset
<1>6. Cardinality(A) \in Nat /\ Cardinality(B) \in Nat
  BY <1>2, FS_CardinalityType
<1>7. Cardinality(A) < Cardinality(B)
  BY <1>4, <1>5, <1>6
<1> QED BY <1>7 DEF Rank, A, B
-----------------------------------------------------------------------------
\* Nth and Rank are inverse to each other.
LEMMA NthFacts ==
  ASSUME NEW N \in Nat, NEW S \in SUBSET (1..N)
  PROVE  /\ Cardinality(S) \in Nat
         /\ \A n \in 1..Cardinality(S) : Nth(S, n) \in S /\ Rank(S, Nth(S, n)) = n
         /\ \A i \in S : Rank(S, i) \in 1..Cardinality(S) /\ Nth(S, Rank(S, i)) = i
<1>1. Cardinality(S) \in Nat
  BY RankType, FS_CardinalityType
<1>2. ASSUME NEW n \in 1..Cardinality(S)
      PROVE  Nth(S, n) \in S /\ Rank(S, Nth(S, n)) = n
  <2>1. \E i \in S : Rank(S, i) = n
    BY RankReached
  <2> QED BY <2>1 DEF Nth
<1>3. ASSUME NEW i \in S
      PROVE  Rank(S, i) \in 1..Cardinality(S) /\ Nth(S, Rank(S, i)) = i
  <2>1. i \in Nat /\ i \in 1..N /\ i - 1 \in Nat
    OBVIOUS
  <2>2. Rank(S, i) \in Nat /\ Rank(S, i - 1) \in Nat /\ Rank(S, i) <= Cardinality(S)
    BY <2>1, RankType
  <2>3. Rank(S, i) = Rank(S, i - 1) + 1
    BY <2>1, RankStep
  <2>4. Rank(S, i) \in 1..Cardinality(S)
    BY <1>1, <2>2, <2>3
  <2> DEFINE j == Nth(S, Rank(S, i))
  <2>5. j \in S /\ Rank(S, j) = Rank(S, i)
    BY <1>2, <2>4
  <2> HIDE DEF j
  <2>6. ASSUME i < j PROVE FALSE
    <3>1. Rank(S, i) < Rank(S, j)
      BY <2>5, <2>6, RankInjective
    <3> QED BY <2>2, <2>5, <3>1
  <2>7. ASSUME j < i PROVE FALSE
    <3>1. Rank(S, j) < Rank(S, i)
      BY <2>5, <2>7, RankInjective
    <3> QED BY <2>2, <2>5, <3>1
  <2>8. j = i
    <3>1. j \in Nat
      BY <2>5
    <3> QED BY <2>1, <2>6, <2>7, <3>1
  <2> QED BY <2>4, <2>8 DEF j
<1> QED BY <1>1, <1>2, <1>3

\* Each place of the result holds what a picked place holds, different ones what
\* different ones hold, and every picked place has its place.
LEMMA PickedPlaces ==
  ASSUME NEW T, NEW s \in Seq(T), NEW S \in SUBSET DOMAIN s
  PROVE  /\ S \in SUBSET (1..Len(s)) /\ Len(s) \in Nat
         /\ Picked(s, S) \in Seq(T)
         /\ Len(Picked(s, S)) = Cardinality(S) /\ Cardinality(S) \in Nat
         /\ DOMAIN Picked(s, S) = 1..Cardinality(S)
         /\ \A n \in 1..Cardinality(S) : Nth(S, n) \in S /\ Picked(s, S)[n] = s[Nth(S, n)]
         /\ \A m, n \in 1..Cardinality(S) : Nth(S, m) = Nth(S, n) => m = n
         /\ \A i \in S : \E n \in 1..Cardinality(S) : Nth(S, n) = i /\ Picked(s, S)[n] = s[i]
<1>1. Len(s) \in Nat /\ DOMAIN s = 1..Len(s) /\ \A i \in 1..Len(s) : s[i] \in T
  BY LenProperties
<1>2. S \in SUBSET (1..Len(s))
  BY <1>1
<1> DEFINE c == Cardinality(S)
<1>3. /\ c \in Nat
      /\ \A n \in 1..c : Nth(S, n) \in S /\ Rank(S, Nth(S, n)) = n
      /\ \A i \in S : Rank(S, i) \in 1..c /\ Nth(S, Rank(S, i)) = i
  BY <1>1, <1>2, NthFacts
<1>4. Picked(s, S) = [n \in 1..c |-> s[Nth(S, n)]]
  BY DEF Picked
<1> HIDE DEF c
<1>5. \A n \in 1..c : s[Nth(S, n)] \in T
  BY <1>1, <1>2, <1>3
<1>6. Picked(s, S) \in [1..c -> T]
  BY <1>4, <1>5
<1>7. Picked(s, S) \in Seq(T) /\ Len(Picked(s, S)) = c /\ DOMAIN Picked(s, S) = 1..c
  BY <1>3, <1>6
<1>8. \A m, n \in 1..c : Nth(S, m) = Nth(S, n) => m = n
  BY <1>3
<1>9. \A i \in S : \E n \in 1..c : Nth(S, n) = i /\ Picked(s, S)[n] = s[i]
  <2>1. ASSUME NEW i \in S PROVE \E n \in 1..c : Nth(S, n) = i /\ Picked(s, S)[n] = s[i]
    <3>1. Rank(S, i) \in 1..c /\ Nth(S, Rank(S, i)) = i
      BY <1>3
    <3> QED BY <1>4, <3>1
  <2> QED BY <2>1
<1> QED BY <1>1, <1>2, <1>3, <1>4, <1>7, <1>8, <1>9 DEF c

LEMMA PickedNone ==
  ASSUME NEW s
  PROVE  Picked(s, {}) = <<>>
<1>1. Cardinality({}) = 0
  BY FS_EmptySet
<1>2. 1..0 = {}
  OBVIOUS
<1> QED BY <1>1, <1>2 DEF Picked

\* Nothing is picked only from no places.
LEMMA PickedEmpty ==
  ASSUME NEW T, NEW s \in Seq(T), NEW S \in SUBSET DOMAIN s
  PROVE  Picked(s, S) = <<>> <=> S = {}
<1>1. ASSUME Picked(s, S) = <<>>, NEW i \in S PROVE FALSE
  <2>1. Cardinality(S) = 0
    BY <1>1, PickedPlaces
  <2>2. \E n \in 1..0 : Nth(S, n) = i
    BY <2>1, PickedPlaces
  <2> QED BY <2>2
<1> QED BY <1>1, PickedNone

\* Filters depend on what they look at only: the places of s.
LEMMA PickedSame ==
  ASSUME NEW T, NEW s \in Seq(T), NEW S \in SUBSET DOMAIN s, NEW t,
         \A i \in S : t[i] = s[i]
  PROVE  Picked(t, S) = Picked(s, S)
<1>1. \A n \in 1..Cardinality(S) : Nth(S, n) \in S
  BY PickedPlaces
<1> QED BY <1>1 DEF Picked

\* s.Add(e): the new place is behind the others.
LEMMA PickedAppend ==
  ASSUME NEW T, NEW s \in Seq(T), NEW e \in T, NEW S \in SUBSET DOMAIN s
  PROVE  /\ Picked(Append(s, e), S) = Picked(s, S)
         /\ Picked(Append(s, e), S \cup {Len(s) + 1}) = Append(Picked(s, S), e)
<1> DEFINE t == Append(s, e)
           N == Len(s) + 1
           U == S \cup {N}
           c == Cardinality(S)
<1>1. /\ Len(s) \in Nat /\ DOMAIN s = 1..Len(s) /\ N \in Nat
      /\ t \in Seq(T) /\ Len(t) = N
      /\ \A i \in 1..Len(s) : t[i] = s[i]
      /\ t[N] = e
  BY LenProperties, AppendProperties
<1> \A i \in S : i \in Nat /\ 1 <= i /\ i <= Len(s)
  BY <1>1
<1>2. Picked(t, S) = Picked(s, S)
  BY <1>1, PickedSame
<1>3. S \in SUBSET (1..Len(s)) /\ U \in SUBSET (1..N) /\ N \notin S
  BY <1>1
<1>4. IsFiniteSet(S) /\ c \in Nat
  BY <1>1, <1>3, RankType, FS_CardinalityType
<1>5. Cardinality(U) = c + 1
  BY <1>3, <1>4, FS_AddElement
<1>6. Rank(U, N) = c + 1
  <2>1. {j \in U : j <= N} = U
    BY <1>1
  <2> QED BY <1>5, <2>1 DEF Rank
<1>7. ASSUME NEW i \in S PROVE Rank(U, i) = Rank(S, i)
  <2>1. {j \in U : j <= i} = {j \in S : j <= i}
    BY <1>1
  <2> QED BY <2>1 DEF Rank
<1>8. /\ \A i \in U : Nth(U, Rank(U, i)) = i
      /\ \A n \in 1..c : Nth(S, n) \in S /\ Rank(S, Nth(S, n)) = n
  BY <1>1, <1>3, NthFacts
<1>9. N \in U
  OBVIOUS
<1>10. DOMAIN t = 1..N /\ Picked(s, S) \in Seq(T) /\ Len(Picked(s, S)) = c
  BY <1>1, PickedPlaces, LenProperties
<1>11. /\ Picked(t, U) \in Seq(T) /\ Len(Picked(t, U)) = c + 1
       /\ \A n \in 1..(c + 1) : Picked(t, U)[n] = t[Nth(U, n)]
  <2> HIDE DEF t, U, N, c
  <2>1. U \in SUBSET DOMAIN t
    BY <1>3, <1>10
  <2> QED BY <1>1, <1>5, <2>1, PickedPlaces
<1>12. \A n \in 1..c : Picked(s, S)[n] = s[Nth(S, n)]
  BY DEF Picked
<1> HIDE DEF U, N, t, c
<1>13. ASSUME NEW n \in 1..c PROVE Picked(t, U)[n] = Picked(s, S)[n]
  <2>1. Nth(S, n) \in S /\ Nth(S, n) \in U /\ Rank(U, Nth(S, n)) = n
    BY <1>7, <1>8 DEF U
  <2>2. Nth(U, n) = Nth(S, n)
    BY <1>8, <2>1
  <2>3. n \in 1..(c + 1)
    BY <1>4
  <2> QED BY <1>1, <1>11, <1>12, <2>1, <2>2, <2>3
<1>14. Picked(t, U)[c + 1] = e
  <2>1. Nth(U, c + 1) = N /\ c + 1 \in 1..(c + 1)
    BY <1>4, <1>6, <1>8, <1>9
  <2> QED BY <1>1, <1>11, <2>1
<1> DEFINE p == Picked(s, S)
           q == Append(p, e)
<1>15. /\ q \in Seq(T) /\ Len(q) = c + 1
       /\ \A n \in 1..c : q[n] = p[n]
       /\ q[c + 1] = e
  BY <1>10, AppendProperties
<1> HIDE DEF p, q
<1>16. ASSUME NEW n \in 1..(c + 1) PROVE Picked(t, U)[n] = q[n]
  <2>1. n \in 1..c \/ n = c + 1
    BY <1>4
  <2> QED BY <1>13, <1>14, <1>15, <2>1 DEF p
<1>17. Picked(t, U) = q
  BY <1>11, <1>15, <1>16, SeqEqual
<1> QED BY <1>2, <1>17 DEF t, U, N, p, q

\* Two filters one after the other are one filter.
LEMMA PickedOfPicked ==
  ASSUME NEW T, NEW s \in Seq(T), NEW U \in SUBSET DOMAIN s, NEW S \in SUBSET U
  PROVE  Picked(Picked(s, U), {n \in DOMAIN Picked(s, U) : Nth(U, n) \in S}) = Picked(s, S)
<1> DEFINE p == Picked(s, U)
           c == Cardinality(U)
           V == {n \in 1..c : Nth(U, n) \in S}
<1>1. /\ Len(s) \in Nat /\ U \in SUBSET (1..Len(s)) /\ c \in Nat
      /\ p \in Seq(T) /\ DOMAIN p = 1..c
      /\ \A n \in 1..c : p[n] = s[Nth(U, n)]
  BY PickedPlaces
<1>2. S \in SUBSET (1..Len(s)) /\ V \in SUBSET (1..c)
  BY <1>1
<1>3. /\ \A n \in 1..c : Nth(U, n) \in U /\ Rank(U, Nth(U, n)) = n
      /\ \A i \in U : Rank(U, i) \in 1..c /\ Nth(U, Rank(U, i)) = i
  BY <1>1, NthFacts
<1>4. ASSUME NEW i \in S
      PROVE  Rank(U, i) \in V /\ Rank(V, Rank(U, i)) = Rank(S, i)
  <2> DEFINE m == Rank(U, i)
             A == {j \in S : j <= i}
             B == {n \in V : n <= m}
             f == [j \in A |-> Rank(U, j)]
  <2>1. m \in V /\ m \in Nat /\ i \in Nat /\ Nth(U, m) = i
    BY <1>1, <1>2, <1>3
  <2> \A j \in S : j \in Nat /\ j \in U
    BY <1>1
  <2>2. ASSUME NEW j \in U, NEW k \in U
        PROVE  /\ Rank(U, j) \in Nat /\ Rank(U, k) \in Nat
               /\ Rank(U, j) <= Rank(U, k) <=> j <= k
               /\ Rank(U, j) = Rank(U, k) => j = k
    <3>1. Rank(U, j) \in Nat /\ Rank(U, k) \in Nat /\ j \in Nat /\ k \in Nat
      BY <1>1, <1>3
    <3>2. j < k => Rank(U, j) < Rank(U, k)
      BY <1>1, RankInjective
    <3>3. k < j => Rank(U, k) < Rank(U, j)
      BY <1>1, RankInjective
    <3> QED BY <3>1, <3>2, <3>3
  <2>3. ASSUME NEW j \in A PROVE Rank(U, j) \in B
    <3>1. Rank(U, j) \in V /\ Rank(U, j) <= m
      BY <1>3, <2>2
    <3> QED BY <3>1
  <2>4. ASSUME NEW n \in B PROVE Nth(U, n) \in A /\ Rank(U, Nth(U, n)) = n
    <3>1. Nth(U, n) \in S /\ Nth(U, n) \in U /\ Rank(U, Nth(U, n)) = n /\ n <= m
      BY <1>3
    <3>2. Nth(U, n) <= i
      BY <2>2, <3>1
    <3> QED BY <3>1, <3>2
  <2>5. f \in [A -> B] /\ (\A j, k \in A : f[j] = f[k] => j = k) /\ \A n \in B : \E j \in A : f[j] = n
    <3>1. f \in [A -> B]
      BY <2>3
    <3>2. \A j, k \in A : f[j] = f[k] => j = k
      BY <2>2
    <3>3. \A n \in B : f[Nth(U, n)] = n /\ Nth(U, n) \in A
      BY <2>4
    <3> QED BY <3>1, <3>2, <3>3
  <2> HIDE DEF f
  <2>6. f \in Bijection(A, B)
    BY <2>5 DEF Bijection, Injection, Surjection, IsInjective
  <2>7. IsFiniteSet(A)
    BY <1>1, <1>2, <2>1, RankType
  <2>8. Cardinality(B) = Cardinality(A)
    BY <2>6, <2>7, FS_Bijection DEF ExistsBijection
  <2> QED BY <2>1, <2>8 DEF Rank
<1>5. Cardinality(V) = Cardinality(S)
  <2> DEFINE g == [i \in S |-> Rank(U, i)]
  <2>1. g \in [S -> V]
    BY <1>4
  <2>2. \A i, j \in S : g[i] = g[j] => i = j
    <3>1. \A i \in S : i \in U
      OBVIOUS
    <3> QED BY <1>3, <3>1
  <2>3. \A n \in V : \E i \in S : g[i] = n
    <3>1. ASSUME NEW n \in V PROVE Nth(U, n) \in S /\ Rank(U, Nth(U, n)) = n
      BY <1>3
    <3> QED BY <3>1
  <2> HIDE DEF g, V
  <2>4. g \in Bijection(S, V)
    BY <2>1, <2>2, <2>3 DEF Bijection, Injection, Surjection, IsInjective
  <2>5. IsFiniteSet(S)
    <3>1. 0 \in Nat
      OBVIOUS
    <3> QED BY <1>1, <1>2, <3>1, RankType
  <2> QED BY <2>4, <2>5, FS_Bijection DEF ExistsBijection
<1>6. /\ \A n \in V : Nth(V, Rank(V, n)) = n
      /\ \A n \in 1..Cardinality(S) : Nth(S, n) \in S /\ Rank(S, Nth(S, n)) = n
  BY ZenonT(60), <1>1, <1>2, NthFacts
<1> HIDE DEF V, p, c
<1>7. ASSUME NEW n \in 1..Cardinality(S) PROVE p[Nth(V, n)] = s[Nth(S, n)]
  <2> DEFINE i == Nth(S, n)
             m == Rank(U, i)
  <2>1. i \in S /\ Rank(S, i) = n /\ i \in U
    BY <1>6
  <2>2. m \in V /\ Rank(V, m) = n
    BY <1>4, <2>1
  <2>3. Nth(V, n) = m /\ m \in 1..c /\ Nth(U, m) = i
    BY <1>3, <1>6, <2>1, <2>2
  <2> QED BY <1>1, <2>3
<1>8. Picked(p, V) = Picked(s, S)
  BY <1>5, <1>7 DEF Picked
<1> QED BY <1>1, <1>8 DEF p, V, c
-----------------------------------------------------------------------------
\* s.RemoveAll(o => o == x): the result has the other items of s.
LEMMA WithoutIsList ==
  ASSUME NEW T, NEW s \in Seq(T), NEW x
  PROVE  /\ Without(s, x) \in Seq(T)
         /\ \A n \in 1..Len(Without(s, x)) : \E i \in 1..Len(s) : s[i] # x /\ Without(s, x)[n] = s[i]
         /\ \A i \in 1..Len(s) : s[i] # x => \E n \in 1..Len(Without(s, x)) : Without(s, x)[n] = s[i]
<1> DEFINE w == Without(s, x)
           c == Cardinality(Kept(s, x))
<1>1. DOMAIN s = 1..Len(s)
  BY LenProperties
<1>2. Kept(s, x) \in SUBSET DOMAIN s
  BY DEF Kept
<1>3. /\ w \in Seq(T) /\ Len(w) = c
      /\ \A n \in 1..c : \E i \in Kept(s, x) : w[n] = s[i]
      /\ \A i \in Kept(s, x) : \E n \in 1..c : w[n] = s[i]
  BY <1>2, PickedPlaces DEF Without
<1> HIDE DEF w, c
<1> QED BY <1>1, <1>3 DEF w, Kept
=============================================================================
