---------------------------- MODULE OrderLemmas ----------------------------
(***************************************************************************)
(* Least and greatest elements of finite sets of integers, for the proofs  *)
(* about definitions that CHOOSE the first or the last of a set; the       *)
(* positions of a sequence and what is kept of it; and what follows from   *)
(* there being a least number: induction over an interval, and tables that *)
(* are filled row after row.                                               *)
(***************************************************************************)
EXTENDS Integers, Sequences, Subsequences, TLAPS, FiniteSetTheorems, SequenceTheorems,
        WellFoundedInduction

(* A finite nonempty set of integers has a least element: a set of initial *)
(* segments of it has a minimal one under inclusion.                       *)
LEMMA LeastElement ==
  ASSUME NEW S \in SUBSET Int, IsFiniteSet(S), S # {}
  PROVE  \E x \in S : \A y \in S : x <= y
<1> DEFINE Below(x) == {y \in S : y <= x}
           T == {Below(x) : x \in S}
<1>1. IsWellFoundedOn(StrictSubsetOrdering(S), FiniteSubsetsOf(S))
  BY FS_StrictSubsetOrderingWellFounded
<1>2. T \subseteq FiniteSubsetsOf(S)
  <2>1. FiniteSubsetsOf(S) = SUBSET S
    BY FS_FiniteSubsetsOfFinite
  <2>2. \A x \in S : Below(x) \in SUBSET S
    OBVIOUS
  <2> HIDE DEF Below
  <2> QED BY <2>1, <2>2
<1>3. T # {}
  <2> HIDE DEF Below
  <2> QED OBVIOUS
<1>4. PICK b \in T : \A c \in T : ~ (<<c, b>> \in StrictSubsetOrdering(S))
  <2> HIDE DEF T
  <2> QED BY <1>1, <1>2, <1>3, WFMin
<1>5. PICK x \in S : b = Below(x)
  BY <1>4
<1>6. ASSUME NEW y \in S, y < x PROVE FALSE
  <2>1. x \in Below(x) /\ x \notin Below(y)
    BY <1>6
  <2>2. ASSUME NEW z \in Below(y) PROVE z \in Below(x)
    <3>1. z \in S /\ z <= y
      OBVIOUS
    <3>2. z <= x
      BY <3>1, <1>6
    <3> QED BY <3>1, <3>2
  <2>3. Below(y) \in T
    OBVIOUS
  <2>4. <<Below(y), Below(x)>> \in StrictSubsetOrdering(S)
    <3> HIDE DEF T
    <3>1. Below(x) \in SUBSET S /\ Below(y) \in SUBSET S
      OBVIOUS
    <3> HIDE DEF Below
    <3> QED BY <2>1, <2>2, <3>1 DEF StrictSubsetOrdering
  <2> QED BY <1>4, <1>5, <2>3, <2>4
<1> QED BY <1>6

(* And a greatest one.                                                     *)
LEMMA GreatestElement ==
  ASSUME NEW S \in SUBSET Int, IsFiniteSet(S), S # {}
  PROVE  \E x \in S : \A y \in S : y <= x
<1> DEFINE N == {0 - y : y \in S}
           f == [y \in S |-> 0 - y]
<1>1. f \in Surjection(S, N)
  BY DEF Surjection
<1>2. IsFiniteSet(N)
  <2> HIDE DEF f, N
  <2> QED BY <1>1, FS_Surjection
<1>3. N \in SUBSET Int /\ N # {}
  <2>1. \A y \in S : 0 - y \in Int
    OBVIOUS
  <2>2. \A n \in N : n \in Int
    BY <2>1
  <2>3. PICK y \in S : TRUE
    OBVIOUS
  <2>4. 0 - y \in N
    OBVIOUS
  <2> QED BY <2>2, <2>4
<1>4. PICK n \in N : \A m \in N : n <= m
  <2> HIDE DEF N
  <2> QED BY <1>2, <1>3, LeastElement
<1>5. PICK x \in S : n = 0 - x
  BY <1>4
<1>6. ASSUME NEW y \in S PROVE y <= x
  <2>1. 0 - y \in N
    OBVIOUS
  <2>2. 0 - x <= 0 - y
    BY <2>1, <1>4, <1>5
  <2> QED BY <2>2
<1> QED BY <1>6

-----------------------------------------------------------------------------
(* Positions of a sequence                                                 *)

(* The positions of a sequence are finitely many.                          *)
LEMMA PositionsAreFinite ==
  ASSUME NEW n \in Nat, NEW at \in SUBSET (1..n)
  PROVE  /\ IsFiniteSet(at) /\ Cardinality(at) \in 0..n
         /\ \A b : IsFiniteSet({j \in at : j < b}) /\ Cardinality({j \in at : j < b}) \in Nat
<1>1. IsFiniteSet(1..n) /\ Cardinality(1..n) = n
  BY FS_Interval
<1>2. IsFiniteSet(at) /\ Cardinality(at) \in Nat /\ Cardinality(at) <= n
  BY <1>1, FS_Subset, FS_CardinalityType
<1>3. ASSUME NEW b
      PROVE  IsFiniteSet({j \in at : j < b}) /\ Cardinality({j \in at : j < b}) \in Nat
  <2>1. {j \in at : j < b} \subseteq at
    OBVIOUS
  <2> QED BY <1>2, <2>1, FS_Subset, FS_CardinalityType
<1> QED BY <1>2, <1>3

(* A set of positions has a first, a second, ... one, up to its size: the  *)
(* least bound with that many positions below it is one past it.           *)
LEMMA NthPosition ==
  ASSUME NEW n \in Nat, NEW at \in SUBSET (1..n), NEW k \in 1..Cardinality(at)
  PROVE  \E i \in at : Cardinality({j \in at : j < i}) = k - 1
<1> DEFINE Below(b) == {j \in at : j < b}
           count(b) == Cardinality(Below(b))
           Enough == {b \in 1..(n + 1) : count(b) >= k}
<1>1. IsFiniteSet(at) /\ Cardinality(at) \in 0..n /\ k \in Nat
  <2> HIDE DEF Below, count, Enough
  <2>1. at \in SUBSET (1..n)
    OBVIOUS
  <2>2. IsFiniteSet(at) /\ Cardinality(at) \in 0..n
    BY <2>1, PositionsAreFinite, Zenon
  <2>3. Cardinality(at) \in Nat /\ k \in 1..Cardinality(at)
    BY <2>2
  <2> QED BY <2>2, <2>3
<1>2. \A b : IsFiniteSet(Below(b)) /\ count(b) \in Nat
  BY PositionsAreFinite
<1>3. Below(n + 1) = at /\ Below(1) = {}
  <2>1. \A j \in at : j \in 1..n
    OBVIOUS
  <2>2. \A j \in at : j < n + 1 /\ ~(j < 1)
    BY <2>1
  <2> QED BY <2>2
<1>4. count(n + 1) = Cardinality(at) /\ count(1) = 0
  BY <1>3, FS_EmptySet
<1>5. n + 1 \in Enough
  <2> HIDE DEF count
  <2> QED BY <1>1, <1>4
<1>6. IsFiniteSet(Enough) /\ Enough \in SUBSET Int
  <2>1. IsFiniteSet(1..(n + 1))
    BY FS_Interval
  <2>2. Enough \subseteq 1..(n + 1)
    OBVIOUS
  <2> HIDE DEF Enough
  <2>3. Enough \in SUBSET Int
    BY <2>2
  <2>4. IsFiniteSet(Enough)
    BY <2>1, <2>2, FS_Subset
  <2> QED BY <2>3, <2>4
<1>7. PICK b \in Enough : \A c \in Enough : b <= c
  <2> HIDE DEF Enough
  <2> QED BY <1>5, <1>6, LeastElement
<1>8. b \in 2..(n + 1) /\ count(b) >= k /\ count(b - 1) < k
  <2>1. b \in 1..(n + 1) /\ count(b) >= k
    OBVIOUS
  <2>2. b # 1
    <3> HIDE DEF count
    <3> QED BY <2>1, <1>4
  <2>3. b - 1 \in 1..(n + 1) /\ ~(b <= b - 1)
    BY <2>1, <2>2
  <2>4. b - 1 \notin Enough
    BY <1>7, <2>3
  <2>5. ~(count(b - 1) >= k)
    <3> HIDE DEF count
    <3> QED BY <2>3, <2>4
  <2>6. count(b - 1) \in Nat
    BY <1>2
  <2> HIDE DEF count
  <2> QED BY <2>1, <2>2, <2>5, <2>6, <1>1
<1>9. b - 1 \in at
  <2>1. SUFFICES ASSUME b - 1 \notin at PROVE FALSE
    OBVIOUS
  <2>2. \A j \in at : j \in 1..n /\ j # b - 1
    BY <2>1
  <2>3. \A j \in at : j < b <=> j < b - 1
    BY <1>8, <2>2
  <2>4. Below(b) = Below(b - 1)
    BY <2>3
  <2> HIDE DEF Below
  <2> QED BY <1>8, <2>4, <1>2, <1>1
<1>10. count(b) = count(b - 1) + 1
  <2>1. b - 1 \notin Below(b - 1)
    BY <1>8
  <2>2. \A j \in at : j \in 1..n
    OBVIOUS
  <2>3. \A j \in at : j < b <=> (j < b - 1 \/ j = b - 1)
    BY <1>8, <2>2
  <2>4. Below(b) = Below(b - 1) \cup {b - 1}
    BY <2>3, <1>9
  <2> HIDE DEF Below
  <2> QED BY <2>1, <2>4, <1>2, FS_AddElement
<1>11. count(b - 1) = k - 1
  <2>1. count(b - 1) \in Nat
    BY <1>2
  <2> HIDE DEF count
  <2> QED BY <1>1, <1>8, <1>10, <2>1
<1> QED BY <1>9, <1>11

(* What is kept of a sequence is a sequence of its elements, as many as    *)
(* there are positions.                                                    *)
LEMMA SubsequenceType ==
  ASSUME NEW T, NEW s \in Seq(T), NEW at \in SUBSET DOMAIN s
  PROVE  /\ Subsequence(s, at) \in Seq(T)
         /\ Len(Subsequence(s, at)) = Cardinality(at)
<1> DEFINE nth(k) == CHOOSE i \in at : Cardinality({j \in at : j < i}) = k - 1
           c == Cardinality(at)
<1>1. Len(s) \in Nat /\ DOMAIN s = 1..Len(s)
  OBVIOUS
<1>2. c \in Nat
  BY <1>1, PositionsAreFinite
<1>3. ASSUME NEW k \in 1..c PROVE s[nth(k)] \in T
  <2>1. nth(k) \in at
    <3>1. \E i \in at : Cardinality({j \in at : j < i}) = k - 1
      BY <1>1, NthPosition
    <3> QED BY <3>1
  <2>2. nth(k) \in 1..Len(s)
    BY <1>1, <2>1
  <2> HIDE DEF nth
  <2> QED BY <2>2, ElementOfSeq
<1>4. Subsequence(s, at) = [k \in 1..c |-> s[nth(k)]]
  BY DEF Subsequence
<1> HIDE DEF nth, c
<1>5. [k \in 1..c |-> s[nth(k)]] \in Seq(T)
  BY <1>2, <1>3, IsASeq
<1>6. Len([k \in 1..c |-> s[nth(k)]]) = c
  BY <1>2, <1>5
<1> QED BY <1>4, <1>5, <1>6 DEF c

(* Each of its elements is from a position of its own.                     *)
LEMMA SubsequencePositions ==
  ASSUME NEW s, NEW n \in Nat, NEW at \in SUBSET (1..n)
  PROVE  \E from \in [1..Cardinality(at) -> at] :
           /\ \A k, l \in 1..Cardinality(at) : k # l => from[k] # from[l]
           /\ \A k \in 1..Cardinality(at) : Subsequence(s, at)[k] = s[from[k]]
<1> DEFINE nth(k) == CHOOSE i \in at : Cardinality({j \in at : j < i}) = k - 1
           c == Cardinality(at)
           from == [k \in 1..c |-> nth(k)]
<1>1. ASSUME NEW k \in 1..c PROVE nth(k) \in at /\ Cardinality({j \in at : j < nth(k)}) = k - 1
  <2>1. \E i \in at : Cardinality({j \in at : j < i}) = k - 1
    BY NthPosition
  <2> QED BY <2>1
<1>2. Subsequence(s, at) = [k \in 1..c |-> s[nth(k)]]
  BY DEF Subsequence
<1>3. c \in Nat
  BY PositionsAreFinite
<1> HIDE DEF nth, c
<1>4. \A k, l \in 1..c : k # l => from[k] # from[l]
  <2>1. ASSUME NEW k \in 1..c, NEW l \in 1..c, nth(k) = nth(l) PROVE k = l
    <3>1. k - 1 = l - 1
      BY <1>1, <2>1
    <3> QED BY <3>1
  <2> QED BY <2>1
<1>5. from \in [1..c -> at]
  BY <1>1
<1>6. \A k \in 1..c : Subsequence(s, at)[k] = s[from[k]]
  BY <1>2
<1> HIDE DEF from
<1> QED BY <1>4, <1>5, <1>6 DEF c

(* They come in the order of their positions, and none is left out.        *)
KeptInOrder(s, at, from) ==
  /\ from \in [1..Cardinality(at) -> at]
  /\ \A k, l \in 1..Cardinality(at) : k < l => from[k] < from[l]
  /\ \A i \in at : \E k \in 1..Cardinality(at) : from[k] = i
  /\ \A k \in 1..Cardinality(at) : Subsequence(s, at)[k] = s[from[k]]

LEMMA SubsequenceInOrder ==
  ASSUME NEW s, NEW n \in Nat, NEW at \in SUBSET (1..n)
  PROVE  \E from : KeptInOrder(s, at, from)
<1> DEFINE Below(i) == {j \in at : j < i}
           count(i) == Cardinality(Below(i))
           nth(k) == CHOOSE i \in at : count(i) = k - 1
           c == Cardinality(at)
           from == [k \in 1..c |-> nth(k)]
<1>1. ASSUME NEW k \in 1..c PROVE nth(k) \in at /\ count(nth(k)) = k - 1
  <2>1. \E i \in at : count(i) = k - 1
    BY NthPosition
  <2> HIDE DEF count
  <2> QED BY <2>1
<1>2. Subsequence(s, at) = [k \in 1..c |-> s[nth(k)]]
  BY DEF Subsequence
<1>3. c \in Nat /\ IsFiniteSet(at)
  BY PositionsAreFinite
<1>4. \A i : IsFiniteSet(Below(i)) /\ count(i) \in Nat
  BY PositionsAreFinite
<1>0. \A j \in at : j \in Int
  OBVIOUS
<1>5. ASSUME NEW i \in at, NEW m \in at, i < m PROVE count(i) + 1 <= count(m)
  <2>1. i \in Below(m) /\ i \notin Below(i)
    BY <1>5
  <2>2. \A j \in at : j < i => j < m
    BY <1>5, <1>0
  <2>3. Below(i) \cup {i} \subseteq Below(m)
    BY <2>1, <2>2
  <2>4. IsFiniteSet(Below(i)) /\ IsFiniteSet(Below(m))
    BY <1>4
  <2> HIDE DEF Below
  <2>5. Cardinality(Below(i) \cup {i}) = Cardinality(Below(i)) + 1
    BY <2>1, <2>4, FS_AddElement
  <2>6. Cardinality(Below(i) \cup {i}) <= Cardinality(Below(m))
    BY <2>3, <2>4, FS_Subset
  <2> QED BY <2>5, <2>6
<1>6. ASSUME NEW i \in at PROVE count(i) \in 0..(c - 1)
  <2>1. i \notin Below(i) /\ Below(i) \cup {i} \subseteq at
    OBVIOUS
  <2>2. IsFiniteSet(Below(i))
    BY <1>4
  <2> HIDE DEF Below
  <2>3. Cardinality(Below(i) \cup {i}) = Cardinality(Below(i)) + 1
    BY <2>1, <2>2, FS_AddElement
  <2>4. Cardinality(Below(i) \cup {i}) <= c
    BY <2>1, <1>3, FS_Subset
  <2>5. count(i) \in Nat
    BY <1>4
  <2> HIDE DEF c
  <2> QED BY <2>3, <2>4, <2>5, <1>3
<1> HIDE DEF nth, count, c
<1>7. ASSUME NEW k \in 1..c, NEW l \in 1..c, k < l PROVE nth(k) < nth(l)
  <2>1. /\ nth(k) \in at /\ count(nth(k)) = k - 1
        /\ nth(l) \in at /\ count(nth(l)) = l - 1
    BY <1>1
  <2>2. nth(k) # nth(l)
    BY <2>1, <1>7
  <2>3. ~(nth(l) < nth(k))
    <3>1. SUFFICES ASSUME nth(l) < nth(k) PROVE FALSE
      OBVIOUS
    <3>2. count(nth(l)) + 1 <= count(nth(k))
      BY <2>1, <3>1, <1>5
    <3> QED BY <2>1, <3>2, <1>7
  <2>4. nth(k) \in Int /\ nth(l) \in Int
    BY <2>1, <1>0
  <2> QED BY <2>2, <2>3, <2>4
<1>8. ASSUME NEW i \in at PROVE \E k \in 1..c : nth(k) = i
  <2> DEFINE k == count(i) + 1
  <2>1. k \in 1..c /\ k - 1 = count(i)
    BY <1>6, <1>3
  <2> HIDE DEF k
  <2>2. nth(k) \in at /\ count(nth(k)) = count(i)
    BY <2>1, <1>1
  <2>3. count(i) \in Nat /\ i \in Int /\ nth(k) \in Int
    <3>1. count(i) \in Nat
      BY <1>4 DEF count
    <3> QED BY <2>2, <3>1, <1>0
  <2>4. ~(nth(k) < i)
    <3>1. SUFFICES ASSUME nth(k) < i PROVE FALSE
      OBVIOUS
    <3>2. count(nth(k)) + 1 <= count(i)
      BY <2>2, <3>1, <1>5
    <3> QED BY <2>2, <2>3, <3>2
  <2>5. ~(i < nth(k))
    <3>1. SUFFICES ASSUME i < nth(k) PROVE FALSE
      OBVIOUS
    <3>2. count(i) + 1 <= count(nth(k))
      BY <2>2, <3>1, <1>5
    <3> QED BY <2>2, <2>3, <3>2
  <2>6. nth(k) = i
    BY <2>3, <2>4, <2>5
  <2> QED BY <2>1, <2>6
<1>9. from \in [1..c -> at] /\ \A k \in 1..c : from[k] = nth(k)
  BY <1>1
<1> HIDE DEF from
<1>10. \A k, l \in 1..c : k < l => from[k] < from[l]
  BY <1>7, <1>9
<1>11. \A i \in at : \E k \in 1..c : from[k] = i
  BY <1>8, <1>9
<1>12. \A k \in 1..c : Subsequence(s, at)[k] = s[from[k]]
  BY <1>2, <1>9
<1>13. KeptInOrder(s, at, from)
  BY <1>9, <1>10, <1>11, <1>12 DEF KeptInOrder, c
<1> QED BY <1>13

(* A selection of a list, as a function.                                   *)
LEMMA SubsequenceIsAFunction ==
  ASSUME NEW n \in Nat, NEW s, NEW at \in SUBSET (1..n)
  PROVE  LET t == Subsequence(s, at) IN
         Cardinality(at) \in Nat /\ t = [i \in 1..Cardinality(at) |-> t[i]]
<1>1. Cardinality(at) \in Nat
  BY PositionsAreFinite
<1>2. Subsequence(s, at) = [i \in 1..Cardinality(at) |-> Subsequence(s, at)[i]]
  BY DEF Subsequence
<1> QED BY <1>1, <1>2

-----------------------------------------------------------------------------
(* Induction over an interval                                              *)

(* A set that holds 0 and with a number the next one is the interval.      *)
LEMMA IntervalInduction ==
  ASSUME NEW n \in Nat, NEW T \in SUBSET (0..n), 0 \in T,
         \A k \in 1..n : k - 1 \in T => k \in T
  PROVE  T = 0..n
<1> DEFINE M == (0..n) \ T
<1>1. SUFFICES ASSUME M # {} PROVE FALSE
  OBVIOUS
<1>2. IsFiniteSet(M) /\ M \in SUBSET Int
  <2>1. IsFiniteSet(0..n)
    BY FS_Interval
  <2>2. M \subseteq 0..n /\ M \subseteq Int
    OBVIOUS
  <2> HIDE DEF M
  <2> QED BY <2>1, <2>2, FS_Subset
<1>3. PICK m \in M : \A k \in M : m <= k
  <2> HIDE DEF M
  <2> QED BY <1>1, <1>2, LeastElement
<1>4. m \in 1..n
  OBVIOUS
<1>5. m - 1 \in 0..n /\ ~(m <= m - 1)
  BY <1>4
<1>6. m - 1 \in T
  BY <1>3, <1>5
<1> QED BY <1>4, <1>6

(* A table whose first row is given and whose next row follows from the    *)
(* one before can be filled.                                               *)
LEMMA TableExists ==
  ASSUME NEW S, NEW base \in S, NEW n \in Nat, NEW step \in [S \X (1..n) -> S]
  PROVE  \E f \in [0..n -> S] : f[0] = base /\ \A k \in 1..n : f[k] = step[<<f[k - 1], k>>]
<1> DEFINE next(x, k) == step[<<x, k>>]
           Fills(f, m) == f[0] = base /\ \A k \in 1..m : f[k] = next(f[k - 1], k)
           T == {m \in 0..n : \E f \in [0..m -> S] : Fills(f, m)}
<1>0. \A x \in S, k \in 1..n : next(x, k) \in S
  <2>1. \A x \in S, k \in 1..n : <<x, k>> \in S \X (1..n)
    OBVIOUS
  <2> QED BY <2>1
<1> HIDE DEF next
<1>1. 0 \in T
  <2> DEFINE f == [k \in 0..0 |-> base]
  <2>1. f \in [0..0 -> S] /\ f[0] = base
    OBVIOUS
  <2>2. Fills(f, 0)
    BY <2>1
  <2> HIDE DEF f, Fills
  <2> QED BY <2>1, <2>2
<1>2. ASSUME NEW k \in 1..n, k - 1 \in T PROVE k \in T
  <2>1. PICK f \in [0..(k - 1) -> S] : Fills(f, k - 1)
    BY <1>2
  <2> DEFINE g == [i \in 0..k |-> IF i = k THEN next(f[k - 1], k) ELSE f[i]]
  <2>2. f[k - 1] \in S
    OBVIOUS
  <2>3. next(f[k - 1], k) \in S
    BY <2>2, <1>0
  <2>4. \A i \in 0..k : i = k \/ i \in 0..(k - 1)
    OBVIOUS
  <2>5. g \in [0..k -> S]
    BY <2>3, <2>4
  <2>6. g[0] = base /\ g[k] = next(f[k - 1], k)
    <3>1. 0 \in 0..k /\ k \in 0..k /\ 0 # k
      OBVIOUS
    <3> QED BY <2>1, <3>1
  <2>7. \A i \in 0..(k - 1) : g[i] = f[i]
    OBVIOUS
  <2>8. ASSUME NEW i \in 1..k PROVE g[i] = next(g[i - 1], i)
    <3>1. i - 1 \in 0..(k - 1)
      OBVIOUS
    <3>2. g[i - 1] = f[i - 1]
      BY <2>7, <3>1
    <3>3. CASE i = k
      <4> HIDE DEF g
      <4> QED BY <3>2, <3>3, <2>6
    <3>4. CASE i # k
      <4>1. i \in 1..(k - 1) /\ i \in 0..(k - 1)
        BY <3>4
      <4> HIDE DEF g
      <4> QED BY <4>1, <3>2, <2>1, <2>7
    <3> QED BY <3>3, <3>4
  <2> HIDE DEF g
  <2>9. Fills(g, k)
    BY <2>6, <2>8
  <2> HIDE DEF Fills
  <2> QED BY <2>5, <2>9
<1>3. T = 0..n
  <2>1. T \in SUBSET (0..n)
    OBVIOUS
  <2> HIDE DEF T
  <2> QED BY <1>1, <1>2, <2>1, IntervalInduction
<1>4. n \in T
  <2> HIDE DEF T
  <2> QED BY <1>3
<1>5. PICK f \in [0..n -> S] : Fills(f, n)
  BY <1>4
<1> QED BY <1>5 DEF next

(* A table whose entries are made from one another, step by step.          *)
IsTable(f, S, base, n, step) ==
  f \in [0..n -> S] /\ f[0] = base /\ \A k \in 1..n : f[k] = step[<<f[k - 1], k>>]

LEMMA TableIsMade ==
  ASSUME NEW S, NEW base \in S, NEW n \in Nat, NEW step \in [S \X (1..n) -> S]
  PROVE  \E f : IsTable(f, S, base, n, step)
<1>1. \E f \in [0..n -> S] : f[0] = base /\ \A k \in 1..n : f[k] = step[<<f[k - 1], k>>]
  BY TableExists
<1> QED BY <1>1 DEF IsTable
=============================================================================
