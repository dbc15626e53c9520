---------------------------- MODULE FiguresProofs ----------------------------
(***************************************************************************)
(* Facts about sums, means, extremes and ranks of any finite number of     *)
(* integers, by induction over how many there are.                         *)
(***************************************************************************)
EXTENDS Figures, FiniteSetTheorems, WellFoundedInduction, TLAPS

\* A set of natural numbers has a least one.
LEMMA LeastOf ==
  ASSUME NEW T, T \subseteq Nat, T # {}
  PROVE  \E x \in T : \A y \in T : x <= y
<1>1. PICK x \in T : \A y \in T : ~(<<y, x>> \in OpToRel(<, Nat))
  BY NatLessThanWellFounded, WFMin, Zenon
<1>2. \A y \in T : ~(y < x)
  BY <1>1 DEF OpToRel
<1> QED  BY <1>2

\* A set of numbers that has 0 and with each number the next has them all.
LEMMA Stepwise ==
  ASSUME NEW T, 0 \in T, \A n \in Nat : n \in T => n + 1 \in T
  PROVE  Nat \subseteq T
<1> SUFFICES ASSUME Nat \ T # {} PROVE FALSE
  OBVIOUS
<1>1. PICK x \in Nat \ T : \A y \in Nat \ T : x <= y
  <2>1. Nat \ T \subseteq Nat
    OBVIOUS
  <2> QED  BY <2>1, LeastOf
<1>2. x - 1 \in Nat
  BY <1>1
<1>3. x - 1 \in T
  BY <1>1, <1>2
<1> QED  BY <1>1, <1>2, <1>3

\* The recursion that defines the sums is well-founded.
LEMMA SumsUnfold ==
  ASSUME NEW v, IsFiniteSet(DOMAIN v)
  PROVE  \A S \in SUBSET DOMAIN v :
           Sums(v)[S] = IF S = {} THEN 0
                        ELSE v[CHOOSE i \in S : TRUE] + Sums(v)[S \ {CHOOSE i \in S : TRUE}]
<1> DEFINE D == DOMAIN v
           pick(S) == CHOOSE i \in S : TRUE
           R(g, S) == IF S = {} THEN 0 ELSE v[pick(S)] + g[S \ {pick(S)}]
           Small(n) == {S \in SUBSET D : Cardinality(S) <= n}
           Good == {n \in Nat : \E g : g = [S \in Small(n) |-> R(g, S)]}
<1>1. \A S \in SUBSET D : IsFiniteSet(S) /\ Cardinality(S) \in Nat
  BY FS_Subset, FS_CardinalityType
<1>2. \A S \in SUBSET D : S # {} =>
        /\ pick(S) \in S /\ S \ {pick(S)} \in SUBSET D
        /\ Cardinality(S \ {pick(S)}) = Cardinality(S) - 1
  BY <1>1, FS_RemoveElement
<1>3. 0 \in Good
  <2> DEFINE g == [S \in Small(0) |-> 0]
  <2>1. \A S \in Small(0) : S = {}
    BY <1>1, FS_EmptySet
  <2>2. g = [S \in Small(0) |-> R(g, S)]
    BY <2>1
  <2> QED  BY <2>2
<1>4. ASSUME NEW n \in Nat, n \in Good PROVE n + 1 \in Good
  <2>1. PICK h : h = [S \in Small(n) |-> R(h, S)]
    BY <1>4
  <2> DEFINE g == [S \in Small(n + 1) |-> R(h, S)]
  <2>2. \A S \in Small(n) : S \in Small(n + 1) /\ g[S] = h[S]
    <3> SUFFICES ASSUME NEW S \in Small(n) PROVE S \in Small(n + 1) /\ g[S] = h[S]
      OBVIOUS
    <3>1. S \in Small(n + 1)
      BY <1>1
    <3>2. h[S] = R(h, S)
      BY <2>1
    <3> HIDE DEF R
    <3> QED  BY <3>1, <3>2
  <2>3. \A S \in Small(n + 1) : R(h, S) = R(g, S)
    <3> SUFFICES ASSUME NEW S \in Small(n + 1) PROVE R(h, S) = R(g, S)
      OBVIOUS
    <3> HIDE DEF g
    <3>1. CASE S = {}
      BY <3>1
    <3>2. CASE S # {}
      <4>1. S \ {pick(S)} \in Small(n)
        BY <1>1, <1>2, <3>2
      <4>2. h[S \ {pick(S)}] = g[S \ {pick(S)}]
        <5> HIDE DEF pick, Small
        <5> QED  BY <2>2, <4>1
      <4> HIDE DEF pick
      <4> QED  BY <3>2, <4>2
    <3> QED  BY <3>1, <3>2
  <2>4. g = [S \in Small(n + 1) |-> R(g, S)]
    <3>1. g = [S \in Small(n + 1) |-> R(h, S)]
      OBVIOUS
    <3> HIDE DEF g, R, Small
    <3> QED  BY <2>3, <3>1
  <2> HIDE DEF g, R, Small
  <2> QED  BY <1>4, <2>4
<1>5. Cardinality(D) \in Good
  <2> HIDE DEF Good
  <2>1. Nat \subseteq Good
    BY <1>3, <1>4, Stepwise
  <2> QED  BY <1>1, <2>1
<1>6. Small(Cardinality(D)) = SUBSET D
  BY FS_Subset
<1>7. \E g : g = [S \in SUBSET D |-> R(g, S)]
  <2>1. \E g : g = [S \in Small(Cardinality(D)) |-> R(g, S)]
    BY <1>5
  <2> HIDE DEF R, Small
  <2> QED  BY <1>6, <2>1
<1>8. Sums(v) = CHOOSE g : g = [S \in SUBSET D |-> R(g, S)]
  BY DEF Sums
<1>9. Sums(v) = [S \in SUBSET D |-> R(Sums(v), S)]
  <2> HIDE DEF R
  <2> QED  BY <1>7, <1>8
<1> QED  BY <1>9

\* The sums are integers when the numbers are.
LEMMA SumsType ==
  ASSUME NEW v, IsFiniteSet(DOMAIN v), \A i \in DOMAIN v : v[i] \in Int
  PROVE  \A S \in SUBSET DOMAIN v : Sums(v)[S] \in Int
<1> DEFINE Good == {n \in Nat : \A S \in SUBSET DOMAIN v : Cardinality(S) = n => Sums(v)[S] \in Int}
<1>1. \A S \in SUBSET DOMAIN v : IsFiniteSet(S) /\ Cardinality(S) \in Nat
  BY FS_Subset, FS_CardinalityType
<1>2. 0 \in Good
  <2>1. ASSUME NEW S \in SUBSET DOMAIN v, Cardinality(S) = 0 PROVE Sums(v)[S] \in Int
    <3>1. S = {}
      BY <1>1, <2>1, FS_EmptySet
    <3>2. Sums(v)[S] = 0
      BY <3>1, SumsUnfold
    <3> QED  BY <3>2
  <2> QED  BY <2>1
<1>3. ASSUME NEW n \in Nat, n \in Good PROVE n + 1 \in Good
  <2> SUFFICES ASSUME NEW S \in SUBSET DOMAIN v, Cardinality(S) = n + 1 PROVE Sums(v)[S] \in Int
    OBVIOUS
  <2> DEFINE i == CHOOSE i \in S : TRUE
  <2>1. S # {} /\ i \in S
    BY FS_EmptySet
  <2>2. Cardinality(S \ {i}) = n /\ S \ {i} \in SUBSET DOMAIN v
    <3>1. \A k \in S : S \ {k} \in SUBSET DOMAIN v /\ Cardinality(S \ {k}) = n
      BY <1>1, FS_RemoveElement
    <3> HIDE DEF i
    <3> QED  BY <2>1, <3>1
  <2>3. Sums(v)[S] = v[i] + Sums(v)[S \ {i}]
    BY <2>1, SumsUnfold
  <2> HIDE DEF i
  <2>4. Sums(v)[S \ {i}] \in Int
    BY <1>3, <2>2
  <2> QED  BY <2>1, <2>3, <2>4
<1> HIDE DEF Good
<1>4. Nat \subseteq Good
  BY <1>2, <1>3, Stepwise
<1> QED  BY <1>1, <1>4 DEF Good

\* Any of the numbers can be taken out of a sum first.
LEMMA SumsTake ==
  ASSUME NEW v, IsFiniteSet(DOMAIN v), \A i \in DOMAIN v : v[i] \in Int
  PROVE  \A S \in SUBSET DOMAIN v : \A i \in S : Sums(v)[S] = v[i] + Sums(v)[S \ {i}]
<1> DEFINE Takes(S) == \A i \in S : Sums(v)[S] = v[i] + Sums(v)[S \ {i}]
           Good == {n \in Nat : \A S \in SUBSET DOMAIN v : Cardinality(S) = n => Takes(S)}
<1>1. \A S \in SUBSET DOMAIN v : IsFiniteSet(S) /\ Cardinality(S) \in Nat /\ Sums(v)[S] \in Int
  BY FS_Subset, FS_CardinalityType, SumsType
<1>2. 0 \in Good
  <2>1. \A S \in SUBSET DOMAIN v : Cardinality(S) = 0 => S = {}
    BY <1>1, FS_EmptySet
  <2> QED  BY <2>1
<1>3. ASSUME NEW n \in Nat, n \in Good PROVE n + 1 \in Good
  <2> SUFFICES ASSUME NEW S \in SUBSET DOMAIN v, Cardinality(S) = n + 1, NEW i \in S
               PROVE  Sums(v)[S] = v[i] + Sums(v)[S \ {i}]
    OBVIOUS
  <2> DEFINE j == CHOOSE j \in S : TRUE
  <2>1. j \in S
    OBVIOUS
  <2>2. Sums(v)[S] = v[j] + Sums(v)[S \ {j}]
    BY SumsUnfold
  <2> HIDE DEF j
  <2>3. \A k \in S : S \ {k} \in SUBSET DOMAIN v /\ Cardinality(S \ {k}) = n
    BY <1>1, FS_RemoveElement
  <2>4. CASE i = j
    BY <2>2, <2>4
  <2>5. CASE i # j
    <3>1. Sums(v)[S \ {j}] = v[i] + Sums(v)[(S \ {j}) \ {i}]
      <4>1. Takes(S \ {j}) /\ i \in S \ {j}
        BY <1>3, <2>1, <2>3, <2>5
      <4> QED  BY <4>1
    <3>2. Sums(v)[S \ {i}] = v[j] + Sums(v)[(S \ {i}) \ {j}]
      <4>1. Takes(S \ {i}) /\ j \in S \ {i}
        BY <1>3, <2>1, <2>3, <2>5
      <4> QED  BY <4>1
    <3>3. (S \ {j}) \ {i} = (S \ {i}) \ {j} /\ (S \ {i}) \ {j} \in SUBSET DOMAIN v
      OBVIOUS
    <3>4. Sums(v)[(S \ {i}) \ {j}] \in Int /\ v[i] \in Int /\ v[j] \in Int
      BY <1>1, <2>1, <3>3
    <3>5. Sums(v)[(S \ {j}) \ {i}] = Sums(v)[(S \ {i}) \ {j}]
      BY <3>3
    <3> QED  BY <2>2, <3>1, <3>2, <3>4, <3>5
  <2> QED  BY <2>4, <2>5
<1> HIDE DEF Good
<1>4. Nat \subseteq Good
  BY <1>2, <1>3, Stepwise
<1> QED  BY <1>1, <1>4 DEF Good

\* A sum of n numbers between lo and hi is between n * lo and n * hi.
LEMMA SumsBounded ==
  ASSUME NEW v, IsFiniteSet(DOMAIN v), \A i \in DOMAIN v : v[i] \in Int,
         NEW lo \in Int, NEW hi \in Int, \A i \in DOMAIN v : lo <= v[i] /\ v[i] <= hi
  PROVE  /\ Sum(v) \in Int /\ Count(v) \in Nat
         /\ Count(v) * lo <= Sum(v) /\ Sum(v) <= Count(v) * hi
<1> DEFINE Good == {n \in Nat : \A S \in SUBSET DOMAIN v : Cardinality(S) = n =>
                                  n * lo <= Sums(v)[S] /\ Sums(v)[S] <= n * hi}
<1>1. \A S \in SUBSET DOMAIN v : IsFiniteSet(S) /\ Cardinality(S) \in Nat /\ Sums(v)[S] \in Int
  BY FS_Subset, FS_CardinalityType, SumsType
<1>2. \A S \in SUBSET DOMAIN v : \A k \in S :
        S \ {k} \in SUBSET DOMAIN v /\ Cardinality(S \ {k}) = Cardinality(S) - 1
  BY <1>1, FS_RemoveElement
<1>3. 0 \in Good
  <2> SUFFICES ASSUME NEW S \in SUBSET DOMAIN v, Cardinality(S) = 0
               PROVE  0 * lo <= Sums(v)[S] /\ Sums(v)[S] <= 0 * hi
    OBVIOUS
  <2>1. S = {}
    BY <1>1, FS_EmptySet
  <2>2. Sums(v)[S] = 0
    BY <2>1, SumsUnfold
  <2> QED  BY <2>2
<1>4. ASSUME NEW n \in Nat, n \in Good PROVE n + 1 \in Good
  <2> SUFFICES ASSUME NEW S \in SUBSET DOMAIN v, Cardinality(S) = n + 1
               PROVE  (n + 1) * lo <= Sums(v)[S] /\ Sums(v)[S] <= (n + 1) * hi
    OBVIOUS
  <2>1. PICK i \in S : TRUE
    BY FS_EmptySet
  <2>2. S \ {i} \in SUBSET DOMAIN v /\ Cardinality(S \ {i}) = n
    BY <1>2, <2>1
  <2>3. Sums(v)[S] = v[i] + Sums(v)[S \ {i}]
    BY SumsTake
  <2>4. n * lo <= Sums(v)[S \ {i}] /\ Sums(v)[S \ {i}] <= n * hi
    BY <1>4, <2>2
  <2>5. Sums(v)[S \ {i}] \in Int /\ v[i] \in Int /\ lo <= v[i] /\ v[i] <= hi
    BY <1>1, <2>2
  <2>6. (n + 1) * lo = n * lo + lo /\ (n + 1) * hi = n * hi + hi /\ n * lo \in Int /\ n * hi \in Int
    OBVIOUS
  <2> QED  BY <2>3, <2>4, <2>5, <2>6
<1> HIDE DEF Good
<1>5. Nat \subseteq Good
  BY <1>3, <1>4, Stepwise
<1> QED  BY <1>1, <1>5 DEF Good, Sum, Count

-----------------------------------------------------------------------------
(* Rounding                                                                *)

\* Division leaves less than the divisor.
LEMMA Divides ==
  ASSUME NEW a \in Int, NEW n \in Nat, n > 0
  PROVE  /\ a \div n \in Int /\ a % n \in 0..(n - 1)
         /\ a = n * (a \div n) + (a % n)
  BY SMT

\* A rounded quotient is within half of the quotient.
LEMMA RoundedWithinHalf ==
  ASSUME NEW a \in Int, NEW n \in Nat, n > 0
  PROVE  /\ Rounded(a, n) \in Int
         /\ 2 * (n * Rounded(a, n)) <= 2 * a + n
         /\ 2 * a <= 2 * (n * Rounded(a, n)) + n
<1> DEFINE q == a \div n
           r == a % n
<1>1. q \in Int /\ r \in Int /\ 0 <= r /\ r < n /\ a = n * q + r
  BY Divides
<1>2. Rounded(a, n) = IF 2 * r < n \/ (2 * r = n /\ q % 2 = 0) THEN q ELSE q + 1
  BY DEF Rounded
<1> HIDE DEF q, r
<1>3. n * (q + 1) = n * q + n /\ n * q \in Int
  BY <1>1
<1>4. CASE Rounded(a, n) = q /\ 2 * r <= n
  BY <1>1, <1>3, <1>4
<1>5. CASE Rounded(a, n) = q + 1 /\ n <= 2 * r
  BY <1>1, <1>3, <1>5
<1> QED  BY <1>1, <1>2, <1>4, <1>5

-----------------------------------------------------------------------------
(* The extremes, the mean and the ranks of some numbers                    *)

\* Some number is the smallest and some the largest.
LEMMA Extremes ==
  ASSUME NEW v, IsFiniteSet(DOMAIN v), DOMAIN v # {}, \A i \in DOMAIN v : v[i] \in Int
  PROVE  \E i, j \in DOMAIN v : \A k \in DOMAIN v : v[i] <= v[k] /\ v[k] <= v[j]
<1> DEFINE Has(S) == \E i, j \in S : \A k \in S : v[i] <= v[k] /\ v[k] <= v[j]
           Good == {n \in Nat : \A S \in SUBSET DOMAIN v : Cardinality(S) = n + 1 => Has(S)}
<1>1. \A S \in SUBSET DOMAIN v : IsFiniteSet(S) /\ Cardinality(S) \in Nat
  BY FS_Subset, FS_CardinalityType
<1>2. 0 \in Good
  <2> SUFFICES ASSUME NEW S \in SUBSET DOMAIN v, Cardinality(S) = 1 PROVE Has(S)
    OBVIOUS
  <2>1. PICK i : S = {i}
    BY <1>1, FS_Singleton
  <2> QED  BY <2>1
<1>3. ASSUME NEW n \in Nat, n \in Good PROVE n + 1 \in Good
  <2> SUFFICES ASSUME NEW S \in SUBSET DOMAIN v, Cardinality(S) = n + 1 + 1 PROVE Has(S)
    OBVIOUS
  <2>1. PICK x \in S : TRUE
    BY FS_EmptySet
  <2>2. S \ {x} \in SUBSET DOMAIN v /\ Cardinality(S \ {x}) = n + 1
    <3>1. \A k \in S : S \ {k} \in SUBSET DOMAIN v /\ Cardinality(S \ {k}) = n + 1
      BY <1>1, FS_RemoveElement
    <3> QED  BY <2>1, <3>1
  <2>3. PICK i \in S \ {x} : \E j \in S \ {x} : \A k \in S \ {x} : v[i] <= v[k] /\ v[k] <= v[j]
    BY <1>3, <2>2
  <2>4. PICK j \in S \ {x} : \A k \in S \ {x} : v[i] <= v[k] /\ v[k] <= v[j]
    BY <2>3
  <2> DEFINE a == IF v[x] < v[i] THEN x ELSE i
             b == IF v[j] < v[x] THEN x ELSE j
  <2>5. v[i] \in Int /\ v[j] \in Int /\ v[x] \in Int /\ \A k \in S : v[k] \in Int
    BY <2>1, <2>3, <2>4
  <2>6. a \in S /\ b \in S
    BY <2>1, <2>3, <2>4
  <2>7. v[a] <= v[i] /\ v[a] <= v[x] /\ v[j] <= v[b] /\ v[x] <= v[b] /\ v[a] \in Int /\ v[b] \in Int
    BY <2>5
  <2> HIDE DEF a, b
  <2>8. \A k \in S : v[a] <= v[k] /\ v[k] <= v[b]
    <3> SUFFICES ASSUME NEW k \in S PROVE v[a] <= v[k] /\ v[k] <= v[b]
      OBVIOUS
    <3>1. CASE k = x
      BY <2>7, <3>1
    <3>2. CASE k # x
      <4>1. v[i] <= v[k] /\ v[k] <= v[j] /\ v[k] \in Int
        BY <2>4, <2>5, <3>2
      <4> QED  BY <2>5, <2>7, <4>1
    <3> QED  BY <3>1, <3>2
  <2> QED  BY <2>6, <2>8
<1> HIDE DEF Good
<1>4. Nat \subseteq Good
  BY <1>2, <1>3, Stepwise
<1>5. Cardinality(DOMAIN v) - 1 \in Nat /\ (Cardinality(DOMAIN v) - 1) + 1 = Cardinality(DOMAIN v)
  BY <1>1, FS_EmptySet
<1>6. Cardinality(DOMAIN v) - 1 \in Good
  BY <1>4, <1>5
<1> QED  BY <1>5, <1>6 DEF Good

\* What Smallest and Largest say of the values.
LEMMA Bounds ==
  ASSUME NEW v, IsFiniteSet(DOMAIN v), DOMAIN v # {}, \A i \in DOMAIN v : v[i] \in Int
  PROVE  LET lo == Smallest(Range(v))
             hi == Largest(Range(v)) IN
         /\ lo \in Int /\ hi \in Int /\ lo <= hi
         /\ lo \in Range(v) /\ hi \in Range(v)
         /\ \A i \in DOMAIN v : lo <= v[i] /\ v[i] <= hi
<1>1. PICK i, j \in DOMAIN v : \A k \in DOMAIN v : v[i] <= v[k] /\ v[k] <= v[j]
  BY Extremes
<1>2. Range(v) \subseteq Int /\ v[i] \in Range(v) /\ v[j] \in Range(v)
  BY DEF Range
<1>3. \A y \in Range(v) : v[i] <= y /\ y <= v[j]
  BY <1>1 DEF Range
<1>4. \E x \in Range(v) : \A y \in Range(v) : x <= y
  BY <1>2, <1>3
<1>5. \E x \in Range(v) : \A y \in Range(v) : y <= x
  BY <1>2, <1>3
<1>6. Smallest(Range(v)) \in Range(v) /\ \A y \in Range(v) : Smallest(Range(v)) <= y
  BY <1>4 DEF Smallest
<1>7. Largest(Range(v)) \in Range(v) /\ \A y \in Range(v) : y <= Largest(Range(v))
  BY <1>5 DEF Largest
<1>8. \A k \in DOMAIN v : v[k] \in Range(v)
  BY DEF Range
<1> QED  BY <1>2, <1>6, <1>7, <1>8

\* The rounded mean stays between two integers that enclose the numbers.
LEMMA MeanBetween ==
  ASSUME NEW v, IsFiniteSet(DOMAIN v), DOMAIN v # {}, \A i \in DOMAIN v : v[i] \in Int,
         NEW lo \in Int, NEW hi \in Int, \A i \in DOMAIN v : lo <= v[i] /\ v[i] <= hi
  PROVE  Mean(v) \in lo..hi
<1> DEFINE n == Count(v)
           s == Sum(v)
           q == Mean(v)
<1>1. s \in Int /\ n \in Nat /\ n * lo <= s /\ s <= n * hi
  BY SumsBounded
<1>2. n > 0
  BY <1>1, FS_EmptySet DEF Count
<1>3. q \in Int /\ 2 * (n * q) <= 2 * s + n /\ 2 * s <= 2 * (n * q) + n
  <2> HIDE DEF n, s
  <2>1. /\ Rounded(s, n) \in Int
        /\ 2 * (n * Rounded(s, n)) <= 2 * s + n
        /\ 2 * s <= 2 * (n * Rounded(s, n)) + n
    BY <1>1, <1>2, RoundedWithinHalf
  <2> QED  BY <2>1 DEF Mean, n, s
<1> HIDE DEF n, s, q
<1>4. lo <= q
  <2> SUFFICES ASSUME q <= lo - 1 PROVE FALSE
    BY <1>3
  <2>1. n * q <= n * (lo - 1)
    BY <1>1, <1>3
  <2>2. n * (lo - 1) = n * lo - n /\ n * lo \in Int /\ n * q \in Int
    BY <1>1, <1>3
  <2> QED  BY <1>1, <1>2, <1>3, <2>1, <2>2
<1>5. q <= hi
  <2> SUFFICES ASSUME hi + 1 <= q PROVE FALSE
    BY <1>3
  <2>1. n * (hi + 1) <= n * q
    BY <1>1, <1>3
  <2>2. n * (hi + 1) = n * hi + n /\ n * hi \in Int /\ n * q \in Int
    BY <1>1, <1>3
  <2> QED  BY <1>1, <1>2, <1>3, <2>1, <2>2
<1> QED  BY <1>3, <1>4, <1>5 DEF q

\* There is a number of each rank.
LEMMA RankExists ==
  ASSUME NEW v, IsFiniteSet(DOMAIN v), \A i \in DOMAIN v : v[i] \in Int,
         NEW k \in Nat, 1 <= k, k <= Count(v)
  PROVE  /\ Ranked(v, k) \in Range(v)
         /\ Cardinality({i \in DOMAIN v : v[i] < Ranked(v, k)}) < k
         /\ k <= Cardinality({i \in DOMAIN v : v[i] <= Ranked(v, k)})
<1> DEFINE Below(x) == {j \in DOMAIN v : v[j] < x}
           UpTo(x) == {j \in DOMAIN v : v[j] <= x}
           T == {i \in DOMAIN v : k <= Cardinality(UpTo(v[i]))}
<1>1. \A S \in SUBSET DOMAIN v : IsFiniteSet(S) /\ Cardinality(S) \in Nat
  BY FS_Subset, FS_CardinalityType
<1>2. DOMAIN v # {}
  BY FS_EmptySet DEF Count
<1>3. T # {}
  <2>1. PICK i, j \in DOMAIN v : \A m \in DOMAIN v : v[i] <= v[m] /\ v[m] <= v[j]
    BY <1>2, Extremes
  <2>2. UpTo(v[j]) = DOMAIN v
    BY <2>1
  <2> QED  BY <2>2 DEF Count
<1>4. PICK i \in T : \A m \in T : v[i] <= v[m]
  <2> DEFINE w == [m \in T |-> v[m]]
  <2>1. IsFiniteSet(T)
    BY <1>1
  <2>2. DOMAIN w = T /\ \A m \in T : w[m] = v[m] /\ w[m] \in Int
    OBVIOUS
  <2> HIDE DEF w, T
  <2>3. PICK a, b \in DOMAIN w : \A m \in DOMAIN w : w[a] <= w[m] /\ w[m] <= w[b]
    BY <1>3, <2>1, <2>2, Extremes
  <2> QED  BY <2>2, <2>3
<1>5. i \in DOMAIN v /\ v[i] \in Int /\ k <= Cardinality(UpTo(v[i]))
  BY <1>4
<1>6. Cardinality(Below(v[i])) < k
  <2> SUFFICES ASSUME k <= Cardinality(Below(v[i])) PROVE FALSE
    BY <1>1
  <2> DEFINE L == Below(v[i])
             w == [m \in L |-> v[m]]
  <2>1. IsFiniteSet(L) /\ L # {}
    <3>1. L \in SUBSET DOMAIN v /\ Cardinality(L) # 0
      BY <1>1
    <3> HIDE DEF L
    <3> QED  BY <1>1, <3>1, FS_EmptySet
  <2>2. DOMAIN w = L /\ \A m \in L : w[m] = v[m] /\ w[m] \in Int
    OBVIOUS
  <2>3. PICK a, b \in L : \A m \in L : v[a] <= v[m] /\ v[m] <= v[b]
    <3> HIDE DEF w, L
    <3>1. PICK a, b \in DOMAIN w : \A m \in DOMAIN w : w[a] <= w[m] /\ w[m] <= w[b]
      BY <2>1, <2>2, Extremes
    <3>2. a \in L /\ b \in L /\ \A m \in L : v[a] <= v[m] /\ v[m] <= v[b]
      BY <2>2, <3>1
    <3> QED  BY <3>2
  <2>4. UpTo(v[b]) = L
    <3>1. b \in DOMAIN v /\ v[b] < v[i] /\ v[b] \in Int
      BY <2>3
    <3>2. \A m \in DOMAIN v : v[m] <= v[b] => v[m] < v[i]
      BY <1>5, <3>1
    <3>3. \A m \in L : v[m] <= v[b]
      BY <2>3
    <3> QED  BY <3>2, <3>3
  <2>5. b \in T
    BY <2>3, <2>4
  <2>6. v[i] <= v[b] /\ v[b] < v[i] /\ v[b] \in Int
    BY <1>4, <2>3, <2>5
  <2> QED  BY <1>5, <2>6
<1>7. v[i] \in Range(v)
  BY <1>5 DEF Range
<1>8. \E x \in Range(v) : Cardinality(Below(x)) < k /\ k <= Cardinality(UpTo(x))
  BY <1>5, <1>6, <1>7
<1> QED  BY <1>8 DEF Ranked

-----------------------------------------------------------------------------
(* Renumbering: the numbers w are the numbers v, renumbered by p           *)

Renumbers(p, w, v) ==
  /\ p \in [DOMAIN w -> DOMAIN v] /\ \A i \in DOMAIN w : w[i] = v[p[i]]
  /\ \A i, j \in DOMAIN w : p[i] = p[j] => i = j
  /\ \A k \in DOMAIN v : \E i \in DOMAIN w : p[i] = k

\* An injective image of a set is as large.
LEMMA ImageSize ==
  ASSUME NEW p, NEW S \in SUBSET DOMAIN p, IsFiniteSet(S),
         \A i, j \in S : p[i] = p[j] => i = j
  PROVE  /\ IsFiniteSet({p[i] : i \in S})
         /\ Cardinality({p[i] : i \in S}) = Cardinality(S)
<1> DEFINE T == {p[i] : i \in S}
           b == [i \in S |-> p[i]]
<1>1. b \in [S -> T] /\ (\A i, j \in S : b[i] = b[j] => i = j) /\ \A t \in T : \E i \in S : b[i] = t
  OBVIOUS
<1> HIDE DEF b, T
<1>2. b \in Bijection(S, T)
  BY <1>1 DEF Bijection, Injection, Surjection, IsInjective
<1>3. ExistsBijection(S, T)
  BY <1>2 DEF ExistsBijection
<1> QED  BY <1>3, FS_Bijection DEF T

\* Renumbering changes neither how many numbers there are nor which.
LEMMA RenumberedSame ==
  ASSUME NEW p, NEW w, NEW v, Renumbers(p, w, v), IsFiniteSet(DOMAIN w)
  PROVE  /\ IsFiniteSet(DOMAIN v) /\ Count(w) = Count(v) /\ Range(w) = Range(v)
         /\ \A k : Ranked(w, k) = Ranked(v, k)
<1>1. {p[i] : i \in DOMAIN w} = DOMAIN v /\ DOMAIN p = DOMAIN w
  BY DEF Renumbers
<1>2. IsFiniteSet(DOMAIN v) /\ Count(w) = Count(v)
  <2>1. \A i, j \in DOMAIN w : p[i] = p[j] => i = j
    BY DEF Renumbers
  <2> QED  BY <1>1, <2>1, ImageSize DEF Count
<1>3. Range(w) = Range(v)
  BY DEF Renumbers, Range
<1>4. ASSUME NEW x
      PROVE  /\ Cardinality({i \in DOMAIN w : w[i] < x}) = Cardinality({i \in DOMAIN v : v[i] < x})
             /\ Cardinality({i \in DOMAIN w : w[i] <= x}) = Cardinality({i \in DOMAIN v : v[i] <= x})
  <2> DEFINE L == {i \in DOMAIN w : w[i] < x}
             U == {i \in DOMAIN w : w[i] <= x}
  <2>1. {p[i] : i \in L} = {i \in DOMAIN v : v[i] < x}
    BY DEF Renumbers
  <2>2. {p[i] : i \in U} = {i \in DOMAIN v : v[i] <= x}
    BY DEF Renumbers
  <2>3. L \in SUBSET DOMAIN p /\ U \in SUBSET DOMAIN p /\ IsFiniteSet(L) /\ IsFiniteSet(U)
    <3>1. L \in SUBSET DOMAIN w /\ U \in SUBSET DOMAIN w
      OBVIOUS
    <3> HIDE DEF L, U
    <3> QED  BY <1>1, <3>1, FS_Subset
  <2>4. (\A i, j \in L : p[i] = p[j] => i = j) /\ (\A i, j \in U : p[i] = p[j] => i = j)
    BY DEF Renumbers
  <2> HIDE DEF L, U
  <2>5. Cardinality({p[i] : i \in L}) = Cardinality(L) /\ Cardinality({p[i] : i \in U}) = Cardinality(U)
    BY <2>3, <2>4, ImageSize
  <2> QED  BY <2>1, <2>2, <2>5 DEF L, U
<1>5. ASSUME NEW k PROVE Ranked(w, k) = Ranked(v, k)
  <2> DEFINE Is(u, x) == /\ Cardinality({i \in DOMAIN u : u[i] < x}) < k
                         /\ k <= Cardinality({i \in DOMAIN u : u[i] <= x})
  <2>1. \A x : Is(w, x) = Is(v, x)
    BY <1>4
  <2>2. Ranked(w, k) = (CHOOSE x \in Range(w) : Is(w, x)) /\ Ranked(v, k) = (CHOOSE x \in Range(v) : Is(v, x))
    BY DEF Ranked
  <2> HIDE DEF Is
  <2> QED  BY <1>3, <2>1, <2>2
<1> QED  BY <1>2, <1>3, <1>5

\* Renumbering does not change the sum.
LEMMA RenumberedSum ==
  ASSUME NEW p, NEW w, NEW v, Renumbers(p, w, v), IsFiniteSet(DOMAIN w),
         \A i \in DOMAIN v : v[i] \in Int
  PROVE  Sum(w) = Sum(v)
<1> DEFINE Image(S) == {p[i] : i \in S}
           Good == {n \in Nat : \A S \in SUBSET DOMAIN w : Cardinality(S) = n =>
                                  Sums(w)[S] = Sums(v)[Image(S)]}
<1>1. /\ p \in [DOMAIN w -> DOMAIN v] /\ \A i \in DOMAIN w : w[i] = v[p[i]]
      /\ \A i, j \in DOMAIN w : p[i] = p[j] => i = j
      /\ Image(DOMAIN w) = DOMAIN v
  BY DEF Renumbers
<1>2. IsFiniteSet(DOMAIN v) /\ \A i \in DOMAIN w : w[i] \in Int
  BY <1>1, RenumberedSame
<1>3. \A S \in SUBSET DOMAIN w : IsFiniteSet(S) /\ Cardinality(S) \in Nat
  BY FS_Subset, FS_CardinalityType
<1>4. 0 \in Good
  <2> SUFFICES ASSUME NEW S \in SUBSET DOMAIN w, Cardinality(S) = 0
               PROVE  Sums(w)[S] = Sums(v)[Image(S)]
    OBVIOUS
  <2>1. S = {} /\ Image(S) = {}
    BY <1>3, FS_EmptySet
  <2>2. Sums(w)[{}] = 0 /\ Sums(v)[{}] = 0
    BY <1>2, SumsUnfold
  <2> QED  BY <2>1, <2>2
<1>5. ASSUME NEW n \in Nat, n \in Good PROVE n + 1 \in Good
  <2> SUFFICES ASSUME NEW S \in SUBSET DOMAIN w, Cardinality(S) = n + 1
               PROVE  Sums(w)[S] = Sums(v)[Image(S)]
    OBVIOUS
  <2>1. PICK i \in S : TRUE
    BY FS_EmptySet
  <2>2. S \ {i} \in SUBSET DOMAIN w /\ Cardinality(S \ {i}) = n
    <3>1. \A k \in S : S \ {k} \in SUBSET DOMAIN w /\ Cardinality(S \ {k}) = n
      BY <1>3, FS_RemoveElement
    <3> QED  BY <2>1, <3>1
  <2>3. Sums(w)[S] = w[i] + Sums(w)[S \ {i}]
    BY <1>2, SumsTake
  <2>4. Sums(w)[S \ {i}] = Sums(v)[Image(S \ {i})]
    BY <1>5, <2>2
  <2>5. Image(S \ {i}) = Image(S) \ {p[i]} /\ Image(S) \in SUBSET DOMAIN v /\ p[i] \in Image(S)
    BY <1>1, <2>1
  <2>6. Sums(v)[Image(S)] = v[p[i]] + Sums(v)[Image(S) \ {p[i]}]
    <3> HIDE DEF Image
    <3> QED  BY <1>2, <2>5, SumsTake
  <2>7. w[i] = v[p[i]]
    BY <1>1
  <2> HIDE DEF Image
  <2> QED  BY <2>3, <2>4, <2>5, <2>6, <2>7
<1> HIDE DEF Good, Image
<1>6. Nat \subseteq Good
  BY <1>4, <1>5, Stepwise
<1> QED  BY <1>1, <1>3, <1>6 DEF Good, Sum
==============================================================================
