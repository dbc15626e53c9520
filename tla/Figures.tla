------------------------------- MODULE Figures -------------------------------
(* The arithmetic that the services share (services/ai_providers.py,         *)
(* services/pricing_ai.py: len, sum, min, max, sorted and round of Python    *)
(* over the numbers that several providers or several rows give).            *)
EXTENDS Integers, FiniteSets, Functions

\* Numbers by provider or by row: a function whose domain is finite.
Count(v) == Cardinality(DOMAIN v)

\* The sum over each set of them, and over all.
Sums(v) ==
  LET sum[S \in SUBSET DOMAIN v] ==
        IF S = {} THEN 0 ELSE LET i == CHOOSE i \in S : TRUE IN v[i] + sum[S \ {i}]
  IN sum

Sum(v) == Sums(v)[DOMAIN v]

Largest(S) == CHOOSE x \in S : \A y \in S : y <= x
Smallest(S) == CHOOSE x \in S : \A y \in S : x <= y
Size(x) == IF x < 0 THEN -x ELSE x

\* round(a / n, 0) for n > 0: to the nearest, a tie to the even neighbour.
Rounded(a, n) ==
  LET q == a \div n
      r == 2 * (a % n) IN
  IF r < n \/ (r = n /\ q % 2 = 0) THEN q ELSE q + 1

\* sorted(v)[k - 1]: fewer than k values are smaller, and k or more no larger.
Ranked(v, k) ==
  CHOOSE x \in Range(v) : /\ Cardinality({i \in DOMAIN v : v[i] < x}) < k
                          /\ k <= Cardinality({i \in DOMAIN v : v[i] <= x})

Mean(v) == Rounded(Sum(v), Count(v))
==============================================================================
