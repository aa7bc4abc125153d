----------------------------- MODULE Statistics -----------------------------
(***************************************************************************)
(* The statistics of the Flagger, on a function s of natural numbers.  The *)
(* comparisons with the median and the standard deviation are multiplied   *)
(* by twice the number of values, and squared, which leaves only integers. *)
(***************************************************************************)
EXTENDS Integers, FiniteSets, FiniteSetsExt

Count(s) == Cardinality(DOMAIN s)

\* nth_element(): the k-th smallest value.
Smallest(s, k) ==
  CHOOSE v \in {s[i] : i \in DOMAIN s} :
    /\ Cardinality({i \in DOMAIN s : s[i] < v}) < k
    /\ Cardinality({i \in DOMAIN s : s[i] <= v}) >= k

TwiceMedian(s) ==
  Smallest(s, (Count(s) + 1) \div 2) + Smallest(s, Count(s) \div 2 + 1)

Total(s) == MapThenSumSet(LAMBDA i : s[i], DOMAIN s)
ScaledVariance(s) ==
  Count(s) * Total([i \in DOMAIN s |-> s[i] * s[i]]) - Total(s) * Total(s)

\* The distance of a value from the median, and the square of sigma deviations.
Distance(s, i) == Count(s) * (2 * s[i] - TwiceMedian(s))
SquaredLimit(s, sigma) == 4 * sigma * sigma * ScaledVariance(s)

=============================================================================
