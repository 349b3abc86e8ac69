------------------------------ MODULE Statistics -------------------------------
(***************************************************************************)
(* What benchmark() of src/src/profile.c prints about its results, a       *)
(* sequence of cycle counts (below 2^31, so that the difference cmpfunc    *)
(* returns does not overflow).  Quotients are pairs of integers.           *)
(***************************************************************************)
EXTENDS Integers, Sequences, TLC, Functions, SequencesExt

(* qsort.                                                                  *)
Sorted(results) == SortSeq(results, <)

(* middle is a quotient of integers, so that only the first branch, with   *)
(* its index from 0, is ever taken.                                        *)
Median(results) == Sorted(results)[(Len(results) \div 2) + 1]

(* Numerator and denominator of s2: the loop over the sorted results       *)
(* assigns the square of the last one's distance from the mean.            *)
EmpiricalVariance(results) ==
  LET n == Len(results)
  IN  <<(n * Last(Sorted(results)) - SumFunction(results)) ^ 2,
        n * n * (n - 1)>>

OverThreshold(results, threshold) ==
  Len(SelectSeq(results, LAMBDA r : r > threshold))

OtherThanMedian(results) ==
  Len(SelectSeq(results, LAMBDA r : r # Median(results)))

-----------------------------------------------------------------------------
(* What the numbers are, for results of one length n.                      *)

(* Not more than half of the results lie on either side of the median, and *)
(* all other than it lie on one of them.                                   *)
MedianIsInTheMiddle(n, values) ==
  \A results \in [1 .. n -> values] :
    LET above == OverThreshold(results, Median(results))
        below == OtherThanMedian(results) - above
    IN  2 * above <= n /\ 2 * below <= n

(* The printed variance is at most the one its name says, the mean square  *)
(* of all distances, and equal to it only if all results are equal.  Both  *)
(* are compared as numerators over the same denominator.                   *)
VarianceIsTooSmall(n, values) ==
  \A results \in [1 .. n -> values] :
    LET distance == [k \in 1 .. n |-> n * results[k] - SumFunction(results)]
        variance == SumFunction([k \in 1 .. n |-> distance[k] ^ 2])
        printed  == EmpiricalVariance(results)[1]
    IN  /\ printed <= variance
        /\ printed = variance <=> \A k \in 1 .. n : results[k] = results[1]

=============================================================================
