------------------------------- MODULE Metrics -------------------------------
(***************************************************************************)
(* What a benchmark computes from its measurements: the median and its 95% *)
(* confidence interval after each iteration of a matrix benchmark, the     *)
(* decision to stop early on them, and the statistics over all iterations. *)
(* BenchmarkRun leaves that decision open; here the measurements are       *)
(* numbers and the decision follows from them.                             *)
(*                                                                         *)
(* Measurements are positive integers.  A median is represented by its     *)
(* double, and a mean by a sum and a count, so that no division is lost.   *)
(***************************************************************************)
EXTENDS Integers, Sequences, FiniteSets, FiniteSetsExt

CONSTANTS
  Values,         \* what an iteration can measure
  MaxIterations,  \* iterations_ as configured
  MaxRanked       \* the interval is checked for up to that many measurements

ASSUME MetricsAssumption ==
  /\ Values \subseteq Nat \ {0}
  /\ MaxIterations \in Nat \ {0}
  /\ MaxRanked \in Nat

VARIABLES
  isMatrix,     \* the benchmark is a MatrixBenchmark
  logExtended,  \* g_log_extended
  pc,           \* "iterate", "finish" or "done"
  i,            \* how many iterations have been recorded
  iterations,   \* iterations_
  metric,       \* metric_on_iter_
  stats         \* the members that hold statistics

vars == <<isMatrix, logExtended, pc, i, iterations, metric, stats>>

Unmeasured == -1     \* what metric_on_iter_ is filled with
Indeterminate == -2  \* the interval bounds, which no constructor sets

InitialStats ==
  [sum |-> 0, count |-> 0, min |-> 0, p25 |-> 0, median |-> 0, p75 |-> 0,
   p95 |-> 0, p99 |-> 0, max |-> 0, mode |-> 0,
   lower |-> Indeterminate, upper |-> Indeterminate]

-----------------------------------------------------------------------------
(* util.cpp and computeMedian().                                           *)

\* The elements that come before the k-th when s is sorted: those that are
\* smaller, and of equal ones those that stood before it.
Before(s, k) == {j \in DOMAIN s : s[j] < s[k] \/ (s[j] = s[k] /\ j < k)}

Sorted(s) ==
  [n \in DOMAIN s |->
     s[CHOOSE k \in DOMAIN s : Cardinality(Before(s, k)) = n - 1]]

\* compute_median(), doubled.
TwiceMedian(s) ==
  LET n == Len(s) IN
  IF n % 2 = 0 THEN Sorted(s)[n \div 2 + 1] + Sorted(s)[n \div 2]
               ELSE 2 * Sorted(s)[n \div 2 + 1]

\* x >= Z_CI_95 * sqrt(n), with Z_CI_95 = 1.96.
AtLeastDeviation(x, n) == x >= 0 /\ 10000 * x * x >= 38416 * n

\* The greatest rank that is at most (n - Z sqrt n) / 2, or else 1.
LowerRank(n) ==
  Max({1} \cup {r \in 1..n : AtLeastDeviation(n - 2 * r, n)})

\* The least rank that is at least (n + Z sqrt n) / 2 + 1, or else n.
UpperRank(n) ==
  Min({n} \cup {r \in 1..n : AtLeastDeviation(2 * (r - 1) - n, n)})

\* Mutant: an interval is computed for five measurements.
HasIntervalFromFive(n) == n >= 5

HasInterval(n) == n > 5

\* Mutant: the latest measurement is left out.
AfterComputeMedianWithoutLatest(st, s, n) ==
  LET first == SubSeq(s, 1, n - 1) IN
  [st EXCEPT
     !.median = TwiceMedian(first),
     !.lower = IF HasInterval(n - 1) THEN Sorted(first)[LowerRank(n - 1)]
                                     ELSE @,
     !.upper = IF HasInterval(n - 1) THEN Sorted(first)[UpperRank(n - 1)]
                                     ELSE @]

\* computeMedian(s, n) on the first n elements; it returns early when they
\* are too few.
AfterComputeMedian(st, s, n) ==
  LET first == SubSeq(s, 1, n) IN
  [st EXCEPT
     !.median = TwiceMedian(first),
     !.lower = IF HasInterval(n) THEN Sorted(first)[LowerRank(n)] ELSE @,
     !.upper = IF HasInterval(n) THEN Sorted(first)[UpperRank(n)] ELSE @]

-----------------------------------------------------------------------------
(* computeMetrics().                                                       *)

\* Mutant: one-based where the code is zero-based, capped at the end.
PercentileOneTooFar(s, p) ==
  Sorted(s)[Min({Len(s), (Len(s) * p) \div 100 + 2})]

Percentile(s, p) == Sorted(s)[(Len(s) * p) \div 100 + 1]

\* The loop over the counts keeps every value whose count exceeds
\* greatest_count, which stays 0: the last value, and the map is ordered.
Mode(s) == Max({s[k] : k \in DOMAIN s})

\* The sum of the elements, by counting s[k] units for the k-th.
Total(s) == Cardinality(UNION {{k} \X (1..s[k]) : k \in DOMAIN s})

AfterComputeMetrics(st, s) ==
  [st EXCEPT !.sum = Total(s), !.count = Len(s),
             !.min = Sorted(s)[1], !.p25 = Percentile(s, 25),
             !.median = TwiceMedian(s), !.p75 = Percentile(s, 75),
             !.p95 = Percentile(s, 95), !.p99 = Percentile(s, 99),
             !.max = Sorted(s)[Len(s)], !.mode = Mode(s)]

-----------------------------------------------------------------------------
(* The loop over the iterations.                                           *)

Init ==
  /\ isMatrix \in BOOLEAN
  /\ logExtended \in BOOLEAN
  /\ pc = "iterate"
  /\ i = 0
  /\ iterations = MaxIterations
  /\ metric = [k \in 1..MaxIterations |-> Unmeasured]
  /\ stats = InitialStats

\* Mutant: one bound within the tolerance is enough.
ConvergedOnOneSide(st) ==
  \/ 200 * st.lower >= 95 * st.median
  \/ 200 * st.upper <= 105 * st.median

\* The interval lies within DEV_FROM_MEDIAN, 5%, of the median.
Converged(st) ==
  /\ 200 * st.lower >= 95 * st.median
  /\ 200 * st.upper <= 105 * st.median

\* One iteration measures v.  From the sixth on a matrix benchmark computes
\* the interval, and leaves the loop, with its vector cut, if it converged.
Iterate(v) ==
  LET measured == [metric EXCEPT ![i + 1] = v]
      checked == isMatrix /\ i >= 5
      now == AfterComputeMedian(stats, measured, i + 1)
      stop == checked /\ Converged(now) /\ ~logExtended
  IN
  /\ pc = "iterate"
  /\ i' = i + 1
  /\ stats' = IF checked THEN now ELSE stats
  /\ metric' = IF stop THEN SubSeq(measured, 1, i + 1) ELSE measured
  /\ iterations' = IF stop THEN i + 1 ELSE iterations
  /\ pc' = IF stop \/ i + 1 = iterations THEN "finish" ELSE "iterate"
  /\ UNCHANGED <<isMatrix, logExtended>>

\* has_run_ is set and computeMetrics() called.
Finish ==
  /\ pc = "finish"
  /\ stats' = AfterComputeMetrics(stats, metric)
  /\ pc' = "done"
  /\ UNCHANGED <<isMatrix, logExtended, i, iterations, metric>>

Done == pc = "done" /\ UNCHANGED vars

Next ==
  \/ \E v \in Values : Iterate(v)
  \/ Finish
  \/ Done

Spec == Init /\ [][Next]_vars

-----------------------------------------------------------------------------
(* Properties.                                                             *)

AtMost(v) == {k \in DOMAIN metric : metric[k] <= v}
AtLeast(v) == {k \in DOMAIN metric : metric[k] >= v}

\* v splits the measurements at p percent: more than p percent of them are
\* at most v, and at least 100 - p percent are at least v.
Splits(v, p) ==
  /\ 100 * Cardinality(AtMost(v)) > p * iterations
  /\ 100 * Cardinality(AtLeast(v)) >= (100 - p) * iterations

\* The reported statistics are those of exactly the measurements made, told
\* without sorting: every percentile is a measurement that splits them as
\* its name says, minimum and maximum bound them, no more than half lie on
\* either side of the median, and the mean is over as many as there are.
StatisticsMatchMeasurements ==
  pc = "done" =>
    /\ Len(metric) = iterations
    /\ \A k \in DOMAIN metric : metric[k] \in Values
    /\ \A v \in {stats.min, stats.p25, stats.p75, stats.p95, stats.p99,
                 stats.max} : \E k \in DOMAIN metric : metric[k] = v
    /\ Splits(stats.p25, 25)
    /\ Splits(stats.p75, 75)
    /\ Splits(stats.p95, 95)
    /\ Splits(stats.p99, 99)
    /\ AtLeast(stats.min) = DOMAIN metric
    /\ AtMost(stats.max) = DOMAIN metric
    /\ 2 * Cardinality({k \in DOMAIN metric : 2 * metric[k] < stats.median})
         <= iterations
    /\ 2 * Cardinality({k \in DOMAIN metric : 2 * metric[k] > stats.median})
         <= iterations
    /\ stats.count = iterations
    /\ stats.count * stats.min <= stats.sum
    /\ stats.sum <= stats.count * stats.max

\* Of 2^n equally likely ways for n measurements to lie below or above the
\* true median, those with k below.
Ways(n, k) ==
  LET w[j \in 0..k] == IF j = 0 THEN 1 ELSE (w[j - 1] * (n - j + 1)) \div j
  IN w[k]

\* Whenever the code computes an interval it deserves its name: its ranks
\* exist, and between the measurements of these ranks lies the true median
\* with a probability of at least 95%.  For five measurements no pair of
\* ranks would do.
IntervalCoversMedian ==
  \A n \in 1..MaxRanked :
    isMatrix /\ HasInterval(n) =>
      /\ 1 <= LowerRank(n) /\ LowerRank(n) < UpperRank(n) /\ UpperRank(n) <= n
      /\ 100 * MapThenSumSet(LAMBDA k : Ways(n, k),
                             LowerRank(n)..UpperRank(n)-1) >= 95 * 2^n

\* What a matrix benchmark of six iterations or more reports as interval
\* belongs to the measurements it reports, although it was computed before
\* the statistics and from another copy: the bounds are measurements, the
\* reported median lies between them, and they leave as many measurements
\* outside as the ranks say.
IntervalIsOfReportedMetrics ==
  pc = "done" /\ isMatrix /\ iterations > 5 =>
    /\ 2 * stats.lower <= stats.median /\ stats.median <= 2 * stats.upper
    /\ Cardinality(AtMost(stats.lower)) >= LowerRank(iterations)
    /\ Cardinality(AtLeast(stats.lower)) > iterations - LowerRank(iterations)
    /\ Cardinality(AtMost(stats.upper)) >= UpperRank(iterations)
    /\ Cardinality(AtLeast(stats.upper)) > iterations - UpperRank(iterations)

\* A benchmark that was cut short was so on the strength of what it reports:
\* at least six measurements whose interval is within 5% of their median,
\* and nobody had asked for all iterations.
StopsOnlyConverged ==
  pc = "done" /\ iterations < MaxIterations =>
    /\ isMatrix /\ ~logExtended /\ iterations >= 6
    /\ 100 * 2 * stats.lower >= 95 * stats.median
    /\ 100 * 2 * stats.upper <= 105 * stats.median

=============================================================================
