---------------------------- MODULE SeriesSampler ----------------------------
(***************************************************************************)
(* A series of the metrics registry (registry.py) and the early-stopping   *)
(* estimate of its percentiles (early_stopping.py).  record() is the only  *)
(* operation that changes it; a snapshot is a function of its state, from  *)
(* the clamped HDR view while the run goes on, from the raw values in the  *)
(* COMPLETE snapshot.                                                      *)
(*                                                                         *)
(* Percentiles are the median, the smallest in the early-stopping domain,  *)
(* so that the binomial odds are exact fractions over 2^trials.  The order *)
(* of the raw values is never used (the final path sorts them), so they    *)
(* are a bag.  Two display buckets: their inner edge is the square root of *)
(* the product of the outer ones.                                          *)
(***************************************************************************)
EXTENDS Naturals, Sequences, FiniteSets, Bags, BagsExt

CONSTANTS
  Value,        \* values recorded
  HdrLow,       \* bounds of the HDR histogram, once clamped to 1
  HdrHigh,
  MaxCount      \* bound on the values recorded

VARIABLE sampler

\* HDR high must be at least twice low (SeriesSampler.__init__).
ASSUME SeriesAssumption ==
  /\ Value \subseteq Nat
  /\ HdrLow \in Nat \ {0} /\ HdrHigh \in Nat /\ HdrHigh >= 2 * HdrLow

-----------------------------------------------------------------------------
\* early_stopping.py, for p = 1/2, d = 0 and c = 0.99.  The incomplete beta
\* function (_betai, by the continued fraction of _betacf) is the binomial sum
\* it equals.
Choose[N \in Nat, k \in Nat] ==
  IF k = 0 THEN 1 ELSE IF k > N THEN 0
  ELSE (Choose[N, k - 1] * (N - k + 1)) \div k

Below[N \in Nat, t \in Nat] ==
  Choose[N, t] + IF t = 0 THEN 0 ELSE Below[N, t - 1]

\* _odds(h, t) < 1 - c: at most t of h + t fair trials are over.
Passes(h, t) == 100 * Below[h + t, t] < 2 ^ (h + t)

\* Exponential bracketing, then binary search, for the least h that passes.
Bracket[t \in Nat, hi \in Nat] == IF Passes(hi, t) THEN hi ELSE Bracket[t, 2 * hi]

LeastPassing[t \in Nat, lo \in Nat, hi \in Nat] ==
  IF lo >= hi THEN lo
  ELSE LET mid == (lo + hi) \div 2
       IN  IF Passes(mid, t) THEN LeastPassing[t, lo, mid]
           ELSE LeastPassing[t, mid + 1, hi]

find_min_passing(t) == LeastPassing[t, 1, Bracket[t, 2]]

\* The run of N queries can absorb t over-latency ones.
Absorbs(N, t) == find_min_passing(t) + t <= N

BracketT[N \in Nat, hi \in Nat] == IF Absorbs(N, hi) THEN BracketT[N, 2 * hi] ELSE hi

GreatestT[N \in Nat, lo \in Nat, hi \in Nat] ==
  IF lo >= hi - 1 THEN lo
  ELSE LET mid == (lo + hi) \div 2
       IN  IF Absorbs(N, mid) THEN GreatestT[N, mid, hi]
           ELSE GreatestT[N, lo, mid]

_discard_count(N) == IF Absorbs(N, 1) THEN GreatestT[N, 1, BracketT[N, 2]] ELSE 0

-----------------------------------------------------------------------------
\* The i-th smallest of a bag of values.
Nth(bag, i) ==
  CHOOSE v \in BagToSet(bag) :
    LET upto(w) == BagCardinality([x \in {y \in BagToSet(bag) : y <= w} |->
                                     bag[x]])
    IN  i <= upto(v) /\ \A w \in BagToSet(bag) : w < v => upto(w) < i

\* np.percentile with method "lower", which is also the estimate's empirical.
PercentileLower(bag) == Nth(bag, (BagCardinality(bag) - 1) \div 2 + 1)

\* es_percentile_estimate: the t-th highest value, or none below the floor.
Estimate(bag) ==
  LET N == BagCardinality(bag)
  IN  IF N < find_min_passing(1) + 1 THEN {}
      ELSE {Nth(bag, N - _discard_count(N) + 1)}

-----------------------------------------------------------------------------
SeriesInit ==
  sampler = [count |-> 0, total |-> 0, min |-> 0, max |-> 0,
             hdr |-> EmptyBag, raw |-> EmptyBag]

Clamp(v) == IF v < HdrLow THEN HdrLow ELSE IF v > HdrHigh THEN HdrHigh ELSE v

record(v) ==
  /\ sampler.count < MaxCount
  /\ sampler' = [count |-> sampler.count + 1, total |-> sampler.total + v,
                 min |-> IF sampler.count = 0 \/ v < sampler.min THEN v
                         ELSE sampler.min,
                 max |-> IF v > sampler.max THEN v ELSE sampler.max,
                 hdr |-> BagAdd(sampler.hdr, Clamp(v)),
                 raw |-> BagAdd(sampler.raw, v)]

SeriesNext == \E v \in Value : record(v)

-----------------------------------------------------------------------------
\* _log_spaced_edges of the observed range: the outer edges.
Edges(s) ==
  LET lo == IF s.min < 1 THEN 1 ELSE s.min
      hi == IF s.max < 10 * lo THEN 10 * lo ELSE s.max
  IN  <<lo, hi>>

\* The display bucket of a value, clipped to the edges; the last bucket of
\* either path holds its upper edge.
BucketIndex(v, e) ==
  LET c == IF v < e[1] THEN e[1] ELSE IF v > e[2] THEN e[2] ELSE v
  IN  IF c * c < e[1] * e[2] THEN 1 ELSE 2

HistogramOf(bag, e) ==
  [b \in 1..2 |-> BagCardinality(
     [v \in {x \in BagToSet(bag) : BucketIndex(x, e) = b} |-> bag[v]])]

\* build_stat: nothing recorded, the HDR path, the exact path.
BuildStat(s, exact) ==
  IF s.count = 0
  THEN [count |-> 0, min |-> 0, max |-> 0, percentile |-> 0,
        histogram |-> <<>>, es |-> IF exact THEN Estimate(EmptyBag) ELSE {}]
  ELSE LET bag == IF exact THEN s.raw ELSE s.hdr
       IN  [count |-> s.count, min |-> s.min, max |-> s.max,
            percentile |-> PercentileLower(bag),
            histogram |-> HistogramOf(bag, Edges(s)),
            es |-> IF exact THEN Estimate(s.raw) ELSE {}]

-----------------------------------------------------------------------------
\* What the search must find the greatest of: numbers of over-latency queries
\* that the run can absorb.
Tolerated(N) ==
  {t \in 1..N : \E h \in 1..(N - t) : Passes(h, t)}

\* The final statistics agree with the values recorded: every value is in one
\* display bucket, live and final; percentiles are observed values within the
\* range, and an estimate exists exactly when some over-latency query can be
\* absorbed, is never below the percentile it bounds, and is the value with
\* the greatest tolerable number above it.
StatisticsAreHonest ==
  LET s == sampler
      live == BuildStat(s, FALSE)
      final == BuildStat(s, TRUE)
  IN  /\ s.count > 0 =>
           /\ live.histogram[1] + live.histogram[2] = s.count
           /\ final.histogram[1] + final.histogram[2] = s.count
           /\ final.percentile \in BagToSet(s.raw)
           /\ final.percentile \in s.min..s.max
           /\ s.hdr = s.raw => live = [final EXCEPT !.es = {}]
      /\ final.es # {} <=> Tolerated(s.count) # {}
      /\ \A e \in final.es :
           /\ e >= final.percentile
           /\ LET above == {v \in BagToSet(s.raw) : v > e}
                  t == CHOOSE t \in Tolerated(s.count) :
                         \A u \in Tolerated(s.count) : u <= t
              IN  BagCardinality([v \in above |-> s.raw[v]]) < t
                  /\ BagCardinality([v \in above \cup {e} |-> s.raw[v]]) >= t

=============================================================================
