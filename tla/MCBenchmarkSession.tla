------------------------- MODULE MCBenchmarkSession -------------------------
(***************************************************************************)
(* Small phase lists for BenchmarkSession and the aggregator's table over  *)
(* its events, in the order _build_phases produces them.                   *)
(***************************************************************************)
EXTENDS MetricsTable, TLC

QuerySymmetry == Permutations(Query)

\* warmup (not drained) -> performance (Poisson, capped) -> accuracy
ThreeTypes       == <<"warmup", "performance", "accuracy">>
ThreeStrategies  == <<"burst", "timed", "concurrency">>
ThreeTotals      == <<1, 2, 1>>
ThreeTargets     == <<1, 1, 1>>
ThreeDrains      == <<FALSE, TRUE, TRUE>>
ThreeTimeouts    == <<TRUE, TRUE, FALSE>>
ThreeCaps        == <<FALSE, TRUE, FALSE>>

\* performance (fixed concurrency) -> accuracy (max throughput); no drain
\* timeout: only the idle guard can end a silent endpoint
TwoTypes         == <<"performance", "accuracy">>
TwoStrategies    == <<"concurrency", "burst">>
TwoTotals        == <<3, 1>>
TwoTargets       == <<2, 1>>
TwoDrains        == <<TRUE, TRUE>>
TwoTimeouts      == <<FALSE, FALSE>>
TwoCaps          == <<TRUE, FALSE>>

=============================================================================
