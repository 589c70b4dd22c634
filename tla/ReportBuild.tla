----------------------------- MODULE ReportBuild ------------------------------
(***************************************************************************)
(* From the metrics registry to the report: samples end and are recorded,  *)
(* a snapshot is taken and written as JSON, Report.from_snapshot rebuilds  *)
(* the summary from it, finalize attaches accuracy and the full-run OSL,   *)
(* and display() says what the reader may rely on. A ratio is a pair       *)
(* <<numerator, denominator>>, <<>> stands for None.                       *)
(***************************************************************************)
EXTENDS Integers, Sequences, SequencesExt, FiniteSets, FiniteSetsExt

CONSTANTS
  Latencies,     \* latency of a sample that ended
  TokenCounts,   \* tokens of a successful answer
  Spans,         \* values of tracked_duration_ns
  LegacySpans,   \* values of legacy_loadgen_window_duration_ns
  AccuracyLists, \* lists of accuracy entries [type, correct, repeats, unit]
  MaxSamples_    \* bound on the samples issued

VARIABLE rep

RepIdle == rep = [stage |-> "idle"]

\* register_counter and register_series: every metric of the table, empty.
RepInit ==
  \E early \in BOOLEAN :
    rep = [stage |-> "run", issued |-> 0, latency |-> <<>>, osl |-> <<>>, failed |-> 0,
           buffered |-> 0, early |-> early, snap |-> <<>>, report |-> <<>>, shown |-> {}]

-----------------------------------------------------------------------------
(***************************************************************************)
(* The registry while the run goes on                                      *)
(***************************************************************************)
Issue_ ==
  /\ rep.stage = "run" /\ rep.issued < MaxSamples_
  /\ rep' = [rep EXCEPT !.issued = @ + 1]

\* A sample ends: its latency is recorded at once, the tokens of an answer
\* when its text has been tokenized.
SampleEnds ==
  /\ rep.stage = "run" /\ Len(rep.latency) < rep.issued
  /\ \E l \in Latencies :
       \/ rep' = [rep EXCEPT !.latency = Append(@, l), !.failed = @ + 1]
       \/ rep' = [rep EXCEPT !.latency = Append(@, l), !.buffered = @ + 1]

Tokenized ==
  /\ rep.stage = "run" /\ rep.buffered > 0
  /\ \E t \in TokenCounts : rep' = [rep EXCEPT !.osl = Append(@, t), !.buffered = @ - 1]

SumOf(s) == FoldLeft(LAMBDA a, b : a + b, 0, s)

\* The early-stopping map is there, all null, even for an empty series, but
\* only in the COMPLETE snapshot.
build_stat(values, exact) ==
  [count |-> Len(values), total |-> SumOf(values), sum_sq |-> SumOf([i \in DOMAIN values |-> values[i] * values[i]]),
   early |-> exact /\ rep.early]

\* The dict of the snapshot file.
snapshot_to_dict(state, duration, legacy, steady, series) ==
  [state |-> state, pending |-> rep.buffered, issued |-> rep.issued,
   completed |-> Len(rep.latency), failed |-> rep.failed,
   duration |-> duration, legacy |-> legacy, steady |-> steady, series |-> series]

\* build_snapshot, written and read back. An edited or older file may lack
\* fields; each has a default.
TakeSnapshot ==
  /\ rep.stage = "run"
  /\ \E state \in {"live", "draining", "complete", "interrupted"}, d \in Spans, w \in LegacySpans,
        steady \in {"none", "found", "foreign"}, fields \in {"all", "no-state", "no-series"} :
       /\ steady # "none" => state \in {"complete", "interrupted"}
       /\ rep' = [rep EXCEPT !.stage = "snapshot",
            !.snap = <<snapshot_to_dict(
               IF fields = "no-state" THEN "interrupted" ELSE state, d, w, steady,
               IF fields = "no-series" THEN <<>>
               ELSE <<build_stat(rep.latency, state = "complete"),
                      build_stat(rep.osl, state = "complete")>>)>>]

-----------------------------------------------------------------------------
(***************************************************************************)
(* Report.from_snapshot                                                    *)
(***************************************************************************)
\* The rollup of a series: {} without data, unless the early-stopping map
\* is there. n*sum_sq - total^2 over n*(n-1) is the variance.
_series_to_metric_dict(stat) ==
  IF stat.count = 0 THEN IF stat.early THEN <<[early |-> TRUE]>> ELSE <<>>
  ELSE <<[early |-> stat.early, total |-> stat.total, avg |-> <<stat.total, stat.count>>,
          variance |-> IF stat.count > 1
                       THEN <<Max({0, stat.count * stat.sum_sq - stat.total * stat.total}),
                              stat.count * (stat.count - 1)>>
                       ELSE <<0, 1>>]>>

_series_dict(snap, i) == IF snap.series = <<>> THEN <<>> ELSE _series_to_metric_dict(snap.series[i])

\* osl.get("total", 0) of a rollup that may hold only the map.
TotalOf(metric) == IF "total" \in DOMAIN metric[1] THEN metric[1].total ELSE 0

\* A verdict of another schema is dropped.
_steady_state_of(snap) == IF snap.steady = "found" THEN <<"found">> ELSE <<>>

use_legacy_window(snap, legacy) == legacy /\ snap.legacy > 0 /\ snap.completed >= 2

accounting_valid(snap) ==
  0 <= snap.failed /\ snap.failed <= snap.completed /\ snap.completed <= snap.issued

complete_Pending(snap) ==
  snap.state = "complete" /\ accounting_valid(snap) /\ snap.completed = snap.issued

complete(snap) ==
  snap.state = "complete" /\ snap.pending = 0 /\ accounting_valid(snap) /\ snap.completed = snap.issued

\* Both rates over one window: the LoadGen window when it applies.
from_snapshot(snap, legacy) ==
  LET osl == _series_dict(snap, 2)
      old == use_legacy_window(snap, legacy)
      span == IF old THEN snap.legacy ELSE snap.duration
      total == IF snap.series = <<>> THEN 0 ELSE snap.series[1].total
  IN  [issued |-> snap.issued, completed |-> snap.completed, failed |-> snap.failed,
       state |-> snap.state, complete |-> complete(snap), osl |-> osl,
       latency |-> _series_dict(snap, 1),
       duration |-> IF snap.duration > 0 THEN <<snap.duration>> ELSE <<>>,
       window |-> IF old THEN <<snap.legacy>> ELSE <<>>,
       qps |-> IF span > 0 THEN <<snap.completed - (IF old THEN 1 ELSE 0), span>> ELSE <<>>,
       tps |-> IF span > 0 /\ osl # <<>> THEN <<TotalOf(osl), span>> ELSE <<>>,
       interactivity |-> IF osl # <<>> /\ total > 0 /\ snap.failed = 0
                         THEN <<TotalOf(osl), total>> ELSE <<>>,
       steady |-> _steady_state_of(snap), accuracy |-> <<>>, full |-> "none"]

BuildReport ==
  /\ rep.stage = "snapshot"
  /\ \E legacy \in BOOLEAN :
       rep' = [rep EXCEPT !.stage = "report", !.report = <<from_snapshot(rep.snap[1], legacy)>>]

-----------------------------------------------------------------------------
(***************************************************************************)
(* Finalize and display                                                    *)
(***************************************************************************)
\* The entries that count in the average; unit -1 is an artifact without
\* unit_samples, 0 a corrupt one; correct -1 a score that is not a number.
Counted(entries) ==
  SelectSeq(entries, LAMBDA e : e.type # "performance" /\ e.correct >= 0 /\ e.unit # 0)
WeightOf(e) == IF e.unit = -1 THEN 1 ELSE e.unit

\* Sum of score * unit over sum of unit, the score correct / (unit * repeats);
\* repeats of all entries divide 2.
samples_weighted_average_accuracy(entries) ==
  LET counted == Counted(entries)
      weight == SumOf([i \in DOMAIN counted |-> WeightOf(counted[i])])
      sum == SumOf([i \in DOMAIN counted |->
                     IF counted[i].unit = -1 THEN 2 * counted[i].correct
                     ELSE (2 \div counted[i].repeats) * counted[i].correct])
  IN  IF counted = <<>> THEN <<>> ELSE <<sum, 2 * weight>>

\* msgspec.structs.replace(report, accuracy, full_run_osl)
Finalize_ ==
  /\ rep.stage = "report"
  /\ \E a \in AccuracyLists, full \in {"none", "whole", "partial", "nothing"} :
       rep' = [rep EXCEPT !.stage = "final", !.report[1].accuracy = a, !.report[1].full = full]

\* display(): the caveats it prints with the numbers.
_display_steady_state(r) == IF r.steady = <<>> THEN {} ELSE {"steady state"}

FullRunLines(r) ==
  CASE r.full \in {"whole", "partial"} ->
         {"mean"} \cup (IF r.full = "partial" THEN {"partial"} ELSE {})
                  \cup (IF r.complete THEN {} ELSE {"run incomplete"})
    [] r.full = "nothing" -> {"no countable turns"}
    [] r.full = "none" /\ r.osl # <<>> /\ r.complete -> {"not computed"}
    [] r.full = "none" /\ ~r.complete -> {"not computed", "run incomplete"}
    [] OTHER -> {}

Headline(r) ==
  CASE r.state = "interrupted" -> {"interrupted"}
    [] r.state # "interrupted" /\ ~r.complete -> {"incomplete"}
    [] OTHER -> {}

RateLines(r) ==
  (IF r.qps # <<>> THEN {"qps"} ELSE {}) \cup (IF r.tps # <<>> THEN {"tps"} ELSE {})
    \cup (IF r.accuracy # <<>> /\ samples_weighted_average_accuracy(r.accuracy) # <<>>
          THEN {"average"} ELSE {})

display ==
  /\ rep.stage = "final"
  /\ rep' = [rep EXCEPT !.stage = "shown",
               !.shown = Headline(rep.report[1]) \cup RateLines(rep.report[1])
                           \cup _display_steady_state(rep.report[1]) \cup FullRunLines(rep.report[1])]

RepNext ==
  Issue_ \/ SampleEnds \/ Tokenized \/ TakeSnapshot \/ BuildReport \/ Finalize_ \/ display

-----------------------------------------------------------------------------
(***************************************************************************)
(* Properties                                                              *)
(***************************************************************************)
\* A complete report covers every sample of the run: all ended, and the
\* tokens of all the successful ones are in it.
CompleteCoversTheRun ==
  LET r == rep.report[1]
  IN  r.complete => /\ Len(rep.latency) = rep.issued /\ rep.buffered = 0
                    /\ Len(rep.osl) + rep.failed = rep.issued

\* QPS and TPS are over one window, and the report says over which.
OneWindow ==
  LET r == rep.report[1]
      span == IF r.window # <<>> THEN r.window ELSE r.duration
  IN  /\ r.qps # <<>> => span # <<>> /\ r.qps[2] = span[1] /\ r.qps[1] >= 0
      /\ r.tps # <<>> => r.qps # <<>> /\ r.tps[2] = r.qps[2]

\* The interactivity of a complete report divides the tokens of all samples
\* by the latency of the same samples.
SameSamples ==
  LET r == rep.report[1]
  IN  r.complete /\ r.interactivity # <<>> =>
        Len(rep.osl) = Len(rep.latency) /\ r.interactivity = <<SumOf(rep.osl), SumOf(rep.latency)>>

\* Latencies that are not all equal have a positive variance.
SpreadShows ==
  LET r == rep.report[1]
  IN  r.latency # <<>> /\ "variance" \in DOMAIN r.latency[1] =>
        (r.latency[1].variance[1] > 0 <=> Cardinality(ToSet(rep.latency)) > 1)

\* What display() prints without a caveat is backed by a complete run; the
\* mean for the accuracy gate is bare only for a complete run with all turns.
CaveatsAreShown ==
  LET r == rep.report[1]
  IN  /\ rep.shown \cap {"interrupted", "incomplete"} = {} <=> r.complete
      /\ "mean" \in rep.shown /\ rep.shown \cap {"partial", "run incomplete"} = {} =>
           r.complete /\ r.full = "whole"

\* The average lies between the least and the greatest of the scores.
AverageIsBetween ==
  LET r == rep.report[1]
      avg == samples_weighted_average_accuracy(r.accuracy)
      score(e) == IF e.unit = -1 THEN <<e.correct, 1>> ELSE <<e.correct, e.unit * e.repeats>>
      atMost(a, b) == a[1] * b[2] <= b[1] * a[2]
      counted == Counted(r.accuracy)
  IN  avg # <<>> => /\ \E i \in DOMAIN counted : atMost(score(counted[i]), avg)
                    /\ \E i \in DOMAIN counted : atMost(avg, score(counted[i]))

\* Report.from_snapshot and display: what a report claims is so.
ReportIsHonest ==
  /\ rep.stage \in {"report", "final", "shown"} =>
       CompleteCoversTheRun /\ OneWindow /\ SameSamples /\ SpreadShows
  /\ rep.stage = "shown" => CaveatsAreShown /\ AverageIsBetween
=============================================================================
