---------------------------- MODULE SteadyWindow ----------------------------
(***************************************************************************)
(* The verdict of the steady-state detector:                               *)
(* compute_steady_state_metrics of steady_state_diagnostics.py, with       *)
(* adaptive_warmup, segment_plateaus, min_steady_duration and              *)
(* detect_level_shift.                                                     *)
(*                                                                         *)
(* A super-pass is its TPOT level, 0 when it has no samples.  What the     *)
(* statistics answer (does this window trend, does its scatter exceed the  *)
(* bound, how long must it be, is there a change point) is not computed:   *)
(* any answer may come, and it is chosen when the code asks.  Windows are  *)
(* <<lo, hi>>, from lo inclusive to hi exclusive and from 0, as there.     *)
(***************************************************************************)
EXTENDS Integers, Sequences, FiniteSets, SequencesExt

CONSTANTS
  Level,        \* TPOT levels, 0 among them
  MaxPasses,    \* bound on the super-passes of a run
  MinTrendN,    \* MIN_TREND_N
  MaxDuration   \* bound on a window's duration

ASSUME SteadyWindowAssumption ==
  /\ Level \subseteq Nat /\ 0 \in Level
  /\ MinTrendN \in Nat \ {0}

VARIABLES
  full,         \* the series as it was collected
  warmup,       \* super-passes cropped
  enforce,      \* enforce_min_duration
  scan,         \* segment_plateaus: start, end and hi (0 for None)
  asked,        \* window -> the gate's answer
  plateaus,     \* those found
  verdict       \* the result, its reason "none" before there is one

windowVars == <<full, warmup, enforce, scan, asked, plateaus, verdict>>

series == SubSeq(full, warmup + 1, Len(full))
n == Len(series)

-----------------------------------------------------------------------------
Values(s) == SelectSeq(s, LAMBDA v : v > 0)

\* Twice the median; the driver is one level per super-pass.
Median2(s) ==
  LET sorted == SortSeq(s, <)
      k == Len(s)
  IN  IF k % 2 = 1 THEN 2 * sorted[k \div 2 + 1]
      ELSE sorted[k \div 2] + sorted[k \div 2 + 1]

Distance(a, b) == IF a > b THEN a - b ELSE b - a

\* More than 5 % away from the level, whose double is given.
OutsideBand(v, level2) == Distance(2 * v, level2) * 20 > level2

\* The leading super-passes outside the band of the back half's median, one at
\* least and half of the run at most.
adaptive_warmup(s) ==
  LET vals == Values(s)
      k == Len(vals)
      steady2 == Median2(SubSeq(vals, k \div 2 + 1, k))
      cap == IF k \div 2 > 1 THEN k \div 2 ELSE 1
      inside == {w \in 0..(cap - 1) : ~OutsideBand(vals[w + 1], steady2)}
      crop == IF inside = {} THEN cap
              ELSE CHOOSE w \in inside : \A x \in inside : w <= x
  IN  IF k < MinTrendN \/ crop < 1 THEN 1 ELSE crop

\* The series after the crop is empty when the crop covers the run.
Crop(s, w) == IF w < Len(s) THEN w ELSE Len(s)

-----------------------------------------------------------------------------
\* The outcomes the gate may have on a window; an empty or missing super-pass
\* decides it.
GateAnswers(lo, hi) ==
  IF hi - lo < MinTrendN \/ \E i \in (lo + 1)..hi : series[i] = 0
  THEN {"short"}
  ELSE {"ok", "trend", "cov"}

Mean(lo, hi) == FoldSeq(+, 0, Values(SubSeq(series, lo + 1, hi)))
Count(lo, hi) == Len(Values(SubSeq(series, lo + 1, hi)))

\* The mean TPOT of the windows differs by more than 5 %.
LevelDiffers(p, q) ==
  Distance(Mean(q[1], q[2]) * Count(p[1], p[2]),
           Mean(p[1], p[2]) * Count(q[1], q[2])) * 20
    > Mean(p[1], p[2]) * Count(q[1], q[2])

\* detect_level_shift, given whether there is a change point.
LevelShift(base, significant) ==
  /\ significant
  /\ \E i \in (base + 1)..Len(plateaus) :
       LevelDiffers(plateaus[base], plateaus[i])

-----------------------------------------------------------------------------
WindowIdle ==
  /\ full = <<>> /\ warmup = 0 /\ enforce = TRUE
  /\ scan = [start |-> 0, end |-> MinTrendN, hi |-> 0]
  /\ asked = <<>> /\ plateaus = <<>> /\ verdict = [reason |-> "none"]

\* A run and how its warm-up is chosen ("auto" or a fixed count).
WindowInit ==
  /\ \E k \in 0..MaxPasses : full \in [1..k -> Level]
  /\ enforce \in BOOLEAN
  /\ warmup \in {Crop(full, adaptive_warmup(full)), 0}
  /\ scan = [start |-> 0, end |-> MinTrendN, hi |-> 0]
  /\ asked = <<>> /\ plateaus = <<>> /\ verdict = [reason |-> "none"]

Remember(w, a) ==
  asked' = [x \in DOMAIN asked \cup {w} |-> IF x = w THEN a ELSE asked[x]]

\* The next start: after the plateau, or the next super-pass.
NextStart == IF scan.hi > 0 THEN scan.hi ELSE scan.start + 1
Restart(s) == scan' = [start |-> s, end |-> s + MinTrendN, hi |-> 0]

\* One window of segment_plateaus.
TryWindow(a) ==
  LET w == <<scan.start, scan.end>>
  IN  /\ scan.start <= n - MinTrendN /\ scan.end <= n
      /\ a \in GateAnswers(w[1], w[2])
      /\ Remember(w, a)
      /\ IF a = "ok"
         THEN /\ scan' = [scan EXCEPT !.hi = scan.end, !.end = @ + 1]
              /\ UNCHANGED plateaus
         ELSE /\ Restart(NextStart)
              /\ plateaus' = IF scan.hi > 0
                             THEN Append(plateaus, <<scan.start, scan.hi>>)
                             ELSE plateaus
      /\ UNCHANGED <<full, warmup, enforce, verdict>>

\* The windows of this start reach the end of the series.
LastWindow ==
  /\ scan.start <= n - MinTrendN /\ scan.end > n
  /\ Restart(NextStart)
  /\ plateaus' = Append(plateaus, <<scan.start, scan.hi>>)
  /\ UNCHANGED <<full, warmup, enforce, asked, verdict>>

Scanned == scan.start > n - MinTrendN /\ verdict.reason = "none"

\* No plateau: the whole span is tested for a trend (gated_trend_drifters),
\* with the answer it had if it was a window already.
RejectNoPlateau ==
  /\ Scanned /\ plateaus = <<>>
  /\ \E a \in (IF <<0, n>> \in DOMAIN asked THEN {asked[<<0, n>>]}
               ELSE GateAnswers(0, n)) :
       /\ Remember(<<0, n>>, a)
       /\ verdict' = [found |-> FALSE, anomaly |-> FALSE,
                      reason |-> CASE a = "trend" -> "trends"
                                   [] a = "short" -> "no plateau"
                                   [] OTHER -> "scatter"]
  /\ UNCHANGED <<full, warmup, enforce, scan, plateaus>>

\* The first plateau that is long enough, the first one when length is not
\* enforced, else the longest, rejected.
Selected(shorts) ==
  LET long == {i \in DOMAIN shorts : ~shorts[i].is_short}
      Longest(i) == \A j \in DOMAIN shorts :
                      \/ shorts[i].duration > shorts[j].duration
                      \/ shorts[i].duration = shorts[j].duration /\ i <= j
  IN  IF ~enforce THEN 1
      ELSE IF long # {} THEN CHOOSE i \in long : \A j \in long : i <= j
      ELSE CHOOSE i \in DOMAIN shorts : Longest(i)

Report ==
  /\ Scanned /\ plateaus # <<>>
  /\ \E shorts \in [DOMAIN plateaus ->
                      [duration : 1..MaxDuration, is_short : BOOLEAN]],
        significant \in BOOLEAN :
       LET sel == Selected(shorts)
       IN  verdict' = [found |-> ~(enforce /\ shorts[sel].is_short),
                       anomaly |-> LevelShift(sel, significant),
                       reason |-> "window", index |-> sel,
                       window |-> plateaus[sel], shorts |-> shorts,
                       skipped_short |->
                         Cardinality({i \in 1..(sel - 1) : shorts[i].is_short})]
  /\ UNCHANGED <<full, warmup, enforce, scan, asked, plateaus>>

WindowNext ==
  \/ \E a \in {"ok", "trend", "cov", "short"} : TryWindow(a)
  \/ LastWindow \/ RejectNoPlateau \/ Report

-----------------------------------------------------------------------------
Admissible(lo, hi) == <<lo, hi>> \in DOMAIN asked /\ asked[<<lo, hi>>] = "ok"

\* The plateaus are disjoint and in order; every window that starts with one
\* and ends inside it was admissible, and it cannot be extended.
PlateausAreMaximal ==
  \A i \in DOMAIN plateaus :
    LET lo == plateaus[i][1]
        hi == plateaus[i][2]
    IN  /\ \A e \in (lo + MinTrendN)..hi : Admissible(lo, e)
        /\ hi = n \/ ~Admissible(lo, hi + 1)
        /\ i > 1 => plateaus[i - 1][2] <= lo

\* The shortest window of a start outside every plateau was tried and refused.
NothingOverlooked ==
  \A s \in 0..(n - MinTrendN) :
    \/ \E i \in DOMAIN plateaus : s \in plateaus[i][1]..(plateaus[i][2] - 1)
    \/ <<s, s + MinTrendN>> \in DOMAIN asked /\ ~Admissible(s, s + MinTrendN)

\* The verdict is justified.  A steady state is reported exactly when there is
\* a plateau that is long enough (or any, when length is not enforced), it is
\* the first of those, the skipped ones are exactly those before it; a
\* rejected window is the longest; a level shift is one after the reported
\* plateau; and a run with an empty super-pass in every window has none.
VerdictIsJustified ==
  verdict.reason # "none" =>
    /\ PlateausAreMaximal /\ NothingOverlooked
    /\ 0 <= warmup /\ warmup <= Len(full)
    /\ verdict.reason = "window" <=> plateaus # <<>>
    /\ verdict.found => plateaus # <<>>
    /\ verdict.reason = "window" =>
         LET shorts == verdict.shorts
             sel == verdict.index
         IN  /\ verdict.found <=>
                  (~enforce \/ \E i \in DOMAIN shorts : ~shorts[i].is_short)
             /\ enforce /\ verdict.found => ~shorts[sel].is_short
             /\ verdict.found => verdict.skipped_short = sel - 1
             /\ ~verdict.found =>
                  \A i \in DOMAIN shorts :
                    shorts[i].duration <= shorts[sel].duration
             /\ \A i \in (verdict.window[1] + 1)..verdict.window[2] : series[i] > 0
             /\ verdict.anomaly =>
                  \E i \in DOMAIN plateaus :
                    /\ plateaus[i][1] >= verdict.window[2]
                    /\ LevelDiffers(verdict.window, plateaus[i])

=============================================================================
