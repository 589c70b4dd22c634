---------------------------- MODULE SweBenchScorer ----------------------------
(***************************************************************************)
(* SWEBenchScorer on the benchmark's side: its options and the preflight   *)
(* check of the service, the progress bars of the poll loop, and what it   *)
(* makes of the run's last status, its artifacts and its counters. The     *)
(* poll loop against the service itself is in SweBenchRuns.                *)
(***************************************************************************)
EXTENDS Integers, Sequences, FiniteSets, FiniteSetsExt

CONSTANTS
  Extras,         \* accuracy_config.extras, see below
  Healths,        \* answers of GET /health, each [reached, version, capable]
  Counters,       \* counters of a service result, -1 for one that does not parse
  Progresses,     \* statuses seen while polling, see _update_progress_bars
  SweRows,        \* rows of the dataset
  MaxPolls        \* bound on the statuses seen

\* [removed, url, template, num, subset, endpoints]; num is -1 when it is
\* not an integer and -2 when it is absent.
DEFAULT_NUM_INSTANCES == 2
SERVICE_TEMPLATES == {"default", "qwen_tools"}

VARIABLE swe

NoBar == [open |-> FALSE, total |-> 0, done |-> 0]
NoResult == [submitted |-> -1, resolved |-> -1]

SweIdle == swe = [stage |-> "idle"]

\* An earlier scoring of the same report directory may have left its result.
SweInit ==
  \E x \in Extras, old \in BOOLEAN :
    swe = [stage |-> "preflight", extras |-> x, num |-> 0, polls |-> 0,
           agent |-> NoBar, eval |-> NoBar,
           file |-> IF old THEN "old" ELSE "absent", submitted |-> FALSE,
           status |-> "none", result |-> NoResult, artifacts |-> {}, got |-> {}, complete |-> TRUE,
           score |-> <<>>]

-----------------------------------------------------------------------------
(***************************************************************************)
(* Options and preflight                                                   *)
(***************************************************************************)
_normalize_service_url(x) == x.url = "root"

_get_extra_int(value, default) == IF value = -2 THEN default ELSE value

_resolve_service_template(x) == x.template = "absent" \/ x.template \in SERVICE_TEMPLATES

_resolve_dataset_options(x) == x.subset \in {"verified", "lite"}

_resolve_options(x) ==
  /\ ~x.removed /\ _resolve_dataset_options(x)
  /\ _normalize_service_url(x)
  /\ _get_extra_int(x.num, DEFAULT_NUM_INSTANCES) >= 1
  /\ _resolve_service_template(x)

\* The dry count shown before the run does not raise.
external_sample_count(x) ==
  LET n == _get_extra_int(x.num, DEFAULT_NUM_INSTANCES) IN IF n > 0 THEN <<n>> ELSE <<>>

_check_health(h) == h.reached /\ h.version = "v1" /\ h.capable

SweFail(stage) == [swe EXCEPT !.stage = stage]

preflight ==
  /\ swe.stage = "preflight"
  /\ \E h \in Healths :
       swe' = IF _resolve_options(swe.extras) /\ _check_health(h)
              THEN [swe EXCEPT !.stage = "score",
                               !.num = _get_extra_int(swe.extras.num, DEFAULT_NUM_INSTANCES)]
              ELSE SweFail("refused")

-----------------------------------------------------------------------------
(***************************************************************************)
(* score()                                                                 *)
(***************************************************************************)
total_instances == Min({swe.num, SweRows})

NoScore(s) == [s EXCEPT !.stage = "scored", !.complete = FALSE, !.score = <<>>]

Submit_KeepsOld ==
  /\ swe.stage = "score"
  /\ swe' = CASE total_instances = 0 -> NoScore(swe)
              [] total_instances > 0 /\ swe.extras.endpoints # 1 -> SweFail("refused")
              [] OTHER -> [swe EXCEPT !.stage = "polling", !.submitted = TRUE]

\* Up to the submission; the result of an earlier scoring is removed.
Submit ==
  /\ swe.stage = "score"
  /\ swe' = CASE total_instances = 0 -> NoScore(swe)
              [] total_instances > 0 /\ swe.extras.endpoints # 1 -> SweFail("refused")
              [] OTHER -> [swe EXCEPT !.stage = "polling", !.submitted = TRUE, !.file = "absent"]

\* A bar is opened by the first status with its total and never goes back.
Advanced(bar, opens, total, completed) ==
  LET opened == IF ~bar.open /\ opens /\ total > 0
                THEN [NoBar EXCEPT !.open = TRUE, !.total = total] ELSE bar
  IN  IF ~opened.open THEN opened
      ELSE [opened EXCEPT !.total = Max({@, total}), !.done = Max({@, completed})]

\* total and completed are -1 when absent or not a count.
_update_progress_bars(p) ==
  [swe EXCEPT !.agent = Advanced(@, TRUE, p.agent_total, p.agent_completed),
              !.eval = Advanced(@, p.phase \in {"eval", "succeeded"}, p.eval_total, p.eval_completed)]

PollStatus ==
  /\ swe.stage = "polling" /\ swe.polls < MaxPolls
  /\ \E p \in Progresses :
       swe' = [_update_progress_bars(p) EXCEPT !.polls = @ + 1]

\* Timeout, an error of the service, a status of another run: cancelled.
PollGivesUp == swe.stage = "polling" /\ swe' = NoScore(swe)

\* The run is over: its status is kept, its artifacts are downloaded.
PollEnds ==
  /\ swe.stage = "polling"
  /\ \E status \in {"succeeded", "failed", "cancelled"}, inline \in BOOLEAN,
        artifacts \in SUBSET {"results", "unsafe"}, sub, res \in Counters :
       /\ status # "succeeded" => ~inline
       /\ swe' = [swe EXCEPT !.stage = "artifacts", !.status = status, !.artifacts = artifacts,
                    !.result = [submitted |-> sub, resolved |-> res],
                    !.got = IF inline THEN {"inline"} ELSE {}]

\* _download_artifacts: only known names under this run's path; one that
\* fails is skipped, its temporary file removed.
_download_artifact ==
  /\ swe.stage = "artifacts" /\ swe.artifacts # {}
  /\ \E a \in swe.artifacts, arrives \in {"whole", "garbled", "no"} :
       swe' = [swe EXCEPT !.artifacts = @ \ {a},
                 !.got = IF a = "results" /\ arrives # "no" THEN @ \cup {arrives} ELSE @]

_result_counter(v) == v >= 0

\* The counters of the result make the score.
Scored ==
  LET r == swe.result
      denominator == total_instances
      written == [swe EXCEPT !.file = "own"]
  IN  CASE swe.status # "succeeded" -> NoScore(swe)
        [] swe.status = "succeeded" /\ swe.got \cap {"inline", "whole"} = {} -> NoScore(swe)
        [] OTHER ->
             IF \/ ~_result_counter(r.submitted) \/ ~_result_counter(r.resolved)
                \/ r.resolved > r.submitted \/ r.submitted > denominator \/ r.submitted = 0
             THEN NoScore(written)
             ELSE [written EXCEPT !.stage = "scored", !.score = <<r.resolved>>,
                                  !.complete = r.submitted = denominator]

ScoreRun == swe.stage = "artifacts" /\ swe.artifacts = {} /\ swe' = Scored

SweNext ==
  \/ preflight \/ Submit \/ PollStatus \/ PollGivesUp \/ PollEnds \/ _download_artifact \/ ScoreRun

-----------------------------------------------------------------------------
(***************************************************************************)
(* Properties                                                              *)
(***************************************************************************)
\* A score stands for a run of this scoring that the service finished, with
\* the counters the report directory shows; complete means that every
\* requested instance was submitted.
ScoreIsOfThisRun ==
  swe.stage = "scored" =>
    /\ swe.score # <<>> =>
         /\ swe.status = "succeeded" /\ swe.file = "own"
         /\ swe.score[1] \in 0..total_instances
    /\ swe.complete =>
         swe.score # <<>> /\ external_sample_count(swe.extras) # <<>>
         /\ swe.result.submitted = Min({external_sample_count(swe.extras)[1], SweRows})

\* The result of an earlier scoring is never found after a submission.
NoStaleResult == swe.submitted => swe.file # "old"

\* SWEBenchScorer.score: what it reports is about the run it submitted.
SweScoreIsOwn == swe.stage # "idle" => ScoreIsOfThisRun /\ NoStaleResult
=============================================================================
