------------------------------- MODULE RunPlan -------------------------------
(***************************************************************************)
(* From a configuration to the phases of a run: the validators of          *)
(* config/schema.py, RuntimeSettings, the loading of datasets and          *)
(* _build_phases in execute.py, and what the session makes of a phase      *)
(* (create_sample_order and create_load_strategy).                         *)
(*                                                                         *)
(* 0 stands for an option that is not set.  Durations are in seconds and   *)
(* rates per second.  Names, URLs, model parameters and file formats are   *)
(* left out: their checks refuse a configuration and change nothing else.  *)
(* An agentic run issues its dataset once (AgenticStrategy has the budgets).*)
(***************************************************************************)
EXTENDS Naturals, Sequences, Functions

CONSTANTS
  Rate,         \* target_qps, 0 among them
  Concurrency,  \* target_concurrency, 0 among them
  Duration,     \* min_ and max_issue_duration_ms, 0 among them
  IssueCount,   \* n_samples_to_issue and the warm-up's n_requests, 0 too
  DatasetSize   \* samples of a loaded dataset; none has no sample order

ASSUME PlanAssumption ==
  /\ Rate \subseteq Nat /\ Concurrency \subseteq Nat /\ Duration \subseteq Nat
  /\ IssueCount \subseteq Nat /\ DatasetSize \subseteq Nat \ {0}

Pattern == {"max_throughput", "poisson", "concurrency", "agentic_inference"}

\* The accuracy dataset: how many repeats (0 for no dataset), scored by an
\* external service, agentic.
AccuracySet ==
  {[repeats |-> 0, external |-> FALSE, agentic |-> FALSE],
   [repeats |-> 1, external |-> FALSE, agentic |-> FALSE],
   [repeats |-> 2, external |-> FALSE, agentic |-> FALSE],
   [repeats |-> 1, external |-> TRUE, agentic |-> FALSE],
   [repeats |-> 2, external |-> TRUE, agentic |-> FALSE],
   [repeats |-> 1, external |-> FALSE, agentic |-> TRUE]}

Config ==
  [type : {"offline", "online", "submission", "eval"},
   benchmark_mode : {"unset", "offline", "online"},
   load : [type : Pattern, qps : Rate, concurrency : Concurrency],
   min_duration : Duration, max_duration : Duration, n_samples : IssueCount,
   warmup : BOOLEAN, n_requests : IssueCount,
   perf : [count : 0..2, agentic : BOOLEAN],
   acc : AccuracySet,
   ruleset : {"none", "pinned", "unseeded", "unknown"}]

-----------------------------------------------------------------------------
\* The validators, each named for its method.
EffectiveMode(c) == IF c.type = "submission" THEN c.benchmark_mode ELSE c.type

LoadPatternComplete(c) ==
  /\ c.load.type = "poisson" => c.load.qps > 0
  /\ c.load.type \in {"concurrency", "agentic_inference"} => c.load.concurrency > 0

DurationsOrdered(c) ==
  c.min_duration > 0 /\ c.max_duration > 0 => c.max_duration >= c.min_duration

MinDurationHasRate_Unchecked(c) == TRUE

MinDurationHasRate(c) ==
  c.min_duration > 0 => c.load.type = "poisson" /\ c.load.qps > 0

ModeSet(c) == c.type = "submission" => c.benchmark_mode # "unset"

PatternFitsMode(c) ==
  /\ EffectiveMode(c) = "offline" => c.load.type = "max_throughput"
  /\ EffectiveMode(c) = "online" => c.load.type # "max_throughput"

AgenticFits(c) ==
  LET agenticPerf == c.perf.count > 0 /\ c.perf.agentic
  IN  /\ ~c.acc.agentic
      /\ c.load.type = "agentic_inference" <=> agenticPerf
      /\ c.load.type = "agentic_inference" => c.n_samples = 0

RulesetPinsSeeds(c) == c.ruleset \in {"none", "pinned"}

Accepts(c) ==
  /\ LoadPatternComplete(c) /\ DurationsOrdered(c) /\ MinDurationHasRate(c)
  /\ ModeSet(c) /\ PatternFitsMode(c) /\ AgenticFits(c) /\ RulesetPinsSeeds(c)

\* The seeds after _apply_ruleset_seed_overrides: scheduler, samples, warm-up.
Seeds(c) ==
  IF c.ruleset = "none"
  THEN [scheduler |-> "own", dataloader |-> "own", warmup |-> "own"]
  ELSE [scheduler |-> "schedule", dataloader |-> "index", warmup |-> "index"]

-----------------------------------------------------------------------------
\* _load_datasets: what is refused once the test mode is known.
Loads(c, mode) ==
  /\ IF mode = "ACC" THEN c.acc.repeats > 0 ELSE c.perf.count = 1
  /\ c.acc.external /\ mode # "PERF" => c.acc.repeats = 1

HasPerf(mode) == mode # "ACC"

\* An external scorer has no phase, and in a performance run no part at all.
HasAccuracyPhase(c) == c.acc.repeats > 0 /\ ~c.acc.external

\* setup_benchmark makes an accuracy-only run single-stream.
Resolved(c, mode) ==
  IF mode = "ACC" /\ c.load.concurrency > 0
  THEN [c EXCEPT !.load.concurrency = 1] ELSE c

-----------------------------------------------------------------------------
\* RuntimeSettings.total_samples_to_issue; ten times the padded number is
\* eleven times rate and duration (the rounding of the float product, which
\* may add a sample, is left out).  0 stands for the exception it raises.
CeilDiv(a, b) == (a + b - 1) \div b

total_samples_to_issue(c, size) ==
  IF c.n_samples > 0 THEN c.n_samples
  ELSE IF c.load.type = "agentic_inference" \/ c.min_duration = 0 THEN size
  ELSE IF c.load.qps = 0 THEN 0
  ELSE CeilDiv(CeilDiv(c.load.qps * c.min_duration * 11, 10), size) * size

\* The phases of _build_phases.  The agentic strategy is made for the
\* performance phase; the others take theirs from the load pattern.
WarmupPhase(c, size) ==
  [type |-> "warmup", size |-> size, load |-> c.load,
   strategy |-> "from_pattern", seed |-> Seeds(c).warmup, capped |-> FALSE,
   count |-> total_samples_to_issue(
               [c EXCEPT !.min_duration = 0, !.n_samples = c.n_requests], size)]

PerformancePhase(c, size) ==
  [type |-> "performance", size |-> size, load |-> c.load,
   strategy |-> IF c.perf.agentic THEN "agentic" ELSE "from_pattern",
   seed |-> Seeds(c).dataloader, capped |-> c.max_duration > 0,
   count |-> total_samples_to_issue(c, size)]

AccuracyPhase(c, mode, size) ==
  [type |-> "accuracy", size |-> size, capped |-> FALSE,
   load |-> IF ~HasPerf(mode) \/ c.load.type = "agentic_inference"
            THEN [type |-> "max_throughput", qps |-> 0, concurrency |-> 0]
            ELSE c.load,
   strategy |-> "from_pattern", seed |-> Seeds(c).dataloader,
   count |-> size * c.acc.repeats]

Phases(c, mode, perfSize, accSize) ==
  (IF HasPerf(mode) /\ c.warmup THEN <<WarmupPhase(c, perfSize)>> ELSE <<>>)
  \o (IF HasPerf(mode) THEN <<PerformancePhase(c, perfSize)>> ELSE <<>>)
  \o (IF HasAccuracyPhase(c) THEN <<AccuracyPhase(c, mode, accSize)>> ELSE <<>>)

\* setup_benchmark's count, which the run expects to issue.
ExpectedTotal(c, mode, perfSize, accSize) ==
  (IF HasPerf(mode) THEN total_samples_to_issue(c, perfSize) ELSE 0)
  + (IF HasAccuracyPhase(c) THEN accSize * c.acc.repeats ELSE 0)

\* create_load_strategy with make_delay_fn, for a phase without a strategy of
\* its own: the exceptions it raises.
StrategyExists(ph) ==
  \/ ph.strategy = "agentic"
  \/ ph.load.type = "max_throughput"
  \/ ph.load.type = "poisson" /\ ph.load.qps > 0
  \/ ph.load.type = "concurrency" /\ ph.load.concurrency > 0

\* create_sample_order: accuracy is sequential, the rest without replacement.
OrderExists(ph) == ph.size > 0

-----------------------------------------------------------------------------
VARIABLE plan   \* a configuration with the mode and the sizes of its datasets

PlanInit ==
  \E c \in Config :
    /\ Accepts(c)
    /\ c.type # "submission" => c.benchmark_mode = "unset"
    /\ \E mode \in {"PERF", "ACC", "BOTH"} :
         /\ Loads(c, mode)
         /\ \E p, a \in DatasetSize :
              plan = [config |-> Resolved(c, mode), mode |-> mode, perf |-> p,
                      acc |-> a]

PlanIdle == plan = [mode |-> "idle"]

-----------------------------------------------------------------------------
WholePasses(ph) == ph.count % ph.size = 0

\* A phase that the session can issue: it has an order, something to issue and a
\* strategy, except the warm-up of an agentic run, which no validator refuses; a
\* count derived from a duration is whole passes over the dataset and lasts long
\* enough.
Runnable(c, ph) ==
  /\ OrderExists(ph) /\ ph.count > 0
  /\ \/ StrategyExists(ph)
     \/ ph.type = "warmup" /\ ph.load.type = "agentic_inference"
  /\ ph.capped => ph.type = "performance"
  /\ c.ruleset = "pinned" => ph.seed # "own"
  /\ ph.type = "performance" /\ c.n_samples = 0 /\ c.min_duration > 0
       => ph.count >= c.load.qps * c.min_duration /\ WholePasses(ph)
  /\ ph.type = "accuracy" => WholePasses(ph) /\ ph.load.type # "agentic_inference"

AddsUp(phases, total) ==
  SumFunctionOnSet([i \in DOMAIN phases |-> phases[i].count],
                   {i \in DOMAIN phases : phases[i].type # "warmup"}) = total

\* An accepted configuration whose datasets load can be run: every phase is
\* runnable; the phases that count add up to the expected total; only the
\* performance phase is capped; a pinned run draws nothing from seeds of its own;
\* and an accuracy-only run has one request in flight.
PlanIsRunnable ==
  plan.mode # "idle" =>
    LET c == plan.config
        phases == Phases(c, plan.mode, plan.perf, plan.acc)
    IN  /\ \A i \in DOMAIN phases : Runnable(c, phases[i])
        /\ AddsUp(phases, ExpectedTotal(c, plan.mode, plan.perf, plan.acc))
        /\ plan.mode = "ACC" => c.load.concurrency \in {0, 1}
        /\ HasPerf(plan.mode) => \E i \in DOMAIN phases : phases[i].type = "performance"

=============================================================================
