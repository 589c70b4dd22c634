------------------------------- MODULE AuditRun -------------------------------
(***************************************************************************)
(* The compliance audit (commands/audit.py and compliance/): after the     *)
(* main run, a reference phase issues distinct samples and an              *)
(* output-caching phase repeats one; the verdict compares their rates.     *)
(* Each phase is a benchmark run of its own, with the sample orders of     *)
(* sample_order.py and whatever end RunLifecycle gives a run.              *)
(***************************************************************************)
EXTENDS Integers, Sequences, FiniteSets

CONSTANTS
  MaxSamples,   \* bound on sample counts and on the dataset
  Qps           \* rates a phase may reach, 0 for none

ASSUME AuditAssumption == MaxSamples \in Nat /\ Qps \subseteq Nat

VARIABLE audit

PhaseSpec(label, n, order) == [label |-> label, n |-> n, order |-> order]

\* OutputCachingAudit.plan_runs; an index of -1 stands for none.
plan_runs(c) ==
  <<PhaseSpec("reference", c.samples, -1),
    PhaseSpec("output_caching",
          IF c.audit_samples > 0 THEN c.audit_samples ELSE c.samples,
          c.sample_index)>>

\* OutputCachingAudit.validate.
validate_NoCount(c) ==
  /\ c.pattern \in {"max_throughput", "concurrency"}
  /\ \A i \in 1..2 : plan_runs(c)[i].order < c.size

validate(c) ==
  /\ c.pattern \in {"max_throughput", "concurrency"}
  /\ \A i \in 1..2 :
       LET spec == plan_runs(c)[i]
       IN  IF spec.order = -1 THEN spec.n <= c.size ELSE spec.order < c.size

-----------------------------------------------------------------------------
AuditConfig ==
  [samples : 1..MaxSamples, audit_samples : 0..MaxSamples,
   sample_index : 0..(MaxSamples - 1), size : 1..MaxSamples,
   pattern : {"max_throughput", "poisson", "concurrency"}, only : BOOLEAN]

AuditIdle == audit = [stage |-> "idle"]

AuditInit ==
  \E c \in AuditConfig :
    audit = [config |-> c, stage |-> IF c.only THEN "setup" ELSE "main",
             sigint |-> FALSE, left |-> {}, draws |-> <<>>,
             artifacts |-> <<>>, outcome |-> "none"]

\* The phase under way.
phaseSpec == plan_runs(audit.config)[Len(audit.artifacts) + 1]
End(outcome) == audit' = [audit EXCEPT !.stage = "over", !.outcome = outcome]

\* _run of the command line: a main run that fails ends everything.
MainRun ==
  /\ audit.stage = "main"
  /\ \/ audit' = [audit EXCEPT !.stage = "setup"]
     \/ End("main_failed")

\* ^C: one governor for all phases of the audit.
AuditSigint ==
  /\ audit.stage \in {"setup", "issue", "verify"} /\ ~audit.sigint
  /\ audit' = [audit EXCEPT !.sigint = TRUE]

\* setup_benchmark of a phase, which may fail or use up the deadline; the plan
\* is validated once the first one has loaded the dataset.
SetupPhase ==
  /\ audit.stage = "setup"
  /\ IF audit.sigint THEN End("interrupted")
     ELSE \/ End("error")
          \/ /\ audit.artifacts = <<>> /\ ~validate(audit.config)
             /\ End("error")
          \/ /\ audit.artifacts = <<>> => validate(audit.config)
             /\ audit' = [audit EXCEPT !.stage = "issue", !.draws = <<>>,
                                       !.left = {}]

\* next_sample_index: the fixed one, or one not drawn since the last shuffle.
NextIndices ==
  IF phaseSpec.order # -1 THEN {phaseSpec.order}
  ELSE IF audit.left = {} THEN 0..(audit.config.size - 1) ELSE audit.left

IssueSample ==
  /\ audit.stage = "issue" /\ Len(audit.draws) < phaseSpec.n
  /\ \E i \in NextIndices :
       audit' = [audit EXCEPT
                   !.draws = Append(@, i),
                   !.left = (IF @ = {} THEN 0..(audit.config.size - 1) ELSE @)
                              \ {i}]

\* The phase ends, early for an interrupt, a timeout or a duration cap, with
\* the report that RunLifecycle allows.  Only a complete report is kept.
FinishPhase(report, completed, qps) ==
  /\ audit.stage = "issue" /\ completed <= Len(audit.draws)
  /\ CASE report = "none" \/ report = "timed_out" -> End("error")
       [] report = "interrupted" -> End("interrupted")
       [] report = "incomplete" -> End("error")
       [] report = "complete" ->
            audit' = [audit EXCEPT
               !.artifacts = Append(@, [report |-> report, n |-> phaseSpec.n,
                                        completed |-> completed, qps |-> qps,
                                        draws |-> audit.draws]),
               !.stage = IF Len(audit.artifacts) = 1 THEN "verify" ELSE "setup"]

\* verify_output_caching, with the threshold of 10 %.
Completed(a) == 10 * a.completed >= 9 * a.n

Verify ==
  /\ audit.stage = "verify"
  /\ LET ref == audit.artifacts[1]
         aud == audit.artifacts[2]
     IN  IF ref.qps = 0 \/ aud.qps = 0 THEN End("error")
         ELSE IF Completed(ref) /\ Completed(aud) /\ 10 * aud.qps < 11 * ref.qps
         THEN End("pass") ELSE End("fail")

AuditNext ==
  \/ MainRun \/ AuditSigint \/ SetupPhase \/ IssueSample \/ Verify
  \/ \E report \in {"none", "timed_out", "interrupted", "incomplete", "complete"},
        completed \in 0..MaxSamples, qps \in Qps :
       FinishPhase(report, completed, qps)

-----------------------------------------------------------------------------
Distinct(s) == \A i, j \in DOMAIN s : i # j => s[i] # s[j]

\* A verdict is given only on two phases with complete reports, and a pass is
\* earned: the reference phase issued no sample twice, the other one only the
\* configured sample, both answered nine tenths of what was planned, and the
\* repeated sample was answered less than a tenth faster, under a load that the
\* service's speed decides.
VerdictIsEarned ==
  audit.stage # "idle" =>
    /\ audit.outcome \in {"pass", "fail"} =>
         /\ Len(audit.artifacts) = 2
         /\ \A i \in 1..2 : audit.artifacts[i].report = "complete"
         /\ Distinct(audit.artifacts[1].draws)
         /\ \A i \in DOMAIN audit.artifacts[2].draws :
              audit.artifacts[2].draws[i] = audit.config.sample_index
         /\ audit.config.pattern # "poisson"
    /\ audit.outcome = "pass" =>
         /\ \A i \in 1..2 :
              10 * Len(audit.artifacts[i].draws) >= 9 * plan_runs(audit.config)[i].n
         /\ 0 < audit.artifacts[2].qps
         /\ 10 * audit.artifacts[2].qps < 11 * audit.artifacts[1].qps

=============================================================================
