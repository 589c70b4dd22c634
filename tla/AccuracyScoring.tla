--------------------------- MODULE AccuracyScoring ---------------------------
(***************************************************************************)
(* From the event log to a verdict: finalize_benchmark reads events.jsonl  *)
(* and sample_idx_map.json, which were written by two processes, scores    *)
(* each dataset, accounts for its responses and writes the results that    *)
(* the compliance checker gates on.  The event logger may die during the   *)
(* run (the log then ends early, perhaps within a line), samples may be    *)
(* lost to a drain timeout, and a timed-out turn may be answered late.     *)
(***************************************************************************)
EXTENDS Integers, Sequences, SequencesExt, FiniteSets

CONSTANTS
  Turns,      \* agentic turns issued in the performance phase
  Scorable,   \* those of them with a ground truth
  Plain,      \* samples of a dataset that is scored sample by sample
  Mixed,      \* samples of a dataset with subsets
  Code        \* those of Mixed that are code to run (DeepSeek-R1) or that ask
              \* for a tool call (BFCL); BFCL's others ask for none

ASSUME Scorable \subseteq Turns /\ Code \subseteq Mixed

VARIABLE scoring

Asked == Turns \cup Plain \cup Mixed

\* What a COMPLETE line carries: no data for a failed request, an empty text,
\* a text, or tool calls that the tokenizer's template rejects.
Data == {"none", "blank", "wrong", "right", "malformed"}

\* The eval_configs of a run, the inline one of the performance dataset last.
EvalConfigs ==
  {<<"plain", "bfcl">>, <<"plain", "deepseek">>, <<"bfcl", "inline">>,
   <<"plain", "inline">>}

Population(scorer) ==
  CASE scorer = "plain" -> Plain
    [] scorer \in {"bfcl", "deepseek"} -> Mixed
    [] scorer = "inline" -> Turns

IsAccuracy(scorer) == scorer # "inline"

ScoringIdle == scoring = [stage |-> "idle"]

ScoringInit ==
  \E configs \in EvalConfigs :
    scoring = [stage |-> "run", configs |-> configs, logger |-> "up",
               issued |-> {}, answered |-> {},
               lines |-> [s \in Asked |-> <<>>], garbled |-> 0, known |-> {},
               osl |-> <<>>, texts |-> <<>>, entries |-> <<>>,
               results |-> "none", verdict |-> "none"]

\* sample_idx_map.json: the samples a phase issued, whether or not the logger
\* lived to see them.
Issued(scorer) == Population(scorer) \cap scoring.issued
Lines(s) == scoring.lines[s]
HasComplete(s) == Lines(s) # <<>>
Text(d) == d \in {"wrong", "right", "malformed"}   \* a text that is not empty

-----------------------------------------------------------------------------
(***************************************************************************)
(* The run                                                                 *)
(***************************************************************************)

InRun == UNION {Population(scoring.configs[i]) : i \in 1..2}

Ask(s) ==
  /\ scoring.stage = "run" /\ s \in InRun \ scoring.issued
  /\ s \notin Turns => Turns \cap InRun \subseteq scoring.issued
  /\ scoring' = [scoring EXCEPT
                   !.issued = @ \cup {s},
                   !.known = IF scoring.logger = "up" THEN @ \cup {s} ELSE @]

\* An answer, or the late one to a turn that has timed out.
Answer(s, d) ==
  /\ scoring.stage = "run" /\ s \in scoring.issued
  /\ s \in scoring.answered => s \in Turns /\ Lines(s) = <<"none">>
  /\ scoring' = [scoring EXCEPT
                   !.answered = @ \cup {s},
                   !.lines[s] = IF scoring.logger = "up" THEN Append(@, d) ELSE @]

\* The event logger dies, perhaps while it writes a COMPLETE line.
LoggerDies(s) ==
  /\ scoring.stage = "run" /\ scoring.logger = "up" /\ s \in scoring.issued
  /\ \/ scoring' = [scoring EXCEPT !.logger = "dead"]
     \/ /\ s \notin scoring.answered
        /\ scoring' = [scoring EXCEPT !.logger = "dead", !.garbled = 1,
                                      !.answered = @ \cup {s}]

\* The session is over; what is still unanswered is given up.
EndRun ==
  /\ scoring.stage = "run" /\ InRun \subseteq scoring.issued
  /\ scoring' = [scoring EXCEPT !.stage = "osl"]

-----------------------------------------------------------------------------
(***************************************************************************)
(* The full-run output lengths (full_run_osl.py)                           *)
(***************************************************************************)

Occurrences(pop, D) ==
  FoldSet(LAMBDA s, n : n + Len(SelectSeq(Lines(s), LAMBDA d : d \in D)), 0, pop)

compute_full_run_osl(uuids) ==
  LET counted == Occurrences(uuids, {"wrong", "right"})
      empty   == Occurrences(uuids, {"none", "blank"})
      errors  == Occurrences(uuids, {"malformed"})
      missing == Cardinality({s \in uuids : ~HasComplete(s)})
  IN  IF counted + empty + errors + missing + scoring.garbled = 0 THEN <<>>
      ELSE <<[counted |-> counted, empty |-> empty,
              partial |-> errors + missing + scoring.garbled > 0]>>

\* Without a performance phase in the map, or a tokenizer, there is no block.
FullRunOsl ==
  /\ scoring.stage = "osl"
  /\ \/ scoring' = [scoring EXCEPT !.stage = "score"]
     \/ /\ Issued("inline") # {}
        /\ scoring' = [scoring EXCEPT !.stage = "score",
                                      !.osl = compute_full_run_osl(Issued("inline"))]

-----------------------------------------------------------------------------
(***************************************************************************)
(* The scorers.  A score is correct of total; total 0 stands for None.     *)
(***************************************************************************)

Rows(pop) == {s \in pop : HasComplete(s)}
Right(pop) == {s \in Rows(pop) : Last(Lines(s)) = "right"}

Score(correct, total, complete, breakdown) ==
  [correct |-> Cardinality(correct), total |-> total,
   complete |-> complete, breakdown |-> breakdown]

NoBreakdown == [samples |-> -1]

\* Scorer.score: what was issued is the denominator.
BaseScore(pop) == Score(Right(pop), Cardinality(pop), TRUE, NoBreakdown)

\* BFCLv4Scorer.score.  Without a tool call to be made, every response without
\* one is right, that of a failed request too.
BfclScore(pop) ==
  LET rows == Rows(pop)
      correct == {s \in rows : IF s \in Code THEN Lines(s)[1] = "right"
                               ELSE Lines(s)[1] \in {"right", "none", "blank"}}
  IN  Score(correct, Cardinality(pop), TRUE, [samples |-> Cardinality(rows)])

\* LegacyMLPerfDeepSeekR1Scorer.score.  graded are the rows of the subsets that
\* the runner or the code service could grade.
DeepSeekScore(rows, graded) ==
  Score(Right(graded), Cardinality(graded),
        rows # {} /\ graded = rows,
        IF graded = {} THEN NoBreakdown ELSE [samples |-> Cardinality(graded)])

\* What may be graded: all rows in this process, if there is no code to run or
\* the user allows it; or the text rows here and the code rows by the service.
\* Each subset may fail by itself; the service fails as a whole.
Gradings(rows) == {(rows \ F) : F \in {{}, rows \cap Code, rows \ Code, rows}}

\* _issued_and_completed_model_turns: the last output that is one.
ModelTurn_NoneIsOutput(s) == IF HasComplete(s) THEN Last(Lines(s)) ELSE "missing"

ModelTurn(s) ==
  LET outputs == SelectSeq(Lines(s), LAMBDA d : d # "none")
  IN  IF outputs = <<>> THEN "missing" ELSE Last(outputs)

\* AgenticInferenceInlineScorer.score: the log says what was issued.
InlineScore ==
  LET expected == Scorable \cap scoring.known
      observed == {s \in expected : ModelTurn(s) # "missing"}
  IN  [correct |-> Cardinality({s \in observed : ModelTurn(s) = "right"}),
       total |-> Cardinality(expected), complete |-> TRUE,
       breakdown |-> NoBreakdown,
       turns |-> [expected |-> Cardinality(expected),
                  observed |-> Cardinality(observed),
                  missing |-> Cardinality(expected \ observed)]]

Scores(scorer) ==
  CASE scorer = "plain" -> {BaseScore(Issued(scorer))}
    [] scorer = "bfcl" -> {BfclScore(Issued(scorer))}
    [] scorer = "deepseek" ->
         LET rows == Rows(Issued(scorer))
         IN  {DeepSeekScore(rows, graded) : graded \in Gradings(rows)}
    [] scorer = "inline" -> {InlineScore}

-----------------------------------------------------------------------------
(***************************************************************************)
(* score_accuracy (accuracy.py)                                            *)
(***************************************************************************)

\* _accuracy_uuid_bound
UuidBound ==
  UNION {Issued(scorer) : scorer \in {c \in Range(scoring.configs) : IsAccuracy(c)}}

\* get_raw_outputs, once for all datasets.
RawOutputs == [s \in Rows(UuidBound) |-> Text(Last(Lines(s)))]

\* _phase_response_counts
ResponseCounts(pop, texts) ==
  [issued  |-> Cardinality(pop),
   scored  |-> Cardinality({s \in pop \cap DOMAIN texts : texts[s]}),
   empty   |-> Cardinality({s \in pop \cap DOMAIN texts : ~texts[s]}),
   missing |-> Cardinality(pop \ DOMAIN texts)]

scorerNow == scoring.configs[Len(scoring.entries) + 1]
Fail == scoring' = [scoring EXCEPT !.stage = "failed"]

\* A scorer raises for a line it cannot read (the inline one skips it), for a
\* subprocess that fails and for code it must not run.
ScoreDataset ==
  /\ scoring.stage = "score" /\ Len(scoring.entries) < Len(scoring.configs)
  /\ \/ /\ scorerNow # "inline" /\ scoring.garbled > 0
        /\ Fail
     \/ /\ scorerNow = "deepseek"
        /\ Fail
     \/ /\ scorerNow = "inline" \/ scoring.garbled = 0
        /\ LET texts == IF IsAccuracy(scorerNow) /\ scoring.texts = <<>>
                        THEN <<RawOutputs>> ELSE scoring.texts
           IN  \E score \in Scores(scorerNow) :
                 scoring' = [scoring EXCEPT
                   !.texts = texts,
                   !.entries = Append(@,
                      [scorer |-> scorerNow, score |-> score,
                       counts |-> IF IsAccuracy(scorerNow)
                                  THEN ResponseCounts(Issued(scorerNow), texts[1])
                                  ELSE [issued |-> -1]])]

\* write_accuracy_results, which fails the run if it cannot write.
WriteResults ==
  /\ scoring.stage = "score" /\ Len(scoring.entries) = Len(scoring.configs)
  /\ \/ Fail
     \/ scoring' = [scoring EXCEPT !.stage = "check", !.results = "written"]

-----------------------------------------------------------------------------
(***************************************************************************)
(* check_submission (checker.py), with a reference accuracy of one half    *)
(* and as many samples to be evaluated as Mixed has                        *)
(***************************************************************************)

\* find_accuracy_entry
WithBreakdown ==
  SelectSeq(scoring.entries, LAMBDA e : e.score.breakdown # NoBreakdown)
WithTurns == SelectSeq(scoring.entries, LAMBDA e : e.scorer = "inline")

check_accuracy(e) ==
  /\ e.score.total > 0 /\ 2 * e.score.correct >= e.score.total
  /\ e.score.breakdown.samples >= Cardinality(Mixed)

check_perf_validity(e) ==
  e.score.turns.missing = 0 /\ e.score.turns.observed = e.score.turns.expected

CheckSubmission(locked) ==
  /\ scoring.stage = "check"
  /\ LET accuracy == IF WithBreakdown = <<>> THEN {} ELSE {WithBreakdown[1]}
         passed == /\ locked
                   /\ \A e \in accuracy : check_accuracy(e)
                   /\ \A e \in Range(WithTurns) : check_perf_validity(e)
                   /\ WithTurns # <<>> \/ accuracy # {}
     IN  scoring' = [scoring EXCEPT !.stage = "over",
                                    !.verdict = IF passed THEN "pass" ELSE "fail"]

ScoringNext ==
  \/ \E s \in Asked : Ask(s) \/ LoggerDies(s) \/ \E d \in Data : Answer(s, d)
  \/ EndRun \/ FullRunOsl \/ ScoreDataset \/ WriteResults
  \/ \E locked \in BOOLEAN : CheckSubmission(locked)

-----------------------------------------------------------------------------
\* Each score rests on its dataset's own responses: a plain score counts only
\* non-empty responses and divides by what was issued; a BFCL breakdown counts
\* the responses there are; a DeepSeek score called complete covers all of them.
EntriesAgreeWithCounts ==
  \A i \in DOMAIN scoring.entries :
    LET e == scoring.entries[i]
        answered == e.counts.scored + e.counts.empty
    IN  /\ e.score.correct <= e.score.total
        /\ IsAccuracy(e.scorer) =>
             e.counts.missing = Cardinality({s \in Issued(e.scorer) : ~HasComplete(s)})
        /\ e.scorer = "plain" =>
             e.score.correct <= e.counts.scored /\ e.score.total = e.counts.issued
        /\ e.scorer = "bfcl" =>
             e.score.correct <= answered /\ e.score.breakdown.samples = answered
        /\ e.scorer = "deepseek" =>
             e.score.total <= answered /\ (e.score.complete => e.score.total = answered)

\* A submission that passes has nothing missing: all samples of the gated
\* dataset were answered and graded, although the checker never looks at the
\* complete flag (unless none was graded, for then check_submission finds no
\* accuracy run to gate); and, if the output lengths are not partial, every turn with a
\* ground truth has a model's output, although the scorer takes what was issued
\* from a log that may have ended early.
PassIsWhole ==
  scoring.verdict = "pass" =>
    /\ \A i \in DOMAIN scoring.entries :
         LET e == scoring.entries[i]
         IN  e.scorer \in {"bfcl", "deepseek"} =>
               \/ e.score.complete /\ \A s \in Mixed : HasComplete(s)
               \/ e.score.breakdown = NoBreakdown /\ WithTurns # <<>>
    /\ scoring.osl # <<>> /\ ~scoring.osl[1].partial /\ WithTurns # <<>> =>
         \A s \in Scorable : \E i \in DOMAIN Lines(s) : Lines(s)[i] # "none"

\* Scores, response counts, output lengths and the checker's verdict, each
\* computed by itself from the log, agree with the run and with each other.
ScoresAreHonest ==
  scoring.stage # "idle" => EntriesAgreeWithCounts /\ PassIsWhole

=============================================================================
