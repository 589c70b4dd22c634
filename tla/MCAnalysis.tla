------------------------------ MODULE MCAnalysis ------------------------------
(***************************************************************************)
(* What happens before the load, beside it and after it, one job per       *)
(* initial state.  The jobs share no state: a step of one leaves the state *)
(* of all others as they start.  A cfg chooses the jobs of a run.          *)
(***************************************************************************)
EXTENDS SuperPasses, SteadyWindow, SeriesSampler, RunPlan, AuditRun,
        AccuracyScoring, LcbGrading, ConfigResolution, HostCpus,
        BatchTokenizer, ClientBench, TestServers, AgenticDataset, DatasetLoad,
        DatasetCache, StreamAnswer, SweBenchScorer, ReportBuild, BfclMultiTurn,
        SampleSeries, EndpointClient, Extraction

CONSTANT Jobs

VARIABLE job

vars ==
  <<job, superVars, windowVars, sampler, plan, audit, scoring, lcbVars,
   cfg, host, tok, bench, srv, ds, dl, store, stream, swe, rep, conv, tab,
   ep, ext>>

-----------------------------------------------------------------------------
(* Values of the modules' constants.                                       *)

\* LcbGrading: the code samples of an answered question, at most.
CodesPerQuestion == [q \in {"q1", "q2"} |-> IF q = "q1" THEN 2 ELSE 1]

\* ConfigResolution: two machines, of which one sets V.
MCHosts ==
  {[numa |-> -1, ports |-> 4, env |-> "unset"],
   [numa |-> 12, ports |-> 2, env |-> "llama"]}

MCUrl(name, port, https, login) ==
  [host |-> name, port |-> port, https |-> https, login |-> login]

MCUrlLists ==
  {<<MCUrl("a", 0, FALSE, "none")>>,
   <<MCUrl("a", 0, FALSE, "secret"), MCUrl("a", 443, TRUE, "none")>>,
   <<MCUrl("a", 1, FALSE, "none"), MCUrl("a", 1, TRUE, "none")>>,
   [i \in 1..3 |-> MCUrl("a", i, FALSE, "none")]}

MCGen(max, min) ==
  (<<"max_new_tokens">> :> max) @@ (<<"min_new_tokens">> :> min)
    @@ (<<"osl_distribution", "max">> :> 5)

MCPlain ==
  [mode |-> "online", api |-> "openai", key |-> "secret",
   urls |-> <<MCUrl("a", 0, FALSE, "none")>>, workers |-> -1, max |-> -1,
   warmup |-> -1, model |-> "m", submitted |-> "", ruleset |-> "none",
   scheduler_seed |-> 1, dataloader_seed |-> 2, warmup_seed |-> 3,
   streaming |-> "auto", concurrency |-> 2, swe |-> -2,
   gen |-> MCGen(4, 1), override |-> <<>>, datasets |-> <<>>]

MCYamls ==
  {[MCPlain EXCEPT !.api = a, !.urls = u, !.workers = w, !.max = x] :
     a \in {"openai", "sglang", "videogen"}, u \in MCUrlLists,
     w \in {-1, 0, 2}, x \in {-1, 3, 7}}
  \cup
  {[MCPlain EXCEPT !.model = m, !.ruleset = r, !.submitted = "s", !.mode = d, !.swe = s] :
     m \in {"", "$V", "$$V", "${V:-d}"}, r \in {"none", "current", "edge", "typo"},
     d \in {"offline", "online"}, s \in {-2, -1, 3}}
  \cup
  {[MCPlain EXCEPT !.api = a, !.gen = MCGen(4, k), !.override = o, !.key = "none"] :
     a \in {"openai", "openai_completions"}, k \in {1, 2},
     o \in {<<"max_new_tokens">> :> 1, <<"osl_distribution", "min">> :> 1,
            <<"min_new_tokens">> :> 1, <<"streaming">> :> 1}}

MCOption(key, value) == [key |-> key, value |-> value]

MCOptionLists ==
  {<<>>,
   <<MCOption(<<"samples">>, "1"), MCOption(<<"samples">>, "2")>>,
   <<MCOption(<<"parser", "prompt">>, "c"), MCOption(<<"parser", "system">>, "d")>>,
   <<MCOption(<<"parser", "prompt">>, "c"), MCOption(<<"parser">>, "d")>>,
   <<MCOption(<<"parser">>, "d"), MCOption(<<"parser", "prompt">>, "c")>>,
   <<MCOption(<<"parser", "other">>, "c")>>,
   <<MCOption(<<"samples">>, "none")>>,
   <<MCOption(<<"name">>, "x")>>}

MCArg(type, options) == [path |-> "f", type |-> type, options |-> options]

MCDatasetArgs ==
  {<<MCArg("performance", o)>> : o \in MCOptionLists}
  \cup {<<MCArg("performance", <<>>), MCArg(t, o)>> :
          t \in {"performance", "accuracy"}, o \in MCOptionLists}

\* HostCpus: four CPUs as cores, nodes and speeds.
MCFour(s) == [c \in 0..3 |-> s[c + 1]]

MCMachines ==
  [core : {MCFour(s) : s \in {<<0, 0, 1, 1>>, <<0, 1, 0, 1>>, <<0, 1, 2, 3>>,
                              <<1, -1, 0, 0>>, <<0, 0, 0, 1>>}},
   numa : {MCFour(s) : s \in {<<0, 0, 0, 0>>, <<0, 0, 1, 1>>, <<1, 0, 0, 1>>}},
   score : {MCFour(s) : s \in {<<0, 0, 0, 0>>, <<1, 2, 1, 2>>, <<0, 0, 1, 0>>,
                               <<1, 1, 2, 2>>}}]

MCMasks == {0..3, {0, 1, 3}, {2}}

\* BatchTokenizer: what one flush may hand over.
MCItem(kind, payload, text, renders) ==
  [kind |-> kind, payload |-> payload, text |-> text, renders |-> renders]

MCBatches ==
  {<<MCItem("text", 0, 1, TRUE), MCItem("text", 0, 2, TRUE), MCItem("text", 0, 3, TRUE)>>,
   <<MCItem("text", 0, 4, TRUE), MCItem("ids", 7, 0, TRUE), MCItem("text", 0, 5, TRUE)>>,
   <<MCItem("message", 3, 5, TRUE), MCItem("text", 0, 2, TRUE), MCItem("prompt", 9, 8, TRUE)>>,
   <<MCItem("message", 3, 5, FALSE), MCItem("prompt", 9, 8, FALSE)>>}

\* ClientBench: ranges of a sweep.
MCRange(form, start, stop, arg) ==
  [form |-> form, start |-> start, stop |-> stop, arg |-> arg]

MCRanges ==
  {MCRange("single", 1, 1, 1), MCRange("step", 1, 4, 2), MCRange("step", 3, 2, 1),
   MCRange("linspace", 1, 2, 3), MCRange("linspace", 2, 5, 1)}

MCLengths == {<<2>>, <<3, 2>>}

\* AgenticDataset: rows of two conversations.
MCRow(c, t, role, calls, filled, null) ==
  [conv |-> c, turn |-> t, role |-> role, calls |-> calls, filled |-> filled,
   null |-> null, stream |-> t = 1, limit |-> IF t = 3 THEN 0 ELSE t]

MCFileRows ==
  {MCRow("a", t, "user", FALSE, TRUE, FALSE) : t \in 1..3}
  \cup {MCRow("a", t, "assistant", k, TRUE, FALSE) : t \in 1..3, k \in BOOLEAN}
  \cup {MCRow("a", t, "tool", FALSE, TRUE, FALSE) : t \in 2..4}
  \cup {MCRow("b", 1, "user", FALSE, f, FALSE) : f \in BOOLEAN}
  \cup {MCRow("b", 2, "assistant", k, FALSE, FALSE) : k \in BOOLEAN}
  \cup {MCRow("b", 3, "tool", FALSE, TRUE, TRUE)}

\* DatasetLoad: dataset entries of a configuration.
MCCol(c) ==
  Cell(CASE c = "messages" -> "list" [] c = "input_tokens" -> "tokens" [] OTHER -> "text", c)

MCTable(cols) ==
  [cols |-> cols, rows |-> [r \in 1..2 |-> [i \in DOMAIN cols |-> MCCol(cols[i])]]]

MCFile(cols, parser) ==
  [parts |-> <<"file">>, predefined |-> FALSE, generates |-> FALSE, path |-> TRUE,
   reads |-> TRUE, parser |-> parser, agentic |-> FALSE, accuracy_only |-> FALSE,
   table |-> MCTable(cols)]

MCKnown(parts, cols) ==
  [MCFile(cols, {}) EXCEPT !.parts = parts, !.predefined = TRUE, !.generates = TRUE,
                           !.path = FALSE]

MCBfcl == MCKnown(<<"bfcl_v4", "function_calling">>, <<"messages", "tools", "tool_choice">>)

MCRandom == MCKnown(<<"random">>, <<"prompt", "input_tokens">>)

MCEntries ==
  {MCFile(cols, {}) :
     cols \in {<<"prompt", "other">>, <<"question", "system_prompt">>, <<"question", "input">>,
               <<"prompt", "messages">>, <<"input_tokens">>, <<"prompt", "question">>}}
  \cup {MCFile(cols, {<<"prompt", "article">>}) : cols \in {<<"article", "other">>, <<"other">>}}
  \cup {MCKnown(<<"gpqa", "gptoss">>, <<"question", "choice1">>),
        MCKnown(<<"gpqa", "absent">>, <<"question">>),
        MCKnown(<<"open_orca", "llama2_70b">>, <<"question", "system_prompt">>),
        MCKnown(<<"shopify", "q3vl">>, <<"product_title">>),
        MCKnown(<<"cnn", "llama3_8b">>, <<"article", "highlights">>),
        MCKnown(<<"deepseek">>, <<"input_tokens", "question">>),
        MCKnown(<<"a", "b", "c">>, <<"question">>),
        MCBfcl, [MCBfcl EXCEPT !.table.rows = <<>>],
        MCRandom, [MCRandom EXCEPT !.table.rows =
                     [r \in 1..2 |-> <<MCCol("prompt"), Cell("null", "input_tokens")>>]],
        [MCKnown(<<"swe_bench">>, <<"instance_id", "prompt">>) EXCEPT !.accuracy_only = TRUE],
        [MCFile(<<"prompt">>, {}) EXCEPT !.table.rows[2] = <<Cell("list", "prompt")>>],
        [MCFile(<<"prompt">>, {}) EXCEPT !.path = FALSE],
        [MCFile(<<"prompt">>, {}) EXCEPT !.agentic = TRUE]}

\* DatasetCache: the rows of the source, in two parts that number their own.
MCSource ==
  <<[part |-> "I", id |-> 1], [part |-> "I", id |-> 2], [part |-> "I", id |-> 3],
    [part |-> "II", id |-> 1]>>

\* StreamAnswer: bodies of answers that are not streamed.
MCBodies ==
  {[api |-> "openai", kind |-> k] : k \in {"text", "nochoice", "bad", "bothreasonings"}}
  \cup {[api |-> "videogen", kind |-> k] :
          k \in {"video_bytes", "video_path", "mp4", "mp4-nowhere"}}

\* SweBenchScorer: configurations, health answers and progress reports.
MCExtras ==
  {[removed |-> FALSE, url |-> "root", template |-> t, num |-> k, subset |-> "verified",
    endpoints |-> e] : t \in {"absent", "default"}, k \in {-2, 1, 3}, e \in {1, 2}}
  \cup
  {[removed |-> r, url |-> u, template |-> t, num |-> k, subset |-> s, endpoints |-> 1] :
    r \in BOOLEAN, u \in {"root", "path"}, t \in {"qwen_tools", "other"},
    k \in {-1, 0, 1}, s \in {"lite", "unknown"}}

MCHealths == [reached : BOOLEAN, version : {"v1", "v2"}, capable : BOOLEAN]

MCCounters == -1..2

MCProgresses ==
  {[phase |-> p, agent_total |-> a, agent_completed |-> c, eval_total |-> e,
    eval_completed |-> f] :
    p \in {"agent", "eval"}, a \in {-1, 2}, c \in {-1, 1, 2}, e \in {-1, 1}, f \in {0, 1}}

\* ReportBuild: the accuracy entries of a report.
MCEntry(type, correct, repeats, unit) ==
  [type |-> type, correct |-> correct, repeats |-> repeats, unit |-> unit]

MCAccuracy ==
  {<<>>,
   <<MCEntry("accuracy", 3, 2, 2), MCEntry("accuracy", 1, 1, 4)>>,
   <<MCEntry("accuracy", 1, 1, -1), MCEntry("performance", 1, 1, 1),
     MCEntry("accuracy", -1, 1, 2), MCEntry("accuracy", 1, 1, 0)>>}

\* BfclMultiTurn: entries of one and two turns, and what a model may answer.
MCConvEntries ==
  {[turns |-> 2, holdout |-> 0, truth |-> 2], [turns |-> 2, holdout |-> 2, truth |-> 2],
   [turns |-> 1, holdout |-> 0, truth |-> 0]}

MCConvAnswers == {<<>>, <<"f">>, <<"f", "g">>, <<"evil", "f">>, <<"junk">>, <<"f", "junk">>}

\* SampleSeries: what the service was started for and what its samples carry.
MCTab(streaming, isl, tokenizer, p, o, r) ==
  [streaming |-> streaming, isl |-> isl, tokenizer |-> tokenizer,
   prompt |-> p, output |-> o, reason |-> r]

MCSetups ==
  {MCTab(TRUE, TRUE, TRUE, <<"text", "ids">>, <<"text", "message1">>,
         <<"stop", "odd">>),
   MCTab(TRUE, FALSE, TRUE, <<"messages", "none">>, <<"absent", "message">>,
         <<"unset", "length">>),
   MCTab(TRUE, TRUE, FALSE, <<"ids", "text">>, <<"text1", "text">>,
         <<"stop", "stop">>),
   MCTab(FALSE, TRUE, TRUE, <<"none", "messages">>, <<"empty", "text">>,
         <<"unset", "tool_calls">>)}

-----------------------------------------------------------------------------
Init ==
  /\ job \in Jobs
  /\ IF job = "super-passes" THEN SuperInit ELSE SuperStart(1)
  /\ IF job = "window" THEN WindowInit ELSE WindowIdle
  /\ SeriesInit
  /\ IF job = "plan" THEN PlanInit ELSE PlanIdle
  /\ IF job = "audit" THEN AuditInit ELSE AuditIdle
  /\ IF job = "scoring" THEN ScoringInit ELSE ScoringIdle
  /\ IF job = "grading" THEN LcbInit ELSE LcbIdle
  /\ IF job = "config" THEN CfgInit ELSE CfgIdle
  /\ IF job = "cpus" THEN HostInit ELSE HostIdle
  /\ IF job = "tokenizer" THEN TokInit ELSE TokIdle
  /\ IF job = "client-bench" THEN BenchInit ELSE BenchIdle
  /\ IF job = "test-servers" THEN SrvInit ELSE SrvIdle
  /\ IF job = "trajectories" THEN DsInit ELSE DsIdle
  /\ IF job = "load" THEN DlInit ELSE DlIdle
  /\ IF job = "cache" THEN StoreInit ELSE StoreIdle
  /\ IF job = "stream" THEN StreamInit ELSE StreamIdle
  /\ IF job = "swe-score" THEN SweInit ELSE SweIdle
  /\ IF job = "report" THEN RepInit ELSE RepIdle
  /\ IF job = "multi-turn" THEN ConvInit ELSE ConvIdle
  /\ IF job = "samples" THEN TabInit ELSE TabIdle
  /\ IF job = "client" THEN EpInit ELSE EpIdle
  /\ IF job = "extraction" THEN ExtInit ELSE ExtIdle

\* Every job but j keeps its state.
OthersIdle(j) ==
  /\ UNCHANGED job
  /\ IF j = "super-passes" THEN TRUE ELSE UNCHANGED superVars
  /\ IF j = "window" THEN TRUE ELSE UNCHANGED windowVars
  /\ IF j = "series" THEN TRUE ELSE UNCHANGED sampler
  /\ IF j = "plan" THEN TRUE ELSE UNCHANGED plan
  /\ IF j = "audit" THEN TRUE ELSE UNCHANGED audit
  /\ IF j = "scoring" THEN TRUE ELSE UNCHANGED scoring
  /\ IF j = "grading" THEN TRUE ELSE UNCHANGED lcbVars
  /\ IF j = "config" THEN TRUE ELSE UNCHANGED cfg
  /\ IF j = "cpus" THEN TRUE ELSE UNCHANGED host
  /\ IF j = "tokenizer" THEN TRUE ELSE UNCHANGED tok
  /\ IF j = "client-bench" THEN TRUE ELSE UNCHANGED bench
  /\ IF j = "test-servers" THEN TRUE ELSE UNCHANGED srv
  /\ IF j = "trajectories" THEN TRUE ELSE UNCHANGED ds
  /\ IF j = "load" THEN TRUE ELSE UNCHANGED dl
  /\ IF j = "cache" THEN TRUE ELSE UNCHANGED store
  /\ IF j = "stream" THEN TRUE ELSE UNCHANGED stream
  /\ IF j = "swe-score" THEN TRUE ELSE UNCHANGED swe
  /\ IF j = "report" THEN TRUE ELSE UNCHANGED rep
  /\ IF j = "multi-turn" THEN TRUE ELSE UNCHANGED conv
  /\ IF j = "samples" THEN TRUE ELSE UNCHANGED tab
  /\ IF j = "client" THEN TRUE ELSE UNCHANGED ep
  /\ IF j = "extraction" THEN TRUE ELSE UNCHANGED ext

Next ==
  \/ job = "super-passes" /\ SuperNext /\ OthersIdle("super-passes")
  \/ job = "window" /\ WindowNext /\ OthersIdle("window")
  \/ job = "series" /\ SeriesNext /\ OthersIdle("series")
  \/ job = "audit" /\ AuditNext /\ OthersIdle("audit")
  \/ job = "scoring" /\ ScoringNext /\ OthersIdle("scoring")
  \/ job = "grading" /\ LcbNext /\ OthersIdle("grading")
  \/ job = "config" /\ CfgNext /\ OthersIdle("config")
  \/ job = "cpus" /\ HostNext /\ OthersIdle("cpus")
  \/ job = "tokenizer" /\ TokNext /\ OthersIdle("tokenizer")
  \/ job = "client-bench" /\ BenchNext /\ OthersIdle("client-bench")
  \/ job = "test-servers" /\ SrvNext /\ OthersIdle("test-servers")
  \/ job = "trajectories" /\ DsNext /\ OthersIdle("trajectories")
  \/ job = "load" /\ DlNext /\ OthersIdle("load")
  \/ job = "cache" /\ StoreNext /\ OthersIdle("cache")
  \/ job = "stream" /\ StreamNext /\ OthersIdle("stream")
  \/ job = "swe-score" /\ SweNext /\ OthersIdle("swe-score")
  \/ job = "report" /\ RepNext /\ OthersIdle("report")
  \/ job = "multi-turn" /\ ConvNext /\ OthersIdle("multi-turn")
  \/ job = "samples" /\ TabNext /\ OthersIdle("samples")
  \/ job = "client" /\ EpNext /\ OthersIdle("client")
  \/ job = "extraction" /\ ExtNext /\ OthersIdle("extraction")

Spec == Init /\ [][Next]_vars

-----------------------------------------------------------------------------
(* The properties of several jobs at once.  A job's state changes in its   *)
(* own runs only, so it is there that its properties are looked at.        *)

\* The steady-state diagnostics and the statistics say what the run's events
\* say: the series and counters are those of the tracked samples, the live
\* tracker agrees with the replay of the log, a verdict has its reason, and no
\* statistic claims what its samples do not.
DiagnosticsAreHonest ==
  /\ job = "samples" => SeriesAreTheSamples
  /\ job = "super-passes" => LiveIsReplay
  /\ job = "window" => VerdictIsJustified
  /\ job = "series" => StatisticsAreHonest

\* An accuracy score, and the grade of a program in it, is earned by the
\* answers of the samples it is for, and by what is in those answers.
ScoresAreEarned ==
  /\ job = "scoring" => ScoresAreHonest
  /\ job = "grading" => GradesAreDeserved
  /\ job = "extraction" => ExtractsAreOfTheAnswer

\* An external evaluation reports on the run it submitted, and a multi-turn
\* conversation is executed apart from the others.
EvaluationsAreApart ==
  /\ job = "swe-score" => SweScoreIsOwn
  /\ job = "multi-turn" => ConversationsAreApart

\* What a dataset file says is what is scheduled and sent.
DatasetsAreKept ==
  /\ job = "trajectories" => DatasetIsSchedulable
  /\ job = "load" => RequestsCarryTheDataset
  /\ job = "cache" => AnswersAreOwn

\* The client gives back what it takes; its benchmark, its probe and the
\* servers they are measured against count what happened.
BenchToolsAreSound ==
  /\ job = "test-servers" => ServersAreSound
  /\ job = "client-bench" => BenchIsHonest
  /\ job = "client" => ClientIsTidy

\* Token counts are of the texts they are reported for, and the processes
\* that count them stay off the load generator's cores.
SidecarsAreApart ==
  /\ job = "cpus" => CpusAreApart
  /\ job = "tokenizer" => CountsAreFaithful

=============================================================================
