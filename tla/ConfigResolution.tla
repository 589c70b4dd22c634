--------------------------- MODULE ConfigResolution ---------------------------
(***************************************************************************)
(* A run's configuration from the YAML file or the command line to the     *)
(* HTTP client it configures: environment variables, validators that       *)
(* resolve defaults and pin seeds, the accuracy-only rewrite, the redacted *)
(* copy saved in the report directory, and that copy loaded again, perhaps *)
(* on another machine.                                                     *)
(*                                                                         *)
(* A text is the way it names an environment variable V.  Generation       *)
(* parameters are a function on key paths, so that a nested dict is a set  *)
(* of paths.  -1 is `auto` or unset for a number.  What RunPlan checks of  *)
(* a configuration (load pattern, durations, agentic) is not repeated.     *)
(***************************************************************************)
EXTENDS Integers, Sequences, FiniteSets, TLC

CONSTANTS
  Hosts,         \* machines: [numa, ports, env]
  Yamls,         \* configuration files
  DatasetArgs,   \* sequences of --dataset arguments
  MaxReloads     \* how often a saved file is loaded again

VARIABLE cfg

-----------------------------------------------------------------------------
(* Environment variables in strings.                                       *)

Unresolved == "refused"

\* `$V`, `${V:-d}` and the escape `$$V`, whose value is the text `$V`.
resolve_env_var_string(text, env) ==
  CASE text = "$V" -> IF env = "unset" THEN Unresolved ELSE env
    [] text = "${V:-d}" -> IF env = "unset" THEN "d" ELSE env
    [] text = "$$V" -> "$V"
    [] OTHER -> text

-----------------------------------------------------------------------------
(* Dataset strings of the command line.                                    *)

ProperPrefixes(path) == {SubSeq(path, 1, n) : n \in 1..(Len(path) - 1)}

\* Sets a dotted key: what was nested below it is replaced.
SetOption(tree, option) ==
  (option.key :> option.value)
    @@ [p \in {q \in DOMAIN tree : option.key \notin ProperPrefixes(q)} |-> tree[p]]

\* The nested dict as it stands after the first n options, or <<>> when a key
\* was used both as a value and as a nested key.
parse_dataset_string(arg) ==
  LET start == (<<"path">> :> arg.path) @@ (<<"type">> :> arg.type)
      built[n \in 0..Len(arg.options)] ==
        IF n = 0 THEN <<start>>
        ELSE IF built[n - 1] = <<>> THEN <<>>
        ELSE LET tree == built[n - 1][1]
                 option == arg.options[n]
             IN  IF \E p \in ProperPrefixes(option.key) : p \in DOMAIN tree
                 THEN <<>> ELSE <<SetOption(tree, option)>>
  IN  built[Len(arg.options)]

ParserTargets == {"prompt", "system"}

\* MakeAdapterCompatible's targets for the parser, then the Dataset model:
\* known keys, a dict where a dict belongs, a positive sample count.
DatasetAccepted(tree) ==
  /\ \A p \in DOMAIN tree :
       /\ p[1] \in {"path", "type", "samples", "parser", "name"}
       /\ p[1] = "parser" <=> Len(p) = 2
       /\ p[1] = "parser" => p[2] \in ParserTargets
  /\ <<"samples">> \in DOMAIN tree => tree[<<"samples">>] \in {"1", "2"}

\* The name defaults to the path's stem, which here is the path.
_auto_derive_name(tree) ==
  IF <<"name">> \in DOMAIN tree THEN tree ELSE (<<"name">> :> tree[<<"path">>]) @@ tree

NamesAndTypes(datasets) ==
  [i \in DOMAIN datasets |-> <<datasets[i][<<"name">>], datasets[i][<<"type">>]>>]

NoDuplicates(datasets) ==
  Cardinality({NamesAndTypes(datasets)[i] : i \in DOMAIN datasets}) = Len(datasets)

\* The datasets of the command line, or <<>> wrapped as refused.
_coerce_dataset_strings(args) ==
  LET trees == [i \in DOMAIN args |-> parse_dataset_string(args[i])]
  IN  IF \E i \in DOMAIN args : trees[i] = <<>> \/ ~DatasetAccepted(trees[i][1])
      THEN <<>>
      ELSE LET named == [i \in DOMAIN args |-> _auto_derive_name(trees[i][1])]
           IN  IF NoDuplicates(named) THEN <<named>> ELSE <<>>

-----------------------------------------------------------------------------
(* Generation parameters.                                                  *)

_deep_merge(base, override) == override @@ base

\* Unknown keys, and those the run's one tokenizer and aggregator ignore.
_validate_generation_config_override(override) ==
  \A p \in DOMAIN override :
    p[1] \in {"max_new_tokens", "min_new_tokens", "osl_distribution"}

GenerationLengthsFit(gen) == gen[<<"min_new_tokens">>] <= gen[<<"max_new_tokens">>]

\* min_new_tokens stands for both controls only text completions honour.
_non_default_completion_controls(gen) == gen[<<"min_new_tokens">>] # 1

effective_generation_config(c) == _deep_merge(c.gen, c.override)

GenerationAccepted(c) ==
  /\ _validate_generation_config_override(c.override)
  /\ \A gen \in {c.gen, effective_generation_config(c)} :
       /\ GenerationLengthsFit(gen)
       /\ _non_default_completion_controls(gen) => c.api = "openai_completions"

-----------------------------------------------------------------------------
(* The HTTP client's configuration.                                        *)

ADAPTER_MAP(api) ==
  CASE api = "openai" -> "chat"
    [] api = "openai_completions" -> "completions"
    [] api = "sglang" -> "generate"
    [] api = "videogen" -> "video"

ACCUMULATOR_MAP(api) ==
  CASE api \in {"openai", "openai_completions"} -> "openai-sse"
    [] api = "sglang" -> "sglang-sse"
    [] api = "videogen" -> "no-stream"

\* The NUMA node's size between 10 and 24; 10 where it is unknown.
_get_auto_num_workers(machine) ==
  CASE machine.numa < 10 -> 10
    [] machine.numa > 24 -> 24
    [] OTHER -> machine.numa

_endpoint_destination(url) ==
  <<url.host, IF url.port # 0 THEN url.port ELSE IF url.https THEN 443 ELSE 80>>

PortBudget(client, machine) ==
  machine.ports * Cardinality({_endpoint_destination(client.urls[i]) : i \in DOMAIN client.urls})

\* A quarter of the budget, at least one.
AutoWarmup(budget) == IF budget < 4 THEN 1 ELSE budget \div 4

_resolve_zeros(client) == client.workers # 0 /\ client.max # 0

\* The auto values and what depends on them; the ports only once there are
\* endpoints to connect to.
ResolvedClient(client, machine) ==
  LET workers == IF client.workers = -1 THEN _get_auto_num_workers(machine)
                 ELSE client.workers
      auto == client.urls # <<>> /\ client.max = -1
      budget == PortBudget(client, machine)
  IN  [client EXCEPT
        !.workers = workers,
        !.adapter = IF @ = "none" THEN ADAPTER_MAP(client.api) ELSE @,
        !.accumulator = IF @ = "none" THEN ACCUMULATOR_MAP(client.api) ELSE @,
        !.max = IF auto THEN budget ELSE @,
        !.warmup = IF auto /\ @ = -1 THEN AutoWarmup(budget) ELSE @]

\* <<client>>, or <<>> when a validator refuses it.
_resolve_defaults(client, machine) ==
  LET resolved == ResolvedClient(client, machine)
  IN  IF /\ _resolve_zeros(client)
         /\ client.urls # <<>> =>
              /\ resolved.workers % Len(client.urls) = 0
              /\ resolved.max <= PortBudget(client, machine)
      THEN <<resolved>> ELSE <<>>

\* A change of the API type drops what was resolved from the old one.
with_updates(client, updates, machine) ==
  LET changed == "api" \in DOMAIN updates /\ updates.api # client.api
      fresh == IF changed THEN [client EXCEPT !.adapter = "none", !.accumulator = "none"]
               ELSE client
  IN  _resolve_defaults([f \in DOMAIN client |->
        IF f \in DOMAIN updates THEN updates[f] ELSE fresh[f]], machine)

-----------------------------------------------------------------------------
(* The run's configuration.                                                *)

\* The rule sets of the registry, and the seeds each pins.
RulesetSeeds == [current |-> [scheduler |-> 7, sample |-> 8],
                 edge |-> [scheduler |-> 42, sample |-> 42]]

\* A rule set that is not registered is refused, for every test type.
RulesetKnown(c) == c.ruleset = "none" \/ c.ruleset \in DOMAIN RulesetSeeds

_apply_ruleset_seed_overrides(c) ==
  IF c.ruleset = "none" THEN c
  ELSE [c EXCEPT !.scheduler_seed = RulesetSeeds[c.ruleset].scheduler,
                 !.dataloader_seed = RulesetSeeds[c.ruleset].sample,
                 !.warmup_seed = RulesetSeeds[c.ruleset].sample]

ResolvedStreaming(c) ==
  IF c.streaming # "auto" THEN c.streaming
  ELSE IF c.mode = "offline" THEN "off" ELSE "on"

\* The target concurrency becomes the number of SWE-bench workers; -2 is a
\* run without that benchmark.
ForwardedWorkers(c) ==
  IF c.swe = -1 /\ c.concurrency > 0 THEN c.concurrency ELSE c.swe

_resolve_and_validate(c) ==
  LET named == [c EXCEPT !.model = IF @ = "" /\ c.ruleset # "none" THEN c.submitted ELSE @,
                         !.streaming = ResolvedStreaming(c)]
  IN  IF /\ named.model # ""
         /\ c.swe # -2 => Len(c.urls) = 1
         /\ GenerationAccepted(c)
         /\ NoDuplicates(c.datasets)
         /\ RulesetKnown(c)
      THEN <<_apply_ruleset_seed_overrides([named EXCEPT !.swe = ForwardedWorkers(c)])>>
      ELSE <<>>

_propagate_client_api_type_Missing(c, machine) == <<c>>

\* The endpoint's API type decides; the client follows.
_propagate_client_api_type(c, machine) ==
  IF c.client.api = c.api THEN <<c>>
  ELSE LET client == with_updates(c.client,
             [api |-> c.api, adapter |-> "none", accumulator |-> "none"], machine)
       IN  IF client = <<>> THEN <<>> ELSE <<[c EXCEPT !.client = client[1]]>>

\* All validators, as every construction and every with_updates runs them.
Validated(c, machine) ==
  LET resolved == _resolve_and_validate(c)
  IN  IF resolved = <<>> THEN <<>>
      ELSE _propagate_client_api_type(resolved[1], machine)

\* The client of a file: the internal fields have their defaults.
ClientOf(yaml) ==
  [workers |-> yaml.workers, max |-> yaml.max, warmup |-> yaml.warmup,
   urls |-> <<>>, api |-> "openai", key |-> "none",
   adapter |-> "none", accumulator |-> "none"]

\* The file's text with its variables resolved, then the models inside out.
from_yaml_file(yaml, machine) ==
  LET model == resolve_env_var_string(yaml.model, machine.env)
      client == _resolve_defaults(ClientOf(yaml), machine)
  IN  IF model = Unresolved \/ client = <<>> \/ yaml.urls = <<>> THEN <<>>
      ELSE Validated(
             [f \in (DOMAIN yaml \ {"workers", "max", "warmup"}) \cup {"client"} |->
                CASE f = "client" -> client[1]
                  [] f = "model" -> model
                  [] OTHER -> yaml[f]],
             machine)

-----------------------------------------------------------------------------
(* The copy in the report directory.                                       *)

_redact_url_secrets(url) ==
  [url EXCEPT !.login = IF @ = "none" THEN "none" ELSE "<redacted>"]

_redact_secret_fields(yaml) ==
  [yaml EXCEPT !.key = IF @ = "none" THEN "none" ELSE "<redacted>",
               !.urls = [i \in DOMAIN @ |-> _redact_url_secrets(@[i])]]

\* The dump leaves out the client's internal fields.
to_yaml_file(c) ==
  _redact_secret_fields(
    [f \in (DOMAIN c \ {"client"}) \cup {"workers", "max", "warmup"} |->
       IF f \in {"workers", "max", "warmup"} THEN c.client[f] ELSE c[f]])

-----------------------------------------------------------------------------
(* The life of a configuration.                                            *)

CfgIdle ==
  cfg = [machine |-> CHOOSE h \in Hosts : TRUE, state |-> "idle", conf |-> <<>>,
         saved |-> <<>>, before |-> <<>>, args |-> <<>>, single |-> FALSE,
         http |-> <<>>, reloads |-> 0]

\* `benchmark from-config` on some machine, or the command line, which
\* builds the same model of texts without variables.
CfgInit ==
  \E machine \in Hosts, yaml \in Yamls :
    LET conf == from_yaml_file(yaml, machine)
    IN  cfg = [machine |-> machine,
               state |-> IF conf = <<>> THEN "refused" ELSE "loaded",
               conf |-> conf, saved |-> <<>>, before |-> <<>>, args |-> <<>>,
               single |-> FALSE, http |-> <<>>, reloads |-> 0]

\* The datasets of the command line, when it gave no others; a run from a
\* file never adds any.
InjectDatasets ==
  /\ cfg.state = "loaded" /\ cfg.conf[1].datasets = <<>> /\ cfg.args = <<>>
  /\ cfg.reloads = 0
  /\ \E args \in DatasetArgs :
       LET datasets == _coerce_dataset_strings(args)
           conf == IF datasets = <<>> THEN <<>>
                   ELSE Validated([cfg.conf[1] EXCEPT !.datasets = datasets[1]], cfg.machine)
       IN  cfg' = [cfg EXCEPT !.conf = conf, !.args = args,
                              !.state = IF conf = <<>> THEN "refused" ELSE "loaded"]

\* An accuracy-only run is forced to one worker and one connection.
AccuracyOnly ==
  /\ cfg.state = "loaded" /\ ~cfg.single
  /\ LET c == cfg.conf[1]
         client == with_updates(c.client, [workers |-> 1, max |-> 1], cfg.machine)
         conf == IF client = <<>> THEN <<>>
                 ELSE Validated([c EXCEPT !.client = client[1],
                        !.concurrency = IF @ \in {0, 1} THEN @ ELSE 1], cfg.machine)
     IN  cfg' = [cfg EXCEPT !.conf = conf, !.single = TRUE,
                            !.state = IF conf = <<>> THEN "refused" ELSE "loaded"]

\* setup_benchmark writes the configuration before it connects.
SaveConfig ==
  /\ cfg.state = "loaded"
  /\ cfg' = [cfg EXCEPT !.saved = <<to_yaml_file(cfg.conf[1])>>,
                        !.before = cfg.conf, !.state = "saved"]

\* The client of the run.
Connect ==
  /\ cfg.state = "saved"
  /\ LET c == cfg.conf[1]
         http == with_updates(c.client, [urls |-> c.urls, key |-> c.key], cfg.machine)
     IN  cfg' = [cfg EXCEPT !.http = http,
                            !.state = IF http = <<>> THEN "refused" ELSE "connected"]

\* The report's config.yaml is run again, here or elsewhere.
Reload ==
  /\ cfg.saved # <<>> /\ cfg.state \in {"connected", "refused"}
  /\ cfg.reloads < MaxReloads
  /\ \E machine \in Hosts :
       LET conf == from_yaml_file(cfg.saved[1], machine)
       IN  cfg' = [cfg EXCEPT !.machine = machine, !.conf = conf, !.http = <<>>,
                              !.single = FALSE, !.reloads = @ + 1,
                              !.state = IF conf = <<>> THEN "refused-again" ELSE "loaded"]

CfgNext == InjectDatasets \/ AccuracyOnly \/ SaveConfig \/ Connect \/ Reload

-----------------------------------------------------------------------------
(* Properties.                                                             *)

\* Whatever updates, saving and reloading a configuration went through, a run
\* bound to a rule set issues load from that rule set's seeds.
SeedsStayPinned ==
  cfg.conf # <<>> /\ cfg.conf[1].ruleset # "none" =>
    LET c == cfg.conf[1]
        seeds == RulesetSeeds[c.ruleset]
    IN  /\ c.scheduler_seed = seeds.scheduler
        /\ c.dataloader_seed = seeds.sample
        /\ c.warmup_seed = seeds.sample

\* What connects speaks the API that was configured, gives every endpoint as
\* many workers, and fits the ports of the machine it runs on.
ClientFitsTheRun ==
  cfg.http # <<>> =>
    LET c == cfg.conf[1]
        h == cfg.http[1]
    IN  /\ h.adapter = ADAPTER_MAP(c.api) /\ h.accumulator = ACCUMULATOR_MAP(c.api)
        /\ \A u, v \in DOMAIN c.urls :
             Cardinality({w \in 0..(h.workers - 1) : w % Len(c.urls) = u - 1})
               = Cardinality({w \in 0..(h.workers - 1) : w % Len(c.urls) = v - 1})
        /\ 1 <= h.max /\ h.max <= PortBudget(h, cfg.machine)
        /\ cfg.single => h.workers = 1 /\ h.max = 1

\* No secret reaches the saved file, and loading it gives back the run that
\* was saved, but for the secrets and, with the escape `$$V`, the model name.
SavedRunIsTheRun ==
  cfg.saved # <<>> =>
    /\ cfg.saved[1].key # "secret"
    /\ \A i \in DOMAIN cfg.saved[1].urls : cfg.saved[1].urls[i].login # "secret"
    /\ LET old == cfg.before[1]
       IN  /\ cfg.state = "refused-again" => old.model = "$V"
           /\ cfg.reloads > 0 /\ cfg.conf # <<>> /\ ~cfg.single /\ cfg.state = "loaded" =>
                /\ \A f \in DOMAIN old \ {"key", "urls", "model", "client"} :
                     cfg.conf[1][f] = old[f]
                /\ old.model # "$V" => cfg.conf[1].model = old.model
                /\ \A f \in {"workers", "max", "warmup", "api", "adapter", "accumulator"} :
                     cfg.conf[1].client[f] = old.client[f]

\* The datasets a command line names keep every option it gave them, each
\* with the last value given: a repeated or nested key loses none silently.
NoOptionIsLost ==
  cfg.conf # <<>> /\ cfg.args # <<>> /\ cfg.conf[1].datasets # <<>> =>
    \A i \in DOMAIN cfg.args :
      LET options == cfg.args[i].options
          last(n) == \A m \in (n + 1)..Len(options) : options[m].key # options[n].key
      IN  \A n \in DOMAIN options :
            last(n) => cfg.conf[1].datasets[i][options[n].key] = options[n].value

\* A configuration stays what was asked for: see its four parts.
ConfigIsFaithful == SeedsStayPinned /\ ClientFitsTheRun /\ SavedRunIsTheRun /\ NoOptionIsLost

=============================================================================
