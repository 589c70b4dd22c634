----------------------------- MODULE DatasetCache -----------------------------
(***************************************************************************)
(* generate() of the predefined datasets: what a run finds in the dataset  *)
(* directory, what it fetches, and what it leaves there for later runs.    *)
(* A run may be killed at any point; the files stay as they are, one that  *)
(* was being written in place is cut short.                                *)
(***************************************************************************)
EXTENDS Integers, Sequences, SequencesExt, FiniteSets, FiniteSetsExt

CONSTANTS
  Kinds,      \* the datasets, a subset of AllKinds
  Source,     \* the rows of a source in order, each [part, id]
  Maxes,      \* values of max_samples, 0 for None
  MaxRuns     \* bound on the runs over one directory

\* The generate() of each dataset: where its rows come from (Hugging Face in
\* parts, a source read whole, a downloaded file), and whether it samples
\* before it writes its cache, after it has read it, or never.
Generate(from, parts, samples) == [from |-> from, parts |-> parts, samples |-> samples]
CNNDailyMail == Generate("hf", <<"all">>, "before")
GPQA == Generate("hf", <<"all">>, "before")
AIME25 == Generate("hf", <<"I", "II">>, "before")
SWEBench == Generate("hf", <<"all">>, "never")
LiveCodeBench == Generate("source", <<"all">>, "never")
ShopifyProductCatalogue == Generate("source", <<"all">>, "never")
LegacyMLPerfDeepSeekR1 == Generate("source", <<"all">>, "after")
OpenOrca == Generate("download", <<"all">>, "never")
BFCLv4 == Generate("source", <<"all">>, "after")

PREDEFINED ==
  [cnn_dailymail |-> CNNDailyMail, gpqa |-> GPQA, aime25 |-> AIME25, swe_bench |-> SWEBench,
   livecodebench |-> LiveCodeBench, shopify |-> ShopifyProductCatalogue,
   deepseek_r1 |-> LegacyMLPerfDeepSeekR1, open_orca |-> OpenOrca, bfcl_v4 |-> BFCLv4]

AllKinds == DOMAIN PREDEFINED

ASSUME KindsAssumption == Kinds \subseteq AllKinds

VARIABLE store

\* A file holds rows of the source, from the hosted copy or built locally;
\* corrupt bytes are neither.
Absent == [state |-> "absent", from |-> "none", rows |-> <<>>]
Partial == [state |-> "partial", from |-> "none", rows |-> <<>>]
Whole(from, rows) == [state |-> "whole", from |-> from, rows |-> rows]

StoreIdle == store = [stage |-> "idle"]

StoreInit ==
  \E k \in Kinds :
    store = [stage |-> "down", kind |-> k, hf |-> Absent, out |-> Absent, src |-> Absent,
             ask |-> [max |-> 0, force |-> FALSE, uri |-> FALSE], past |-> {},
             parts |-> <<>>, df |-> Absent, got |-> <<>>, runs |-> 0]

Parts == {Source[i].part : i \in DOMAIN Source}
RowsOf(rows, p) == SelectSeq(rows, LAMBDA r : r.part = p)
Dataset == PREDEFINED[store.kind]
Done(rows) == [store EXCEPT !.stage = "returned", !.got = rows]
Raise == [store EXCEPT !.stage = "down"]

\* get_dataloader(): a run asks for a dataset of this directory.
StartRun ==
  /\ store.stage = "down" /\ store.runs < MaxRuns
  /\ \E m \in Maxes, force, uri \in BOOLEAN :
       /\ m # 0 => Dataset.samples # "never"
       /\ uri => store.kind = "bfcl_v4"
       /\ LET ask == [max |-> m, force |-> force, uri |-> uri]
          IN  store' = [store EXCEPT !.stage = "lookup", !.ask = ask, !.past = @ \cup {ask},
                          !.runs = @ + 1, !.df = Absent, !.got = <<>>]

Crash ==
  /\ store.stage \notin {"down", "returned"}
  /\ store' = [store EXCEPT !.stage = "down"]

Finish == store.stage = "returned" /\ store' = [store EXCEPT !.stage = "down"]

-----------------------------------------------------------------------------
(***************************************************************************)
(* Sampling                                                                *)
(***************************************************************************)
\* rng.sample with the default seed: a fixed choice, here the first rows.
Sampled(rows, m) == IF m = 0 \/ m >= Len(rows) THEN rows ELSE SubSeq(rows, 1, m)

\* round(a / b), ties to even.
Rounded(a, b) ==
  LET q == a \div b
      twice == 2 * (a % b)
  IN  IF twice > b \/ (twice = b /\ q % 2 = 1) THEN q + 1 ELSE q

Concatenated(sizes, rows) ==
  FlattenSeq([k \in 1..Cardinality(Parts) |->
    LET p == SetToSeq(Parts)[k] IN SubSeq(RowsOf(rows, p), 1, sizes[p])])

_stratified_subset(rows, m) ==
  Sampled(Concatenated([p \in Parts |->
            LET n == Len(RowsOf(rows, p)) IN Min({Max({1, Rounded(n * m, Len(rows))}), n})], rows),
          m)

\* sample_pct = 50 with no floor, then max_samples.
BfclSample(rows, m) ==
  Sampled(Concatenated([p \in Parts |->
            LET n == Len(RowsOf(rows, p)) IN IF n = 0 THEN 0 ELSE Max({1, n \div 2})], rows), m)

\* What a run that samples after the cache makes of the cached rows.
SelectedRows(rows) ==
  LET m == store.ask.max
  IN  CASE store.kind = "deepseek_r1" /\ m # 0 /\ m < Len(rows) -> _stratified_subset(rows, m)
        [] store.kind = "bfcl_v4" -> BfclSample(rows, m)
        [] OTHER -> rows

-----------------------------------------------------------------------------
(***************************************************************************)
(* The steps of generate()                                                 *)
(***************************************************************************)

_verify_sha256(file) == file.state = "whole" /\ file.from = "hosted"

CacheTrusted_Uri == TRUE

\* A configured hosted copy: the cache is trusted only if its bytes match.
CacheTrusted == store.ask.uri => _verify_sha256(store.out)

Lookup ==
  LET hit == store.out.state # "absent" /\ ~store.ask.force
      usesHf == Dataset.from = "hf"
  IN  /\ store.stage = "lookup"
      /\ store' =
           IF hit /\ CacheTrusted
           THEN IF store.out.state = "partial" THEN Raise ELSE Done(SelectedRows(store.out.rows))
           ELSE [store EXCEPT
                  !.out = IF hit \/ store.ask.uri THEN Absent ELSE @,
                  !.parts = Dataset.parts,
                  !.stage = CASE usesHf -> "hf"
                              [] store.kind = "bfcl_v4" /\ store.ask.uri -> "download"
                              [] Dataset.from = "download" ->
                                   IF store.src.state # "absent" /\ ~store.ask.force
                                   THEN "convert" ELSE "download"
                              [] OTHER -> "write",
                  !.df = IF usesHf THEN Absent ELSE Whole("local", Source)]

\* load_from_huggingface(): a readable cache directory wins over the name that
\* is asked for; a broken one is only logged.
PartRows(p) == IF p = "all" THEN Source ELSE RowsOf(Source, p)

load_from_huggingface ==
  /\ store.stage = "hf"
  /\ LET more == [store EXCEPT !.parts = Tail(@)]
         Got(rows) == [more EXCEPT !.df = Whole("local", store.df.rows \o rows),
                         !.stage = IF Len(store.parts) = 1 THEN "sample" ELSE "hf"]
     IN  \/ store.hf.state = "whole" /\ store' = Got(store.hf.rows)
         \/ store.hf.state # "whole" /\ store' = [store EXCEPT !.hf = Partial, !.stage = "save"]
         \/ store.hf.state # "whole" /\ store' = Raise

\* save_to_disk() of the downloaded part; its failure is only logged.
SaveHf ==
  /\ store.stage = "save"
  /\ LET rows == PartRows(Head(store.parts))
         more == [store EXCEPT !.df = Whole("local", store.df.rows \o rows),
                    !.parts = Tail(@), !.stage = IF Len(store.parts) = 1 THEN "sample" ELSE "hf"]
     IN  \E ok \in BOOLEAN : store' = IF ok THEN [more EXCEPT !.hf = Whole("local", rows)] ELSE more

\* cnn_dailymail, gpqa and aime25 sample before they write the cache.
SampleRows ==
  /\ store.stage = "sample"
  /\ store' = [store EXCEPT !.stage = "write",
                 !.df = Whole("local", IF Dataset.samples = "never" THEN @.rows
                                       ELSE Sampled(@.rows, store.ask.max))]

\* to_parquet() in place.
BeginWrite ==
  /\ store.stage = "write"
  /\ store' = [store EXCEPT !.out = Partial, !.stage = "writing"]

EndWrite ==
  /\ store.stage = "writing"
  /\ store' = [Done(SelectedRows(store.df.rows)) EXCEPT !.out = store.df]

\* The downloader delivers the hosted bytes, others, or fails half way.
Download ==
  /\ store.stage = "download"
  /\ \E f \in {Whole("hosted", Source), Whole("other", <<>>), Partial, Absent} :
       store' = IF store.kind = "bfcl_v4"
                THEN [store EXCEPT !.out = f,
                        !.stage = IF f.state = "whole" THEN "verify" ELSE "down"]
                ELSE [store EXCEPT !.src = f,
                        !.stage = IF f.state = "whole" THEN "convert" ELSE "down"]

\* The hosted parquet stays where it is even if it does not verify.
VerifyDownload ==
  /\ store.stage = "verify"
  /\ store' = IF _verify_sha256(store.out) THEN Done(SelectedRows(store.out.rows)) ELSE Raise

\* open_orca: the pickle is verified, written to a temporary file that replaces
\* the cache at once, and removed.
_convert_pickle_cache ==
  /\ store.stage = "convert"
  /\ store' = IF _verify_sha256(store.src)
              THEN [store EXCEPT !.out = store.src, !.stage = "unlink"] ELSE Raise

UnlinkPickle ==
  /\ store.stage = "unlink"
  /\ store' = [Done(store.out.rows) EXCEPT !.src = Absent]

StoreNext ==
  \/ StartRun \/ Crash \/ Finish \/ Lookup \/ load_from_huggingface \/ SaveHf \/ SampleRows
  \/ BeginWrite \/ EndWrite \/ Download \/ VerifyDownload \/ _convert_pickle_cache \/ UnlinkPickle

-----------------------------------------------------------------------------
\* Whatever earlier runs asked for, and wherever they were killed, a run gets
\* what it asks for or fails: the hosted bytes where a hosted copy is
\* configured, a sample of its own size of the whole source where sampling comes
\* after the cache, with a row of every part unless it is capped, the whole
\* source where there is no sampling, and otherwise a sample that this or an
\* earlier run asked for.  The one exception: bytes that a hosted download left
\* unverified are taken by a run that has no hosted copy configured.
AnswersAreOwn ==
  store.stage = "returned" =>
    LET k == store.kind
        rows == store.got
    IN  /\ Range(rows) \subseteq Range(Source)
        /\ k # "aime25" => IsInjective(rows)
        /\ k = "open_orca" => store.out.from = "hosted"
        /\ store.ask.uri => store.out.from = "hosted"
        /\ k \in {"swe_bench", "livecodebench", "shopify", "open_orca"} => rows = Source
        /\ k \in {"deepseek_r1", "bfcl_v4"} /\ store.out.from # "other" =>
             /\ store.ask.max = 0 \/ Len(rows) <= store.ask.max
             /\ store.ask.max = 0 => {rows[i].part : i \in DOMAIN rows} = Parts
             /\ rows # <<>>
        /\ k = "deepseek_r1" /\ store.ask.max = 0 => rows = Source
        /\ k \in {"cnn_dailymail", "gpqa"} =>
             \E a \in store.past : rows = Sampled(Source, a.max)

\* "Loaded ... samples from AIME25-I and AIME25-II", as generate() of aime25
\* logs: a run that takes no sample gets the questions of both.
AimeHasBothParts ==
  store.stage = "returned" /\ store.kind = "aime25" =>
    {store.got[i].part : i \in DOMAIN store.got} = Parts
=============================================================================
