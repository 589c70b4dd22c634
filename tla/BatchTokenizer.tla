--------------------------- MODULE BatchTokenizer ---------------------------
(***************************************************************************)
(* The tokenizer behind the ISL, OSL and TPOT metrics: it loads a          *)
(* reference tokenizer, warms one process shard per block of cores, and    *)
(* counts mixed batches: plain text on the shards (a drain) or on the      *)
(* in-process threads (a live flush), structured messages and prompts      *)
(* through the chat template, one at a time.                               *)
(***************************************************************************)
EXTENDS Integers, Sequences, SequencesExt, FiniteSets, FiniteSetsExt

CONSTANTS
  Batches,     \* the batches: sequences of tokenization inputs
  MaxShards,   \* shards that fit the machine
  PrefixLen,   \* tokens of the user prefix, by the chat template
  FrameLen     \* tokens of an empty assistant frame

VARIABLE tok

Error == -1
Unset == -2

TokIdle == tok = [stage |-> "idle"]

\* backend: the tokenizer has a fast text backend; template: its chat template
\* renders the two baseline messages; shards: how many _setup_shards makes.
TokInit ==
  \E backend, template \in BOOLEAN, n \in 0..MaxShards :
    /\ ~backend => n = 0
    /\ tok = [stage |-> IF n = 0 THEN "open" ELSE "warmup", backend |-> backend,
              prefix |-> IF template THEN PrefixLen ELSE 0,
              baseline |-> IF template THEN FrameLen ELSE 0,
              shard |-> [s \in 1..n |-> "loading"], thread |-> TRUE,
              batch |-> <<>>, live |-> FALSE, outcomes |-> <<>>,
              chunks |-> <<>>, counts |-> <<>>, failed |-> FALSE]

Shards == DOMAIN tok.shard

-----------------------------------------------------------------------------
(***************************************************************************)
(* Warm-up and close                                                       *)
(***************************************************************************)

\* _init_worker pins, loads and encodes once; a shard may also die or hang.
_init_worker(s) ==
  /\ tok.stage = "warmup" /\ tok.shard[s] = "loading"
  /\ \E end \in {"ready", "dead", "hung"} :
       tok' = [tok EXCEPT !.shard[s] = end]

\* _terminate_procs reaches every child, a shard that hangs in its initializer too.
_terminate_procs(shards) == [s \in DOMAIN shards |-> "dead"]

\* All shards answer _worker_ready, or the first failure, or the deadline, ends
\* the start of the service.
ShardsReady ==
  /\ tok.stage = "warmup" /\ \A s \in Shards : tok.shard[s] = "ready"
  /\ tok' = [tok EXCEPT !.stage = "open"]

WarmupFails ==
  /\ tok.stage = "warmup" /\ \E s \in Shards : tok.shard[s] # "ready"
  /\ tok' = [tok EXCEPT !.stage = "refused", !.shard = _terminate_procs(@)]

\* close(): the aggregator closes when no flush is under way.
Close ==
  /\ tok.stage = "open" /\ tok.thread
  /\ tok' = [tok EXCEPT !.thread = FALSE, !.shard = _terminate_procs(@)]

-----------------------------------------------------------------------------
(***************************************************************************)
(* What an input counts                                                    *)
(***************************************************************************)

\* _encode_lengths_inproc, _worker_encode_lengths: the same tokenizer.
TextCount(item) == item.text

\* The template renders an assistant message behind the user prefix; if it
\* raises, the joined parts are counted as text.
_token_count_message(item) ==
  IF item.renders
  THEN Max({0, (PrefixLen + FrameLen + item.payload) - tok.prefix - tok.baseline})
  ELSE item.text

\* A prompt keeps its framing.
_token_count_prompt(item) == IF item.renders THEN item.payload ELSE item.text

count_sync(item) ==
  CASE item.kind = "ids" -> item.payload
    [] item.kind = "text" -> TextCount(item)
    [] item.kind = "message" -> _token_count_message(item)
    [] item.kind = "prompt" -> _token_count_prompt(item)

-----------------------------------------------------------------------------
(***************************************************************************)
(* count_batch_async                                                       *)
(***************************************************************************)

IndicesOf(batch, kinds) ==
  SetToSortSeq({i \in DOMAIN batch : batch[i].kind \in kinds}, <)

Texts == IndicesOf(tok.batch, {"text"})

\* Chunks of size ceil(len / n); the shorter ones come last.
_even_chunks(items, n) ==
  IF n <= 1 \/ Len(items) <= 1 THEN <<items>>
  ELSE LET size == (Len(items) + n - 1) \div n
           count == (Len(items) + size - 1) \div size
       IN  [k \in 1..count |->
              SubSeq(items, (k - 1) * size + 1, Min({k * size, Len(items)}))]

\* Token ids are counted at once; texts go out in chunks, at most one per shard,
\* or as one chunk to the threads.
BeginBatch ==
  /\ tok.stage = "open"
  /\ \E batch \in Batches, live \in BOOLEAN :
       LET texts == IndicesOf(batch, {"text"})
           sharded == Shards # {} /\ tok.thread /\ ~live
           chunks == CASE texts = <<>> -> <<>>
                       [] sharded -> _even_chunks(texts, Cardinality(Shards))
                       [] OTHER -> <<texts>>
           taken == IF sharded THEN Min({Len(chunks), Cardinality(Shards)})
                    ELSE Len(chunks)
       IN  tok' = [tok EXCEPT
             !.stage = "texts", !.batch = batch, !.live = live, !.failed = FALSE,
             !.outcomes = [i \in DOMAIN batch |->
                             IF batch[i].kind = "ids" THEN count_sync(batch[i]) ELSE Unset],
             !.chunks = SubSeq(chunks, 1, taken),
             !.counts = [k \in 1..taken |-> <<>>]]

\* A chunk's worker returns its counts or fails; without a pool there is none.
EncodeChunk(k) ==
  /\ tok.stage = "texts" /\ k \in DOMAIN tok.chunks /\ tok.counts[k] = <<>>
  /\ \/ /\ tok.thread
        /\ tok' = [tok EXCEPT !.counts[k] =
                     [i \in DOMAIN tok.chunks[k] |-> TextCount(tok.batch[tok.chunks[k][i]])]]
     \/ tok' = [tok EXCEPT !.failed = TRUE,
                           !.counts[k] = [i \in DOMAIN tok.chunks[k] |-> Error]]

\* gather: the first failure fails all texts of the batch, and so does a wrong
\* number of counts; otherwise the counts are paired with the texts in order.
TextsCounted ==
  LET counts == FlattenSeq(tok.counts)
      ok == ~tok.failed /\ Len(counts) = Len(Texts)
  IN  [i \in DOMAIN tok.batch |->
         IF tok.batch[i].kind # "text" THEN tok.outcomes[i]
         ELSE IF ok THEN counts[CHOOSE k \in DOMAIN Texts : Texts[k] = i]
         ELSE Error]

GatherTexts ==
  /\ tok.stage = "texts"
  /\ tok.failed \/ \A k \in DOMAIN tok.chunks : tok.counts[k] # <<>>
  /\ tok' = [tok EXCEPT !.stage = "structured", !.outcomes = TextsCounted]

\* Messages and prompts, one at a time on the thread pool; a failure stays with
\* its item.
CountStructured(i) ==
  /\ tok.stage = "structured" /\ i \in DOMAIN tok.batch
  /\ tok.outcomes[i] = Unset
  /\ \A j \in 1..i - 1 : tok.outcomes[j] # Unset
  /\ \/ tok.thread /\ tok' = [tok EXCEPT !.outcomes[i] = count_sync(tok.batch[i])]
     \/ tok' = [tok EXCEPT !.outcomes[i] = Error, !.failed = TRUE]

Return ==
  /\ tok.stage = "structured" /\ \A i \in DOMAIN tok.batch : tok.outcomes[i] # Unset
  /\ tok' = [tok EXCEPT !.stage = "returned"]

\* The drain's budget is over: the flush is cancelled at its await.
CancelBatch ==
  /\ tok.stage \in {"texts", "structured"}
  /\ tok' = [tok EXCEPT !.stage = "open", !.batch = <<>>, !.outcomes = <<>>,
                        !.chunks = <<>>, !.counts = <<>>, !.failed = FALSE]

NextBatch ==
  /\ tok.stage = "returned"
  /\ tok' = [tok EXCEPT !.stage = "open", !.batch = <<>>, !.outcomes = <<>>,
                        !.chunks = <<>>, !.counts = <<>>, !.failed = FALSE]

TokNext ==
  \/ \E s \in 1..MaxShards : s \in Shards /\ _init_worker(s)
  \/ ShardsReady \/ WarmupFails \/ Close \/ BeginBatch
  \/ \E k \in 1..MaxShards + 1 : EncodeChunk(k)
  \/ GatherTexts \/ (\E i \in 1..3 : CountStructured(i))
  \/ Return \/ CancelBatch \/ NextBatch

-----------------------------------------------------------------------------
\* A batch comes back whole and in order: each input gets the number that
\* count_sync gives for it ("the two lanes ... yield the same number"), or an
\* error.  Errors come only from a failure: token ids never fail, the texts fail
\* together, a structured input fails alone, and the framing is out of a
\* message's count whenever the template works.  A tokenizer that is closed, or
\* refused to start, leaves no shard process behind.
CountsAreFaithful ==
  tok.stage # "idle" =>
    /\ tok.stage = "returned" =>
         /\ \A i \in DOMAIN tok.batch :
              /\ tok.outcomes[i] \in {Error, count_sync(tok.batch[i])}
              /\ tok.batch[i].kind = "ids" => tok.outcomes[i] # Error
              /\ tok.outcomes[i] = Error => tok.failed
              /\ tok.batch[i].kind = "message" /\ tok.batch[i].renders
                   /\ tok.prefix = PrefixLen =>
                   tok.outcomes[i] \in {Error, tok.batch[i].payload}
         /\ \A i, j \in DOMAIN tok.batch :
              tok.batch[i].kind = "text" /\ tok.batch[j].kind = "text" =>
                (tok.outcomes[i] = Error <=> tok.outcomes[j] = Error)
    /\ tok.stage = "refused" \/ ~tok.thread =>
         \A s \in Shards : tok.shard[s] = "dead"
=============================================================================
