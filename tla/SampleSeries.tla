---------------------------- MODULE SampleSeries ----------------------------
(***************************************************************************)
(* What the metrics aggregator records of each sample: the triggers of     *)
(* metrics_table.py, which turn the times and texts of a sample's events   *)
(* into the six series, and the registration, counters and routing of      *)
(* aggregator.py around them.  MetricsTable has the tracked blocks and the *)
(* legacy window, SuperPasses the super-pass series, MetricsAggregator the *)
(* life cycle of the token queue.                                          *)
(*                                                                         *)
(* Time is the number of records so far.  A token count is 1 or, where the *)
(* counted text may be empty, 0; a TPOT is therefore its numerator.        *)
(***************************************************************************)
EXTENDS Integers, FiniteSets, Bags, BagsExt

CONSTANTS
  Uuid,           \* samples
  Setups,         \* the constructor's arguments (streaming, isl, tokenizer),
                  \* and of each sample the prompt that its ISSUED, and the
                  \* output and finish reason that its COMPLETE will carry
  MaxRecords,     \* bound on the records processed
  MaxRepeats      \* bound on retried ISSUED, repeated STARTED and late records

VARIABLE tab

NotSet == -1
SampleField == {"issued_ns", "recv_first_ns", "last_recv_ns", "complete_ns"}

\* A SampleRow; complete_ns is only ever set on the way out of the table.
SampleRow == [f \in SampleField |-> NotSet]

KnownReason ==
  {"stop", "length", "tool_calls", "content_filter", "function_call"}

-----------------------------------------------------------------------------
(* Registration.                                                           *)

\* _register_metrics: the series of a set-up.
Registered(s) ==
  {"sample_latency_ns", "osl"} \cup (IF s.isl THEN {"isl"} ELSE {})
    \cup (IF s.streaming THEN {"ttft_ns", "chunk_delta_ns", "tpot_ns"} ELSE {})

\* _register_triggers: the metrics that fire when a field is set.
Triggers(s) ==
  [issued_ns     |-> IF s.isl THEN {"isl"} ELSE {},
   recv_first_ns |-> IF s.streaming THEN {"ttft_ns"} ELSE {},
   last_recv_ns  |-> IF s.streaming THEN {"chunk_delta_ns"} ELSE {},
   complete_ns   |-> {"sample_latency_ns", "osl"}
                       \cup IF s.streaming THEN {"tpot_ns"} ELSE {}]

NoCounts ==
  [issued |-> 0, completed |-> 0, failed |-> 0, tracked_issued |-> 0,
   tracked_completed |-> 0, tracked_failed |-> 0, duration |-> 0]

\* The service before its first record.  `told` is what the session published
\* of each sample, and `heard` what was measured of it: both only for the
\* guards of the records and for the properties.
NewTab(s) ==
  [setup |-> s, clock |-> 0, repeats |-> 0, broken |-> FALSE,
   start |-> NotSet, tracking |-> FALSE, measured |-> FALSE, ended |-> FALSE,
   rows |-> <<>>, queue |-> EmptyBag, counts |-> NoCounts,
   series |-> [n \in Registered(s) |-> EmptyBag],
   reasons |-> [r \in KnownReason \cup {"other"} |-> 0],
   told |-> [u \in Uuid |-> "unissued"],
   heard |-> [u \in Uuid |-> [span |-> 0, osl |-> 0, tpot |-> 0]]]

-----------------------------------------------------------------------------
(* Triggers.                                                               *)

\* registry.record, which raises for a series that was never registered.
RecordSeries(t, name, v) ==
  IF name \in DOMAIN t.series THEN [t EXCEPT !.series[name] = BagAdd(@, v)]
  ELSE [t EXCEPT !.broken = TRUE]

\* TimeDeltaTrigger: the start is the value the row had before the change.
DeltaStart(name) == CASE name = "ttft_ns"           -> "issued_ns"
                      [] name = "sample_latency_ns" -> "issued_ns"
                      [] name = "chunk_delta_ns"    -> "last_recv_ns"

TimeDelta(t, name, row, at) ==
  IF row[DeltaStart(name)] = NotSet THEN t
  ELSE RecordSeries(t, name, at - row[DeltaStart(name)])

\* What is to be counted: nothing, ids (at once) or a text with its recorder,
\* for the queue if there is one.
NothingToCount == "nothing"
CountNow == "now"

\* IslTrigger: ids before text before messages.
IslInput(prompt) ==
  CASE prompt = "ids"                  -> CountNow
    [] prompt \in {"text", "messages"} -> "queue"
    [] prompt = "none"                 -> NothingToCount

\* OslTrigger (extract_tokenization_input): an output that is no
\* TextModelOutput, or has neither text nor reasoning nor tool calls, is not
\* counted.
OslInput(output) ==
  IF output \in {"absent", "empty"} THEN NothingToCount ELSE "queue"

\* TpotTrigger: the text after the first chunk, once there was a first chunk.
\* A structured output is queued though nothing may be left of it.
TpotInput(row, output) ==
  IF row.recv_first_ns = NotSet \/ output \in {"absent", "empty", "text1"}
  THEN NothingToCount ELSE "queue"

TpotTokens(output) == IF output \in {"text", "message"} THEN 1 ELSE 0

\* TokenTrigger.fire, `at` being the value the count will be made into and n
\* the count.
TokenTrigger(t, name, input, v, n) ==
  CASE input = NothingToCount -> t
    [] input = CountNow       -> RecordSeries(t, name, v)
    [] OTHER -> IF ~t.setup.tokenizer THEN t
                ELSE [t EXCEPT !.queue =
                        BagAdd(@, [name |-> name, value |-> v, tokens |-> n])]

\* Trigger.fire for one metric name.
Fire(t, name, row, at, data) ==
  CASE name = "isl"     -> TokenTrigger(t, name, IslInput(data), 1, 1)
    [] name = "osl"     -> TokenTrigger(t, name, OslInput(data), 1, 1)
    [] name = "tpot_ns" -> TokenTrigger(t, name, TpotInput(row, data),
                                        at - row.recv_first_ns, TpotTokens(data))
    [] OTHER            -> TimeDelta(t, name, row, at)

\* _fire_triggers: no trigger changes the row, so their order does not matter.
FireTriggers(t, u, field, at, data) ==
  LET names == Triggers(t.setup)[field]
      step[S \in SUBSET names] ==
        IF S = {} THEN t
        ELSE LET n == CHOOSE x \in S : TRUE
             IN  Fire(step[S \ {n}], n, t.rows[u], at, data)
  IN  step[names]

-----------------------------------------------------------------------------
(* The table.                                                              *)

PutField(t, u, field, at) == [t EXCEPT !.rows[u][field] = at]

\* set_field for a row that is there: triggers see the row before the change.
SetField(t, u, field, at, data) ==
  IF u \notin DOMAIN t.rows THEN t
  ELSE PutField(FireTriggers(t, u, field, at, data), u, field, at)

\* _create_row: a retry finds the row of the first try.
CreateRow(t, u) ==
  [t EXCEPT !.rows = [v \in DOMAIN @ \cup {u} |->
                        IF v \in DOMAIN @ THEN @[v] ELSE SampleRow]]

DropRow(t, u) ==
  [t EXCEPT !.rows = [v \in DOMAIN @ \ {u} |-> @[v]]]

HasRow(t, u) == u \in DOMAIN t.rows
Inc(t, c, b) == IF b THEN [t EXCEPT !.counts[c] = @ + 1] ELSE t

-----------------------------------------------------------------------------
(* process(): one record.                                                  *)

\* Before a record is looked at: the clock and total_duration_ns, a maximum.
Elapsed(t, at) ==
  IF t.start = NotSet \/ at - t.start <= t.counts.duration THEN t
  ELSE [t EXCEPT !.counts.duration = at - t.start]

Here == tab.clock + 1
Arrived(at) == [Elapsed(tab, at) EXCEPT !.clock = @ + 1]
Room == tab.clock < MaxRecords /\ ~tab.ended
Repeat(t) == [t EXCEPT !.repeats = @ + 1]

\* STARTED; a second one is logged and ignored.
SessionStarted ==
  /\ Room
  /\ tab.start = NotSet \/ tab.repeats < MaxRepeats
  /\ tab' = IF tab.start = NotSet THEN [Arrived(Here) EXCEPT !.start = Here]
            ELSE Repeat(Arrived(Here))

\* START_PERFORMANCE_TRACKING and STOP_PERFORMANCE_TRACKING of the one
\* performance phase; `measured` is TRUE once it started.
SetTracking(on) ==
  /\ Room /\ tab.start # NotSet
  /\ on # tab.tracking /\ (on => ~tab.measured)
  /\ tab' = [Arrived(Here) EXCEPT !.tracking = on, !.measured = TRUE]

\* ISSUED: a row while tracking; otherwise a row is left as it is, and yet the
\* record counts as a tracked one.
OnIssued(t, u, at, prompt) ==
  LET s == IF t.tracking THEN SetField(CreateRow(t, u), u, "issued_ns", at, prompt)
           ELSE t
  IN  Inc(Inc(s, "issued", TRUE), "tracked_issued", HasRow(s, u))

SampleIssued(u) ==
  /\ Room /\ tab.start # NotSet
  /\ \/ tab.told[u] = "unissued"
     \/ tab.told[u] \in {"issued", "streaming"} /\ tab.repeats < MaxRepeats
  /\ LET t == OnIssued(Arrived(Here), u, Here, tab.setup.prompt[u])
     IN  tab' = IF tab.told[u] = "unissued" THEN [t EXCEPT !.told[u] = "issued"]
                ELSE Repeat(t)

\* RECV_FIRST sets two fields, RECV_NON_FIRST one.
OnFirstChunk(t, u, at) ==
  SetField(SetField(t, u, "recv_first_ns", at, "none"),
           u, "last_recv_ns", at, "none")

OnNextChunk(t, u, at) == SetField(t, u, "last_recv_ns", at, "none")

\* The time since the chunk before is what the row gains.
Heard(t, u, at) ==
  IF HasRow(tab, u) /\ tab.rows[u].last_recv_ns # NotSet
  THEN [t EXCEPT !.heard[u].span = @ + at - tab.rows[u].last_recv_ns] ELSE t

RecvFirst(u) ==
  /\ Room
  /\ tab.told[u] = "issued" \/ (tab.told[u] = "done" /\ tab.repeats < MaxRepeats)
  /\ LET t == Heard(OnFirstChunk(Arrived(Here), u, Here), u, Here)
     IN  tab' = IF tab.told[u] = "done" THEN Repeat(t)
                ELSE [t EXCEPT !.told[u] = "streaming"]

RecvNonFirst(u) ==
  /\ Room
  /\ tab.told[u] = "streaming"
  /\ tab' = Heard(OnNextChunk(Arrived(Here), u, Here), u, Here)

\* An error record: its COMPLETE follows at once.
OnError(t, u) == Inc(Inc(t, "failed", TRUE), "tracked_failed", HasRow(t, u))

\* The finish reason counters; an absent reason is not counted.
CountReason(t, reason) ==
  IF reason = "unset" THEN t
  ELSE [t EXCEPT !.reasons[IF reason \in KnownReason THEN reason ELSE "other"]
                   = @ + 1]

\* COMPLETE: the row is read before set_field drops it.
OnCompletion(t, u, at, output, reason) ==
  LET s == DropRow(SetField(t, u, "complete_ns", at, output), u)
      c == Inc(s, "completed", TRUE)
  IN  IF ~HasRow(t, u) THEN c
      ELSE CountReason(Inc(c, "tracked_completed", TRUE), reason)

\* The values a complete answer must still bring, for the properties.
Owed(t, u, output) ==
  IF ~HasRow(tab, u) \/ ~tab.setup.tokenizer THEN t
  ELSE [t EXCEPT
          !.heard[u].osl = IF OslInput(output) = "queue" THEN 1 ELSE 0,
          !.heard[u].tpot =
             IF tab.setup.streaming /\ TpotTokens(output) = 1
                  /\ tab.rows[u].recv_first_ns # NotSet THEN 1 ELSE 0]

\* The result of a query, with its error before it; a warm-up phase publishes
\* the error only.  completed_at was read when the answer was complete, which
\* may be well before this record.
SampleComplete(u, early) ==
  /\ Room
  /\ \/ tab.told[u] \in {"issued", "streaming"}
     \/ tab.told[u] = "done" /\ tab.repeats < MaxRepeats
  /\ LET output == tab.setup.output[u]
         row == IF HasRow(tab, u) THEN tab.rows[u] ELSE SampleRow
         at == IF early /\ row.issued_ns # NotSet THEN row.issued_ns ELSE Here
         e == IF output = "absent" THEN OnError(Arrived(Here), u) ELSE Arrived(at)
         c == OnCompletion(Elapsed(e, at), u, at, output, tab.setup.reason[u])
         t == IF tab.measured THEN Owed(c, u, output)
              ELSE IF output = "absent" THEN e ELSE tab
     IN  tab' = IF tab.told[u] = "done" THEN Repeat(t)
                ELSE [t EXCEPT !.told[u] = "done"]

\* ENDED: no record after it is looked at.
SessionEnded ==
  /\ Room /\ tab.start # NotSet
  /\ tab' = [Arrived(Here) EXCEPT !.ended = TRUE]

\* The recorders of a flush; a TPOT over no tokens is no value.
Flush ==
  /\ tab.queue # EmptyBag
  /\ LET items == {i \in BagToSet(tab.queue) :
                     ~(i.name = "tpot_ns" /\ i.tokens = 0)}
         all[S \in SUBSET items] ==
           IF S = {} THEN [tab EXCEPT !.queue = EmptyBag]
           ELSE LET i == CHOOSE x \in S : TRUE
                    n[k \in 0..CopiesIn(i, tab.queue)] ==
                      IF k = 0 THEN all[S \ {i}]
                      ELSE RecordSeries(n[k - 1], i.name, i.value)
                IN  n[CopiesIn(i, tab.queue)]
     IN  tab' = all[items]

TabIdle == tab = NewTab(CHOOSE s \in Setups : TRUE)
TabInit == \E s \in Setups : tab = NewTab(s)

TabNext ==
  \/ SessionStarted \/ SessionEnded \/ Flush
  \/ \E on \in BOOLEAN : SetTracking(on)
  \/ \E u \in Uuid :
       \/ SampleIssued(u) \/ RecvFirst(u) \/ RecvNonFirst(u)
       \/ \E early \in BOOLEAN : SampleComplete(u, early)

-----------------------------------------------------------------------------
SumOver(S, f(_)) ==
  LET sum[T \in SUBSET S] ==
        IF T = {} THEN 0
        ELSE LET x == CHOOSE y \in T : TRUE IN f(x) + sum[T \ {x}]
  IN  sum[S]

BagSum(b) == LET term(v) == v * CopiesIn(v, b) IN SumOver(BagToSet(b), term)
SeriesOf(n) == IF n \in DOMAIN tab.series THEN tab.series[n] ELSE EmptyBag
Pending(n) == LET of(i) == IF i.name = n THEN CopiesIn(i, tab.queue) ELSE 0
              IN  SumOver(BagToSet(tab.queue), of)

\* Every metric a trigger writes is one the service registered, so no record
\* can end the service with a KeyError.
NoSeriesIsUnknown == ~tab.broken

\* There is one latency for each tracked answer; chunk deltas add up to the
\* time from the first chunk to the last one, retried streams included; and
\* the tokens of an answer are counted once, or are still to be counted.
AnswersAreMeasuredOnce ==
  LET span(u) == tab.heard[u].span
      osl(u) == tab.heard[u].osl
  IN  /\ BagCardinality(SeriesOf("sample_latency_ns"))
           = tab.counts.tracked_completed
      /\ tab.setup.streaming =>
           BagSum(SeriesOf("chunk_delta_ns")) = SumOver(Uuid, span)
      /\ BagCardinality(SeriesOf("osl")) + Pending("osl") = SumOver(Uuid, osl)

\* A TPOT is of an answer that has an OSL and a TTFT, and none is lost.
TpotsAreOfStreams ==
  LET tpot(u) == tab.heard[u].tpot
      n == BagCardinality(SeriesOf("tpot_ns"))
  IN  /\ n <= SumOver(Uuid, tpot)
      /\ tab.queue = EmptyBag => n = SumOver(Uuid, tpot)
      /\ n <= BagCardinality(SeriesOf("ttft_ns"))
      /\ n <= BagCardinality(SeriesOf("osl")) + Pending("osl")

\* A tracked answer was issued and has at most one finish reason; whatever is
\* left in flight has a row, and the total duration covers every latency.
CountersAgree ==
  LET reason(r) == tab.reasons[r]
      c == tab.counts
  IN  /\ SumOver(DOMAIN tab.reasons, reason) <= c.tracked_completed
      /\ c.tracked_completed + Cardinality(DOMAIN tab.rows) <= c.tracked_issued
      /\ c.tracked_issued <= c.issued /\ c.tracked_completed <= c.completed
      /\ c.tracked_failed <= c.failed /\ c.tracked_failed <= c.tracked_completed
      /\ \A v \in BagToSet(SeriesOf("sample_latency_ns")) : 0 <= v /\ v <= c.duration

(* The series and counters are those of the tracked samples.               *)
SeriesAreTheSamples ==
  /\ NoSeriesIsUnknown /\ AnswersAreMeasuredOnce
  /\ TpotsAreOfStreams /\ CountersAgree

=============================================================================
