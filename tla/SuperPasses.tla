----------------------------- MODULE SuperPasses -----------------------------
(***************************************************************************)
(* The super-pass series of the steady-state detector, which is built      *)
(* twice: during the run by the metrics aggregator (aggregator.py,         *)
(* metrics_table.py) and afterwards from the event log                     *)
(* (build_super_pass_series in steady_state_diagnostics.py), both through  *)
(* SuperPassCollector.  Here both read one stream of events: a warm-up     *)
(* phase, a performance phase and what follows it, with samples answered   *)
(* in any order and across phases, retried issues and duplicate answers.   *)
(*                                                                         *)
(* Time is the number of events so far.  A token count is the fact that it *)
(* is positive, so TPOT is its numerator.  A batch of the replay's         *)
(* tokenizer is counted at once; the aggregator counts whenever it flushes.*)
(***************************************************************************)
EXTENDS Naturals, Sequences, FiniteSets, Bags, BagsExt

CONSTANTS
  Samples,      \* how many samples are issued; they are named in issue order
  MaxSize,      \* bound on num_turns of the performance phase
  WarmupSize,   \* num_turns of the warm-up phase
  MaxRetries,   \* bound on ISSUED events for samples in flight
  MaxLate       \* bound on events for samples that are complete

VARIABLES
  phase,        \* the session's position
  now,          \* events so far
  todo,         \* sample -> what the session published of it
  extra,        \* retries and late events so far
  live,         \* the aggregator
  replay        \* the event-log parser

Sample == 1..Samples

\* The parser takes the performance phase's num_turns before it reads on
\* (superpass_size_from_events).
Size == replay.coll.size

superVars == <<phase, now, todo, extra, live, replay>>

Max2(a, b) == IF a > b THEN a ELSE b

-----------------------------------------------------------------------------
\* SuperPassCollector; bucket 0 and time 0 stand for -1.
Rollup ==
  [issued |-> 0, firstIssue |-> 0, lastIssue |-> 0, lastEvent |-> 0,
   ttft |-> EmptyBag, latency |-> EmptyBag, tpot |-> EmptyBag]

Collector(size) == [size |-> size, series |-> <<>>, count |-> 0]

AnnouncePhase(c, turns) ==
  IF turns > 0 /\ c.series = <<>> THEN [c EXCEPT !.size = turns] ELSE c

\* The bucket of the next sample, 0 until the size is known.
BucketOf(c) == IF c.size = 0 THEN 0 ELSE c.count \div c.size + 1

Assign(c, t) ==
  LET b == BucketOf(c)
      s == [i \in 1..Max2(b, Len(c.series)) |->
              IF i <= Len(c.series) THEN c.series[i] ELSE Rollup]
  IN  IF b = 0 THEN c
      ELSE [c EXCEPT !.count = @ + 1,
             !.series = [s EXCEPT
               ![b].issued = @ + 1,
               ![b].firstIssue = IF @ = 0 THEN t ELSE @,
               ![b].lastIssue = Max2(@, t),
               ![b].lastEvent = Max2(@, t)]]

Reissue(c, b, t) ==
  [c EXCEPT !.series[b].lastIssue = Max2(@, t),
            !.series[b].lastEvent = Max2(@, t)]

OnRecvFirst(c, b, issued, t, first) ==
  [c EXCEPT !.series[b].lastEvent = Max2(@, t),
            !.series[b].ttft = IF first THEN BagAdd(@, t - issued) ELSE @]

OnComplete(c, b, issued, t) ==
  [c EXCEPT !.series[b].lastEvent = Max2(@, t),
            !.series[b].latency = BagAdd(@, t - issued)]

AddTpot(c, b, delta) == [c EXCEPT !.series[b].tpot = BagAdd(@, delta)]

-----------------------------------------------------------------------------
\* What a COMPLETE carries: reasoning and output, each absent, a string, one
\* streamed chunk or several.  (Tool calls are counted by the aggregator only,
\* which the parser's comment states.)
Part == {"none", "str", "one", "many"}
Output == [reasoning : Part, output : Part]
Streamed(p) == p \in {"one", "many"}

\* text_after_first_chunk of the parser, over the logged array: is any text
\* left?
ReplayText(o) ==
  LET tail == o.reasoning = "many"
  IN  \/ tail
      \/ o.output = "str" /\ (tail \/ Streamed(o.reasoning))
      \/ Streamed(o.output) /\ (tail \/ o.reasoning # "none")
      \/ o.reasoning = "none" /\ o.output = "many"

\* TextModelOutput.text_after_first_chunk, used for plain outputs.
LiveText(o) ==
  /\ o.reasoning = "none"
  /\ o.output = "many"

\* as_message_parts_after_first_chunk, used when there is reasoning: the
\* chat template counts the reasoning's tail and the content.
LiveMessage_DropsContent(o) == o.reasoning = "many"

LiveMessage(o) ==
  \/ o.reasoning = "many"
  \/ o.output = "str" /\ Streamed(o.reasoning)
  \/ Streamed(o.output) /\ o.reasoning # "none"

\* TpotTrigger._extract_tokenization_input: what is queued, and whether its
\* count will be positive.
TpotItem(o) ==
  IF o.reasoning # "none" THEN {[tokens |-> LiveMessage(o)]}
  ELSE IF LiveText(o) THEN {[tokens |-> TRUE]} ELSE {}

-----------------------------------------------------------------------------
\* A SampleRow of the aggregator, a _PendingRow of the parser.
NewRow(b, t) == [bucket |-> b, issued |-> t, first |-> 0]
WithoutRow(rows, q) == [p \in DOMAIN rows \ {q} |-> rows[p]]
PutRow(rows, q, r) ==
  [p \in DOMAIN rows \cup {q} |-> IF p = q THEN r ELSE rows[p]]

\* process() of the aggregator.
LivePhaseStart(l, type, turns) ==
  IF type = "performance" THEN [l EXCEPT !.coll = AnnouncePhase(@, turns)]
  ELSE l

\* set_field makes or refreshes the row while tracking, and leaves a row that
\* outlived the window alone; only an issue while tracking is bucketed.
LiveIssued(l, q, t) ==
  IF ~l.tracking THEN l
  ELSE LET old == IF q \in DOMAIN l.rows THEN l.rows[q] ELSE NewRow(0, t)
           row == [old EXCEPT !.issued = t]
       IN  IF row.bucket = 0
           THEN [l EXCEPT !.rows = PutRow(@, q,
                            [row EXCEPT !.bucket = BucketOf(l.coll)]),
                          !.coll = Assign(@, t)]
           ELSE [l EXCEPT !.rows = PutRow(@, q, row),
                          !.coll = Reissue(@, row.bucket, t)]

LiveRecvFirst(l, q, t) ==
  IF q \notin DOMAIN l.rows THEN l
  ELSE LET row == l.rows[q]
       IN  [l EXCEPT !.rows[q].first = t,
              !.coll = IF row.bucket = 0 THEN @
                       ELSE OnRecvFirst(@, row.bucket, row.issued, t,
                                        row.first = 0)]

\* The TPOT trigger fires before the row is dropped; its recorder keeps the
\* bucket.
LiveComplete(l, q, t, o) ==
  IF q \notin DOMAIN l.rows THEN l
  ELSE LET row == l.rows[q]
           items == IF row.first = 0 THEN {}
                    ELSE {[bucket |-> row.bucket, delta |-> t - row.first,
                           tokens |-> i.tokens] : i \in TpotItem(o)}
       IN  [l EXCEPT
              !.rows = WithoutRow(@, q),
              !.queue = IF items = {} THEN @
                        ELSE Append(@, CHOOSE i \in items : TRUE),
              !.coll = IF row.bucket = 0 THEN @
                       ELSE OnComplete(@, row.bucket, row.issued, t)]

\* The recorders of a flush (the TpotTrigger's record); a count of zero gives
\* no value.
LiveCounted(l) ==
  LET i == Head(l.queue)
  IN  [l EXCEPT
         !.queue = Tail(@),
         !.coll = IF i.tokens /\ i.bucket > 0 THEN AddTpot(@, i.bucket, i.delta)
                  ELSE @]

-----------------------------------------------------------------------------
\* build_super_pass_series.
ReplayIssued(r, q, t) ==
  IF ~r.tracking THEN r
  ELSE IF q \in DOMAIN r.rows
  THEN [r EXCEPT !.rows[q].issued = t,
                 !.coll = Reissue(@, r.rows[q].bucket, t)]
  ELSE [r EXCEPT !.rows = PutRow(@, q, NewRow(BucketOf(r.coll), t)),
                 !.coll = Assign(@, t)]

ReplayRecvFirst(r, q, t) ==
  IF q \notin DOMAIN r.rows THEN r
  ELSE LET row == r.rows[q]
       IN  [r EXCEPT
              !.coll = OnRecvFirst(@, row.bucket, row.issued, t, row.first = 0),
              !.rows[q].first = IF @ = 0 THEN t ELSE @]

ReplayComplete(r, q, t, o) ==
  IF q \notin DOMAIN r.rows THEN r
  ELSE LET row == r.rows[q]
           c == OnComplete(r.coll, row.bucket, row.issued, t)
       IN  [r EXCEPT
              !.rows = WithoutRow(@, q),
              !.coll = IF row.first > 0 /\ ReplayText(o)
                       THEN AddTpot(c, row.bucket, t - row.first) ELSE c]

-----------------------------------------------------------------------------
SuperStart(size) ==
  /\ phase = "start" /\ now = 0 /\ extra = [retries |-> 0, late |-> 0]
  /\ todo = [q \in Sample |-> "unissued"]
  /\ live = [tracking |-> FALSE, rows |-> <<>>, queue |-> <<>>,
             coll |-> Collector(0)]
  /\ replay = [tracking |-> FALSE, rows |-> <<>>, coll |-> Collector(size)]

SuperInit == \E size \in 1..MaxSize : SuperStart(size)

\* The session announces a phase, and a performance phase starts tracking.
PhaseStart(type) ==
  /\ <<phase, type>> \in {<<"start", "warmup">>, <<"start", "performance">>,
                          <<"warmup", "performance">>}
  /\ phase' = type
  /\ now' = now + 1
  /\ LET turns == IF type = "warmup" THEN WarmupSize ELSE Size
         l == LivePhaseStart(live, type, turns)
     IN  /\ live' = [l EXCEPT !.tracking = (type = "performance")]
         /\ replay' = [replay EXCEPT !.tracking = (type = "performance")]
  /\ UNCHANGED <<todo, extra>>

\* The performance phase ends; its samples may still be in flight, and those of
\* an accuracy phase follow.
PhaseEnd ==
  /\ phase = "performance"
  /\ phase' = "over"
  /\ now' = now + 1
  /\ live' = [live EXCEPT !.tracking = FALSE]
  /\ replay' = [replay EXCEPT !.tracking = FALSE]
  /\ UNCHANGED <<todo, extra>>

\* ISSUED, for the first time or, within the bound, again.
PublishIssued(q) ==
  /\ phase # "start"
  /\ \/ /\ todo[q] = "unissued" /\ \A p \in 1..(q - 1) : todo[p] # "unissued"
        /\ UNCHANGED extra
     \/ /\ todo[q] \in {"issued", "streaming"}
        /\ extra.retries < MaxRetries
        /\ extra' = [extra EXCEPT !.retries = @ + 1]
  /\ todo' = [todo EXCEPT ![q] = IF @ = "unissued" THEN "issued" ELSE @]
  /\ now' = now + 1
  /\ live' = LiveIssued(live, q, now + 1)
  /\ replay' = ReplayIssued(replay, q, now + 1)
  /\ UNCHANGED phase

\* RECV_FIRST; late, when the sample was already ended by a timeout.
PublishRecvFirst(q) ==
  /\ \/ todo[q] = "issued" /\ UNCHANGED extra
     \/ /\ todo[q] = "done" /\ extra.late < MaxLate
        /\ extra' = [extra EXCEPT !.late = @ + 1]
  /\ todo' = [todo EXCEPT ![q] = IF @ = "issued" THEN "streaming" ELSE @]
  /\ now' = now + 1
  /\ live' = LiveRecvFirst(live, q, now + 1)
  /\ replay' = ReplayRecvFirst(replay, q, now + 1)
  /\ UNCHANGED phase

\* COMPLETE; a second time for a late answer met by the next phase.
PublishComplete(q, o) ==
  /\ \/ todo[q] \in {"issued", "streaming"} /\ UNCHANGED extra
     \/ /\ todo[q] = "done" /\ extra.late < MaxLate
        /\ extra' = [extra EXCEPT !.late = @ + 1]
  /\ todo' = [todo EXCEPT ![q] = "done"]
  /\ now' = now + 1
  /\ live' = LiveComplete(live, q, now + 1, o)
  /\ replay' = ReplayComplete(replay, q, now + 1, o)
  /\ UNCHANGED phase

CountTokens ==
  /\ live.queue # <<>>
  /\ live' = LiveCounted(live)
  /\ UNCHANGED <<phase, now, todo, extra, replay>>

SuperNext ==
  \/ \E type \in {"warmup", "performance"} : PhaseStart(type)
  \/ PhaseEnd
  \/ CountTokens
  \/ \E q \in Sample :
       \/ PublishIssued(q) \/ PublishRecvFirst(q)
       \/ \E o \in Output : PublishComplete(q, o)

-----------------------------------------------------------------------------
\* When no count is pending, so that a verdict may be given, the aggregator has
\* the series a replay of the log so far would give: the same samples in the
\* same buckets with the same times ("the live collector and the event-log
\* replay therefore reach the same verdict").
SeriesAgree == live.queue = <<>> => live.coll.series = replay.coll.series

\* Buckets are filled one after the other, each sample is in one, and none has
\* more answers than samples or more TPOTs than first chunks.
BucketsAreSound ==
  LET s == live.coll.series
  IN  /\ \A i \in DOMAIN s :
           /\ s[i].issued = (IF i < Len(s) THEN Size
                             ELSE live.coll.count - (Len(s) - 1) * Size)
           /\ s[i].issued \in 1..Size
           /\ BagCardinality(s[i].latency) <= s[i].issued
           /\ BagCardinality(s[i].ttft) <= s[i].issued
           /\ BagCardinality(s[i].tpot) <= BagCardinality(s[i].ttft)
           /\ 0 < s[i].firstIssue /\ s[i].firstIssue <= s[i].lastIssue
           /\ s[i].lastIssue <= s[i].lastEvent
      /\ live.coll.count <= Cardinality({q \in Sample : todo[q] # "unissued"})

LiveIsReplay == SeriesAgree /\ BucketsAreSound

=============================================================================
