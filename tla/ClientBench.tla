----------------------------- MODULE ClientBench -----------------------------
(***************************************************************************)
(* utils/benchmark_httpclient: a sweep over prompt lengths and SSE         *)
(* intervals against a MaxThroughputServer.  Each iteration may rebuild    *)
(* the server's canned response, then a sender and a receiver task share   *)
(* one HTTP client until all is answered or time is up.  A display thread  *)
(* samples the counters meanwhile.                                         *)
(***************************************************************************)
EXTENDS Integers, Sequences, SequencesExt, FiniteSets, FiniteSetsExt

CONSTANTS
  Ranges,           \* range arguments: [form, start, stop, arg]
  PromptLengths,    \* prompt_length arguments, sequences of lengths
  Concurrency_,     \* max_concurrency
  SendBatch,        \* _SEND_BATCH
  MaxQueries,       \* bound on the queries of one iteration
  MaxDisplays       \* bound on the display samples of one iteration

VARIABLE bench

BenchIdle == bench = [stage |-> "idle"]

-----------------------------------------------------------------------------
(***************************************************************************)
(* Ranges, intervals and the canned response                               *)
(***************************************************************************)

\* Python's round(p / q): half goes to the even neighbour.
RoundHalfEven(p, q) ==
  LET floor == p \div q
      rest == 2 * (p % q)
  IN  IF rest < q \/ (rest = q /\ floor % 2 = 0) THEN floor ELSE floor + 1

Deduplicated(s) ==
  LET first == SetToSortSeq({i \in DOMAIN s : \A j \in 1..i - 1 : s[j] # s[i]}, <)
  IN  [k \in DOMAIN first |-> s[first[k]]]

\* points evenly spaced values; a single point is the start.
_linspace_int(start, stop, points) ==
  IF points = 1 THEN <<start>>
  ELSE Deduplicated([i \in 1..points |->
         RoundHalfEven(start * (points - 1) + (stop - start) * (i - 1), points - 1)])

\* <<>> is a refused argument.  stop follows the last step if it is not met.
int_or_range(r) ==
  CASE r.form = "single" -> <<r.start>>
    [] r.start > r.stop \/ r.arg <= 0 -> <<>>
    [] r.form = "step" ->
         LET n == (r.stop - r.start) \div r.arg
             met == [i \in 1..n + 1 |-> r.start + (i - 1) * r.arg]
         IN  IF Last(met) = r.stop THEN met ELSE Append(met, r.stop)
    [] r.form = "linspace" -> _linspace_int(r.start, r.stop, r.arg)

\* The fractions 0, 1/2 and 1 of the output, sorted and without repetition.
_resolve_stream_intervals(length) ==
  SetToSortSeq({1, Max({1, RoundHalfEven(length, 2)}), Max({1, length})}, <)

_sse_events_per_response(length, interval) == (length + interval - 1) \div interval + 2

\* build_response: one event per interval of the output, the finish event and
\* [DONE]; a plain JSON body is no event stream.
build_response(length, stream, interval) ==
  [stream |-> stream, length |-> length,
   events |-> IF ~stream THEN 1
              ELSE Cardinality({i \in 0..length - 1 : i % interval = 0}) + 2]

-----------------------------------------------------------------------------
(***************************************************************************)
(* The sweep                                                               *)
(***************************************************************************)

\* The iterations: prompt lengths outside, intervals inside (percentages of the
\* length, or fixed ones).
Iterations(lengths, intervals, auto) ==
  FlattenSeq([i \in DOMAIN lengths |->
    LET own == IF auto THEN _resolve_stream_intervals(lengths[i]) ELSE intervals
    IN  [j \in DOMAIN own |-> <<lengths[i], own[j]>>]])

\* owns: main launched a server itself, which first serves its defaults; auto:
\* no intervals are given, and one range stands for all.
BenchInit ==
  \E lengths \in PromptLengths, stream, auto, owns \in BOOLEAN,
     r \in Ranges :
    /\ auto => stream /\ r = CHOOSE x \in Ranges : TRUE
    /\ bench = [stage |-> "iteration", range |-> r, stream |-> stream, owns |-> owns,
                left |-> IF auto \/ int_or_range(r) # <<>>
                         THEN Iterations(lengths, int_or_range(r), auto) ELSE <<>>,
                last |-> <<>>, response |-> build_response(160, FALSE, 1),
                workers |-> owns, epr |-> 0, served |-> {},
                sent |-> 0, received |-> 0, errors |-> 0, peak |-> 0,
                at |-> 0, inbox |-> <<>>, receiver |-> "start",
                sending |-> TRUE, deadline |-> FALSE, quiet |-> FALSE, cap |-> FALSE,
                gaveUp |-> FALSE, seen |-> <<0, 0>>, samples |-> <<>>,
                result |-> <<>>, shutdown |-> FALSE, dropped |-> 0]

\* _restart_server, when the length or the interval changed, then run_benchmark
\* with a new client.
_restart_server(it) ==
  IF bench.owns /\ bench.last # it
  THEN build_response(it[1], bench.stream, it[2]) ELSE bench.response

StartIteration ==
  /\ bench.stage = "iteration" /\ bench.left # <<>>
  /\ LET it == Head(bench.left)
     IN  bench' = [bench EXCEPT
           !.stage = "run", !.left = Tail(@),
           !.response = _restart_server(it),
           !.last = IF bench.owns THEN it ELSE @,
           !.epr = IF bench.stream THEN _sse_events_per_response(it[1], it[2]) ELSE 1,
           !.result = <<>>, !.served = {}, !.sent = 0, !.received = 0, !.errors = 0, !.peak = 0,
           !.at = 0, !.inbox = <<>>, !.receiver = "start", !.sending = TRUE,
           !.deadline = FALSE, !.quiet = FALSE, !.cap = FALSE, !.gaveUp = FALSE,
           !.seen = <<0, 0>>, !.samples = <<>>, !.shutdown = FALSE, !.dropped = 0]

-----------------------------------------------------------------------------
(***************************************************************************)
(* One iteration                                                           *)
(***************************************************************************)

InFlight == bench.sent - bench.received - bench.errors

\* sender(): a burst, up to the back-pressure limit, then a yield.
Burst == Min({SendBatch, Concurrency_ - InFlight})

SendBurst ==
  /\ bench.stage = "run" /\ bench.sending /\ ~bench.deadline /\ bench.receiver # "done"
  /\ InFlight < Concurrency_ /\ bench.sent < MaxQueries
  /\ bench' = [bench EXCEPT !.sent = @ + Burst, !.at = @ + Burst,
                            !.peak = Max({@, InFlight})]

\* sender() stops at its deadline or when the receiver is done.
SendEnds ==
  /\ bench.stage = "run" /\ bench.sending
  /\ bench.deadline \/ bench.receiver = "done"
  /\ bench' = [bench EXCEPT !.sending = FALSE]

\* The client's workers hand a chunk or a final answer to the pool.
EndpointAnswers ==
  /\ bench.stage = "run" /\ bench.at > 0 /\ Len(bench.inbox) < 2
  /\ \E kind \in {"ok", "error"} :
       bench' = [bench EXCEPT !.at = @ - 1, !.inbox = Append(@, kind),
                              !.served = @ \cup {bench.response.events}]

EndpointStreams ==
  /\ bench.stage = "run" /\ bench.at > 0 /\ bench.stream
  /\ Len(bench.inbox) < 2 /\ "chunk" \notin Range(bench.inbox)
  /\ bench' = [bench EXCEPT !.inbox = Append(@, "chunk")]

\* _process_result: a chunk only shows that the endpoint is alive.
_process_result(b, results) ==
  LET Of(kind) == Cardinality({i \in DOMAIN results : results[i] = kind})
  IN  [b EXCEPT !.received = @ + Of("ok"), !.errors = @ + Of("error"), !.quiet = FALSE]

\* receiver(): poll() until nothing is left; time is looked at once per drain.
ReceiverDrains ==
  /\ bench.stage = "run" /\ bench.receiver = "start" /\ bench.inbox # <<>>
  /\ bench' = [_process_result(bench, bench.inbox) EXCEPT
                 !.inbox = <<>>, !.gaveUp = bench.cap,
                 !.receiver = IF bench.cap THEN "done" ELSE "start"]

\* Nothing is queued: it ends, or blocks in recv() without a timeout.
ReceiverChecks ==
  /\ bench.stage = "run" /\ bench.receiver = "start" /\ bench.inbox = <<>>
  /\ LET answered == ~bench.sending /\ InFlight <= 0
         stalled == ~bench.sending /\ bench.quiet
     IN  bench' = [bench EXCEPT
           !.receiver = IF answered \/ stalled \/ bench.cap THEN "done" ELSE "blocked",
           !.gaveUp = ~answered /\ (stalled \/ bench.cap)]

ReceiverWakes ==
  /\ bench.stage = "run" /\ bench.receiver = "blocked" /\ bench.inbox # <<>>
  /\ bench' = [_process_result(bench, <<Head(bench.inbox)>>) EXCEPT
                 !.inbox = Tail(@), !.receiver = "start"]

\* Time: the send deadline comes first, the hard cap ten seconds after it.
SendDeadline ==
  /\ bench.stage = "run" /\ ~bench.deadline
  /\ bench' = [bench EXCEPT !.deadline = TRUE]

FiveQuietSeconds ==
  /\ bench.stage = "run" /\ bench.inbox = <<>> /\ ~bench.quiet
  /\ bench' = [bench EXCEPT !.quiet = TRUE]

HardCap ==
  /\ bench.stage = "run" /\ bench.deadline /\ ~bench.cap
  /\ bench' = [bench EXCEPT !.cap = TRUE]

\* The display thread's whole intervals.
_print_stats ==
  /\ bench.stage = "run" /\ Len(bench.samples) < MaxDisplays
  /\ bench' = [bench EXCEPT
       !.seen = <<bench.sent, bench.received>>,
       !.samples = Append(@, <<bench.sent - bench.seen[1], bench.received - bench.seen[2]>>)]

\* benchmark_main returned: the display stops, and shutdown() ends the workers
\* with whatever they still held.
Shutdown ==
  /\ bench.stage = "run" /\ ~bench.sending /\ bench.receiver = "done" /\ ~bench.shutdown
  /\ bench' = [bench EXCEPT !.shutdown = TRUE, !.dropped = bench.at +
                              Len(SelectSeq(bench.inbox, LAMBDA a : a # "chunk")),
                            !.at = 0, !.inbox = <<>>]

\* _make_sweep_result
FinishIteration ==
  /\ bench.stage = "run" /\ bench.shutdown
  /\ bench' = [bench EXCEPT
       !.stage = "iteration", !.sent = 0, !.received = 0, !.errors = 0, !.samples = <<>>,
       !.shutdown = FALSE, !.served = {}, !.peak = 0, !.dropped = 0,
       !.result = <<[outstanding |-> InFlight, gaveUp |-> bench.gaveUp]>>]

\* main's finally clause.
StopServer ==
  /\ bench.stage = "iteration" /\ bench.left = <<>>
  /\ bench' = [bench EXCEPT !.stage = "over", !.workers = FALSE]

BenchNext ==
  \/ StartIteration \/ SendBurst \/ SendEnds \/ EndpointAnswers \/ EndpointStreams
  \/ ReceiverDrains \/ ReceiverChecks \/ ReceiverWakes \/ SendDeadline
  \/ FiveQuietSeconds \/ HardCap \/ _print_stats \/ Shutdown \/ FinishIteration
  \/ StopServer

-----------------------------------------------------------------------------
\* A range argument that is accepted starts at its start, never repeats or goes
\* down, stays inside, and ends at its stop ("Endpoints always included") unless
\* it asks for a single point.
RangeIsWhole(r) ==
  LET s == int_or_range(r)
  IN  s # <<>> =>
        /\ Head(s) = r.start
        /\ \A i \in 1..Len(s) - 1 : s[i] < s[i + 1]
        /\ r.form # "single" /\ ~(r.form = "linspace" /\ r.arg = 1) => Last(s) = r.stop

\* What the tool reports is what happened: the sender never has more than
\* max_concurrency queries in flight, no answer is counted twice, an iteration
\* that leaves queries outstanding gave up on time and lost exactly those, the
\* display's samples never add up to more than the totals, and when the tool
\* owns the server, every response carried as many SSE events as the rate
\* assumes, whichever of length and interval changed since the last iteration.
BenchIsHonest ==
  bench.stage # "idle" =>
    /\ RangeIsWhole(bench.range)
    /\ InFlight \in 0..Concurrency_ /\ bench.peak <= Concurrency_
    /\ bench.owns => bench.served \subseteq {bench.epr}
    /\ bench.shutdown => InFlight = bench.dropped
    /\ \A i \in DOMAIN bench.result :
         bench.result[i].outstanding > 0 => bench.result[i].gaveUp
    /\ FoldSeq(LAMBDA s, sum : s[1] + sum, 0, bench.samples) <= bench.sent
    /\ FoldSeq(LAMBDA s, sum : s[2] + sum, 0, bench.samples) <= bench.received
=============================================================================
