----------------------------- MODULE MetricsTable -----------------------------
(***************************************************************************)
(* What the aggregator's table and counters make of the session's events:  *)
(* MetricsTable (metrics_aggregator/metrics_table.py) and the counting     *)
(* part of MetricsAggregatorService.process (aggregator.py).               *)
(*                                                                         *)
(* The aggregator sees the session's events in order, so its state is a    *)
(* fold over a prefix of them; as every reachable `events` is checked, all *)
(* prefixes are.  An event is stamped with the time of its publication,    *)
(* except COMPLETE: it carries completed_at, set when its result was built,*)
(* which may lie before events published earlier.  Streaming chunks,       *)
(* series values and finish reasons are left out.                          *)
(***************************************************************************)
EXTENDS BenchmarkSession

\* A TrackedBlock, a SampleRow and the table with the counters.
Block(now) == [start |-> now, last |-> now, completed |-> 0]

EmptyTable ==
  [tracking |-> FALSE,        \* is_tracking
   rows |-> {},               \* _in_flight
   blocks |-> <<>>,           \* tracked_blocks
   maxIssued |-> 0,           \* _loadgen_max_issued_ns
   windowStart |-> 0,         \* _loadgen_window_start_ns, 0 for None
   windowEnd |-> 0,           \* _loadgen_window_end_ns, 0 for None
   issued |-> 0, completed |-> 0, failed |-> 0,
   trackedIssued |-> 0, trackedCompleted |-> 0, trackedFailed |-> 0]

Row(t, q) == {r \in t.rows : r.id = q}
OneIf(b) == IF b THEN 1 ELSE 0

-----------------------------------------------------------------------------
StopTracking(t, now) == [t EXCEPT !.tracking = FALSE]

\* handle_session_event.
SessionEventSeen(t, kind, now) ==
  IF kind = "START_PERFORMANCE_TRACKING" /\ ~t.tracking
  THEN [t EXCEPT !.tracking = TRUE, !.blocks = Append(@, Block(now))]
  ELSE IF kind = "STOP_PERFORMANCE_TRACKING" THEN StopTracking(t, now)
  ELSE t

\* set_field for ISSUED: a row exists afterwards only while tracking, or when
\* it existed before.
WithRow(t, q, now) ==
  IF ~t.tracking THEN t
  ELSE [t EXCEPT
          !.rows = {r \in @ : r.id # q}
            \cup {[id |-> q, block |-> Len(t.blocks), issued |-> now]},
          !.windowStart = IF @ = 0 THEN now ELSE @]

IssuedSeen(t, q, now) ==
  LET u == WithRow(t, q, now)
  IN  [u EXCEPT !.issued = @ + 1,
                !.trackedIssued = @ + OneIf(Row(u, q) # {})]

ErrorSeen_DropsRow(t, q) ==
  [t EXCEPT !.failed = @ + 1, !.trackedFailed = @ + OneIf(Row(t, q) # {}),
            !.rows = @ \ Row(t, q)]

\* ERROR is counted as a tracked failure only while the row exists.
ErrorSeen(t, q) ==
  [t EXCEPT !.failed = @ + 1, !.trackedFailed = @ + OneIf(Row(t, q) # {})]

\* The legacy window ends with the last-issued request that completed.
LoadgenWindow(t, r, now) ==
  IF r.issued > t.maxIssued
  THEN [t EXCEPT !.maxIssued = r.issued, !.windowEnd = now]
  ELSE t

\* _update_tracked_block, then the row is dropped.
CompleteRow(t, r, now) ==
  [LoadgenWindow(t, r, now) EXCEPT
     !.blocks[r.block].last = IF now > @ THEN now ELSE @,
     !.blocks[r.block].completed = @ + 1,
     !.rows = @ \ {r},
     !.trackedCompleted = @ + 1]

CompleteSeen(t, q, now) ==
  LET u == IF Row(t, q) = {} THEN t
           ELSE CompleteRow(t, CHOOSE r \in Row(t, q) : TRUE, now)
  IN  [u EXCEPT !.completed = @ + 1]

\* The time of publication of events[i].
Time(i) == 2 * i

\* Where a query's event is; each query has at most one of each kind.
When(k, q) == CHOOSE i \in At(k, q) : TRUE

\* completed_at: any time after the query was issued and up to the publication
\* of its COMPLETE.  The two ends of that range give every order of it with
\* respect to the other queries' events that the table could tell apart.
CompletedAt(q, early) ==
  IF q \in early THEN Time(When("ISSUED", q)) + 1
                 ELSE Time(When("COMPLETE", q))

\* One turn of process()'s loop.
Seen(t, i, early) ==
  LET ev == events[i]
  IN  CASE ev.kind = "ISSUED"   -> IssuedSeen(t, ev.id, Time(i))
        [] ev.kind = "ERROR"    -> ErrorSeen(t, ev.id)
        [] ev.kind = "COMPLETE" -> CompleteSeen(t, ev.id,
                                                CompletedAt(ev.id, early))
        [] ev.kind \in SessionEvent -> SessionEventSeen(t, ev.kind, Time(i))

\* The table after all events, `early` being the queries whose results were
\* built right after they were issued.
Table(early) ==
  LET after[i \in 0..Len(events)] ==
        IF i = 0 THEN EmptyTable ELSE Seen(after[i - 1], i, early)
  IN  after[Len(events)]

-----------------------------------------------------------------------------
\* The queries of the performance phases with an event of kind k.
Measured(k) ==
  {q \in UNION {uuids[p] : p \in {x \in Phase : PhaseType[x] = "performance"}} :
     At(k, q) # {}}

\* The tracked counters are those of the performance phases' queries, whatever
\* the other phases' late answers, failed sends and stops do, and a row is left
\* for exactly the measured queries that were not answered.
CountersAreThePerformancePhases ==
  LET t == Table({})
  IN  /\ t.trackedIssued = Cardinality(Measured("ISSUED"))
      /\ t.trackedCompleted = Cardinality(Measured("COMPLETE"))
      /\ t.trackedFailed = Cardinality(Measured("ERROR"))
      /\ {r.id : r \in t.rows} = Measured("ISSUED") \ Measured("COMPLETE")

\* The tracked duration reaches from the start of the performance phase to the
\* last answer to one of its queries: neither the STOP event nor an answer to
\* another phase's query moves it.  (One performance phase, as in a run.)
DurationEndsWithLastAnswer ==
  \A early \in SUBSET Measured("COMPLETE") :
    LET t == Table(early)
        answers == {CompletedAt(q, early) : q \in Measured("COMPLETE")}
    IN  t.blocks # <<>> =>
          /\ Len(t.blocks) = 1
          /\ t.blocks[1].completed = Cardinality(answers)
          /\ t.blocks[1].last \in answers \cup {t.blocks[1].start}
          /\ \A a \in answers : a <= t.blocks[1].last

\* The legacy LoadGen window starts with the first measured query and ends with
\* the answer to the last-issued of those answered; it never exceeds the
\* tracked duration.
LoadgenWindowIsLegacy ==
  LET answered == Measured("COMPLETE")
  IN  \A early \in SUBSET answered :
        LET t == Table(early)
        IN  /\ answered # {} =>
                 \E q \in answered :
                   /\ \A r \in answered : When("ISSUED", r) <= When("ISSUED", q)
                   /\ t.windowEnd = CompletedAt(q, early)
            /\ answered = {} => t.windowEnd = 0
            /\ t.windowEnd > 0 =>
                 /\ \A q \in Measured("ISSUED") :
                      t.windowStart <= Time(When("ISSUED", q))
                 /\ t.windowEnd - t.windowStart
                      <= t.blocks[1].last - t.blocks[1].start

\* Together: the tracked block and the legacy window measure the performance
\* phases, and nothing else the session does reaches them.
TableIsThePerformancePhases ==
  CountersAreThePerformancePhases /\ DurationEndsWithLastAnswer /\ LoadgenWindowIsLegacy

\* A run that ends without INTERRUPTED and without raising ran its phases to
\* their end (CleanEndIsComplete), and its report has as completed what the
\* session issued in its drained performance phase, and as issued the same.
\* The exception is a send that failed in the very loop iteration the duration
\* cap cancelled the strategy: its error is dropped, its ISSUED is not.
CleanReportIsComplete ==
  /\ CleanEndIsComplete
  /\ pc = "ended" /\ ~raised /\ At("INTERRUPTED", None) = {} =>
       LET t == Table({})
       IN  \A p \in Phase : PhaseType[p] = "performance" =>
             /\ \/ t.trackedIssued = issuedCount[p]
                \/ (elapsed[p] /\ t.trackedIssued = issuedCount[p] + 1)
             /\ DrainAfter[p] => t.trackedCompleted = issuedCount[p]

(* The table is that of the performance phases, and complete when the run   *)
(* was clean.                                                               *)
TableIsTheRun == TableIsThePerformancePhases /\ CleanReportIsComplete

=============================================================================
