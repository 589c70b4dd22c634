-------------------------- MODULE BenchmarkSession --------------------------
(***************************************************************************)
(* The load generator's session (load_generator/session.py) with the       *)
(* single-turn load strategies (load_generator/strategy.py) and the        *)
(* performance cap timer (commands/benchmark/watchdog.py).                 *)
(*                                                                         *)
(* Everything runs on one event-loop thread.  An action is what one        *)
(* callback, or one coroutine between two awaits, does.  The actors are    *)
(* the coroutine run()/_run_phase(), the strategy task, the call_soon /    *)
(* call_at callbacks the strategies leave on the loop, the receive task,   *)
(* three timers (drain timeout, performance cap, response idle guard) and  *)
(* whoever calls stop() (SIGINT governor, run watchdog).  The endpoint     *)
(* answers a query at most once, in any order, or never.                   *)
(*                                                                         *)
(* A definition named X_Y is a variant of X with the defect Y; it is used  *)
(* only to show that a property notices that defect.                       *)
(***************************************************************************)
EXTENDS Naturals, Sequences, FiniteSets

CONSTANTS
  Query,         \* query ids (uuid4); the bound on how many are ever drawn
  None,          \* the id of an event that is about no query
  NumPhases,     \* length of the phase list built by _build_phases
  PhaseType,     \* per phase: PhaseConfig.phase_type
  Strategy,      \* per phase: the LoadStrategy create_load_strategy picks
  TotalSamples,  \* per phase: RuntimeSettings.total_samples_to_issue()
  Target,        \* per phase: target_concurrency
  DrainAfter,    \* per phase: PhaseConfig.drain_after
  DrainTimeout,  \* per phase: TRUE iff drain_timeout is not None
  MaxDuration,   \* per phase: TRUE iff max_issue_duration_ms is set
  IdleTimeout,   \* TRUE iff endpoint_response_idle_timeout_s is set
  Faults         \* which environment faults this instance lets happen

Phase == 1..NumPhases

Fault == {"issue_raises", "receiver_raises", "transport_closed", "stop"}

\* The phase list: only the performance phase carries an issue-duration cap.
ASSUME PhasesAssumption ==
  /\ NumPhases \in Nat
  /\ PhaseType \in [Phase -> {"warmup", "performance", "accuracy"}]
  /\ Strategy \in [Phase -> {"burst", "timed", "concurrency"}]
  /\ TotalSamples \in [Phase -> Nat \ {0}]
  /\ Target \in [Phase -> Nat \ {0}]
  /\ DrainAfter \in [Phase -> BOOLEAN]
  /\ DrainTimeout \in [Phase -> BOOLEAN]
  /\ MaxDuration \in [Phase -> BOOLEAN]
  /\ \A p \in Phase : MaxDuration[p] => PhaseType[p] = "performance"

ASSUME EnvironmentAssumption ==
  /\ IsFiniteSet(Query)
  /\ None \notin Query
  /\ IdleTimeout \in BOOLEAN
  /\ Faults \subseteq Fault

VARIABLES
  pc,            \* where run() is suspended
  phase,         \* index of the current phase, 0 before the first
  control,       \* who holds the loop thread: the ready queue or the strategy
  strat,         \* _strategy_task
  stratError,    \* the strategy ended with an exception other than a cancel
  pend,          \* per phase: a strategy callback is on the loop
  sem,           \* per phase: free permits of ConcurrencyStrategy._sem
  uuids,         \* per phase: keys of PhaseIssuer.uuid_to_index
  issuedCount,   \* per phase: PhaseIssuer.issued_count
  inflight,      \* per phase: PhaseIssuer.inflight
  wire,          \* queries handed to the client and not answered yet
  stopRequested, \* _stop_requested
  phaseStopped,  \* _current_phase_stopped
  drainEvent,    \* _drain_event
  fatal,         \* _fatal_error
  raised,        \* run() left its try block with an exception
  recv,          \* _recv_task
  timer,         \* _progress_timer is armed
  progressed,    \* a response or a new start since the guard's reference time
  elapsed,       \* per phase: max_issue_duration_ms has passed since its start
  capTimer,      \* _PerfPhaseTimeout._handle is armed
  events         \* what the session published, in order

issuerVars == <<uuids, issuedCount, inflight, wire>>
stratVars  == <<control, strat, stratError, pend, sem>>
guardVars  == <<timer, progressed>>
clockVars  == <<elapsed, capTimer>>
mainVars   == <<pc, phase, raised>>
stopVars   == <<stopRequested, phaseStopped, drainEvent, fatal>>

vars == <<pc, phase, control, strat, stratError, pend, sem, uuids, issuedCount,
          inflight, wire, stopRequested, phaseStopped, drainEvent, fatal,
          raised, recv, timer, progressed, elapsed, capTimer, events>>

SessionEvent == {"STARTED", "PHASE_START", "START_PERFORMANCE_TRACKING",
                 "STOP_PERFORMANCE_TRACKING", "INTERRUPTED", "ENDED"}
SampleEvent  == {"ISSUED", "COMPLETE", "ERROR"}
Event        == [kind : SessionEvent \cup SampleEvent, id : Query \cup {None}]

Ev(k, q)   == [kind |-> k, id |-> q]
Session(k) == <<Ev(k, None)>>

-----------------------------------------------------------------------------
Init ==
  /\ pc = "idle" /\ phase = 0 /\ raised = FALSE
  /\ control = "loop" /\ strat = "none" /\ stratError = FALSE
  /\ pend = [p \in Phase |-> FALSE]
  /\ sem = [p \in Phase |-> Target[p]]
  /\ uuids = [p \in Phase |-> {}]
  /\ issuedCount = [p \in Phase |-> 0]
  /\ inflight = [p \in Phase |-> 0]
  /\ wire = {}
  /\ stopRequested = FALSE /\ phaseStopped = FALSE
  /\ drainEvent = FALSE /\ fatal = "none"
  /\ recv = "none"
  /\ timer = FALSE /\ progressed = FALSE
  /\ elapsed = [p \in Phase |-> FALSE]
  /\ capTimer = FALSE
  /\ events = <<>>

done == pc \in {"closing", "ended"}

\* task.cancel() on a strategy task that is not done yet.
Cancelled(s) == IF s \in {"running", "woken"} THEN "cancelling" ELSE s

-----------------------------------------------------------------------------
(***************************************************************************)
(* run() and _run_phase(): the synchronous stretches of the main coroutine *)
(***************************************************************************)

\* INTERRUPTED iff stop() ran, then ENDED.
TerminalEvents(stopped) ==
  (IF stopped THEN Session("INTERRUPTED") ELSE <<>>) \o Session("ENDED")

\* The finally block up to `await self._recv_task`: a receive task that is
\* already done is not awaited and the terminal events follow at once.
EnterFinally(ev, stopped, ex) ==
  /\ raised' = ex
  /\ strat' = "none"
  /\ IF recv = "running"
     THEN /\ pc' = "closing"
          /\ events' = ev
          /\ UNCHANGED <<timer, capTimer>>
     ELSE /\ pc' = "ended"
          /\ events' = ev \o TerminalEvents(stopped)
          /\ timer' = FALSE
          /\ capTimer' = FALSE
  /\ UNCHANGED <<phase, control, stratError, pend, sem, phaseStopped,
                 progressed, elapsed>>

\* on_phase_start and _run_phase(p) up to the first await.  The loop's eager
\* task factory starts the strategy inside create_task: burst and timed leave
\* one callback on the loop, concurrency keeps the thread until it blocks.
BeginPhase(p, ev) ==
  /\ pc' = "strategy"
  /\ phase' = p
  /\ raised' = FALSE
  /\ phaseStopped' = FALSE
  /\ timer' = FALSE
  /\ progressed' = FALSE
  /\ capTimer' = MaxDuration[p]
  /\ strat' = "running"
  /\ stratError' = FALSE
  /\ pend' = [pend EXCEPT ![p] = Strategy[p] # "concurrency"]
  /\ control' = IF Strategy[p] = "concurrency" THEN "strategy" ELSE "loop"
  /\ events' = ev \o Session("PHASE_START")
                  \o (IF PhaseType[p] = "performance"
                      THEN Session("START_PERFORMANCE_TRACKING") ELSE <<>>)
  /\ UNCHANGED <<sem, elapsed>>

\* The end of _run_phase(phase) and the turn of run()'s phase loop.
AfterPhase(stopped) ==
  LET ev == events \o (IF PhaseType[phase] = "performance"
                       THEN Session("STOP_PERFORMANCE_TRACKING") ELSE <<>>)
  IN  IF fatal # "none" \/ stopped \/ phase = NumPhases
      THEN EnterFinally(ev, stopped, fatal # "none")
      ELSE BeginPhase(phase + 1, ev)

\* run(): STARTED, the receive task, then the first phase.
Run ==
  /\ pc = "idle" /\ control = "loop"
  /\ recv' = "running"
  /\ IF stopRequested \/ NumPhases = 0
     THEN /\ pc' = "closing"
          /\ events' = Session("STARTED")
          /\ UNCHANGED <<phase, raised, stratVars, phaseStopped, guardVars,
                         capTimer, elapsed>>
     ELSE BeginPhase(1, Session("STARTED"))
  /\ UNCHANGED <<issuerVars, stopRequested, drainEvent, fatal>>

\* _drain_inflight has something to wait for.
MustDrain ==
  DrainAfter[phase] /\ inflight[phase] > 0 /\ ~stopRequested

\* _run_phase resumes after `await self._strategy_task`: a strategy error
\* propagates, otherwise _drain_inflight waits or returns at once.
StrategyAwaited ==
  /\ pc = "strategy" /\ control = "loop" /\ strat = "done"
  /\ \/ /\ stratError
        /\ EnterFinally(events, stopRequested, TRUE)
        /\ UNCHANGED drainEvent
     \/ /\ ~stratError
        /\ MustDrain
        /\ pc' = "drain"
        /\ drainEvent' = FALSE
        /\ strat' = "none"
        /\ UNCHANGED <<phase, raised, control, stratError, pend, sem,
                       phaseStopped, guardVars, clockVars, events>>
     \/ /\ ~stratError
        /\ ~MustDrain
        /\ AfterPhase(stopRequested)
        /\ UNCHANGED drainEvent
  /\ UNCHANGED <<issuerVars, stopRequested, fatal, recv>>

\* _drain_inflight wakes on _drain_event.
DrainCompletes ==
  /\ pc = "drain" /\ control = "loop" /\ drainEvent
  /\ AfterPhase(stopRequested)
  /\ UNCHANGED <<issuerVars, stopRequested, drainEvent, fatal, recv>>

\* wait_for times out; it may do so although the event was set in the same
\* loop iteration.  stop() runs in the main coroutine, no strategy is alive.
DrainTimesOut ==
  /\ pc = "drain" /\ control = "loop" /\ DrainTimeout[phase]
  /\ stopRequested' = TRUE
  /\ drainEvent' = TRUE
  /\ AfterPhase(TRUE)
  /\ UNCHANGED <<issuerVars, fatal, recv>>

\* The rest of the finally block once the cancelled receive task is done.
Close ==
  /\ pc = "closing"
  /\ pc' = "ended"
  /\ recv' = "done"
  /\ timer' = FALSE
  /\ capTimer' = FALSE
  /\ events' = events \o TerminalEvents(stopRequested)
  /\ UNCHANGED <<phase, raised, stratVars, issuerVars, stopVars, progressed,
                 elapsed>>

-----------------------------------------------------------------------------
(***************************************************************************)
(* PhaseIssuer.issue                                                       *)
(***************************************************************************)

StopCheck_NoDuration(p) ==
  \/ stopRequested
  \/ phaseStopped
  \/ issuedCount[phase] >= TotalSamples[p]

StopCheck_NoStopFlag(p) ==
  \/ phaseStopped
  \/ issuedCount[phase] >= TotalSamples[p]
  \/ elapsed[p]

\* The closure _make_stop_check built for phase p.  It reads the issuer that
\* is current when it is called.
StopCheck(p) ==
  \/ stopRequested
  \/ phaseStopped
  \/ issuedCount[phase] >= TotalSamples[p]
  \/ elapsed[p]

Fresh == Query \ UNION {uuids[p] : p \in Phase}

GuardAfterIssue_OffByOne(p) ==
  IF IdleTimeout /\ inflight[p] = 1
  THEN /\ timer' = TRUE
       /\ progressed' = timer
  ELSE UNCHANGED guardVars

\* _on_inflight_started: arm the guard on a 0 -> 1 transition.
GuardAfterIssue(p) ==
  IF IdleTimeout /\ inflight[p] = 0
  THEN /\ timer' = TRUE
       /\ progressed' = timer
  ELSE UNCHANGED guardVars

IssueSends(p, q) ==
  /\ uuids' = [uuids EXCEPT ![p] = @ \cup {q}]
  /\ events' = Append(events, Ev("ISSUED", q))
  /\ wire' = wire \cup {q}
  /\ inflight' = [inflight EXCEPT ![p] = @ + 1]
  /\ issuedCount' = [issuedCount EXCEPT ![p] = @ + 1]
  /\ GuardAfterIssue(p)

\* issue() raises on a malformed sample (nothing published yet) or in the
\* client's send (ISSUED already published).
IssueRaises(p, q) ==
  /\ "issue_raises" \in Faults
  /\ uuids' = [uuids EXCEPT ![p] = @ \cup {q}]
  /\ \/ UNCHANGED events
     \/ events' = Append(events, Ev("ISSUED", q))
  /\ UNCHANGED <<wire, inflight, issuedCount, guardVars>>

-----------------------------------------------------------------------------
(***************************************************************************)
(* Load strategies                                                         *)
(***************************************************************************)

\* The `done` event of execute() is set: only a task still waiting wakes up.
SetDone(p, err) ==
  IF p = phase /\ strat = "running"
  THEN strat' = "woken" /\ stratError' = err
  ELSE UNCHANGED <<strat, stratError>>

\* BurstStrategy.issue_next and TimedIssueStrategy.fire (with schedule_next).
\* The sample order is infinite: the chain ends when issue() says so.
FireCallback(p) ==
  /\ control = "loop" /\ pend[p]
  /\ \/ /\ StopCheck(p)
        /\ pend' = [pend EXCEPT ![p] = FALSE]
        /\ SetDone(p, FALSE)
        /\ UNCHANGED <<issuerVars, guardVars, events>>
     \/ /\ ~StopCheck(p)
        /\ \E q \in Fresh : IssueSends(p, q)
        /\ UNCHANGED <<pend, strat, stratError>>
     \/ /\ ~StopCheck(p)
        /\ \E q \in Fresh : IssueRaises(p, q)
        /\ pend' = [pend EXCEPT ![p] = FALSE]
        /\ SetDone(p, TRUE)
  /\ UNCHANGED <<mainVars, control, sem, stopVars, recv, clockVars>>

\* One turn of ConcurrencyStrategy.execute's loop.  acquire() does not yield
\* while permits are free, so the coroutine keeps the thread until none is.
ConcurrencyTurn ==
  /\ pc = "strategy" /\ strat = "running" /\ Strategy[phase] = "concurrency"
  /\ sem[phase] > 0
  /\ \/ /\ StopCheck(phase)
        /\ strat' = "done" /\ control' = "loop"
        /\ UNCHANGED <<stratError, sem, issuerVars, guardVars, events>>
     \/ /\ ~StopCheck(phase)
        /\ \E q \in Fresh : IssueSends(phase, q)
        /\ sem' = [sem EXCEPT ![phase] = @ - 1]
        /\ control' = IF sem[phase] = 1 THEN "loop" ELSE "strategy"
        /\ UNCHANGED <<strat, stratError>>
     \/ /\ ~StopCheck(phase)
        /\ \E q \in Fresh : IssueRaises(phase, q)
        /\ sem' = [sem EXCEPT ![phase] = @ - 1]
        /\ strat' = "done" /\ stratError' = TRUE /\ control' = "loop"
  /\ UNCHANGED <<mainVars, pend, stopVars, recv, clockVars>>

\* The strategy task takes its last step: execute() returns or raises after
\* `done`, or the cancel arrives (an error recorded before it is lost).  A
\* burst callback queued before the cancel runs before this step.
StrategyEnds ==
  /\ control = "loop" /\ strat \in {"woken", "cancelling"}
  /\ Strategy[phase] = "burst" => ~pend[phase]
  /\ strat' = "done"
  /\ stratError' = (stratError /\ strat = "woken")
  /\ UNCHANGED <<mainVars, control, pend, sem, issuerVars, stopVars, recv,
                 guardVars, clockVars, events>>

-----------------------------------------------------------------------------
(***************************************************************************)
(* Stop paths and timers                                                   *)
(***************************************************************************)

\* stop(), except for the error its caller records.
StopEffects ==
  /\ stopRequested' = TRUE
  /\ drainEvent' = TRUE
  /\ timer' = FALSE
  /\ strat' = Cancelled(strat)

\* stop() called by the SIGINT governor or the run watchdog.
Stop ==
  /\ "stop" \in Faults
  /\ control = "loop" /\ pc # "ended" /\ ~stopRequested
  /\ StopEffects
  /\ UNCHANGED <<mainVars, control, stratError, pend, sem, issuerVars,
                 phaseStopped, fatal, recv, progressed, clockVars, events>>

\* max_issue_duration_ms have passed since phase p began.
Elapse(p) ==
  /\ p <= phase /\ MaxDuration[p] /\ ~elapsed[p]
  /\ elapsed' = [elapsed EXCEPT ![p] = TRUE]
  /\ UNCHANGED <<mainVars, stratVars, issuerVars, stopVars, recv, guardVars,
                 capTimer, events>>

\* The performance cap: _on_perf_phase_timeout -> stop_current_phase().
CapFires ==
  /\ control = "loop" /\ capTimer /\ elapsed[phase]
  /\ capTimer' = FALSE
  /\ IF strat \in {"running", "woken", "cancelling"}
     THEN phaseStopped' = TRUE /\ strat' = Cancelled(strat)
     ELSE UNCHANGED <<phaseStopped, strat>>
  /\ UNCHANGED <<mainVars, control, stratError, pend, sem, issuerVars,
                 stopRequested, drainEvent, fatal, recv, guardVars, elapsed,
                 events>>

\* _fire_endpoint_response_idle_timeout.
IdleFires ==
  /\ control = "loop" /\ timer
  /\ \/ /\ done \/ stopRequested \/ inflight[phase] = 0
        /\ timer' = FALSE
        /\ UNCHANGED <<progressed, stopRequested, drainEvent, fatal, strat>>
     \/ /\ ~done /\ ~stopRequested /\ inflight[phase] > 0 /\ progressed
        /\ timer' = TRUE /\ progressed' = FALSE
        /\ UNCHANGED <<stopRequested, drainEvent, fatal, strat>>
     \/ \* idle >= timeout; with progress on record, the callback ran late
        /\ ~done /\ ~stopRequested /\ inflight[phase] > 0
        /\ fatal' = IF fatal = "none" THEN "idle" ELSE fatal
        /\ StopEffects
        /\ UNCHANGED progressed
  /\ UNCHANGED <<mainVars, control, stratError, pend, sem, issuerVars,
                 phaseStopped, recv, clockVars, events>>

-----------------------------------------------------------------------------
(***************************************************************************)
(* The receive task                                                        *)
(***************************************************************************)

receiving == control = "loop" /\ recv = "running" /\ ~done

Decremented_AnyQuery(q) ==
  IF inflight[phase] > 0 THEN [inflight EXCEPT ![phase] = @ - 1] ELSE inflight

\* mark_inflight_complete of the current issuer, for a query of its own.
Decremented(q) ==
  IF q \in uuids[phase] /\ inflight[phase] > 0
  THEN [inflight EXCEPT ![phase] = @ - 1]
  ELSE inflight

Drained_OffByOne(q) == q \in uuids[phase] /\ inflight[phase] = 0

\* That decrement reached 0 and called _on_inflight_drained.
Drained(q) == q \in uuids[phase] /\ inflight[phase] = 1

\* What is published for a final result: ERROR first, COMPLETE not in warmup.
ResultEvents(q, error) ==
  (IF error THEN <<Ev("ERROR", q)>> ELSE <<>>)
    \o (IF PhaseType[phase] # "warmup" THEN <<Ev("COMPLETE", q)>> ELSE <<>>)

\* strategy.on_query_complete, for a query of the current phase.
Released(q) ==
  IF q \in uuids[phase] /\ Strategy[phase] = "concurrency"
  THEN [sem EXCEPT ![phase] = @ + 1] ELSE sem

\* _handle_response for a final QueryResult, up to the inflight callback.
HandleResult(q, error) ==
  /\ wire' = wire \ {q}
  /\ events' = events \o ResultEvents(q, error)
  /\ inflight' = Decremented(q)
  /\ sem' = Released(q)
  /\ UNCHANGED <<uuids, issuedCount>>

\* A final result arrives and is handled.
ReceiveResult(q, error) ==
  /\ receiving /\ q \in wire
  /\ HandleResult(q, error)
  /\ drainEvent' = (drainEvent \/ Drained(q))
  /\ timer' = (timer /\ ~Drained(q))
  /\ progressed' = TRUE
  /\ UNCHANGED <<mainVars, control, strat, stratError, pend, stopRequested,
                 phaseStopped, fatal, recv, clockVars>>

\* recv() returns None: the transport closed under the session.
TransportCloses ==
  /\ "transport_closed" \in Faults /\ receiving
  /\ recv' = "done"
  /\ stopRequested' = TRUE
  /\ drainEvent' = TRUE
  /\ strat' = Cancelled(strat)
  /\ UNCHANGED <<mainVars, control, stratError, pend, sem, issuerVars,
                 phaseStopped, fatal, guardVars, clockVars, events>>

\* recv() raises, or on_sample_complete raises at the end of the handler.
ReceiverRaises ==
  /\ "receiver_raises" \in Faults /\ receiving
  /\ \/ UNCHANGED <<issuerVars, sem, events>>
     \/ \E q \in wire \cap uuids[phase], error \in BOOLEAN :
           PhaseType[phase] # "warmup" /\ HandleResult(q, error)
  /\ recv' = "done"
  /\ fatal' = IF fatal = "none" THEN "receiver" ELSE fatal
  /\ StopEffects
  /\ UNCHANGED <<mainVars, control, stratError, pend, phaseStopped,
                 progressed, clockVars>>

-----------------------------------------------------------------------------
\* run() has returned and nothing is left on the loop that acts.
Terminated == pc = "ended" /\ UNCHANGED vars

Main == Run \/ StrategyAwaited \/ DrainCompletes \/ DrainTimesOut \/ Close

Next ==
  \/ Main
  \/ \E p \in Phase : FireCallback(p)
  \/ ConcurrencyTurn
  \/ StrategyEnds
  \/ Stop
  \/ \E p \in Phase : Elapse(p)
  \/ CapFires
  \/ IdleFires
  \/ \E q \in Query, error \in BOOLEAN : ReceiveResult(q, error)
  \/ TransportCloses
  \/ ReceiverRaises
  \/ Terminated

Spec == Init /\ [][Next]_vars

\* What the event loop guarantees: a ready coroutine or callback runs, an
\* armed timer fires.  Nothing is assumed of the endpoint, of stop(), or of
\* faults.  The drain timeout is a timer as well.
Fairness ==
  /\ WF_vars(Main)
  /\ WF_vars(ConcurrencyTurn)
  /\ WF_vars(StrategyEnds)
  /\ \A p \in Phase : WF_vars(FireCallback(p))
  /\ WF_vars(CapFires)
  /\ WF_vars(IdleFires)

FairSpec == Spec /\ Fairness

-----------------------------------------------------------------------------
(***************************************************************************)
(* Properties                                                              *)
(***************************************************************************)

\* Every variable stays in the domain the code gives it (session.py, the
\* attributes of PhaseIssuer and BenchmarkSession).
TypeOK ==
  /\ pc \in {"idle", "strategy", "drain", "closing", "ended"}
  /\ phase \in 0..NumPhases
  /\ control \in {"loop", "strategy"}
  /\ strat \in {"none", "running", "woken", "cancelling", "done"}
  /\ stratError \in BOOLEAN
  /\ pend \in [Phase -> BOOLEAN]
  /\ sem \in [Phase -> Nat]
  /\ uuids \in [Phase -> SUBSET Query]
  /\ issuedCount \in [Phase -> Nat]
  /\ inflight \in [Phase -> Nat]
  /\ wire \in SUBSET Query
  /\ stopRequested \in BOOLEAN
  /\ phaseStopped \in BOOLEAN
  /\ drainEvent \in BOOLEAN
  /\ fatal \in {"none", "idle", "receiver"}
  /\ raised \in BOOLEAN
  /\ recv \in {"none", "running", "done"}
  /\ timer \in BOOLEAN
  /\ progressed \in BOOLEAN
  /\ elapsed \in [Phase -> BOOLEAN]
  /\ capTimer \in BOOLEAN
  /\ events \in Seq(Event)

\* PhaseIssuer.inflight of the current phase is exactly the number of its
\* queries the endpoint still owes an answer to: late answers to an earlier
\* phase, stops and failed sends never skew it.
InflightIsExact ==
  phase > 0 => inflight[phase] = Cardinality(wire \cap uuids[phase])

\* "advancing with unresolved requests would mix phase accounting"
\* (_drain_inflight): once the session is past a phase it had to drain, none
\* of that phase's queries is outstanding, not even one sent by a timer
\* callback the phase left on the loop.
DrainedPhasesStayDrained ==
  \A p \in Phase : p < phase /\ DrainAfter[p] => wire \cap uuids[p] = {}

\* While the session runs, the response idle guard is armed exactly when the
\* current phase has a query in flight (_on_inflight_started, _drained and
\* the re-arm in _fire_endpoint_response_idle_timeout keep it so).
GuardArmedWhileInFlight ==
  IdleTimeout /\ phase > 0 /\ ~done /\ ~stopRequested =>
    (timer <=> inflight[phase] > 0)

\* ConcurrencyStrategy never has more than target_concurrency queries of its
\* phase in flight: releases match acquires across errors and late answers.
ConcurrencyBounded ==
  \A p \in Phase :
    Strategy[p] = "concurrency" => inflight[p] + sem[p] <= Target[p]

\* Positions of an event in what was published.
At(k, q) == {i \in DOMAIN events : events[i] = Ev(k, q)}

\* An event i lies inside a START/STOP_PERFORMANCE_TRACKING window.
Tracked(i) ==
  \E s \in At("START_PERFORMANCE_TRACKING", None) :
    /\ s < i
    /\ \A t \in At("STOP_PERFORMANCE_TRACKING", None) : ~(s < t /\ t < i)

\* The tracking window holds the ISSUED events of the performance phases and
\* no other: the aggregator decides by the window alone what it measures.
WindowIsPerformancePhase ==
  \A p \in Phase, q \in Query : \A i \in At("ISSUED", q) :
    q \in uuids[p] => (Tracked(i) <=> PhaseType[p] = "performance")

\* Each query gets at most one COMPLETE, never before its ISSUED, and the
\* ERROR of a failed query precedes its COMPLETE (the aggregator drops the
\* row on COMPLETE, so the other order would lose the failure).
OneOrderedCompletion ==
  \A q \in Query :
    /\ Cardinality(At("COMPLETE", q)) <= 1
    /\ \A c \in At("COMPLETE", q) :
         /\ \E i \in At("ISSUED", q) : i < c
         /\ \A e \in At("ERROR", q) : e < c

\* A run that ends without INTERRUPTED and without raising ran every phase,
\* issued each phase's samples unless its duration cap hit, and published as
\* many COMPLETEs for a drained non-warmup phase as its issued_count says.
CleanEndIsComplete ==
  pc = "ended" /\ ~raised /\ At("INTERRUPTED", None) = {} =>
    /\ phase = NumPhases
    /\ \A p \in Phase :
         /\ issuedCount[p] = TotalSamples[p] \/ elapsed[p]
         /\ DrainAfter[p] /\ PhaseType[p] # "warmup" =>
              Cardinality({q \in uuids[p] : At("COMPLETE", q) # {}})
                = issuedCount[p]

\* An aborted session says so: ENDED is published once, last, and right
\* after INTERRUPTED iff stop() ran, so the aggregator that finalizes on
\* ENDED already knows (the finally block of run).
AbortMarkedBeforeEnded ==
  pc = "ended" =>
    /\ At("ENDED", None) = {Len(events)}
    /\ stopRequested <=> events[Len(events) - 1] = Ev("INTERRUPTED", None)
    /\ fatal # "none" => stopRequested /\ raised

\* The event stream of a session, as its three subscribers rely on it: what is
\* measured, what ends a query, what ends the run; nothing follows ENDED,
\* whatever callbacks are left.
StreamIsWellFormed ==
  WindowIsPerformancePhase /\ OneOrderedCompletion /\ AbortMarkedBeforeEnded

\* With the idle guard on, the session ends whatever the endpoint does.
GuardedSessionEnds == <>(pc = "ended")

-----------------------------------------------------------------------------
(***************************************************************************)
(* The inductive invariant behind the safety properties                    *)
(***************************************************************************)

\* A query id belongs to one phase's issuer, and only owned ids are on the
\* wire.
Ownership ==
  /\ \A p, r \in Phase : p # r => uuids[p] \cap uuids[r] = {}
  /\ \A q \in wire : \E p \in Phase : q \in uuids[p]

\* A phase the session has not reached has no issuer, callback or query.
FutureUntouched ==
  \A p \in Phase : p > phase =>
    uuids[p] = {} /\ inflight[p] = 0 /\ ~pend[p]

\* Where run() is suspended agrees with the phase and the strategy task.
MainPlaced ==
  /\ pc = "idle" => phase = 0
  /\ pc \in {"strategy", "drain"} => phase \in Phase
  /\ pc # "strategy" => strat = "none"
  /\ strat # "none" => phase \in Phase
  /\ timer => phase \in Phase
  /\ (\E p \in Phase : pend[p]) => phase \in Phase
  /\ recv = "running" => phase \in Phase \/ pc = "closing"

\* Only burst and timed strategies leave callbacks, and one that outlived
\* its strategy finds the stop flag set or its phase's time used up.
StaleCallbacksMuted ==
  \A p \in Phase : pend[p] =>
    /\ Strategy[p] # "concurrency"
    /\ p < phase \/ strat # "running" => stopRequested \/ elapsed[p]

\* A drain that wakes up without a stop has nothing left in flight.
DrainEventMeansDrained ==
  pc = "drain" /\ drainEvent /\ ~stopRequested => inflight[phase] = 0

IInv ==
  /\ Ownership
  /\ FutureUntouched
  /\ MainPlaced
  /\ StaleCallbacksMuted
  /\ DrainEventMeansDrained
  /\ InflightIsExact
  /\ DrainedPhasesStayDrained
  /\ GuardArmedWhileInFlight
  /\ ConcurrencyBounded

=============================================================================
