----------------------- MODULE BenchmarkSession_proofs -----------------------
(***************************************************************************)
(* Machine-checked proofs about BenchmarkSession and about what the        *)
(* aggregator's MetricsTable makes of its events, for every phase list and *)
(* every finite set of queries: types and invariants of the session, the   *)
(* order of the published events, and at the end the aggregator's table    *)
(* and the report of a clean run.                                          *)
(***************************************************************************)
EXTENDS MetricsTable, FiniteSetTheorems, NaturalsInduction, WellFoundedInduction, TLAPS

-----------------------------------------------------------------------------
(***************************************************************************)
(* Type correctness                                                        *)
(***************************************************************************)

\* _publish_session_event builds well-formed records.
LEMMA SessionEventType ==
  ASSUME NEW k \in SessionEvent
  PROVE  Session(k) \in Seq(Event)
<1>1. Ev(k, None) \in Event
  BY DEF Ev, Event
<1> QED
  BY <1>1 DEF Session

\* Appending a session event, or nothing, keeps the published log typed.
LEMMA OptionalEventType ==
  ASSUME NEW ev \in Seq(Event), NEW k \in SessionEvent, NEW b \in BOOLEAN
  PROVE  ev \o (IF b THEN Session(k) ELSE <<>>) \in Seq(Event)
<1>1. CASE b
  BY <1>1, SessionEventType
<1>2. CASE ~b
  BY <1>2
<1> QED
  BY <1>1, <1>2

\* The terminal events of run()'s finally block are well-formed.
LEMMA TerminalEventsType ==
  ASSUME NEW ev \in Seq(Event), NEW b \in BOOLEAN
  PROVE  ev \o TerminalEvents(b) \in Seq(Event)
<1>1. Session("ENDED") \in Seq(Event)
  BY SessionEventType DEF SessionEvent
<1>2. Session("INTERRUPTED") \in Seq(Event)
  BY SessionEventType DEF SessionEvent
<1>3. TerminalEvents(b) \in Seq(Event)
  BY <1>1, <1>2 DEF TerminalEvents
<1> QED
  BY <1>3

\* What _handle_response publishes for a final result is well-formed.
LEMMA ResultEventsType ==
  ASSUME NEW q \in Query, NEW error \in BOOLEAN
  PROVE  ResultEvents(q, error) \in Seq(Event)
<1>1. Ev("ERROR", q) \in Event
  BY DEF Ev, Event, SampleEvent
<1>2. Ev("COMPLETE", q) \in Event
  BY DEF Ev, Event, SampleEvent
<1> QED
  BY <1>1, <1>2 DEF ResultEvents

\* Starting a phase keeps every variable it assigns in its domain.
LEMMA BeginPhaseType ==
  ASSUME TypeOK, NEW p \in Phase, NEW ev \in Seq(Event), BeginPhase(p, ev)
  PROVE  /\ pc' = "strategy" /\ phase' = p /\ control' \in {"loop", "strategy"}
         /\ strat' = "running" /\ stratError' \in BOOLEAN
         /\ pend' \in [Phase -> BOOLEAN] /\ sem' \in [Phase -> Nat]
         /\ phaseStopped' \in BOOLEAN /\ raised' \in BOOLEAN
         /\ timer' \in BOOLEAN /\ progressed' \in BOOLEAN
         /\ elapsed' \in [Phase -> BOOLEAN] /\ capTimer' \in BOOLEAN
         /\ events' \in Seq(Event)
<1>1. ev \o Session("PHASE_START") \in Seq(Event)
  BY SessionEventType DEF SessionEvent
<1>2. events' \in Seq(Event)
  <2>1. events' = (ev \o Session("PHASE_START"))
                    \o (IF PhaseType[p] = "performance"
                        THEN Session("START_PERFORMANCE_TRACKING") ELSE <<>>)
    BY DEF BeginPhase
  <2>2. "START_PERFORMANCE_TRACKING" \in SessionEvent
    BY DEF SessionEvent
  <2> QED
    BY <1>1, <2>1, <2>2, OptionalEventType
<1>3. MaxDuration[p] \in BOOLEAN
  BY PhasesAssumption
<1> QED
  BY <1>2, <1>3 DEF BeginPhase, TypeOK

\* Leaving the phase loop keeps every variable it assigns in its domain.
LEMMA EnterFinallyType ==
  ASSUME TypeOK, NEW ev \in Seq(Event), NEW stopped \in BOOLEAN,
         NEW ex \in BOOLEAN, EnterFinally(ev, stopped, ex)
  PROVE  /\ pc' \in {"closing", "ended"} /\ phase' = phase
         /\ control' \in {"loop", "strategy"}
         /\ strat' = "none" /\ stratError' \in BOOLEAN
         /\ pend' \in [Phase -> BOOLEAN] /\ sem' \in [Phase -> Nat]
         /\ phaseStopped' \in BOOLEAN /\ raised' \in BOOLEAN
         /\ timer' \in BOOLEAN /\ progressed' \in BOOLEAN
         /\ elapsed' \in [Phase -> BOOLEAN] /\ capTimer' \in BOOLEAN
         /\ events' \in Seq(Event)
<1>1. ev \o TerminalEvents(stopped) \in Seq(Event)
  BY TerminalEventsType
<1> QED
  BY <1>1 DEF EnterFinally, TypeOK

\* The end of a phase: either the next one starts or the loop is left.
LEMMA AfterPhaseType ==
  ASSUME TypeOK, phase \in Phase, NEW stopped \in BOOLEAN, AfterPhase(stopped)
  PROVE  /\ pc' \in {"strategy", "closing", "ended"} /\ phase' \in 0..NumPhases
         /\ control' \in {"loop", "strategy"}
         /\ strat' \in {"running", "none"} /\ stratError' \in BOOLEAN
         /\ pend' \in [Phase -> BOOLEAN] /\ sem' \in [Phase -> Nat]
         /\ phaseStopped' \in BOOLEAN /\ raised' \in BOOLEAN
         /\ timer' \in BOOLEAN /\ progressed' \in BOOLEAN
         /\ elapsed' \in [Phase -> BOOLEAN] /\ capTimer' \in BOOLEAN
         /\ events' \in Seq(Event)
<1> DEFINE ev == events \o (IF PhaseType[phase] = "performance"
                            THEN Session("STOP_PERFORMANCE_TRACKING") ELSE <<>>)
<1>1. ev \in Seq(Event)
  <2>1. "STOP_PERFORMANCE_TRACKING" \in SessionEvent
    BY DEF SessionEvent
  <2>2. events \in Seq(Event)
    BY DEF TypeOK
  <2> QED
    BY <2>1, <2>2, OptionalEventType
<1> HIDE DEF ev
<1>2. CASE fatal # "none" \/ stopped \/ phase = NumPhases
  <2>1. EnterFinally(ev, stopped, fatal # "none")
    BY <1>2 DEF AfterPhase, ev
  <2>2. (fatal # "none") \in BOOLEAN
    OBVIOUS
  <2> QED
    BY <1>1, <2>1, <2>2, EnterFinallyType DEF TypeOK
<1>3. CASE ~(fatal # "none" \/ stopped \/ phase = NumPhases)
  <2>1. BeginPhase(phase + 1, ev)
    BY <1>3 DEF AfterPhase, ev
  <2>2. phase + 1 \in Phase
    BY <1>3, PhasesAssumption DEF Phase
  <2> QED
    BY <1>1, <2>1, <2>2, BeginPhaseType, PhasesAssumption DEF Phase
<1> QED
  BY <1>2, <1>3

\* task.cancel() neither creates nor removes a strategy task.
LEMMA CancelledType ==
  ASSUME TypeOK
  PROVE  /\ Cancelled(strat) \in {"none", "woken", "cancelling", "done"}
         /\ (Cancelled(strat) = "none") <=> (strat = "none")
  BY DEF Cancelled, TypeOK

\* AfterPhase keeps run()'s position consistent.
LEMMA AfterPhasePlaced ==
  ASSUME TypeOK, MainPlaced, phase \in Phase, NEW stopped \in BOOLEAN,
         AfterPhase(stopped), recv' = recv,
         drainEvent' \in BOOLEAN, stopRequested' \in BOOLEAN,
         UNCHANGED <<issuerVars, fatal>>
  PROVE  TypeOK' /\ MainPlaced'
<1>1. TypeOK'
  BY AfterPhaseType DEF TypeOK, issuerVars
<1>2. phase' \in Phase
  <2>1. phase' = phase \/ (phase # NumPhases /\ phase' = phase + 1)
    BY DEF AfterPhase, EnterFinally, BeginPhase
  <2> QED
    BY <2>1, PhasesAssumption DEF Phase
<1>3. pc' # "idle" /\ (pc' # "strategy" => strat' = "none")
  BY DEF AfterPhase, EnterFinally, BeginPhase
<1> QED
  BY <1>1, <1>2, <1>3, AfterPhaseType DEF MainPlaced

\* PhaseIssuer.issue, sent or raising, keeps the issuer's fields in their
\* domains.
LEMMA IssueType ==
  ASSUME TypeOK, NEW p \in Phase, NEW q \in Fresh,
         IssueSends(p, q) \/ IssueRaises(p, q)
  PROVE  /\ uuids' \in [Phase -> SUBSET Query]
         /\ issuedCount' \in [Phase -> Nat] /\ inflight' \in [Phase -> Nat]
         /\ wire' \in SUBSET Query
         /\ timer' \in BOOLEAN /\ progressed' \in BOOLEAN
         /\ events' \in Seq(Event)
<1>1. q \in Query
  BY DEF Fresh
<1>2. Ev("ISSUED", q) \in Event
  BY <1>1 DEF Ev, Event, SampleEvent
<1>3. Append(events, Ev("ISSUED", q)) \in Seq(Event)
  BY <1>2 DEF TypeOK
<1>4. timer' \in BOOLEAN /\ progressed' \in BOOLEAN
  BY DEF IssueSends, IssueRaises, GuardAfterIssue, guardVars, TypeOK
<1>5. events' \in Seq(Event)
  BY <1>3 DEF IssueSends, IssueRaises, TypeOK
<1>6. [inflight EXCEPT ![p] = @ + 1] \in [Phase -> Nat]
  BY DEF TypeOK
<1>7. [issuedCount EXCEPT ![p] = @ + 1] \in [Phase -> Nat]
  BY DEF TypeOK
<1>8. [uuids EXCEPT ![p] = @ \cup {q}] \in [Phase -> SUBSET Query]
  BY <1>1 DEF TypeOK
<1> QED
  BY <1>1, <1>4, <1>5, <1>6, <1>7, <1>8 DEF IssueSends, IssueRaises, TypeOK

\* _handle_response keeps the fields it assigns in their domains.
LEMMA HandleResultType ==
  ASSUME TypeOK, phase \in Phase, NEW q \in Query, NEW error \in BOOLEAN,
         HandleResult(q, error)
  PROVE  /\ uuids' = uuids /\ issuedCount' = issuedCount
         /\ inflight' \in [Phase -> Nat] /\ sem' \in [Phase -> Nat]
         /\ wire' \in SUBSET Query
         /\ events' \in Seq(Event)
<1>1. events' \in Seq(Event)
  BY ResultEventsType DEF HandleResult, TypeOK
<1>2. inflight' \in [Phase -> Nat]
  <2>1. Decremented(q) \in [Phase -> Nat]
    BY DEF Decremented, TypeOK
  <2> QED
    BY <2>1 DEF HandleResult
<1>3. sem' \in [Phase -> Nat]
  <2>1. Released(q) \in [Phase -> Nat]
    BY DEF Released, TypeOK
  <2> QED
    BY <2>1 DEF HandleResult
<1> QED
  BY <1>1, <1>2, <1>3 DEF HandleResult, TypeOK

\* Every step keeps the types and keeps run()'s position consistent with the
\* phase, the strategy task, the guard and the receive task.
LEMMA TypeStep ==
  ASSUME TypeOK, MainPlaced, [Next]_vars
  PROVE  TypeOK' /\ MainPlaced'
<1> USE DEF mainVars, stratVars, issuerVars, stopVars, guardVars, clockVars
<1>1. CASE Run
  <2>1. Session("STARTED") \in Seq(Event)
    BY SessionEventType DEF SessionEvent
  <2>2. CASE stopRequested \/ NumPhases = 0
    BY <1>1, <2>1, <2>2 DEF Run, TypeOK, MainPlaced
  <2>3. CASE ~(stopRequested \/ NumPhases = 0)
    <3>1. BeginPhase(1, Session("STARTED"))
      BY <1>1, <2>3 DEF Run
    <3>2. 1 \in Phase
      BY <2>3, PhasesAssumption DEF Phase
    <3>3. phase' \in Phase /\ phase' \in 0..NumPhases
      BY <2>1, <3>1, <3>2, BeginPhaseType, PhasesAssumption DEF Phase
    <3> QED
      BY <1>1, <2>1, <3>1, <3>2, <3>3, BeginPhaseType
         DEF Run, TypeOK, MainPlaced
  <2> QED
    BY <2>2, <2>3
<1>2. CASE StrategyAwaited
  <2>1. phase \in Phase
    BY <1>2 DEF StrategyAwaited, MainPlaced
  <2>2. stopRequested \in BOOLEAN /\ events \in Seq(Event)
    BY DEF TypeOK
  <2>3. CASE EnterFinally(events, stopRequested, TRUE) /\ UNCHANGED drainEvent
    BY ZenonT(60), <1>2, <2>1, <2>2, <2>3, EnterFinallyType
       DEF StrategyAwaited, TypeOK, MainPlaced, EnterFinally
  <2>4. CASE pc' = "drain" /\ drainEvent' = FALSE /\ strat' = "none"
             /\ UNCHANGED <<phase, raised, control, stratError, pend, sem,
                            phaseStopped, guardVars, clockVars, events>>
    BY ZenonT(60), <1>2, <2>1, <2>4 DEF StrategyAwaited, TypeOK, MainPlaced
  <2>5. CASE AfterPhase(stopRequested) /\ UNCHANGED drainEvent
    BY <1>2, <2>1, <2>2, <2>5, AfterPhasePlaced
       DEF StrategyAwaited, TypeOK
  <2> QED
    BY <1>2, <2>3, <2>4, <2>5 DEF StrategyAwaited
<1>3. CASE DrainCompletes
  BY <1>3, AfterPhasePlaced DEF DrainCompletes, TypeOK, MainPlaced
<1>4. CASE DrainTimesOut
  BY <1>4, AfterPhasePlaced DEF DrainTimesOut, TypeOK, MainPlaced
<1>5. CASE Close
  <2>1. events' \in Seq(Event)
    BY <1>5, TerminalEventsType DEF Close, TypeOK
  <2> QED
    BY ZenonT(60), <1>5, <2>1 DEF Close, TypeOK, MainPlaced
<1>6. ASSUME NEW p \in Phase, FireCallback(p)
      PROVE  TypeOK' /\ MainPlaced'
  <2>1. /\ uuids' \in [Phase -> SUBSET Query]
        /\ issuedCount' \in [Phase -> Nat] /\ inflight' \in [Phase -> Nat]
        /\ wire' \in SUBSET Query
        /\ timer' \in BOOLEAN /\ progressed' \in BOOLEAN
        /\ events' \in Seq(Event)
    <3>1. CASE UNCHANGED <<issuerVars, guardVars, events>>
      BY <3>1 DEF TypeOK
    <3> QED
      BY <1>6, <3>1, IssueType DEF FireCallback
  <2>2. /\ strat' \in {"none", "running", "woken", "cancelling", "done"}
        /\ strat' = "none" <=> strat = "none"
        /\ stratError' \in BOOLEAN
    BY <1>6 DEF FireCallback, SetDone, TypeOK
  <2>3. pend' \in [Phase -> BOOLEAN]
    BY <1>6 DEF FireCallback, TypeOK
  <2>4. TypeOK'
    BY <1>6, <2>1, <2>2, <2>3 DEF FireCallback, TypeOK
  <2> QED
    BY <1>6, <2>2, <2>3, <2>4 DEF FireCallback, MainPlaced
<1>7. CASE ConcurrencyTurn
  <2>1. phase \in Phase
    BY <1>7 DEF ConcurrencyTurn, MainPlaced
  <2>2. /\ uuids' \in [Phase -> SUBSET Query]
        /\ issuedCount' \in [Phase -> Nat] /\ inflight' \in [Phase -> Nat]
        /\ wire' \in SUBSET Query
        /\ timer' \in BOOLEAN /\ progressed' \in BOOLEAN
        /\ events' \in Seq(Event)
    <3>1. CASE UNCHANGED <<issuerVars, guardVars, events>>
      BY <3>1 DEF TypeOK
    <3> QED
      BY <1>7, <2>1, <3>1, IssueType DEF ConcurrencyTurn
  <2>3. /\ strat' \in {"running", "done"} /\ stratError' \in BOOLEAN
        /\ control' \in {"loop", "strategy"}
    BY <1>7 DEF ConcurrencyTurn, TypeOK
  <2>4. [sem EXCEPT ![phase] = @ - 1] \in [Phase -> Nat]
    BY <1>7, <2>1 DEF ConcurrencyTurn, TypeOK
  <2>5. sem' \in [Phase -> Nat]
    BY <1>7, <2>4 DEF ConcurrencyTurn, TypeOK
  <2>6. TypeOK'
    BY <1>7, <2>2, <2>3, <2>5 DEF ConcurrencyTurn, TypeOK
  <2> QED
    BY <1>7, <2>1, <2>3, <2>6 DEF ConcurrencyTurn, MainPlaced
<1>8. CASE StrategyEnds
  BY <1>8 DEF StrategyEnds, TypeOK, MainPlaced
<1>9. CASE Stop
  <2>0. strat' \in {"none", "running", "woken", "cancelling", "done"}
    BY <1>9, CancelledType DEF Stop, StopEffects
  <2>1. TypeOK'
    BY ZenonT(60), <1>9, <2>0 DEF Stop, StopEffects, TypeOK
  <2>2. ~timer'
    BY <1>9 DEF Stop, StopEffects
  <2>3. MainPlaced'
    BY <1>9, <2>2, CancelledType DEF Stop, StopEffects, MainPlaced
  <2>4. QED
    BY <2>1, <2>3
<1>10. ASSUME NEW p \in Phase, Elapse(p)
       PROVE  TypeOK' /\ MainPlaced'
  BY <1>10 DEF Elapse, TypeOK, MainPlaced
<1>11. CASE CapFires
  <2>0. strat' \in {"none", "running", "woken", "cancelling", "done"}
    BY <1>11, CancelledType DEF CapFires, TypeOK
  <2>1. TypeOK'
    <3>1. phaseStopped' \in BOOLEAN /\ capTimer' \in BOOLEAN
      BY <1>11 DEF CapFires, TypeOK
    <3>2. UNCHANGED <<mainVars, control, stratError, pend, sem, issuerVars,
                 stopRequested, drainEvent, fatal, recv, guardVars, elapsed,
                 events>>
      BY <1>11 DEF CapFires
    <3> QED
      BY <2>0, <3>1, <3>2 DEF TypeOK
  <2>3. MainPlaced'
    BY <1>11, CancelledType DEF CapFires, MainPlaced
  <2>4. QED
    BY <2>1, <2>3
<1>12. CASE IdleFires
  <2>1. strat' \in {"none", "running", "woken", "cancelling", "done"}
        /\ (strat' = "none" <=> strat = "none")
    BY <1>12, CancelledType DEF IdleFires, StopEffects, TypeOK
  <2>2. fatal' \in {"none", "idle", "receiver"}
    BY <1>12 DEF IdleFires, TypeOK
  <2>3. /\ timer' \in BOOLEAN /\ progressed' \in BOOLEAN
        /\ stopRequested' \in BOOLEAN /\ drainEvent' \in BOOLEAN
    BY <1>12 DEF IdleFires, StopEffects, TypeOK
  <2>4. TypeOK'
    BY <1>12, <2>1, <2>2, <2>3 DEF IdleFires, TypeOK
  <2>5. phase \in Phase /\ UNCHANGED <<pc, phase, recv>>
    BY <1>12 DEF IdleFires, MainPlaced
  <2> QED
    BY <2>1, <2>4, <2>5 DEF MainPlaced
<1>13. ASSUME NEW q \in Query, NEW error \in BOOLEAN, ReceiveResult(q, error)
       PROVE  TypeOK' /\ MainPlaced'
  <2>1. phase \in Phase
    BY <1>13 DEF ReceiveResult, receiving, done, MainPlaced
  <2>2. /\ timer' \in BOOLEAN /\ drainEvent' \in BOOLEAN
        /\ progressed' \in BOOLEAN
    BY <1>13 DEF ReceiveResult, TypeOK
  <2>3. TypeOK'
    <3>1. HandleResult(q, error)
      BY <1>13 DEF ReceiveResult
    <3>2. UNCHANGED <<mainVars, control, strat, stratError, pend,
                      stopRequested, phaseStopped, fatal, recv, clockVars>>
      BY <1>13 DEF ReceiveResult
    <3>3. /\ uuids' = uuids /\ issuedCount' = issuedCount
          /\ inflight' \in [Phase -> Nat] /\ sem' \in [Phase -> Nat]
          /\ wire' \in SUBSET Query
          /\ events' \in Seq(Event)
      BY <2>1, <3>1, HandleResultType
    <3> QED
      BY <2>2, <3>2, <3>3 DEF TypeOK
  <2> QED
    BY <1>13, <2>1, <2>3 DEF ReceiveResult, MainPlaced
<1>14. CASE TransportCloses
  BY <1>14, CancelledType DEF TransportCloses, TypeOK, MainPlaced
<1>15. CASE ReceiverRaises
  <2>1. strat' \in {"none", "woken", "cancelling", "done"}
        /\ (strat' = "none" <=> strat = "none")
    BY <1>15, CancelledType DEF ReceiverRaises, StopEffects
  <2>2. fatal' \in {"none", "idle", "receiver"}
    BY <1>15 DEF ReceiverRaises, TypeOK
  <2>3. phase \in Phase /\ UNCHANGED <<pc, phase>> /\ recv' = "done"
    BY <1>15 DEF ReceiverRaises, receiving, done, MainPlaced
  <2>4. /\ UNCHANGED <<uuids, issuedCount>>
        /\ inflight' \in [Phase -> Nat] /\ sem' \in [Phase -> Nat]
        /\ wire' \in SUBSET Query /\ events' \in Seq(Event)
    <3>1. CASE UNCHANGED <<issuerVars, sem, events>>
      BY <3>1 DEF TypeOK
    <3>2. ASSUME NEW q \in wire \cap uuids[phase], NEW error \in BOOLEAN,
                 HandleResult(q, error)
          PROVE  /\ UNCHANGED <<uuids, issuedCount>>
                 /\ inflight' \in [Phase -> Nat] /\ sem' \in [Phase -> Nat]
                 /\ wire' \in SUBSET Query /\ events' \in Seq(Event)
      <4>1. q \in Query
        BY DEF TypeOK
      <4> QED
        BY <2>3, <3>2, <4>1, HandleResultType
    <3> QED
      BY <1>15, <3>1, <3>2 DEF ReceiverRaises
  <2>5. TypeOK'
    BY ZenonT(60), <1>15, <2>1, <2>2, <2>4 DEF ReceiverRaises, StopEffects, TypeOK
  <2> QED
    BY <2>1, <2>3, <2>5 DEF MainPlaced
<1>16. CASE UNCHANGED vars
  BY <1>16 DEF vars, TypeOK, MainPlaced
<1> QED
  BY <1>1, <1>2, <1>3, <1>4, <1>5, <1>6, <1>7, <1>8, <1>9, <1>10, <1>11,
     <1>12, <1>13, <1>14, <1>15, <1>16 DEF Next, Main, Terminated

\* Init is typed and consistently placed.
LEMMA TypeInit ==
  ASSUME Init
  PROVE  TypeOK /\ MainPlaced
<1>1. /\ pend \in [Phase -> BOOLEAN] /\ elapsed \in [Phase -> BOOLEAN]
      /\ uuids \in [Phase -> SUBSET Query]
      /\ issuedCount \in [Phase -> Nat] /\ inflight \in [Phase -> Nat]
  BY DEF Init
<1>2. sem \in [Phase -> Nat]
  BY PhasesAssumption DEF Init
<1>3. events \in Seq(Event)
  BY DEF Init
<1>4. phase \in 0..NumPhases
  BY PhasesAssumption DEF Init
<1> QED
  BY <1>1, <1>2, <1>3, <1>4 DEF Init, TypeOK, MainPlaced

\* TypeOK is an invariant: every attribute of BenchmarkSession and of its
\* phase issuers keeps its domain, and inflight and the semaphore never go
\* below zero, for every phase list and every set of queries.
THEOREM TypeCorrect == Spec => []TypeOK
<1>1. Init => TypeOK /\ MainPlaced
  BY TypeInit
<1>2. TypeOK /\ MainPlaced /\ [Next]_vars => TypeOK' /\ MainPlaced'
  BY TypeStep
<1> QED
  BY <1>1, <1>2, PTL DEF Spec

-----------------------------------------------------------------------------
(***************************************************************************)
(* The inductive invariant                                                 *)
(***************************************************************************)

\* A step that leaves the issuers, the wire, the callbacks and the semaphores
\* alone keeps the conjuncts that speak of nothing else.
LEMMA QuietStep ==
  ASSUME IInv, UNCHANGED <<issuerVars, phase, pend, sem>>
  PROVE  /\ Ownership' /\ FutureUntouched' /\ InflightIsExact'
         /\ DrainedPhasesStayDrained' /\ ConcurrencyBounded'
<1> USE DEF issuerVars
<1>1. Ownership'
  BY DEF IInv, Ownership
<1>2. FutureUntouched'
  BY DEF IInv, FutureUntouched
<1>3. InflightIsExact'
  BY DEF IInv, InflightIsExact
<1>4. DrainedPhasesStayDrained'
  BY DEF IInv, DrainedPhasesStayDrained
<1>5. ConcurrencyBounded'
  BY DEF IInv, ConcurrencyBounded
<1> QED
  BY <1>1, <1>2, <1>3, <1>4, <1>5

\* The queries a phase waits for are finitely many.
LEMMA OutstandingFinite ==
  ASSUME TypeOK, NEW p \in Phase
  PROVE  IsFiniteSet(wire \cap uuids[p])
<1>1. wire \cap uuids[p] \subseteq Query
  BY DEF TypeOK
<1> QED
  BY <1>1, EnvironmentAssumption, FS_Subset

\* inflight is 0 exactly when nothing of the current phase is outstanding.
LEMMA ZeroInflight ==
  ASSUME TypeOK, InflightIsExact, phase \in Phase
  PROVE  inflight[phase] = 0 <=> wire \cap uuids[phase] = {}
<1>1. phase > 0
  BY PhasesAssumption DEF Phase
<1>2. inflight[phase] = Cardinality(wire \cap uuids[phase])
  BY <1>1 DEF InflightIsExact
<1> QED
  BY <1>2, OutstandingFinite, FS_EmptySet

\* A fresh uuid is in no issuer and not on the wire.
LEMMA FreshIsNew ==
  ASSUME Ownership, NEW q \in Fresh
  PROVE  q \in Query /\ q \notin wire /\ \A p \in Phase : q \notin uuids[p]
  BY DEF Fresh, Ownership

\* A callback that gets past stop_check belongs to the current phase and its
\* strategy still runs: one left behind by an earlier phase never issues.
LEMMA CallbackIssuesForCurrent ==
  ASSUME TypeOK, IInv, NEW p \in Phase, pend[p], ~StopCheck(p)
  PROVE  p = phase /\ strat = "running"
<1>1. ~(p > phase)
  BY DEF IInv, FutureUntouched
<1>2. ~(p < phase \/ strat # "running")
  BY DEF IInv, StaleCallbacksMuted, StopCheck
<1>3. p \in Nat /\ phase \in Nat
  BY PhasesAssumption DEF TypeOK, Phase
<1> QED
  BY <1>1, <1>2, <1>3

\* issue() for the current phase, sent or failed, keeps the accounting.
LEMMA IssueKeeps ==
  ASSUME TypeOK, IInv, phase \in Phase, NEW q \in Fresh,
         IssueSends(phase, q) \/ IssueRaises(phase, q), phase' = phase
  PROVE  /\ Ownership' /\ InflightIsExact' /\ DrainedPhasesStayDrained'
         /\ \A p \in Phase \ {phase} : uuids'[p] = uuids[p]
                                       /\ inflight'[p] = inflight[p]
<1> DEFINE S == wire \cap uuids[phase]
<1>1. q \in Query /\ q \notin wire /\ \A p \in Phase : q \notin uuids[p]
  BY FreshIsNew DEF IInv
<1>2. uuids' = [uuids EXCEPT ![phase] = @ \cup {q}]
  BY DEF IssueSends, IssueRaises
<1>3. wire' \subseteq wire \cup {q}
  BY DEF IssueSends, IssueRaises
<1>4. \A p \in Phase \ {phase} : uuids'[p] = uuids[p]
                                 /\ inflight'[p] = inflight[p]
  BY <1>2 DEF IssueSends, IssueRaises, TypeOK
<1>5. uuids'[phase] = uuids[phase] \cup {q}
  BY <1>2 DEF TypeOK
<1>6. Ownership'
  <2>1. \A p, r \in Phase : p # r => uuids'[p] \cap uuids'[r] = {}
    <3>1. \A p, r \in Phase : p # r => uuids[p] \cap uuids[r] = {}
      BY DEF IInv, Ownership
    <3> QED
      BY <1>1, <1>4, <1>5, <3>1
  <2>2. \A x \in wire' : \E p \in Phase : x \in uuids'[p]
    <3>1. \A x \in wire : \E p \in Phase : x \in uuids[p]
      BY DEF IInv, Ownership
    <3> QED
      BY <1>3, <1>4, <1>5, <3>1
  <2> QED
    BY <2>1, <2>2 DEF Ownership
<1>7. InflightIsExact'
  <2>1. phase > 0
    BY PhasesAssumption DEF Phase
  <2>2. inflight[phase] = Cardinality(S) /\ IsFiniteSet(S)
    BY <2>1, OutstandingFinite DEF IInv, InflightIsExact
  <2>3. CASE IssueSends(phase, q)
    <3>1. wire' \cap uuids'[phase] = S \cup {q}
      BY <1>1, <1>5, <2>3 DEF IssueSends
    <3>2. q \notin S
      BY <1>1
    <3>3. Cardinality(S \cup {q}) = Cardinality(S) + 1
      BY <2>2, <3>2, FS_AddElement
    <3>4. inflight'[phase] = inflight[phase] + 1
      BY <2>3 DEF IssueSends, TypeOK
    <3> QED
      BY <2>2, <3>1, <3>3, <3>4 DEF InflightIsExact
  <2>4. CASE IssueRaises(phase, q)
    <3>1. wire' \cap uuids'[phase] = S
      BY <1>1, <1>5, <2>4 DEF IssueRaises
    <3>2. inflight'[phase] = inflight[phase]
      BY <2>4 DEF IssueRaises
    <3> QED
      BY <2>2, <3>1, <3>2 DEF InflightIsExact
  <2> QED
    BY <2>3, <2>4
<1>8. DrainedPhasesStayDrained'
  <2>1. \A p \in Phase : p < phase => p # phase
    BY PhasesAssumption DEF Phase
  <2>2. \A p \in Phase : p < phase /\ DrainAfter[p] => wire \cap uuids[p] = {}
    BY DEF IInv, DrainedPhasesStayDrained
  <2> QED
    BY <1>1, <1>3, <1>4, <2>1, <2>2 DEF DrainedPhasesStayDrained
<1> QED
  BY <1>4, <1>6, <1>7, <1>8

\* _handle_response of a query on the wire keeps the accounting: the count
\* of the current phase drops exactly for its own queries.
LEMMA ResultKeeps ==
  ASSUME TypeOK, IInv, phase \in Phase, NEW q \in wire, NEW error \in BOOLEAN,
         HandleResult(q, error), UNCHANGED <<phase, pend>>
  PROVE  /\ Ownership' /\ FutureUntouched' /\ InflightIsExact'
         /\ DrainedPhasesStayDrained' /\ ConcurrencyBounded'
         /\ q \in uuids[phase] => inflight[phase] > 0
                                  /\ inflight'[phase] = inflight[phase] - 1
         /\ q \notin uuids[phase] => inflight'[phase] = inflight[phase]
<1> DEFINE S == wire \cap uuids[phase]
<1>1. wire' = wire \ {q} /\ uuids' = uuids /\ inflight' = Decremented(q)
      /\ sem' = Released(q)
  BY DEF HandleResult
<1>2. phase > 0
  BY PhasesAssumption DEF Phase
<1>3. inflight[phase] = Cardinality(S) /\ IsFiniteSet(S)
  BY <1>2, OutstandingFinite DEF IInv, InflightIsExact
<1>4. inflight[phase] \in Nat
  BY DEF TypeOK
<1>5. q \in uuids[phase] => inflight[phase] > 0
  BY <1>3, <1>4, ZeroInflight DEF IInv
<1>6. q \in uuids[phase] => inflight' = [inflight EXCEPT ![phase] = @ - 1]
  BY <1>1, <1>5 DEF Decremented
<1>7. q \notin uuids[phase] => inflight' = inflight
  BY <1>1 DEF Decremented
<1>8. q \in uuids[phase] => inflight'[phase] = inflight[phase] - 1
  BY <1>6 DEF TypeOK
<1>9. \A p \in Phase \ {phase} : inflight'[p] = inflight[p]
  BY <1>6, <1>7 DEF TypeOK
<1>10. Ownership'
  BY <1>1 DEF IInv, Ownership
<1>11. FutureUntouched'
  <2>1. \A p \in Phase : p > phase => p # phase
    BY PhasesAssumption DEF Phase
  <2> QED
    BY <1>1, <1>9, <2>1 DEF IInv, FutureUntouched
<1>12. InflightIsExact'
  <2>1. CASE q \in uuids[phase]
    <3>1. wire' \cap uuids'[phase] = S \ {q} /\ q \in S
      BY <1>1, <2>1
    <3>2. Cardinality(S \ {q}) = Cardinality(S) - 1
      BY <1>3, <3>1, FS_RemoveElement
    <3> QED
      BY <1>3, <1>8, <2>1, <3>1, <3>2 DEF InflightIsExact
  <2>2. CASE q \notin uuids[phase]
    <3>1. wire' \cap uuids'[phase] = S
      BY <1>1, <2>2
    <3> QED
      BY <1>3, <1>7, <2>2, <3>1 DEF InflightIsExact
  <2> QED
    BY <2>1, <2>2
<1>13. DrainedPhasesStayDrained'
  BY <1>1 DEF IInv, DrainedPhasesStayDrained
<1>14. ConcurrencyBounded'
  <2> SUFFICES ASSUME NEW p \in Phase, Strategy[p] = "concurrency"
               PROVE  inflight'[p] + sem'[p] <= Target[p]
    BY DEF ConcurrencyBounded
  <2>1. inflight[p] + sem[p] <= Target[p]
    BY DEF IInv, ConcurrencyBounded
  <2>2. inflight[p] \in Nat /\ sem[p] \in Nat /\ Target[p] \in Nat
    BY PhasesAssumption DEF TypeOK
  <2>3. CASE p = phase /\ q \in uuids[phase]
    <3>1. sem'[p] = sem[p] + 1
      BY <1>1, <2>3 DEF Released, TypeOK
    <3> QED
      BY <1>8, <2>1, <2>2, <2>3, <3>1
  <2>4. CASE ~(p = phase /\ q \in uuids[phase])
    <3>1. sem'[p] = sem[p]
      BY <1>1, <2>4 DEF Released, TypeOK
    <3> QED
      BY <1>7, <1>9, <2>1, <2>4, <3>1
  <2> QED
    BY <2>3, <2>4
<1> QED
  BY <1>5, <1>7, <1>8, <1>10, <1>11, <1>12, <1>13, <1>14

\* Leaving the phase loop keeps the invariant.
LEMMA FinallyKeeps ==
  ASSUME IInv, NEW ev, NEW stopped, NEW ex, EnterFinally(ev, stopped, ex),
         strat # "running", stopRequested => stopRequested',
         UNCHANGED issuerVars, MainPlaced'
  PROVE  IInv'
<1>1. UNCHANGED <<issuerVars, phase, pend, sem, elapsed>>
  BY DEF EnterFinally
<1>2. pc' \in {"closing", "ended"}
  BY DEF EnterFinally
<1>3. StaleCallbacksMuted'
  BY <1>1 DEF IInv, StaleCallbacksMuted
<1>4. DrainEventMeansDrained' /\ GuardArmedWhileInFlight'
  BY <1>2 DEF DrainEventMeansDrained, GuardArmedWhileInFlight, done
<1> QED
  BY <1>1, <1>3, <1>4, QuietStep DEF IInv

\* Starting phase p after everything before it is settled keeps the
\* invariant.
LEMMA BeginKeeps ==
  ASSUME TypeOK, IInv, NEW p \in Phase, p = phase + 1, NEW ev,
         BeginPhase(p, ev), strat # "running",
         UNCHANGED <<issuerVars, stopRequested>>, MainPlaced',
         phase \in Phase /\ DrainAfter[phase] => wire \cap uuids[phase] = {}
  PROVE  IInv'
<1>1. /\ phase' = p /\ pc' = "strategy" /\ strat' = "running"
      /\ pend' = [pend EXCEPT ![p] = Strategy[p] # "concurrency"]
      /\ UNCHANGED <<uuids, inflight, wire, sem, elapsed, stopRequested>>
  BY DEF BeginPhase, issuerVars
<1>2. ~timer'
  BY DEF BeginPhase
<1>3. phase \in Nat /\ p > 0 /\ p > phase
  BY PhasesAssumption DEF TypeOK, Phase
<1>4. uuids[p] = {} /\ inflight[p] = 0
  BY <1>3 DEF IInv, FutureUntouched
<1>5. \A r \in Phase : r # p => pend'[r] = pend[r]
  BY <1>1 DEF TypeOK
<1>6. pend'[p] => Strategy[p] # "concurrency"
  BY <1>1 DEF TypeOK
<1>7. \A r \in Phase : /\ r > p => r > phase /\ r # p
                       /\ r < p => r # p /\ (r < phase \/ r = phase)
  BY <1>3 DEF Phase
<1>8. Ownership'
  BY <1>1 DEF IInv, Ownership
<1>9. FutureUntouched'
  BY <1>1, <1>5, <1>7 DEF IInv, FutureUntouched
<1>10. StaleCallbacksMuted'
  <2> SUFFICES ASSUME NEW r \in Phase, pend'[r]
               PROVE  /\ Strategy[r] # "concurrency"
                      /\ r < p => stopRequested \/ elapsed[r]
    BY <1>1 DEF StaleCallbacksMuted
  <2>1. CASE r = p
    BY <1>3, <1>6, <2>1
  <2>2. CASE r # p
    BY <1>5, <2>2 DEF IInv, StaleCallbacksMuted
  <2> QED
    BY <2>1, <2>2
<1>11. DrainEventMeansDrained'
  BY <1>1 DEF DrainEventMeansDrained
<1>12. InflightIsExact'
  <2>1. wire' \cap uuids'[phase'] = {}
    BY <1>1, <1>4
  <2> QED
    BY <1>1, <1>4, <2>1, FS_EmptySet DEF InflightIsExact
<1>13. DrainedPhasesStayDrained'
  BY <1>1, <1>7 DEF IInv, DrainedPhasesStayDrained
<1>14. GuardArmedWhileInFlight'
  BY <1>1, <1>2, <1>4 DEF GuardArmedWhileInFlight
<1>15. ConcurrencyBounded'
  BY <1>1 DEF IInv, ConcurrencyBounded
<1> QED
  BY <1>8, <1>9, <1>10, <1>11, <1>12, <1>13, <1>14, <1>15 DEF IInv

\* The end of a phase keeps the invariant: the session advances only with
\* the phase drained and no stop requested.
LEMMA AfterPhaseKeeps ==
  ASSUME TypeOK, IInv, phase \in Phase, strat # "running",
         NEW stopped \in BOOLEAN, AfterPhase(stopped),
         stopRequested => stopRequested', ~stopped => stopRequested' = stopRequested,
         UNCHANGED issuerVars, MainPlaced',
         ~stopped /\ DrainAfter[phase] => inflight[phase] = 0
  PROVE  IInv'
<1>1. CASE fatal # "none" \/ stopped \/ phase = NumPhases
  <2>1. PICK ev : EnterFinally(ev, stopped, fatal # "none")
    BY <1>1 DEF AfterPhase
  <2> QED
    BY <2>1, FinallyKeeps
<1>2. CASE ~(fatal # "none" \/ stopped \/ phase = NumPhases)
  <2>1. PICK ev : BeginPhase(phase + 1, ev)
    BY <1>2 DEF AfterPhase
  <2>2. phase + 1 \in Phase
    BY <1>2, PhasesAssumption DEF Phase
  <2>3. DrainAfter[phase] => wire \cap uuids[phase] = {}
    BY <1>2, ZeroInflight DEF IInv
  <2>4. UNCHANGED <<issuerVars, stopRequested>>
    BY <1>2
  <2> QED
    BY <2>1, <2>2, <2>3, <2>4, BeginKeeps
<1> QED
  BY <1>1, <1>2

\* Once a stop is requested, a step that leaves the issuers alone keeps the
\* invariant whatever it does to the tasks and timers.
LEMMA StoppedStep ==
  ASSUME IInv, stopRequested', UNCHANGED <<issuerVars, phase, pend, sem>>,
         MainPlaced'
  PROVE  IInv'
<1>1. StaleCallbacksMuted'
  BY DEF IInv, StaleCallbacksMuted
<1>2. DrainEventMeansDrained' /\ GuardArmedWhileInFlight'
  BY DEF DrainEventMeansDrained, GuardArmedWhileInFlight
<1> QED
  BY <1>1, <1>2, QuietStep DEF IInv

\* One turn of a strategy that issues keeps the invariant.
LEMMA IssuingStep ==
  ASSUME TypeOK, IInv, phase \in Phase, strat = "running", pc = "strategy",
         NEW q \in Fresh, IssueSends(phase, q) \/ IssueRaises(phase, q),
         UNCHANGED <<pc, phase, stopRequested, elapsed>>, TypeOK', MainPlaced',
         ConcurrencyBounded', \A p \in Phase : pend'[p] => pend[p],
         strat' = "running" \/ ~pend'[phase]
  PROVE  IInv'
<1>1. /\ Ownership' /\ InflightIsExact' /\ DrainedPhasesStayDrained'
      /\ \A p \in Phase \ {phase} : uuids'[p] = uuids[p]
                                    /\ inflight'[p] = inflight[p]
  BY IssueKeeps
<1>2. phase > 0 /\ \A p \in Phase : p > phase \/ p < phase => p # phase
  BY PhasesAssumption DEF Phase
<1>3. FutureUntouched'
  BY <1>1, <1>2 DEF IInv, FutureUntouched
<1>4. StaleCallbacksMuted'
  <2> SUFFICES ASSUME NEW p \in Phase, pend'[p]
               PROVE  /\ Strategy[p] # "concurrency"
                      /\ p < phase \/ strat' # "running"
                           => stopRequested \/ elapsed[p]
    BY DEF StaleCallbacksMuted
  <2>1. pend[p]
    OBVIOUS
  <2>2. Strategy[p] # "concurrency" /\ (p < phase => stopRequested \/ elapsed[p])
    BY <2>1 DEF IInv, StaleCallbacksMuted
  <2>3. p < phase \/ p = phase
    <3>1. ~(p > phase)
      BY <2>1 DEF IInv, FutureUntouched
    <3> QED
      BY <3>1, PhasesAssumption DEF Phase
  <2> QED
    BY <2>2, <2>3
<1>5. DrainEventMeansDrained'
  BY DEF DrainEventMeansDrained
<1>6. GuardArmedWhileInFlight'
  <2> SUFFICES ASSUME IdleTimeout, ~stopRequested
               PROVE  timer' <=> inflight'[phase] > 0
    BY DEF GuardArmedWhileInFlight
  <2>1. timer <=> inflight[phase] > 0
    BY <1>2 DEF IInv, GuardArmedWhileInFlight, done
  <2>2. inflight[phase] \in Nat
    BY DEF TypeOK
  <2>3. CASE IssueSends(phase, q)
    <3>1. inflight'[phase] = inflight[phase] + 1
      BY <2>3 DEF IssueSends, TypeOK
    <3>2. CASE inflight[phase] = 0
      <4>1. timer'
        BY <2>3, <3>2 DEF IssueSends, GuardAfterIssue
      <4> QED
        BY <3>1, <3>2, <4>1
    <3>3. CASE inflight[phase] # 0
      <4>1. timer' = timer
        BY <2>3, <3>3 DEF IssueSends, GuardAfterIssue, guardVars
      <4> QED
        BY <2>1, <2>2, <3>1, <3>3, <4>1
    <3> QED
      BY <3>2, <3>3
  <2>4. CASE IssueRaises(phase, q)
    BY <2>1, <2>4 DEF IssueRaises, guardVars
  <2> QED
    BY <2>3, <2>4
<1> QED
  BY <1>1, <1>3, <1>4, <1>5, <1>6 DEF IInv

\* The invariant is inductive, given the types.
LEMMA InvariantStep ==
  ASSUME TypeOK, IInv, [Next]_vars
  PROVE  IInv'
<1> USE DEF mainVars, stratVars, issuerVars, stopVars, guardVars, clockVars
<1>0. TypeOK' /\ MainPlaced'
  BY TypeStep DEF IInv
<1>1. CASE Run
  <2>1. strat # "running" /\ phase = 0
    BY <1>1 DEF Run, IInv, MainPlaced
  <2>2. CASE stopRequested \/ NumPhases = 0
    <3>1. UNCHANGED <<issuerVars, phase, pend, sem, elapsed, strat,
                      stopRequested>> /\ pc' = "closing"
      BY <1>1, <2>2 DEF Run
    <3>2. StaleCallbacksMuted'
      BY <3>1 DEF IInv, StaleCallbacksMuted
    <3>3. DrainEventMeansDrained' /\ GuardArmedWhileInFlight'
      BY <3>1 DEF DrainEventMeansDrained, GuardArmedWhileInFlight, done
    <3> QED
      BY <1>0, <3>1, <3>2, <3>3, QuietStep DEF IInv
  <2>3. CASE ~(stopRequested \/ NumPhases = 0)
    <3>1. PICK ev : BeginPhase(1, ev)
      BY <1>1, <2>3 DEF Run
    <3>2. 1 \in Phase /\ phase \notin Phase /\ 1 = phase + 1
      BY <2>1, <2>3, PhasesAssumption DEF Phase
    <3>3. UNCHANGED <<issuerVars, stopRequested>>
      BY <1>1 DEF Run
    <3> QED
      BY <1>0, <2>1, <3>1, <3>2, <3>3, BeginKeeps
  <2> QED
    BY <2>2, <2>3
<1>2. CASE StrategyAwaited
  <2>1. /\ phase \in Phase /\ strat # "running"
        /\ stopRequested \in BOOLEAN
        /\ UNCHANGED <<issuerVars, stopRequested>>
    BY <1>2 DEF StrategyAwaited, IInv, MainPlaced, TypeOK
  <2>2. CASE EnterFinally(events, stopRequested, TRUE)
    BY <1>0, <2>1, <2>2, FinallyKeeps
  <2>3. CASE /\ pc' = "drain" /\ drainEvent' = FALSE /\ strat' = "none"
             /\ UNCHANGED <<phase, raised, control, stratError, pend, sem,
                            phaseStopped, guardVars, clockVars, events>>
    <3>1. StaleCallbacksMuted'
      BY <2>1, <2>3 DEF IInv, StaleCallbacksMuted
    <3>2. ~drainEvent'
      BY <2>3
    <3>3. DrainEventMeansDrained'
      BY <3>2 DEF DrainEventMeansDrained
    <3>4. GuardArmedWhileInFlight'
      BY <1>2, <2>1, <2>3 DEF StrategyAwaited, IInv, GuardArmedWhileInFlight, done
    <3> QED
      BY <1>0, <2>1, <2>3, <3>1, <3>3, <3>4, QuietStep DEF IInv
  <2>4. CASE ~MustDrain /\ AfterPhase(stopRequested)
    <3>1. ~stopRequested /\ DrainAfter[phase] => inflight[phase] = 0
      BY <2>1, <2>4 DEF MustDrain, TypeOK
    <3> QED
      BY <1>0, <2>1, <2>4, <3>1, AfterPhaseKeeps
  <2> QED
    BY <1>2, <2>2, <2>3, <2>4 DEF StrategyAwaited
<1>3. CASE DrainCompletes
  <2>1. /\ phase \in Phase /\ strat # "running"
        /\ stopRequested \in BOOLEAN /\ AfterPhase(stopRequested)
        /\ UNCHANGED <<issuerVars, stopRequested>>
    BY <1>3 DEF DrainCompletes, IInv, MainPlaced, TypeOK
  <2>2. ~stopRequested => inflight[phase] = 0
    BY <1>3 DEF DrainCompletes, IInv, DrainEventMeansDrained
  <2> QED
    BY <1>0, <2>1, <2>2, AfterPhaseKeeps
<1>4. CASE DrainTimesOut
  <2>1. /\ phase \in Phase /\ strat # "running"
        /\ AfterPhase(TRUE) /\ UNCHANGED issuerVars
    BY <1>4 DEF DrainTimesOut, IInv, MainPlaced
  <2>2. stopRequested'
    BY <1>4 DEF DrainTimesOut
  <2> QED
    BY <1>0, <2>1, <2>2, AfterPhaseKeeps
<1>5. CASE Close
  <2>1. UNCHANGED <<issuerVars, phase, pend, sem, elapsed, strat,
                    stopRequested>> /\ pc' = "ended"
    BY <1>5 DEF Close
  <2>2. StaleCallbacksMuted'
    BY <2>1 DEF IInv, StaleCallbacksMuted
  <2>3. DrainEventMeansDrained' /\ GuardArmedWhileInFlight'
    BY <2>1 DEF DrainEventMeansDrained, GuardArmedWhileInFlight, done
  <2> QED
    BY <1>0, <2>1, <2>2, <2>3, QuietStep DEF IInv
<1>6. ASSUME NEW p \in Phase, FireCallback(p)
      PROVE  IInv'
  <2>1. /\ pend[p] /\ phase \in Phase
        /\ UNCHANGED <<pc, phase, sem, elapsed, stopRequested, drainEvent>>
    BY <1>6 DEF FireCallback, IInv, MainPlaced
  <2>2. \A r \in Phase : r # p => pend'[r] = pend[r]
    BY <1>6 DEF FireCallback, TypeOK
  <2>3. CASE /\ StopCheck(p)
             /\ pend' = [pend EXCEPT ![p] = FALSE] /\ SetDone(p, FALSE)
             /\ UNCHANGED <<issuerVars, guardVars, events>>
    <3>1. ~pend'[p]
      BY <2>3 DEF TypeOK
    <3>2. /\ p # phase => strat' = strat
          /\ strat' = strat \/ strat' = "woken"
      BY <2>3 DEF SetDone
    <3>3. Ownership' /\ InflightIsExact' /\ DrainedPhasesStayDrained'
          /\ ConcurrencyBounded'
      BY <2>1, <2>3 DEF IInv, Ownership, InflightIsExact,
                        DrainedPhasesStayDrained, ConcurrencyBounded
    <3>4. FutureUntouched'
      BY <2>1, <2>2, <2>3, <3>1 DEF IInv, FutureUntouched
    <3>5. StaleCallbacksMuted'
      <4> SUFFICES ASSUME NEW r \in Phase, pend'[r]
                   PROVE  /\ Strategy[r] # "concurrency"
                          /\ r < phase \/ strat' # "running"
                               => stopRequested \/ elapsed[r]
        BY <2>1 DEF StaleCallbacksMuted
      <4>1. r # p /\ pend[r]
        BY <2>2, <3>1
      <4>2. /\ Strategy[r] # "concurrency"
            /\ r < phase \/ strat # "running" => stopRequested \/ elapsed[r]
        BY <4>1 DEF IInv, StaleCallbacksMuted
      <4>3. r < phase \/ r = phase
        <5>1. ~(r > phase)
          BY <4>1 DEF IInv, FutureUntouched
        <5> QED
          BY <2>1, <5>1, PhasesAssumption DEF Phase
      <4> QED
        BY <3>2, <4>1, <4>2, <4>3
    <3>6. DrainEventMeansDrained' /\ GuardArmedWhileInFlight'
      BY <2>1, <2>3 DEF IInv, DrainEventMeansDrained,
                        GuardArmedWhileInFlight, done
    <3> QED
      BY <1>0, <3>3, <3>4, <3>5, <3>6 DEF IInv
  <2>4. ASSUME ~StopCheck(p), NEW q \in Fresh,
               IssueSends(p, q) \/ IssueRaises(p, q),
               strat' = strat \/ ~pend'[p],
               \A r \in Phase : pend'[r] => pend[r]
        PROVE  IInv'
    <3>1. p = phase /\ strat = "running"
      BY <2>1, <2>4, CallbackIssuesForCurrent
    <3>2. pc = "strategy"
      BY <3>1 DEF IInv, MainPlaced
    <3>3. ConcurrencyBounded'
      <4>1. Strategy[p] # "concurrency"
        BY <2>1 DEF IInv, StaleCallbacksMuted
      <4>2. \A r \in Phase \ {p} : inflight'[r] = inflight[r]
        BY <2>4 DEF IssueSends, IssueRaises, TypeOK
      <4> QED
        BY <2>1, <4>1, <4>2 DEF IInv, ConcurrencyBounded
    <3> QED
      BY <1>0, <2>1, <2>4, <3>1, <3>2, <3>3, IssuingStep
  <2>5. CASE /\ ~StopCheck(p)
             /\ \E q \in Fresh : IssueSends(p, q)
             /\ UNCHANGED <<pend, strat, stratError>>
    BY <2>4, <2>5
  <2>6. CASE /\ ~StopCheck(p)
             /\ \E q \in Fresh : IssueRaises(p, q)
             /\ pend' = [pend EXCEPT ![p] = FALSE]
    <3>1. ~pend'[p]
      BY <2>6 DEF TypeOK
    <3> QED
      BY <2>2, <2>4, <2>6, <3>1
  <2> QED
    BY <1>6, <2>3, <2>5, <2>6 DEF FireCallback
<1>7. CASE ConcurrencyTurn
  <2>1. /\ phase \in Phase /\ strat = "running" /\ pc = "strategy"
        /\ Strategy[phase] = "concurrency" /\ sem[phase] > 0
        /\ UNCHANGED <<pc, phase, pend, elapsed, stopRequested, drainEvent>>
    BY <1>7 DEF ConcurrencyTurn, IInv, MainPlaced
  <2>2. ~pend[phase]
    BY <2>1 DEF IInv, StaleCallbacksMuted
  <2>3. CASE UNCHANGED <<sem, issuerVars, guardVars, events>>
    <3>1. StaleCallbacksMuted'
      <4> SUFFICES ASSUME NEW r \in Phase, pend[r]
                   PROVE  /\ Strategy[r] # "concurrency"
                          /\ stopRequested \/ elapsed[r]
        BY <2>1 DEF StaleCallbacksMuted
      <4>1. ~(r > phase) /\ r # phase
        BY <2>2 DEF IInv, FutureUntouched
      <4>2. r < phase
        BY <2>1, <4>1, PhasesAssumption DEF Phase
      <4> QED
        BY <4>2 DEF IInv, StaleCallbacksMuted
    <3>2. DrainEventMeansDrained' /\ GuardArmedWhileInFlight'
      BY <2>1, <2>3 DEF IInv, DrainEventMeansDrained,
                        GuardArmedWhileInFlight, done
    <3> QED
      BY <1>0, <2>1, <2>3, <3>1, <3>2, QuietStep DEF IInv
  <2>4. ASSUME NEW q \in Fresh,
               IssueSends(phase, q) \/ IssueRaises(phase, q),
               sem' = [sem EXCEPT ![phase] = @ - 1]
        PROVE  IInv'
    <3>1. ConcurrencyBounded'
      <4> SUFFICES ASSUME NEW p \in Phase, Strategy[p] = "concurrency"
                   PROVE  inflight'[p] + sem'[p] <= Target[p]
        BY DEF ConcurrencyBounded
      <4>1. inflight[p] + sem[p] <= Target[p]
        BY DEF IInv, ConcurrencyBounded
      <4>2. inflight[p] \in Nat /\ sem[p] \in Nat /\ Target[p] \in Nat
        BY PhasesAssumption DEF TypeOK
      <4>3. p # phase => inflight'[p] = inflight[p] /\ sem'[p] = sem[p]
        BY <2>4 DEF IssueSends, IssueRaises, TypeOK
      <4>4. p = phase => sem'[p] = sem[p] - 1
        BY <2>4 DEF TypeOK
      <4>5. p = phase => \/ inflight'[p] = inflight[p] + 1
                         \/ inflight'[p] = inflight[p]
        BY <2>4 DEF IssueSends, IssueRaises, TypeOK
      <4> QED
        BY <4>1, <4>2, <4>3, <4>4, <4>5
    <3> QED
      BY <1>0, <2>1, <2>2, <2>4, <3>1, IssuingStep
  <2> QED
    BY <1>7, <2>3, <2>4 DEF ConcurrencyTurn
<1>8. CASE StrategyEnds
  <2>1. /\ UNCHANGED <<issuerVars, pc, phase, pend, sem, elapsed,
                       stopRequested, drainEvent, timer>>
        /\ strat # "running"
    BY <1>8 DEF StrategyEnds
  <2>2. StaleCallbacksMuted'
    BY <2>1 DEF IInv, StaleCallbacksMuted
  <2>3. DrainEventMeansDrained' /\ GuardArmedWhileInFlight'
    BY <2>1 DEF IInv, DrainEventMeansDrained, GuardArmedWhileInFlight, done
  <2> QED
    BY <1>0, <2>1, <2>2, <2>3, QuietStep DEF IInv
<1>9. CASE Stop
  <2>1. stopRequested' /\ UNCHANGED <<issuerVars, phase, pend, sem>>
    BY <1>9 DEF Stop, StopEffects
  <2> QED
    BY <1>0, <2>1, StoppedStep
<1>10. ASSUME NEW p \in Phase, Elapse(p)
       PROVE  IInv'
  <2>1. UNCHANGED <<issuerVars, pc, phase, pend, sem, strat,
                    stopRequested, drainEvent, timer>>
    BY <1>10 DEF Elapse
  <2>2. \A r \in Phase : elapsed[r] => elapsed'[r]
    BY <1>10 DEF Elapse, TypeOK
  <2>3. StaleCallbacksMuted'
    BY <2>1, <2>2 DEF IInv, StaleCallbacksMuted
  <2>4. DrainEventMeansDrained' /\ GuardArmedWhileInFlight'
    BY <2>1 DEF IInv, DrainEventMeansDrained, GuardArmedWhileInFlight, done
  <2> QED
    BY <1>0, <2>1, <2>3, <2>4, QuietStep DEF IInv
<1>11. CASE CapFires
  <2>1. UNCHANGED <<issuerVars, pc, phase, pend, sem, elapsed,
                    stopRequested, drainEvent, timer>> /\ elapsed[phase]
    BY <1>11 DEF CapFires
  <2>2. StaleCallbacksMuted'
    <3> SUFFICES ASSUME NEW r \in Phase, pend[r]
                 PROVE  /\ Strategy[r] # "concurrency"
                        /\ stopRequested \/ elapsed[r]
      BY <2>1 DEF StaleCallbacksMuted
    <3>1. ~(r > phase) /\ phase \in Phase
      BY DEF IInv, FutureUntouched, MainPlaced
    <3>2. r < phase \/ r = phase
      BY <3>1, PhasesAssumption DEF Phase
    <3> QED
      BY <2>1, <3>2 DEF IInv, StaleCallbacksMuted
  <2>3. DrainEventMeansDrained' /\ GuardArmedWhileInFlight'
    BY <2>1 DEF IInv, DrainEventMeansDrained, GuardArmedWhileInFlight, done
  <2> QED
    BY <1>0, <2>1, <2>2, <2>3, QuietStep DEF IInv
<1>12. CASE IdleFires
  <2>1. UNCHANGED <<issuerVars, pc, phase, pend, sem, elapsed>>
    BY <1>12 DEF IdleFires
  <2>2. CASE /\ done \/ stopRequested \/ inflight[phase] = 0
             /\ timer' = FALSE
             /\ UNCHANGED <<progressed, stopRequested, drainEvent, fatal, strat>>
    <3>1. StaleCallbacksMuted'
      BY <2>1, <2>2 DEF IInv, StaleCallbacksMuted
    <3>2. ~timer'
      BY <2>2
    <3>3. GuardArmedWhileInFlight'
      BY <2>1, <2>2, <3>2 DEF GuardArmedWhileInFlight, done
    <3>4. DrainEventMeansDrained'
      BY <2>1, <2>2 DEF IInv, DrainEventMeansDrained
    <3> QED
      BY <1>0, <2>1, <3>1, <3>3, <3>4, QuietStep DEF IInv
  <2>3. CASE /\ inflight[phase] > 0 /\ timer' = TRUE
             /\ UNCHANGED <<stopRequested, drainEvent, fatal, strat>>
    <3>1. StaleCallbacksMuted'
      BY <2>1, <2>3 DEF IInv, StaleCallbacksMuted
    <3>2. timer'
      BY <2>3
    <3>3. GuardArmedWhileInFlight'
      BY <2>1, <2>3, <3>2 DEF GuardArmedWhileInFlight, done
    <3>4. DrainEventMeansDrained'
      BY <2>1, <2>3 DEF IInv, DrainEventMeansDrained
    <3> QED
      BY <1>0, <2>1, <3>1, <3>3, <3>4, QuietStep DEF IInv
  <2>4. CASE StopEffects
    <3>1. stopRequested'
      BY <2>4 DEF StopEffects
    <3> QED
      BY <1>0, <2>1, <3>1, StoppedStep
  <2> QED
    BY <1>12, <2>2, <2>3, <2>4 DEF IdleFires
<1>13. ASSUME NEW q \in Query, NEW error \in BOOLEAN, ReceiveResult(q, error)
       PROVE  IInv'
  <2>1. /\ phase \in Phase /\ q \in wire /\ HandleResult(q, error) /\ phase > 0
        /\ UNCHANGED <<pc, phase, pend, strat, elapsed, stopRequested>>
    BY <1>13, PhasesAssumption DEF ReceiveResult, receiving, done, IInv,
                                   MainPlaced, Phase
  <2>2. /\ Ownership' /\ FutureUntouched' /\ InflightIsExact'
        /\ DrainedPhasesStayDrained' /\ ConcurrencyBounded'
        /\ q \in uuids[phase] => inflight[phase] > 0
                                 /\ inflight'[phase] = inflight[phase] - 1
        /\ q \notin uuids[phase] => inflight'[phase] = inflight[phase]
    BY <2>1, ResultKeeps
  <2>3. StaleCallbacksMuted'
    BY <2>1 DEF IInv, StaleCallbacksMuted
  <2>4. inflight[phase] \in Nat
    BY <2>1 DEF TypeOK
  <2>5. /\ Drained(q) => inflight'[phase] = 0
        /\ ~Drained(q) => (inflight'[phase] > 0 <=> inflight[phase] > 0)
    BY <2>2, <2>4 DEF Drained
  <2>6. /\ drainEvent' <=> drainEvent \/ Drained(q)
        /\ timer' <=> timer /\ ~Drained(q)
    BY <1>13 DEF ReceiveResult
  <2>7. DrainEventMeansDrained'
    <3> SUFFICES ASSUME pc = "drain", drainEvent', ~stopRequested
                 PROVE  inflight'[phase] = 0
      BY <2>1 DEF DrainEventMeansDrained
    <3>1. CASE Drained(q)
      BY <2>5, <3>1
    <3>2. CASE ~Drained(q)
      <4>1. inflight[phase] = 0
        BY <2>6, <3>2 DEF IInv, DrainEventMeansDrained
      <4> QED
        BY <2>2, <4>1
    <3> QED
      BY <3>1, <3>2
  <2>8. GuardArmedWhileInFlight'
    <3> SUFFICES ASSUME IdleTimeout, ~done, ~stopRequested
                 PROVE  timer' <=> inflight'[phase] > 0
      BY <2>1 DEF GuardArmedWhileInFlight, done
    <3>1. timer <=> inflight[phase] > 0
      BY <2>1 DEF IInv, GuardArmedWhileInFlight
    <3> QED
      BY <2>5, <2>6, <3>1
  <2> QED
    BY <1>0, <2>2, <2>3, <2>7, <2>8 DEF IInv
<1>14. CASE TransportCloses
  <2>1. stopRequested' /\ UNCHANGED <<issuerVars, phase, pend, sem>>
    BY <1>14 DEF TransportCloses
  <2> QED
    BY <1>0, <2>1, StoppedStep
<1>15. CASE ReceiverRaises
  <2>1. stopRequested'
    BY <1>15 DEF ReceiverRaises, StopEffects
  <2>2. phase \in Phase /\ UNCHANGED <<phase, pend>>
    BY <1>15 DEF ReceiverRaises, receiving, done, IInv, MainPlaced
  <2>3. CASE UNCHANGED <<issuerVars, sem, events>>
    BY <1>0, <2>1, <2>2, <2>3, StoppedStep
  <2>4. ASSUME NEW q \in wire \cap uuids[phase], NEW error \in BOOLEAN,
               HandleResult(q, error)
        PROVE  IInv'
    <3>1. /\ Ownership' /\ FutureUntouched' /\ InflightIsExact'
          /\ DrainedPhasesStayDrained' /\ ConcurrencyBounded'
      BY <2>2, <2>4, ResultKeeps
    <3>2. StaleCallbacksMuted'
      BY <2>1, <2>2 DEF IInv, StaleCallbacksMuted
    <3>3. DrainEventMeansDrained' /\ GuardArmedWhileInFlight'
      BY <2>1 DEF DrainEventMeansDrained, GuardArmedWhileInFlight
    <3> QED
      BY <1>0, <3>1, <3>2, <3>3 DEF IInv
  <2> QED
    BY <1>15, <2>3, <2>4 DEF ReceiverRaises
<1>16. CASE UNCHANGED vars
  <2>1. UNCHANGED <<issuerVars, pc, phase, pend, sem, strat, elapsed,
                    stopRequested, drainEvent, timer>>
    BY <1>16 DEF vars
  <2>2. StaleCallbacksMuted'
    BY <2>1 DEF IInv, StaleCallbacksMuted
  <2>3. DrainEventMeansDrained' /\ GuardArmedWhileInFlight'
    BY <2>1 DEF IInv, DrainEventMeansDrained, GuardArmedWhileInFlight, done
  <2> QED
    BY <1>0, <2>1, <2>2, <2>3, QuietStep DEF IInv
<1> QED
  BY <1>1, <1>2, <1>3, <1>4, <1>5, <1>6, <1>7, <1>8, <1>9, <1>10, <1>11,
     <1>12, <1>13, <1>14, <1>15, <1>16 DEF Next, Main, Terminated

\* Initially there is nothing to account for.
LEMMA InvariantInit ==
  ASSUME Init
  PROVE  IInv
<1>1. phase = 0 /\ wire = {} /\ pc = "idle"
  BY DEF Init
<1>2. \A p \in Phase : /\ uuids[p] = {} /\ inflight[p] = 0 /\ ~pend[p]
                       /\ sem[p] = Target[p]
  BY DEF Init
<1>3. Ownership /\ FutureUntouched /\ StaleCallbacksMuted
  BY <1>1, <1>2 DEF Ownership, FutureUntouched, StaleCallbacksMuted
<1>4. DrainEventMeansDrained /\ InflightIsExact /\ GuardArmedWhileInFlight
  BY <1>1 DEF DrainEventMeansDrained, InflightIsExact, GuardArmedWhileInFlight
<1>5. DrainedPhasesStayDrained
  BY <1>1 DEF DrainedPhasesStayDrained
<1>6. ConcurrencyBounded
  BY <1>2, PhasesAssumption DEF ConcurrencyBounded
<1> QED
  BY <1>3, <1>4, <1>5, <1>6, TypeInit DEF IInv

\* The inductive invariant holds in every reachable state.
THEOREM InvariantHolds == Spec => []IInv
<1>1. Init => IInv
  BY InvariantInit
<1>2. TypeOK /\ IInv /\ [Next]_vars => IInv'
  BY InvariantStep
<1> QED
  BY <1>1, <1>2, TypeCorrect, PTL DEF Spec

-----------------------------------------------------------------------------
(***************************************************************************)
(* The safety properties                                                   *)
(***************************************************************************)

\* inflight always equals the number of unanswered queries of the current
\* phase, for every phase list, strategy mix and number of queries.
THEOREM InflightExact == Spec => []InflightIsExact
<1>1. IInv => InflightIsExact
  BY DEF IInv
<1> QED
  BY <1>1, InvariantHolds, PTL

\* No phase that had to be drained is ever left with, or later gets, an
\* unanswered query, although its callbacks may outlive it.
THEOREM PhasesStayDrained == Spec => []DrainedPhasesStayDrained
<1>1. IInv => DrainedPhasesStayDrained
  BY DEF IInv
<1> QED
  BY <1>1, InvariantHolds, PTL

\* The idle guard is armed exactly while the running phase owes an answer.
THEOREM GuardArmed == Spec => []GuardArmedWhileInFlight
<1>1. IInv => GuardArmedWhileInFlight
  BY DEF IInv
<1> QED
  BY <1>1, InvariantHolds, PTL

\* A fixed-concurrency phase never exceeds its target concurrency.
THEOREM ConcurrencyRespected == Spec => []ConcurrencyBounded
<1>1. IInv => ConcurrencyBounded
  BY DEF IInv
<1> QED
  BY <1>1, InvariantHolds, PTL

-----------------------------------------------------------------------------
(***************************************************************************)
(* The event stream.  What a subscriber relies on is a property of the     *)
(* published sequence, so the invariant is stated for a sequence e, for    *)
(* the ids u that the issuers own and the queries w that are outstanding,  *)
(* and shown to survive every append the session makes.                    *)
(***************************************************************************)

\* Positions of an event in a published stream.
Pos(e, k, q) == {i \in DOMAIN e : e[i] = Ev(k, q)}

\* The performance window a stream leaves open, and the window around one of
\* its events.
Opened(e) ==
  \E s \in Pos(e, "START_PERFORMANCE_TRACKING", None) :
    \A t \in Pos(e, "STOP_PERFORMANCE_TRACKING", None) : ~(s < t)

InWindow(e, i) ==
  \E s \in Pos(e, "START_PERFORMANCE_TRACKING", None) :
    /\ s < i
    /\ \A t \in Pos(e, "STOP_PERFORMANCE_TRACKING", None) : ~(s < t /\ t < i)

\* What a stream must look like for the owners u and the outstanding queries
\* w: events are about owned queries, an outstanding query is issued and not
\* completed, completions come once and last, and the window is right.
Owned(e, u) ==
  \A i \in DOMAIN e : e[i].id # None => \E p \in Phase : e[i].id \in u[p]

Outstanding(e, w) ==
  \A q \in w : Pos(e, "ISSUED", q) # {} /\ Pos(e, "COMPLETE", q) = {}

Ordered(e) ==
  \A q \in Query : \A c \in Pos(e, "COMPLETE", q) :
    /\ \A d \in Pos(e, "COMPLETE", q) : d = c
    /\ \E i \in Pos(e, "ISSUED", q) : i < c
    /\ \A x \in Pos(e, "ERROR", q) : x < c

Windowed(e, u) ==
  \A p \in Phase, q \in Query : \A i \in Pos(e, "ISSUED", q) :
    q \in u[p] => (InWindow(e, i) <=> PhaseType[p] = "performance")

Stream(e, u, w) ==
  /\ e \in Seq(Event)
  /\ Owned(e, u) /\ Outstanding(e, w) /\ Ordered(e) /\ Windowed(e, u)

Unfinished(e) ==
  \A i \in DOMAIN e : e[i].kind \notin {"INTERRUPTED", "ENDED"}

\* How the stream and run() keep in step.
InStep ==
  /\ pc = "idle" <=> events = <<>>
  /\ pc \in {"strategy", "drain"} =>
       (Opened(events) <=> PhaseType[phase] = "performance")
  /\ pc # "ended" => Unfinished(events)
  /\ AbortMarkedBeforeEnded
  /\ fatal # "none" => stopRequested /\ phase \in Phase
  /\ done /\ fatal # "none" => raised

StreamInv == Stream(events, uuids, wire) /\ InStep

\* An event is determined by its kind and its query.
LEMMA EventsDiffer ==
  ASSUME NEW k, NEW q, NEW l, NEW r
  PROVE  /\ Ev(k, q) = Ev(l, r) <=> k = l /\ q = r
         /\ Ev(k, q).kind = k /\ Ev(k, q).id = q
  BY DEF Ev

\* Where an event sits after one more event was published.
LEMMA PosAppend ==
  ASSUME NEW e \in Seq(Event), NEW x \in Event, NEW k, NEW q
  PROVE  /\ Len(e) \in Nat /\ DOMAIN e = 1..Len(e)
         /\ DOMAIN Append(e, x) = 1..(Len(e) + 1)
         /\ \A i \in DOMAIN e : Append(e, x)[i] = e[i]
         /\ Append(e, x)[Len(e) + 1] = x
         /\ Pos(e, k, q) \subseteq 1..Len(e)
         /\ x # Ev(k, q) => Pos(Append(e, x), k, q) = Pos(e, k, q)
         /\ x = Ev(k, q) => Pos(Append(e, x), k, q) = Pos(e, k, q) \cup {Len(e) + 1}
<1>1. /\ Len(e) \in Nat /\ DOMAIN e = 1..Len(e)
      /\ DOMAIN Append(e, x) = 1..(Len(e) + 1)
      /\ \A i \in DOMAIN e : Append(e, x)[i] = e[i]
      /\ Append(e, x)[Len(e) + 1] = x
  OBVIOUS
<1>2. Pos(e, k, q) \subseteq 1..Len(e)
  BY <1>1 DEF Pos
<1> DEFINE f == Append(e, x)
<1>3. /\ DOMAIN f = 1..(Len(e) + 1) /\ f[Len(e) + 1] = x
      /\ \A i \in 1..Len(e) : f[i] = e[i]
  BY <1>1
<1> HIDE DEF f
<1>4. \A i \in 1..(Len(e) + 1) : i = Len(e) + 1 \/ i \in 1..Len(e)
  BY <1>1
<1>5. \A i \in 1..Len(e) : i \in 1..(Len(e) + 1)
  BY <1>1
<1>6. ASSUME x # Ev(k, q)
      PROVE  Pos(f, k, q) = Pos(e, k, q)
  BY <1>1, <1>3, <1>4, <1>5, <1>6 DEF Pos
<1>7. ASSUME x = Ev(k, q)
      PROVE  Pos(f, k, q) = Pos(e, k, q) \cup {Len(e) + 1}
  BY <1>1, <1>3, <1>4, <1>5, <1>7 DEF Pos
<1> QED
  BY <1>1, <1>2, <1>6, <1>7 DEF f

\* A later event does not change in which window an earlier one was.
LEMMA WindowKept ==
  ASSUME NEW e \in Seq(Event), NEW x \in Event, NEW i \in 1..Len(e)
  PROVE  InWindow(Append(e, x), i) <=> InWindow(e, i)
<1> DEFINE f == Append(e, x)
           SE == Pos(e, "START_PERFORMANCE_TRACKING", None)
           TE == Pos(e, "STOP_PERFORMANCE_TRACKING", None)
           SF == Pos(f, "START_PERFORMANCE_TRACKING", None)
           TF == Pos(f, "STOP_PERFORMANCE_TRACKING", None)
<1>1. /\ Len(e) \in Nat
      /\ SE \subseteq 1..Len(e) /\ TE \subseteq 1..Len(e)
      /\ SF = SE \/ SF = SE \cup {Len(e) + 1}
      /\ TF = TE \/ TF = TE \cup {Len(e) + 1}
  BY PosAppend
<1> HIDE DEF f, SE, TE, SF, TF
<1>2. ~(Len(e) + 1 < i) /\ i \in Nat
  BY <1>1
<1>3. \A s : s \in SF /\ s < i <=> s \in SE /\ s < i
  BY <1>1, <1>2
<1>4. \A t : t \in TF /\ t < i <=> t \in TE /\ t < i
  BY <1>1, <1>2
<1>5. (\E s \in SF : s < i /\ \A t \in TF : ~(s < t /\ t < i))
        <=> (\E s \in SE : s < i /\ \A t \in TE : ~(s < t /\ t < i))
  BY <1>3, <1>4
<1> QED
  BY <1>5 DEF InWindow, f, SE, TE, SF, TF

\* The newest event is inside a window exactly when the stream before it had
\* one open.
LEMMA WindowOfNewest ==
  ASSUME NEW e \in Seq(Event), NEW x \in Event,
         x # Ev("START_PERFORMANCE_TRACKING", None),
         x # Ev("STOP_PERFORMANCE_TRACKING", None)
  PROVE  InWindow(Append(e, x), Len(e) + 1) <=> Opened(e)
<1> DEFINE f == Append(e, x)
           S == Pos(e, "START_PERFORMANCE_TRACKING", None)
           T == Pos(e, "STOP_PERFORMANCE_TRACKING", None)
<1>1. /\ Len(e) \in Nat /\ S \subseteq 1..Len(e) /\ T \subseteq 1..Len(e)
      /\ Pos(f, "START_PERFORMANCE_TRACKING", None) = S
      /\ Pos(f, "STOP_PERFORMANCE_TRACKING", None) = T
  BY PosAppend
<1> HIDE DEF f, S, T
<1>2. (\E s \in S : s < Len(e) + 1 /\ \A t \in T : ~(s < t /\ t < Len(e) + 1))
        <=> (\E s \in S : \A t \in T : ~(s < t))
  BY <1>1
<1> QED
  BY <1>1, <1>2 DEF InWindow, Opened, f, S, T

\* START opens the window, STOP closes it, nothing else touches it.
LEMMA OpenedAfter ==
  ASSUME NEW e \in Seq(Event), NEW x \in Event
  PROVE  /\ x = Ev("START_PERFORMANCE_TRACKING", None) => Opened(Append(e, x))
         /\ x = Ev("STOP_PERFORMANCE_TRACKING", None) => ~Opened(Append(e, x))
         /\ /\ x # Ev("START_PERFORMANCE_TRACKING", None)
            /\ x # Ev("STOP_PERFORMANCE_TRACKING", None)
            => (Opened(Append(e, x)) <=> Opened(e))
<1> DEFINE f == Append(e, x)
           SE == Pos(e, "START_PERFORMANCE_TRACKING", None)
           TE == Pos(e, "STOP_PERFORMANCE_TRACKING", None)
           SF == Pos(f, "START_PERFORMANCE_TRACKING", None)
           TF == Pos(f, "STOP_PERFORMANCE_TRACKING", None)
<1>1. /\ Len(e) \in Nat
      /\ SE \subseteq 1..Len(e) /\ TE \subseteq 1..Len(e)
      /\ x # Ev("START_PERFORMANCE_TRACKING", None) => SF = SE
      /\ x = Ev("START_PERFORMANCE_TRACKING", None) => SF = SE \cup {Len(e) + 1}
      /\ x # Ev("STOP_PERFORMANCE_TRACKING", None) => TF = TE
      /\ x = Ev("STOP_PERFORMANCE_TRACKING", None) => TF = TE \cup {Len(e) + 1}
  BY PosAppend
<1>2. Ev("START_PERFORMANCE_TRACKING", None) # Ev("STOP_PERFORMANCE_TRACKING", None)
  BY EventsDiffer
<1> HIDE DEF f, SE, TE, SF, TF
<1>3. Opened(f) <=> \E s \in SF : \A t \in TF : ~(s < t)
  BY DEF Opened, SF, TF
<1>4. Opened(e) <=> \E s \in SE : \A t \in TE : ~(s < t)
  BY DEF Opened, SE, TE
<1>5. ASSUME x = Ev("START_PERFORMANCE_TRACKING", None)
      PROVE  Opened(f)
  <2>1. Len(e) + 1 \in SF /\ TF = TE
    BY <1>1, <1>2, <1>5
  <2>2. \A t \in TE : ~(Len(e) + 1 < t)
    BY <1>1
  <2> QED
    BY <1>3, <2>1, <2>2
<1>6. ASSUME x = Ev("STOP_PERFORMANCE_TRACKING", None)
      PROVE  ~Opened(f)
  <2>1. Len(e) + 1 \in TF /\ SF = SE
    BY <1>1, <1>2, <1>6
  <2>2. \A s \in SE : s < Len(e) + 1
    BY <1>1
  <2> QED
    BY <1>3, <2>1, <2>2
<1>7. ASSUME x # Ev("START_PERFORMANCE_TRACKING", None), x # Ev("STOP_PERFORMANCE_TRACKING", None)
      PROVE  Opened(f) <=> Opened(e)
  BY <1>1, <1>3, <1>4, <1>7
<1> QED
  BY <1>5, <1>6, <1>7 DEF f

\* A session event concerns no query.
LEMMA SessionAppend ==
  ASSUME NEW u \in [Phase -> SUBSET Query], NEW w \in SUBSET Query,
         NEW e, Stream(e, u, w), NEW k \in SessionEvent
  PROVE  /\ Stream(Append(e, Ev(k, None)), u, w)
         /\ k = "START_PERFORMANCE_TRACKING" => Opened(Append(e, Ev(k, None)))
         /\ k = "STOP_PERFORMANCE_TRACKING" => ~Opened(Append(e, Ev(k, None)))
         /\ k \notin {"START_PERFORMANCE_TRACKING", "STOP_PERFORMANCE_TRACKING"}
              => (Opened(Append(e, Ev(k, None))) <=> Opened(e))
         /\ k \notin {"INTERRUPTED", "ENDED"} /\ Unfinished(e)
              => Unfinished(Append(e, Ev(k, None)))
<1> DEFINE x == Ev(k, None)
           f == Append(e, x)
<1>1. e \in Seq(Event)
  BY DEF Stream
<1>2. x \in Event /\ x.id = None /\ x.kind = k
  BY DEF Ev, Event
<1>3. /\ Len(e) \in Nat /\ DOMAIN e = 1..Len(e) /\ DOMAIN f = 1..(Len(e) + 1)
      /\ \A i \in DOMAIN e : f[i] = e[i]
      /\ f[Len(e) + 1] = x
  BY <1>1, <1>2, PosAppend
<1>4. \A l, q : q \in Query => Pos(f, l, q) = Pos(e, l, q)
  <2> SUFFICES ASSUME NEW l, NEW q \in Query
               PROVE  Pos(f, l, q) = Pos(e, l, q)
    OBVIOUS
  <2>1. x # Ev(l, q)
    BY EventsDiffer, EnvironmentAssumption
  <2> QED
    BY <1>1, <1>2, <2>1, PosAppend
<1>5. \A l, q : Pos(e, l, q) \subseteq 1..Len(e)
  BY <1>1, <1>2, PosAppend
<1>6. f \in Seq(Event)
  BY <1>1, <1>2
<1>7. \A i \in 1..Len(e) : InWindow(f, i) <=> InWindow(e, i)
  BY <1>1, <1>2, WindowKept
<1>8. /\ k = "START_PERFORMANCE_TRACKING" => Opened(f)
      /\ k = "STOP_PERFORMANCE_TRACKING" => ~Opened(f)
      /\ k \notin {"START_PERFORMANCE_TRACKING", "STOP_PERFORMANCE_TRACKING"}
           => (Opened(f) <=> Opened(e))
  BY <1>1, <1>2, OpenedAfter, EventsDiffer
<1> HIDE DEF x, f
<1>9. \A i \in DOMAIN f : i \in DOMAIN e \/ i = Len(e) + 1
  BY <1>3
<1>10. Owned(f, u)
  BY <1>2, <1>3, <1>9 DEF Stream, Owned
<1>11. Outstanding(f, w) /\ Ordered(f)
  BY <1>4 DEF Stream, Outstanding, Ordered
<1>12. Windowed(f, u)
  <2> SUFFICES ASSUME NEW p \in Phase, NEW q \in Query, NEW i \in Pos(f, "ISSUED", q),
                      q \in u[p]
               PROVE  InWindow(f, i) <=> PhaseType[p] = "performance"
    BY DEF Windowed
  <2>1. i \in Pos(e, "ISSUED", q) /\ i \in 1..Len(e)
    BY <1>4, <1>5
  <2> QED
    BY <1>7, <2>1 DEF Stream, Windowed
<1>13. k \notin {"INTERRUPTED", "ENDED"} /\ Unfinished(e) => Unfinished(f)
  BY <1>2, <1>3, <1>9 DEF Unfinished
<1> QED
  BY <1>6, <1>8, <1>10, <1>11, <1>12, <1>13 DEF Stream, x, f

\* An id drawn for phase p extends its issuer; nothing was published about it.
LEMMA FreshOwner ==
  ASSUME NEW u \in [Phase -> SUBSET Query], NEW w \in SUBSET Query,
         NEW e, Stream(e, u, w), NEW p \in Phase, NEW q \in Query,
         \A r \in Phase : q \notin u[r]
  PROVE  /\ Stream(e, [u EXCEPT ![p] = @ \cup {q}], w)
         /\ \A l : Pos(e, l, q) = {}
<1> DEFINE v == [u EXCEPT ![p] = @ \cup {q}]
<1>1. \A r \in Phase : u[r] \subseteq v[r] /\ v[r] \subseteq u[r] \cup {q}
  OBVIOUS
<1> HIDE DEF v
<1>2. ASSUME NEW l, NEW i \in Pos(e, l, q)
      PROVE  FALSE
  <2>1. i \in DOMAIN e /\ e[i] = Ev(l, q)
    BY <1>2 DEF Pos
  <2>2. e[i].id = q /\ q # None
    BY <2>1, EventsDiffer, EnvironmentAssumption
  <2> QED
    BY <2>1, <2>2 DEF Stream, Owned
<1>3. \A l : Pos(e, l, q) = {}
  BY <1>2
<1>4. Owned(e, v)
  BY <1>1 DEF Stream, Owned
<1>5. Windowed(e, v)
  <2> SUFFICES ASSUME NEW r \in Phase, NEW t \in Query, NEW i \in Pos(e, "ISSUED", t),
                      t \in v[r]
               PROVE  InWindow(e, i) <=> PhaseType[r] = "performance"
    BY DEF Windowed
  <2>1. t # q
    BY <1>3
  <2>2. t \in u[r]
    BY <1>1, <2>1
  <2> QED
    BY <2>2 DEF Stream, Windowed
<1> QED
  BY <1>3, <1>4, <1>5 DEF Stream, v

\* ISSUED, published for a fresh id of phase p, falls into the window that is
\* open then.
LEMMA IssuedAppend ==
  ASSUME NEW u \in [Phase -> SUBSET Query], NEW w \in SUBSET Query,
         NEW e, Stream(e, u, w), NEW p \in Phase, NEW q \in u[p],
         \A r \in Phase : q \in u[r] => r = p,
         \A l : Pos(e, l, q) = {},
         Opened(e) <=> PhaseType[p] = "performance"
  PROVE  /\ Stream(Append(e, Ev("ISSUED", q)), u, w)
         /\ Stream(Append(e, Ev("ISSUED", q)), u, w \cup {q})
         /\ Opened(Append(e, Ev("ISSUED", q))) <=> Opened(e)
         /\ Unfinished(e) => Unfinished(Append(e, Ev("ISSUED", q)))
<1> DEFINE x == Ev("ISSUED", q)
           f == Append(e, x)
<1>0. q \in Query
  OBVIOUS
<1>1. e \in Seq(Event)
  BY DEF Stream
<1>2. x \in Event /\ x.id = q /\ x.kind = "ISSUED"
  BY <1>0 DEF Ev, Event, SampleEvent
<1>3. /\ Len(e) \in Nat /\ DOMAIN e = 1..Len(e) /\ DOMAIN f = 1..(Len(e) + 1)
      /\ \A i \in DOMAIN e : f[i] = e[i]
      /\ f[Len(e) + 1] = x
  BY <1>1, <1>2, PosAppend
<1>4. \A l, r : l # "ISSUED" \/ r # q => Pos(f, l, r) = Pos(e, l, r)
  <2> SUFFICES ASSUME NEW l, NEW r, l # "ISSUED" \/ r # q
               PROVE  Pos(f, l, r) = Pos(e, l, r)
    OBVIOUS
  <2>1. x # Ev(l, r)
    BY EventsDiffer
  <2> QED
    BY <1>1, <1>2, <2>1, PosAppend
<1>5. Pos(f, "ISSUED", q) = {Len(e) + 1}
  <2>1. Pos(f, "ISSUED", q) = Pos(e, "ISSUED", q) \cup {Len(e) + 1}
    BY <1>1, <1>2, PosAppend
  <2> QED
    BY <2>1
<1>6. \A l, r : Pos(e, l, r) \subseteq 1..Len(e)
  BY <1>1, <1>2, PosAppend
<1>7. f \in Seq(Event)
  BY <1>1, <1>2
<1>8. \A i \in 1..Len(e) : InWindow(f, i) <=> InWindow(e, i)
  BY <1>1, <1>2, WindowKept
<1>9. /\ Opened(f) <=> Opened(e)
      /\ InWindow(f, Len(e) + 1) <=> Opened(e)
  <2>1. /\ x # Ev("START_PERFORMANCE_TRACKING", None)
        /\ x # Ev("STOP_PERFORMANCE_TRACKING", None)
    BY EventsDiffer
  <2> QED
    BY <1>1, <1>2, <2>1, OpenedAfter, WindowOfNewest
<1> HIDE DEF x, f
<1>10. \A i \in DOMAIN f : i \in DOMAIN e \/ i = Len(e) + 1
  BY <1>3
<1>11. Owned(f, u)
  BY <1>2, <1>3, <1>10 DEF Stream, Owned
<1>12. Outstanding(f, w) /\ Outstanding(f, w \cup {q})
  <2>1. ASSUME NEW r \in w \cup {q}, r \in w \/ r = q
        PROVE  Pos(f, "ISSUED", r) # {} /\ Pos(f, "COMPLETE", r) = {}
    <3>1. Pos(f, "COMPLETE", r) = Pos(e, "COMPLETE", r)
      BY <1>4
    <3>2. CASE r = q
      BY <1>5, <3>1, <3>2
    <3>3. CASE r # q
      BY <1>4, <2>1, <3>1, <3>3 DEF Stream, Outstanding
    <3> QED
      BY <3>2, <3>3
  <2> QED
    BY <2>1 DEF Outstanding
<1>13. Ordered(f)
  <2> SUFFICES ASSUME NEW r \in Query, NEW c \in Pos(f, "COMPLETE", r)
               PROVE  /\ \A d \in Pos(f, "COMPLETE", r) : d = c
                      /\ \E i \in Pos(f, "ISSUED", r) : i < c
                      /\ \A y \in Pos(f, "ERROR", r) : y < c
    BY DEF Ordered
  <2>1. Pos(f, "COMPLETE", r) = Pos(e, "COMPLETE", r) /\ Pos(f, "ERROR", r) = Pos(e, "ERROR", r)
    BY <1>4
  <2>2. r # q
    BY <2>1
  <2>3. Pos(f, "ISSUED", r) = Pos(e, "ISSUED", r)
    BY <1>4, <2>2
  <2> QED
    BY <2>1, <2>3 DEF Stream, Ordered
<1>14. Windowed(f, u)
  <2> SUFFICES ASSUME NEW r \in Phase, NEW t \in Query, NEW i \in Pos(f, "ISSUED", t),
                      t \in u[r]
               PROVE  InWindow(f, i) <=> PhaseType[r] = "performance"
    BY DEF Windowed
  <2>1. CASE t = q
    BY <1>5, <1>9, <2>1
  <2>2. CASE t # q
    <3>1. i \in Pos(e, "ISSUED", t) /\ i \in 1..Len(e)
      BY <1>4, <1>6, <2>2
    <3> QED
      BY <1>8, <3>1 DEF Stream, Windowed
  <2> QED
    BY <2>1, <2>2
<1>15. Unfinished(e) => Unfinished(f)
  BY <1>2, <1>3, <1>10 DEF Unfinished
<1> QED
  BY <1>7, <1>9, <1>11, <1>12, <1>13, <1>14, <1>15 DEF Stream, x, f

\* ERROR and COMPLETE of an outstanding query: the first leaves it open, the
\* second ends it.
LEMMA ResultAppend ==
  ASSUME NEW u \in [Phase -> SUBSET Query], NEW w \in SUBSET Query,
         NEW e, Stream(e, u, w), NEW q \in w, NEW k \in {"ERROR", "COMPLETE"},
         \E p \in Phase : q \in u[p]
  PROVE  /\ k = "ERROR" => Stream(Append(e, Ev(k, q)), u, w)
         /\ Stream(Append(e, Ev(k, q)), u, w \ {q})
         /\ Opened(Append(e, Ev(k, q))) <=> Opened(e)
         /\ Unfinished(e) => Unfinished(Append(e, Ev(k, q)))
<1> DEFINE x == Ev(k, q)
           f == Append(e, x)
<1>0. q \in Query
  OBVIOUS
<1>1. e \in Seq(Event)
  BY DEF Stream
<1>2. x \in Event /\ x.id = q /\ x.kind = k
  BY <1>0 DEF Ev, Event, SampleEvent
<1>3. /\ Len(e) \in Nat /\ DOMAIN e = 1..Len(e) /\ DOMAIN f = 1..(Len(e) + 1)
      /\ \A i \in DOMAIN e : f[i] = e[i]
      /\ f[Len(e) + 1] = x
  BY <1>1, <1>2, PosAppend
<1>4. \A l, r : l # k \/ r # q => Pos(f, l, r) = Pos(e, l, r)
  <2> SUFFICES ASSUME NEW l, NEW r, l # k \/ r # q
               PROVE  Pos(f, l, r) = Pos(e, l, r)
    OBVIOUS
  <2>1. x # Ev(l, r)
    BY EventsDiffer
  <2> QED
    BY <1>1, <1>2, <2>1, PosAppend
<1>5. Pos(f, k, q) = Pos(e, k, q) \cup {Len(e) + 1}
  BY <1>1, <1>2, PosAppend
<1>6. \A l, r : Pos(e, l, r) \subseteq 1..Len(e)
  BY <1>1, <1>2, PosAppend
<1>7. f \in Seq(Event)
  BY <1>1, <1>2
<1>8. \A i \in 1..Len(e) : InWindow(f, i) <=> InWindow(e, i)
  BY <1>1, <1>2, WindowKept
<1>9. Opened(f) <=> Opened(e)
  <2>1. /\ x # Ev("START_PERFORMANCE_TRACKING", None)
        /\ x # Ev("STOP_PERFORMANCE_TRACKING", None)
    BY EventsDiffer
  <2> QED
    BY <1>1, <1>2, <2>1, OpenedAfter
<1> HIDE DEF x, f
<1>10. \A i \in DOMAIN f : i \in DOMAIN e \/ i = Len(e) + 1
  BY <1>3
<1>11. Owned(f, u)
  BY <1>2, <1>3, <1>10 DEF Stream, Owned
<1>12. Pos(e, "COMPLETE", q) = {} /\ Pos(e, "ISSUED", q) # {}
  BY DEF Stream, Outstanding
<1>13. \A r : Pos(f, "ISSUED", r) = Pos(e, "ISSUED", r)
  BY <1>4
<1>14. Outstanding(f, w \ {q})
  BY <1>4, <1>13 DEF Stream, Outstanding
<1>15. k = "ERROR" => Outstanding(f, w)
  BY <1>4, <1>13 DEF Stream, Outstanding
<1>16. Ordered(f)
  <2> SUFFICES ASSUME NEW r \in Query, NEW c \in Pos(f, "COMPLETE", r)
               PROVE  /\ \A d \in Pos(f, "COMPLETE", r) : d = c
                      /\ \E i \in Pos(f, "ISSUED", r) : i < c
                      /\ \A y \in Pos(f, "ERROR", r) : y < c
    BY DEF Ordered
  <2>1. CASE r # q
    <3>1. \A l : Pos(f, l, r) = Pos(e, l, r)
      BY <1>4, <2>1
    <3> QED
      BY <3>1 DEF Stream, Ordered
  <2>2. CASE r = q
    <3>1. k = "COMPLETE"
      BY <1>4, <1>12, <2>2
    <3>2. Pos(f, "COMPLETE", q) = {Len(e) + 1} /\ Pos(f, "ERROR", q) = Pos(e, "ERROR", q)
      BY <1>4, <1>5, <1>12, <3>1
    <3>3. PICK i \in Pos(e, "ISSUED", q) : TRUE
      BY <1>12
    <3>4. i < Len(e) + 1 /\ \A y \in Pos(e, "ERROR", q) : y < Len(e) + 1
      BY <1>3, <1>6
    <3> QED
      BY <1>13, <2>2, <3>2, <3>3, <3>4
  <2> QED
    BY <2>1, <2>2
<1>17. Windowed(f, u)
  <2> SUFFICES ASSUME NEW r \in Phase, NEW t \in Query, NEW i \in Pos(f, "ISSUED", t),
                      t \in u[r]
               PROVE  InWindow(f, i) <=> PhaseType[r] = "performance"
    BY DEF Windowed
  <2>1. i \in Pos(e, "ISSUED", t) /\ i \in 1..Len(e)
    BY <1>6, <1>13
  <2> QED
    BY <1>8, <2>1 DEF Stream, Windowed
<1>18. Unfinished(e) => Unfinished(f)
  BY <1>2, <1>3, <1>10 DEF Unfinished
<1> QED
  BY <1>7, <1>9, <1>11, <1>14, <1>15, <1>16, <1>17, <1>18 DEF Stream, x, f

\* The terminal events of run()'s finally block: ENDED once and last, after
\* INTERRUPTED iff the session was stopped.
LEMMA TerminalAppend ==
  ASSUME NEW u \in [Phase -> SUBSET Query], NEW w \in SUBSET Query,
         NEW e, Stream(e, u, w), Unfinished(e), e # <<>>,
         NEW stopped \in BOOLEAN, NEW f, f = e \o TerminalEvents(stopped)
  PROVE  /\ Stream(f, u, w) /\ f # <<>>
         /\ Pos(f, "ENDED", None) = {Len(f)}
         /\ stopped <=> f[Len(f) - 1] = Ev("INTERRUPTED", None)
<1> DEFINE g == IF stopped THEN Append(e, Ev("INTERRUPTED", None)) ELSE e
<1>1. e \in Seq(Event) /\ Len(e) \in Nat \ {0} /\ e[Len(e)] # Ev("INTERRUPTED", None)
  <2>1. e \in Seq(Event)
    BY DEF Stream
  <2>2. Len(e) \in Nat \ {0} /\ Len(e) \in DOMAIN e
    BY <2>1
  <2> QED
    BY <2>1, <2>2, EventsDiffer DEF Unfinished
<1>2. Ev("INTERRUPTED", None) \in Event /\ Ev("ENDED", None) \in Event
  BY DEF Ev, Event, SessionEvent
<1>3. Stream(g, u, w)
  BY SessionAppend DEF SessionEvent
<1>4. /\ g \in Seq(Event) /\ Len(g) \in Nat \ {0}
      /\ stopped <=> g[Len(g)] = Ev("INTERRUPTED", None)
  <2>1. CASE stopped
    BY <1>1, <1>2, <2>1
  <2>2. CASE ~stopped
    BY <1>1, <2>2
  <2> QED
    BY <2>1, <2>2
<1>5. Pos(g, "ENDED", None) = {}
  <2>1. Pos(e, "ENDED", None) = {}
    BY EventsDiffer DEF Unfinished, Pos
  <2>2. Ev("INTERRUPTED", None) # Ev("ENDED", None)
    BY EventsDiffer
  <2>3. Pos(Append(e, Ev("INTERRUPTED", None)), "ENDED", None) = Pos(e, "ENDED", None)
    BY <1>1, <1>2, <2>2, PosAppend
  <2> QED
    BY <2>1, <2>3
<1>6. f = Append(g, Ev("ENDED", None))
  <2>1. CASE stopped
    BY <1>1, <1>2, <2>1 DEF TerminalEvents, Session
  <2>2. CASE ~stopped
    BY <1>1, <1>2, <2>2 DEF TerminalEvents, Session
  <2> QED
    BY <2>1, <2>2
<1> HIDE DEF g
<1>7. Stream(f, u, w)
  BY <1>3, <1>6, SessionAppend DEF SessionEvent
<1>8. /\ Len(f) = Len(g) + 1 /\ f # <<>>
      /\ f[Len(f) - 1] = g[Len(g)]
  BY <1>2, <1>4, <1>6
<1>9. Pos(f, "ENDED", None) = Pos(g, "ENDED", None) \cup {Len(g) + 1}
  BY <1>2, <1>4, <1>6, PosAppend
<1> QED
  BY <1>4, <1>5, <1>7, <1>8, <1>9

\* A step of a running phase that publishes inside the window it found.
LEMMA PublishingStep ==
  ASSUME InStep, pc \in {"strategy", "drain"}, UNCHANGED <<pc, phase>>,
         Stream(events', uuids', wire'), Opened(events') <=> Opened(events),
         Unfinished(events'), events' # <<>>,
         fatal' # "none" => stopRequested' /\ phase \in Phase
  PROVE  StreamInv'
<1>1. InStep'
  BY DEF InStep, AbortMarkedBeforeEnded, done
<1> QED
  BY <1>1 DEF StreamInv

\* A step that publishes nothing; flags change only while the run is on.
LEMMA SilentStep ==
  ASSUME StreamInv, UNCHANGED <<events, uuids, wire, pc, phase, raised>>,
         pc # "ended" \/ UNCHANGED <<stopRequested, fatal>>,
         fatal' # "none" => stopRequested' /\ phase \in Phase,
         done => fatal' = fatal
  PROVE  StreamInv'
<1>1. Stream(events', uuids', wire')
  BY DEF StreamInv
<1>2. AbortMarkedBeforeEnded'
  BY DEF StreamInv, InStep, AbortMarkedBeforeEnded, At, done
<1>3. InStep'
  BY <1>2 DEF StreamInv, InStep, done
<1> QED
  BY <1>1, <1>3 DEF StreamInv

\* Leaving the phase loop: the terminal events follow, now or when the
\* receive task is done.
LEMMA FinallyInStep ==
  ASSUME TypeOK, NEW ev, Stream(ev, uuids, wire), Unfinished(ev), ev # <<>>,
         NEW stopped \in BOOLEAN, NEW ex \in BOOLEAN, EnterFinally(ev, stopped, ex),
         UNCHANGED <<uuids, wire, fatal>>, stopRequested' = stopped,
         fatal # "none" => stopped /\ ex /\ phase \in Phase
  PROVE  StreamInv'
<1>1. uuids \in [Phase -> SUBSET Query] /\ wire \in SUBSET Query
  BY DEF TypeOK
<1>2. CASE pc' = "closing" /\ events' = ev
  BY <1>2 DEF EnterFinally, StreamInv, InStep, AbortMarkedBeforeEnded, done
<1>3. CASE pc' = "ended" /\ events' = ev \o TerminalEvents(stopped)
  <2>1. /\ Stream(events', uuids, wire) /\ events' # <<>>
        /\ Pos(events', "ENDED", None) = {Len(events')}
        /\ stopped <=> events'[Len(events') - 1] = Ev("INTERRUPTED", None)
    BY <1>1, <1>3, TerminalAppend
  <2>2. phase' = phase /\ raised' = ex
    BY DEF EnterFinally
  <2>3. AbortMarkedBeforeEnded'
    BY <2>1, <2>2 DEF AbortMarkedBeforeEnded, At, Pos
  <2>4. InStep'
    BY <1>3, <2>1, <2>2, <2>3 DEF InStep, done
  <2> QED
    BY <2>1, <2>4 DEF StreamInv
<1> QED
  BY <1>2, <1>3 DEF EnterFinally

\* Starting phase p with the window closed opens it iff p is a performance
\* phase.
LEMMA BeginInStep ==
  ASSUME TypeOK, NEW ev, Stream(ev, uuids, wire), Unfinished(ev), ~Opened(ev),
         NEW p \in Phase, BeginPhase(p, ev),
         UNCHANGED <<uuids, wire, fatal>>, fatal = "none"
  PROVE  StreamInv'
<1> DEFINE e1 == Append(ev, Ev("PHASE_START", None))
           e2 == Append(e1, Ev("START_PERFORMANCE_TRACKING", None))
<1>1. uuids \in [Phase -> SUBSET Query] /\ wire \in SUBSET Query /\ ev \in Seq(Event)
  BY DEF TypeOK, Stream
<1>2. Ev("PHASE_START", None) \in Event /\ Ev("START_PERFORMANCE_TRACKING", None) \in Event
  BY DEF Ev, Event, SessionEvent
<1>3. Stream(e1, uuids, wire) /\ ~Opened(e1) /\ Unfinished(e1) /\ e1 # <<>>
  <2>1. e1 # <<>>
    <3>1. Len(e1) = Len(ev) + 1 /\ Len(ev) \in Nat
      BY <1>1, <1>2
    <3> HIDE DEF e1
    <3> QED
      BY <3>1
  <2>2. "PHASE_START" \in SessionEvent
    BY DEF SessionEvent
  <2> QED
    BY SMTT(60), <1>1, <2>1, <2>2, SessionAppend
<1>4. e1 \in Seq(Event) /\ e1 = ev \o Session("PHASE_START")
  BY <1>1, <1>2 DEF Session
<1>5. events' = e1 \o (IF PhaseType[p] = "performance"
                       THEN Session("START_PERFORMANCE_TRACKING") ELSE <<>>)
  BY <1>4 DEF BeginPhase
<1> HIDE DEF e1
<1>6. Stream(e2, uuids, wire) /\ Opened(e2) /\ Unfinished(e2)
  <2>1. "START_PERFORMANCE_TRACKING" \in SessionEvent
    BY DEF SessionEvent
  <2> QED
    BY <1>1, <1>3, <2>1, SessionAppend
<1>7. /\ PhaseType[p] = "performance" => events' = e2
      /\ PhaseType[p] # "performance" => events' = e1
      /\ e2 # <<>>
  BY <1>2, <1>4, <1>5 DEF Session
<1> HIDE DEF e2
<1>8. /\ Stream(events', uuids, wire) /\ events' # <<>> /\ Unfinished(events')
      /\ Opened(events') <=> PhaseType[p] = "performance"
  BY <1>3, <1>6, <1>7
<1>9. pc' = "strategy" /\ phase' = p
  BY DEF BeginPhase
<1>10. InStep'
  BY <1>8, <1>9 DEF InStep, AbortMarkedBeforeEnded, done
<1> QED
  BY <1>8, <1>10 DEF StreamInv

\* The end of a phase closes its window before anything else is published.
LEMMA AfterPhaseInStep ==
  ASSUME TypeOK, StreamInv, pc \in {"strategy", "drain"}, phase \in Phase,
         NEW stopped \in BOOLEAN, AfterPhase(stopped), stopRequested => stopped,
         UNCHANGED <<uuids, wire, fatal>>, stopRequested' = stopped
  PROVE  StreamInv'
<1> DEFINE ev == events \o (IF PhaseType[phase] = "performance"
                            THEN Session("STOP_PERFORMANCE_TRACKING") ELSE <<>>)
<1>1. uuids \in [Phase -> SUBSET Query] /\ wire \in SUBSET Query
  BY DEF TypeOK
<1>2. /\ Stream(events, uuids, wire) /\ Unfinished(events) /\ events # <<>>
      /\ Opened(events) <=> PhaseType[phase] = "performance"
      /\ fatal # "none" => stopRequested
  BY DEF StreamInv, InStep
<1>3. Stream(ev, uuids, wire) /\ Unfinished(ev) /\ ~Opened(ev) /\ ev # <<>>
  <2>1. CASE PhaseType[phase] = "performance"
    <3>1. events \in Seq(Event) /\ Ev("STOP_PERFORMANCE_TRACKING", None) \in Event
      BY <1>2 DEF Stream, Ev, Event, SessionEvent
    <3>2. ev = Append(events, Ev("STOP_PERFORMANCE_TRACKING", None)) /\ ev # <<>>
      BY <2>1, <3>1 DEF Session
    <3>3. "STOP_PERFORMANCE_TRACKING" \in SessionEvent
      BY DEF SessionEvent
    <3> HIDE DEF ev
    <3> QED
      BY <1>1, <1>2, <3>2, <3>3, SessionAppend
  <2>2. CASE PhaseType[phase] # "performance"
    <3>1. ev = events
      BY <1>2, <2>2 DEF Stream
    <3> QED
      BY <1>2, <2>2, <3>1
  <2> QED
    BY <2>1, <2>2
<1>4. IF fatal # "none" \/ stopped \/ phase = NumPhases
      THEN EnterFinally(ev, stopped, fatal # "none")
      ELSE BeginPhase(phase + 1, ev)
  BY DEF AfterPhase
<1> HIDE DEF ev
<1>5. CASE fatal # "none" \/ stopped \/ phase = NumPhases
  <2>1. (fatal # "none") \in BOOLEAN /\ EnterFinally(ev, stopped, fatal # "none")
    BY <1>4, <1>5
  <2> QED
    BY <1>2, <1>3, <2>1, FinallyInStep
<1>6. CASE ~(fatal # "none" \/ stopped \/ phase = NumPhases)
  <2>1. phase + 1 \in Phase
    BY <1>6, PhasesAssumption DEF Phase
  <2>2. BeginPhase(phase + 1, ev) /\ fatal = "none"
    BY <1>4, <1>6
  <2> QED
    BY <1>3, <2>1, <2>2, BeginInStep
<1> QED
  BY <1>5, <1>6

\* A query issued by the running phase falls into that phase's window.
LEMMA IssuingInStep ==
  ASSUME TypeOK, StreamInv, Ownership, phase \in Phase, pc = "strategy",
         NEW q \in Fresh, IssueSends(phase, q) \/ IssueRaises(phase, q),
         UNCHANGED <<pc, phase, fatal, stopRequested>>
  PROVE  StreamInv'
<1> DEFINE u == [uuids EXCEPT ![phase] = @ \cup {q}]
           f == Append(events, Ev("ISSUED", q))
<1>1. /\ q \in Query /\ \A r \in Phase : q \notin uuids[r]
      /\ uuids \in [Phase -> SUBSET Query] /\ wire \in SUBSET Query
      /\ u \in [Phase -> SUBSET Query]
  BY DEF TypeOK, Fresh
<1>2. /\ Stream(events, uuids, wire) /\ Unfinished(events) /\ events # <<>>
      /\ Opened(events) <=> PhaseType[phase] = "performance"
      /\ fatal # "none" => stopRequested
  BY DEF StreamInv, InStep
<1>3. q \in u[phase] /\ \A r \in Phase : q \in u[r] => r = phase
  BY <1>1
<1>4. f # <<>>
  <2>1. events \in Seq(Event) /\ Ev("ISSUED", q) \in Event
    BY <1>1 DEF TypeOK, Ev, Event, SampleEvent
  <2>2. Len(f) = Len(events) + 1 /\ Len(events) \in Nat
    BY <2>1
  <2> HIDE DEF f
  <2> QED
    BY <2>2
<1> HIDE DEF u
<1>5. Stream(events, u, wire) /\ \A l : Pos(events, l, q) = {}
  BY <1>1, <1>2, FreshOwner DEF u
<1>6. /\ Stream(f, u, wire) /\ Stream(f, u, wire \cup {q})
      /\ Opened(f) <=> Opened(events)
      /\ Unfinished(f)
  BY <1>1, <1>2, <1>3, <1>5, IssuedAppend
<1> HIDE DEF f
<1>7. /\ Stream(events', uuids', wire') /\ Unfinished(events') /\ events' # <<>>
      /\ Opened(events') <=> Opened(events)
  <2>1. CASE IssueSends(phase, q)
    <3>1. events' = f /\ uuids' = u /\ wire' = wire \cup {q}
      BY <2>1 DEF IssueSends, f, u
    <3> QED
      BY <1>4, <1>6, <3>1
  <2>2. CASE IssueRaises(phase, q)
    <3>1. (events' = f \/ events' = events) /\ uuids' = u /\ wire' = wire
      BY <2>2 DEF IssueRaises, f, u
    <3> QED
      BY <1>2, <1>4, <1>5, <1>6, <3>1
  <2> QED
    BY <2>1, <2>2
<1> QED
  BY <1>2, <1>7, PublishingStep DEF StreamInv

\* A final result is published as ERROR, then COMPLETE, of a query that was
\* outstanding and is not afterwards.
LEMMA ResultInStream ==
  ASSUME TypeOK, StreamInv, Ownership, pc \in {"strategy", "drain"},
         NEW q \in wire, NEW error \in BOOLEAN, HandleResult(q, error)
  PROVE  /\ Stream(events', uuids', wire') /\ Unfinished(events')
         /\ events' # <<>>
         /\ Opened(events') <=> Opened(events)
<1> DEFINE e1 == IF error THEN Append(events, Ev("ERROR", q)) ELSE events
           e2 == IF PhaseType[phase] # "warmup" THEN Append(e1, Ev("COMPLETE", q)) ELSE e1
<1>1. /\ q \in Query /\ uuids \in [Phase -> SUBSET Query] /\ wire \in SUBSET Query
      /\ \E p \in Phase : q \in uuids[p]
      /\ events \in Seq(Event)
  BY DEF TypeOK, Ownership
<1>2. Stream(events, uuids, wire) /\ Unfinished(events) /\ events # <<>>
  BY DEF StreamInv, InStep
<1>3. Ev("ERROR", q) \in Event /\ Ev("COMPLETE", q) \in Event
  BY <1>1 DEF Ev, Event, SampleEvent
<1>4. /\ Stream(e1, uuids, wire) /\ Unfinished(e1)
      /\ Opened(e1) <=> Opened(events)
  BY <1>1, <1>2, ResultAppend
<1>5. e1 \in Seq(Event) /\ Len(e1) \in Nat \ {0}
  BY <1>1, <1>2, <1>3
<1>6. events' = e2
  <2>1. CASE error /\ PhaseType[phase] # "warmup"
    BY <1>1, <1>3, <2>1 DEF HandleResult, ResultEvents
  <2>2. CASE error /\ PhaseType[phase] = "warmup"
    BY <1>1, <1>3, <2>2 DEF HandleResult, ResultEvents
  <2>3. CASE ~error /\ PhaseType[phase] # "warmup"
    BY <1>1, <1>3, <2>3 DEF HandleResult, ResultEvents
  <2>4. CASE ~error /\ PhaseType[phase] = "warmup"
    BY <1>1, <1>3, <2>4 DEF HandleResult, ResultEvents
  <2> QED
    BY <2>1, <2>2, <2>3, <2>4
<1> HIDE DEF e1
<1>7. Stream(e2, uuids, wire \ {q}) /\ Unfinished(e2) /\ (Opened(e2) <=> Opened(e1))
  <2>1. CASE PhaseType[phase] # "warmup"
    BY <1>1, <1>4, <2>1, ResultAppend
  <2>2. CASE PhaseType[phase] = "warmup"
    BY <1>4, <2>2 DEF Stream, Outstanding
  <2> QED
    BY <2>1, <2>2
<1>8. Len(e2) \in Nat \ {0}
  BY <1>3, <1>5
<1> HIDE DEF e2
<1>9. e2 # <<>>
  BY <1>8
<1>10. wire' = wire \ {q} /\ uuids' = uuids
  BY DEF HandleResult
<1> QED
  BY <1>4, <1>6, <1>7, <1>9, <1>10

\* Every step keeps the stream and its agreement with run().
LEMMA StreamStep ==
  ASSUME TypeOK, IInv, StreamInv, [Next]_vars
  PROVE  StreamInv'
<1> USE DEF mainVars, stratVars, issuerVars, stopVars, guardVars, clockVars
<1>0. /\ fatal # "none" => stopRequested /\ phase \in Phase
      /\ pc = "idle" <=> events = <<>>
      /\ done /\ fatal # "none" => raised
      /\ MainPlaced /\ Ownership
      /\ stopRequested \in BOOLEAN
  BY DEF StreamInv, InStep, IInv, TypeOK
<1>1. CASE Run
  <2>1. phase = 0 /\ phase \notin Phase /\ fatal = "none" /\ pc = "idle" /\ events = <<>>
    BY <1>0, <1>1, PhasesAssumption DEF Run, MainPlaced, Phase
  <2> DEFINE e == Session("STARTED")
  <2>2. Stream(e, uuids, wire) /\ Unfinished(e) /\ ~Opened(e) /\ e # <<>>
    <3>1. /\ uuids \in [Phase -> SUBSET Query] /\ wire \in SUBSET Query
          /\ Stream(<<>>, uuids, wire) /\ Unfinished(<<>>)
      BY <2>1 DEF TypeOK, StreamInv, InStep
    <3>2. ~Opened(<<>>)
      BY DEF Opened, Pos
    <3>3. "STARTED" \in SessionEvent
      BY DEF SessionEvent
    <3>4. e = Append(<<>>, Ev("STARTED", None)) /\ e # <<>>
      BY DEF Session
    <3> HIDE DEF e
    <3>5. Stream(e, uuids, wire) /\ Unfinished(e) /\ ~Opened(e)
      BY ZenonT(60), <3>1, <3>2, <3>3, <3>4, SessionAppend
    <3> QED
      BY <3>4, <3>5
  <2>3. UNCHANGED <<uuids, wire, fatal, stopRequested>>
    BY <1>1 DEF Run
  <2> HIDE DEF e
  <2>4. CASE stopRequested \/ NumPhases = 0
    <3>1. pc' = "closing" /\ events' = e /\ UNCHANGED <<phase, raised>>
      BY <1>1, <2>4 DEF Run, e
    <3>2. InStep'
      BY <2>1, <2>2, <2>3, <3>1 DEF InStep, AbortMarkedBeforeEnded, done
    <3> QED
      BY <2>2, <2>3, <3>1, <3>2 DEF StreamInv
  <2>5. CASE ~(stopRequested \/ NumPhases = 0)
    <3>1. BeginPhase(1, e) /\ 1 \in Phase
      BY <1>1, <2>5, PhasesAssumption DEF Run, Phase, e
    <3> QED
      BY <2>1, <2>2, <2>3, <3>1, BeginInStep
  <2> QED
    BY <2>4, <2>5
<1>2. CASE StrategyAwaited
  <2>1. phase \in Phase /\ pc = "strategy" /\ UNCHANGED <<uuids, wire, fatal, stopRequested>>
    BY <1>0, <1>2 DEF StrategyAwaited, MainPlaced
  <2>2. CASE EnterFinally(events, stopRequested, TRUE)
    <3>1. Stream(events, uuids, wire) /\ Unfinished(events) /\ events # <<>>
      BY <2>1 DEF StreamInv, InStep
    <3> QED
      BY <1>0, <2>1, <2>2, <3>1, FinallyInStep
  <2>3. CASE pc' = "drain" /\ UNCHANGED <<phase, raised, events>>
    BY <1>0, <2>1, <2>3 DEF StreamInv, InStep, AbortMarkedBeforeEnded, done
  <2>4. CASE AfterPhase(stopRequested)
    BY <1>0, <2>1, <2>4, AfterPhaseInStep
  <2> QED
    BY <1>2, <2>2, <2>3, <2>4 DEF StrategyAwaited
<1>3. CASE DrainCompletes
  BY <1>0, <1>3, AfterPhaseInStep DEF DrainCompletes, MainPlaced
<1>4. CASE DrainTimesOut
  BY <1>0, <1>4, AfterPhaseInStep DEF DrainTimesOut, MainPlaced
<1>5. CASE Close
  <2>1. /\ pc = "closing" /\ pc' = "ended" /\ events' = events \o TerminalEvents(stopRequested)
        /\ UNCHANGED <<phase, raised, uuids, wire, stopRequested, fatal>>
    BY <1>5 DEF Close
  <2>2. /\ Stream(events, uuids, wire) /\ Unfinished(events) /\ events # <<>>
        /\ uuids \in [Phase -> SUBSET Query] /\ wire \in SUBSET Query
    BY <2>1 DEF StreamInv, InStep, TypeOK
  <2>3. /\ Stream(events', uuids, wire) /\ events' # <<>>
        /\ Pos(events', "ENDED", None) = {Len(events')}
        /\ stopRequested <=> events'[Len(events') - 1] = Ev("INTERRUPTED", None)
    BY <1>0, <2>1, <2>2, TerminalAppend
  <2>4. AbortMarkedBeforeEnded'
    BY <1>0, <2>1, <2>3 DEF AbortMarkedBeforeEnded, At, Pos, done
  <2>5. InStep'
    BY <1>0, <2>1, <2>3, <2>4 DEF InStep, done
  <2> QED
    BY <2>1, <2>3, <2>5 DEF StreamInv
<1>6. ASSUME NEW p \in Phase, FireCallback(p)
      PROVE  StreamInv'
  <2>1. pend[p] /\ phase \in Phase /\ UNCHANGED <<pc, phase, raised, fatal, stopRequested>>
    BY <1>0, <1>6 DEF FireCallback, MainPlaced
  <2>2. CASE UNCHANGED <<issuerVars, guardVars, events>>
    BY <1>0, <2>1, <2>2, SilentStep
  <2>3. ASSUME ~StopCheck(p), NEW q \in Fresh, IssueSends(p, q) \/ IssueRaises(p, q)
        PROVE  StreamInv'
    <3>1. p = phase /\ pc = "strategy"
      BY <1>0, <2>1, <2>3, CallbackIssuesForCurrent DEF MainPlaced
    <3> QED
      BY <1>0, <2>1, <2>3, <3>1, IssuingInStep
  <2> QED
    BY <1>6, <2>2, <2>3 DEF FireCallback
<1>7. CASE ConcurrencyTurn
  <2>1. /\ phase \in Phase /\ pc = "strategy"
        /\ UNCHANGED <<pc, phase, raised, fatal, stopRequested>>
    BY <1>0, <1>7 DEF ConcurrencyTurn, MainPlaced
  <2>2. CASE UNCHANGED <<issuerVars, events>>
    BY <1>0, <2>1, <2>2, SilentStep
  <2>3. ASSUME NEW q \in Fresh, IssueSends(phase, q) \/ IssueRaises(phase, q)
        PROVE  StreamInv'
    BY <1>0, <2>1, <2>3, IssuingInStep
  <2> QED
    BY <1>7, <2>2, <2>3 DEF ConcurrencyTurn
<1>8. CASE StrategyEnds
  BY <1>0, <1>8, SilentStep DEF StrategyEnds
<1>9. CASE Stop
  BY <1>0, <1>9, SilentStep DEF Stop, StopEffects
<1>10. ASSUME NEW p \in Phase, Elapse(p)
       PROVE  StreamInv'
  BY <1>0, <1>10, SilentStep DEF Elapse
<1>11. CASE CapFires
  BY <1>0, <1>11, SilentStep DEF CapFires
<1>12. CASE IdleFires
  <2>1. phase \in Phase /\ UNCHANGED <<events, uuids, wire, pc, phase, raised>>
    BY <1>0, <1>12 DEF IdleFires, MainPlaced
  <2>2. CASE UNCHANGED <<stopRequested, fatal>>
    BY <1>0, <2>1, <2>2, SilentStep
  <2>3. CASE ~done /\ StopEffects
    BY <2>1, <2>3, SilentStep DEF done, StopEffects
  <2> QED
    BY <1>12, <2>2, <2>3 DEF IdleFires
<1>13. ASSUME NEW q \in Query, NEW error \in BOOLEAN, ReceiveResult(q, error)
       PROVE  StreamInv'
  <2>1. /\ pc \in {"strategy", "drain"} /\ q \in wire /\ HandleResult(q, error)
        /\ UNCHANGED <<pc, phase, raised, fatal, stopRequested>>
    BY <1>0, <1>13 DEF ReceiveResult, receiving, done, TypeOK, MainPlaced, Phase
  <2> QED
    BY <1>0, <2>1, ResultInStream, PublishingStep DEF StreamInv
<1>14. CASE TransportCloses
  BY <1>0, <1>14, SilentStep DEF TransportCloses, receiving, done
<1>15. CASE ReceiverRaises
  <2>1. /\ ~done /\ pc # "ended" /\ phase \in Phase /\ stopRequested'
        /\ UNCHANGED <<pc, phase, raised>>
    BY <1>0, <1>15 DEF ReceiverRaises, receiving, done, StopEffects, MainPlaced
  <2>2. CASE UNCHANGED <<issuerVars, sem, events>>
    BY <2>1, <2>2, SilentStep
  <2>3. ASSUME NEW q \in wire \cap uuids[phase], NEW error \in BOOLEAN,
               HandleResult(q, error)
        PROVE  StreamInv'
    <3>1. pc \in {"strategy", "drain"}
      BY <1>0, <2>1 DEF done, TypeOK, MainPlaced, Phase
    <3> QED
      BY <1>0, <2>1, <2>3, <3>1, ResultInStream, PublishingStep DEF StreamInv
  <2> QED
    BY <1>15, <2>2, <2>3 DEF ReceiverRaises
<1>16. CASE UNCHANGED vars
  BY <1>0, <1>16, SilentStep DEF vars
<1> QED
  BY <1>1, <1>2, <1>3, <1>4, <1>5, <1>6, <1>7, <1>8, <1>9, <1>10, <1>11,
     <1>12, <1>13, <1>14, <1>15, <1>16 DEF Next, Main, Terminated

\* Nothing is published before the run starts.
LEMMA StreamInit ==
  ASSUME Init
  PROVE  StreamInv
<1>1. pc = "idle" /\ events = <<>> /\ wire = {} /\ fatal = "none"
  BY DEF Init
<1>2. \A k, q : Pos(events, k, q) = {}
  BY <1>1 DEF Pos
<1>3. Stream(events, uuids, wire)
  BY <1>1, <1>2 DEF Stream, Owned, Outstanding, Ordered, Windowed
<1>4. Unfinished(events)
  BY <1>1 DEF Unfinished
<1>5. InStep
  BY <1>1, <1>4 DEF InStep, AbortMarkedBeforeEnded, done
<1> QED
  BY <1>3, <1>5 DEF StreamInv

\* The invariant says what the three subscribers rely on.
LEMMA StreamImplies ==
  ASSUME TypeOK, StreamInv
  PROVE  StreamIsWellFormed
<1>1. \A k, q : At(k, q) = Pos(events, k, q)
  BY DEF At, Pos
<1>2. WindowIsPerformancePhase
  <2> SUFFICES ASSUME NEW p \in Phase, NEW q \in Query, NEW i \in At("ISSUED", q),
                      q \in uuids[p]
               PROVE  Tracked(i) <=> PhaseType[p] = "performance"
    BY DEF WindowIsPerformancePhase
  <2>1. Tracked(i) <=> InWindow(events, i)
    BY <1>1 DEF Tracked, InWindow
  <2> QED
    BY <1>1, <2>1 DEF StreamInv, Stream, Windowed
<1>3. OneOrderedCompletion
  <2> SUFFICES ASSUME NEW q \in Query
               PROVE  /\ Cardinality(At("COMPLETE", q)) <= 1
                      /\ \A c \in At("COMPLETE", q) :
                           /\ \E i \in At("ISSUED", q) : i < c
                           /\ \A e \in At("ERROR", q) : e < c
    BY DEF OneOrderedCompletion
  <2>1. \A c \in At("COMPLETE", q) :
          /\ \A d \in At("COMPLETE", q) : d = c
          /\ \E i \in At("ISSUED", q) : i < c
          /\ \A e \in At("ERROR", q) : e < c
    BY <1>1 DEF StreamInv, Stream, Ordered
  <2>2. CASE At("COMPLETE", q) = {}
    BY <2>1, <2>2, FS_EmptySet
  <2>3. CASE At("COMPLETE", q) # {}
    <3>1. PICK c : At("COMPLETE", q) = {c}
      BY <2>1, <2>3
    <3>2. Cardinality(At("COMPLETE", q)) = 1
      BY <3>1, FS_Singleton
    <3> QED
      BY <2>1, <3>2
  <2> QED
    BY <2>2, <2>3
<1> QED
  BY <1>2, <1>3 DEF StreamIsWellFormed, StreamInv, InStep

\* Whatever the endpoint, the timers and stop() do: the tracking window holds
\* the performance phases' ISSUED events and no other, a query completes at
\* most once, after its ISSUED and after its ERROR, and ENDED is published
\* once, last, and after INTERRUPTED iff the session was stopped.
THEOREM StreamWellFormed == Spec => []StreamIsWellFormed
<1>1. Init => StreamInv
  BY StreamInit
<1>2. TypeOK /\ IInv /\ StreamInv /\ [Next]_vars => StreamInv'
  BY StreamStep
<1>3. TypeOK /\ StreamInv => StreamIsWellFormed
  BY StreamImplies
<1> QED
  BY <1>1, <1>2, <1>3, TypeCorrect, InvariantHolds, PTL DEF Spec

-----------------------------------------------------------------------------
(***************************************************************************)
(* The aggregator's table is a fold over the events.  What it has after n  *)
(* of them is stated for every n, and as no induction theorem of the       *)
(* library can be instantiated, proved by the least counterexample.        *)
(***************************************************************************)

\* The order of the numbers as a relation.
Less == {p \in Nat \X Nat : p[1] < p[2]}

\* Every non-empty set of numbers has a least element.
LEMMA LeastNat ==
  ASSUME NEW T, T \subseteq Nat, T # {}
  PROVE  \E x \in T : \A y \in T : ~(y < x)
<1>1. Less = OpToRel(<, Nat)
  BY Zenon DEF Less, OpToRel
<1>2. IsWellFoundedOn(Less, Nat)
  BY <1>1, NatLessThanWellFounded, Zenon
<1>3. \E x \in T : \A y \in T : ~(<<y, x>> \in Less)
  BY <1>2, WFMin, Zenon
<1>4. \A x, y \in T : y < x => <<y, x>> \in Less
  BY SMT DEF Less
<1> QED
  BY <1>3, <1>4, Zenon

\* g holds the table after each of the first m events.
Walk(early, m, g) ==
  g = [i \in 0..m |-> IF i = 0 THEN EmptyTable ELSE Seen(g[i - 1], i, early)]

\* An element of it.
LEMMA WalkAt ==
  ASSUME NEW early, NEW m, NEW g, Walk(early, m, g)
  PROVE  \A i \in 0..m : g[i] = IF i = 0 THEN EmptyTable ELSE Seen(g[i - 1], i, early)
  BY Zenon DEF Walk

\* The recursive function that process()'s loop computes exists.
LEMMA WalkExists ==
  ASSUME NEW early, NEW m \in Nat
  PROVE  \E g : Walk(early, m, g)
<1> DEFINE T == {n \in Nat : ~ \E g : Walk(early, n, g)}
<1>1. SUFFICES ASSUME T # {} PROVE FALSE
  OBVIOUS
<1>2. PICK n \in T : \A y \in T : ~(y < n)
  <2>1. T \subseteq Nat
    OBVIOUS
  <2> QED
    BY LeastNat, <1>1, <2>1, Zenon
<1>3. n # 0
  <2> DEFINE g == [i \in 0..0 |-> EmptyTable]
  <2>1. \A i \in 0..0 : i = 0
    OBVIOUS
  <2>2. g = [i \in 0..0 |-> IF i = 0 THEN EmptyTable ELSE Seen(g[i - 1], i, early)]
    BY <2>1
  <2> QED
    BY <2>2 DEF Walk
<1>4. n \in Nat /\ n - 1 \in Nat /\ n - 1 < n
  BY <1>2, <1>3
<1>5. PICK h : Walk(early, n - 1, h)
  <2>1. n - 1 \notin T
    BY <1>2, <1>4
  <2> QED
    BY <1>4, <2>1
<1> DEFINE g == [i \in 0..n |-> IF i = 0 THEN EmptyTable ELSE Seen(h[i - 1], i, early)]
<1>6. \A i \in 0..(n - 1) : i \in 0..n /\ g[i] = h[i]
  BY <1>4, <1>5, WalkAt
<1>7. \A i \in 0..n : i # 0 => i - 1 \in 0..(n - 1)
  BY <1>4
<1>8. \A i \in 0..n : g[i] = IF i = 0 THEN EmptyTable ELSE Seen(g[i - 1], i, early)
  BY <1>6, <1>7
<1>9. Walk(early, n, g)
  <2>1. g = [i \in 0..n |-> g[i]]
    OBVIOUS
  <2> HIDE DEF g
  <2>2. [i \in 0..n |-> g[i]]
          = [i \in 0..n |-> IF i = 0 THEN EmptyTable ELSE Seen(g[i - 1], i, early)]
    BY <1>8
  <2> QED
    BY <2>1, <2>2 DEF Walk
<1> QED
  BY <1>2, <1>9

\* The table is the last element of such a function.
LEMMA TableIsLast ==
  ASSUME NEW early, Len(events) \in Nat
  PROVE  \E g : Walk(early, Len(events), g) /\ Table(early) = g[Len(events)]
<1>1. Table(early) = (CHOOSE g : Walk(early, Len(events), g))[Len(events)]
  BY DEF Table, Walk
<1>2. \E g : Walk(early, Len(events), g)
  BY WalkExists
<1> QED
  BY <1>1, <1>2, Zenon

-----------------------------------------------------------------------------
(* What one turn of the loop does to the fields a property reads.           *)

TableRow == [id : Query, block : {1}, issued : Nat]
BlockType == [start : Nat, last : Nat, completed : Nat]

TableSet ==
  [tracking : BOOLEAN, rows : SUBSET TableRow, blocks : Seq(BlockType),
   maxIssued : Nat, windowStart : Nat, windowEnd : Nat,
   issued : Nat, completed : Nat, failed : Nat,
   trackedIssued : Nat, trackedCompleted : Nat, trackedFailed : Nat]

\* t and u agree on what the answers to queries decide.
SameAnswers(t, u) ==
  /\ u.maxIssued = t.maxIssued /\ u.windowEnd = t.windowEnd
  /\ u.trackedCompleted = t.trackedCompleted

\* Two counters raised; typed values keep the table's type.
LEMMA CountersTyped ==
  ASSUME NEW t \in TableSet, NEW a \in Nat, NEW b \in Nat
  PROVE  /\ [t EXCEPT !.issued = a, !.trackedIssued = b] \in TableSet
         /\ [t EXCEPT !.failed = a, !.trackedFailed = b] \in TableSet
         /\ [t EXCEPT !.maxIssued = a, !.windowEnd = b] \in TableSet
         /\ [t EXCEPT !.completed = a] \in TableSet
<1>1. [t EXCEPT !.issued = a, !.trackedIssued = b] \in TableSet
  BY Zenon DEF TableSet
<1>2. [t EXCEPT !.failed = a, !.trackedFailed = b] \in TableSet
  BY Zenon DEF TableSet
<1>3. [t EXCEPT !.maxIssued = a, !.windowEnd = b] \in TableSet
  BY Zenon DEF TableSet
<1>4. [t EXCEPT !.completed = a] \in TableSet
  BY Zenon DEF TableSet
<1> QED
  BY <1>1, <1>2, <1>3, <1>4

\* So do rows, blocks and the window's start.
LEMMA RowsTyped ==
  ASSUME NEW t \in TableSet, NEW R, R \subseteq TableRow, NEW B \in Seq(BlockType), NEW a \in Nat
  PROVE  /\ [t EXCEPT !.rows = R, !.windowStart = a] \in TableSet
         /\ [t EXCEPT !.blocks = B, !.rows = R, !.trackedCompleted = a] \in TableSet
<1>0. R \in SUBSET TableRow
  OBVIOUS
<1>1. [t EXCEPT !.rows = R, !.windowStart = a] \in TableSet
  BY <1>0, Zenon DEF TableSet
<1>2. [t EXCEPT !.blocks = B, !.rows = R, !.trackedCompleted = a] \in TableSet
  BY <1>0, Zenon DEF TableSet
<1> QED
  BY <1>1, <1>2

\* The fields' types.
LEMMA FieldTypes ==
  ASSUME NEW t \in TableSet
  PROVE  /\ t.tracking \in BOOLEAN /\ t.rows \subseteq TableRow /\ t.blocks \in Seq(BlockType)
         /\ t.maxIssued \in Nat /\ t.windowStart \in Nat /\ t.windowEnd \in Nat
         /\ t.issued \in Nat /\ t.completed \in Nat /\ t.failed \in Nat
         /\ t.trackedIssued \in Nat /\ t.trackedCompleted \in Nat /\ t.trackedFailed \in Nat
  BY DEF TableSet

\* set_field for ISSUED creates a row while tracking.
LEMMA IssuedFields ==
  ASSUME NEW t \in TableSet, NEW q \in Query, NEW now \in Nat,
         NEW u, u = IssuedSeen(t, q, now), t.tracking => Len(t.blocks) = 1
  PROVE  /\ u \in TableSet /\ SameAnswers(t, u)
         /\ u.tracking = t.tracking /\ u.blocks = t.blocks /\ u.trackedFailed = t.trackedFailed
         /\ t.tracking => /\ u.rows = {r \in t.rows : r.id # q}
                                        \cup {[id |-> q, block |-> 1, issued |-> now]}
                          /\ u.windowStart = (IF t.windowStart = 0 THEN now ELSE t.windowStart)
                          /\ u.trackedIssued = t.trackedIssued + 1
         /\ ~t.tracking => /\ u.rows = t.rows /\ u.windowStart = t.windowStart
                           /\ Row(t, q) = {} => u.trackedIssued = t.trackedIssued
<1> DEFINE row == [id |-> q, block |-> 1, issued |-> now]
           R == {r \in t.rows : r.id # q} \cup {row}
           s == IF t.windowStart = 0 THEN now ELSE t.windowStart
           w == IF t.tracking THEN [t EXCEPT !.rows = R, !.windowStart = s] ELSE t
           k == OneIf(Row(w, q) # {})
           a == w.issued + 1
           b == w.trackedIssued + k
<1>1. row \in TableRow /\ row.id = q
  BY DEF TableRow
<1>2. R \subseteq TableRow /\ s \in Nat /\ t.blocks \in Seq(BlockType)
  BY <1>1, FieldTypes
<1>3. w = WithRow(t, q, now)
  BY DEF WithRow
<1>4. w \in TableSet
  BY <1>2, RowsTyped
<1>5. t.tracking => w.rows = R /\ w.windowStart = s
  <2> HIDE DEF R, s
  <2> QED
    BY DEF TableSet
<1>6. /\ w.tracking = t.tracking /\ w.blocks = t.blocks /\ w.maxIssued = t.maxIssued
      /\ w.windowEnd = t.windowEnd /\ w.trackedIssued = t.trackedIssued
      /\ w.trackedCompleted = t.trackedCompleted /\ w.trackedFailed = t.trackedFailed
  <2> HIDE DEF R, s
  <2> QED
    OBVIOUS
<1>7. ~t.tracking => w = t
  OBVIOUS
<1>8. t.tracking => Row(w, q) # {}
  BY <1>1, <1>5 DEF Row
<1> HIDE DEF w
<1>9. k \in Nat /\ (Row(w, q) = {} => k = 0) /\ (Row(w, q) # {} => k = 1)
  BY DEF OneIf
<1>10. u = [w EXCEPT !.issued = a, !.trackedIssued = b]
  BY <1>3 DEF IssuedSeen
<1>11. a \in Nat /\ b \in Nat
  BY <1>4, <1>9, FieldTypes
<1> HIDE DEF a, k
<1>12. /\ u.rows = w.rows /\ u.windowStart = w.windowStart /\ u.trackedIssued = b
       /\ u.tracking = w.tracking /\ u.blocks = w.blocks /\ u.maxIssued = w.maxIssued
       /\ u.windowEnd = w.windowEnd /\ u.trackedCompleted = w.trackedCompleted
       /\ u.trackedFailed = w.trackedFailed
  <2> HIDE DEF b
  <2> QED
    BY <1>4, <1>10 DEF TableSet
<1>13. u \in TableSet
  <2> HIDE DEF b
  <2>1. [w EXCEPT !.issued = a, !.trackedIssued = b] \in TableSet
    BY <1>4, <1>11, CountersTyped
  <2> QED
    BY <1>10, <2>1
<1>14. t.tracking => u.trackedIssued = t.trackedIssued + 1
  BY <1>6, <1>8, <1>9, <1>12
<1>15. ~t.tracking /\ Row(t, q) = {} => u.trackedIssued = t.trackedIssued
  BY <1>6, <1>7, <1>9, <1>11, <1>12, FieldTypes
<1> QED
  BY <1>5, <1>6, <1>7, <1>12, <1>13, <1>14, <1>15 DEF SameAnswers

\* A failure is counted while the row exists.
LEMMA ErrorFields ==
  ASSUME NEW t \in TableSet, NEW q \in Query, NEW u, u = ErrorSeen(t, q)
  PROVE  /\ u \in TableSet /\ SameAnswers(t, u)
         /\ u.tracking = t.tracking /\ u.blocks = t.blocks /\ u.rows = t.rows
         /\ u.windowStart = t.windowStart /\ u.trackedIssued = t.trackedIssued
         /\ Row(t, q) = {} => u.trackedFailed = t.trackedFailed
         /\ Row(t, q) # {} => u.trackedFailed = t.trackedFailed + 1
<1> DEFINE k == OneIf(Row(t, q) # {})
           a == t.failed + 1
           b == t.trackedFailed + k
<1>1. k \in Nat /\ (Row(t, q) = {} => k = 0) /\ (Row(t, q) # {} => k = 1)
  BY DEF OneIf
<1>2. u = [t EXCEPT !.failed = a, !.trackedFailed = b]
  BY DEF ErrorSeen
<1>3. a \in Nat /\ b \in Nat
  BY <1>1, FieldTypes
<1>4. (Row(t, q) = {} => b = t.trackedFailed) /\ (Row(t, q) # {} => b = t.trackedFailed + 1)
  BY <1>1, FieldTypes
<1> HIDE DEF a, b
<1>5. u \in TableSet
  <2>1. [t EXCEPT !.failed = a, !.trackedFailed = b] \in TableSet
    BY <1>3, CountersTyped
  <2> QED
    BY <1>2, <2>1
<1> QED
  BY <1>2, <1>4, <1>5 DEF TableSet, SameAnswers

\* An answer to a query without a row is counted as completed, no more.
LEMMA OtherCompleteFields ==
  ASSUME NEW t \in TableSet, NEW q \in Query, NEW now \in Nat,
         NEW u, u = CompleteSeen(t, q, now), Row(t, q) = {}
  PROVE  /\ u \in TableSet /\ SameAnswers(t, u)
         /\ u.tracking = t.tracking /\ u.blocks = t.blocks /\ u.rows = t.rows
         /\ u.windowStart = t.windowStart /\ u.trackedIssued = t.trackedIssued
         /\ u.trackedFailed = t.trackedFailed
<1> DEFINE a == t.completed + 1
<1>1. u = [t EXCEPT !.completed = a]
  BY DEF CompleteSeen
<1>2. a \in Nat
  BY FieldTypes
<1> HIDE DEF a
<1>3. u \in TableSet
  BY <1>1, <1>2, CountersTyped
<1> QED
  BY <1>1, <1>3 DEF TableSet, SameAnswers

\* An answer to a query with a row: the block, the legacy window, the row.
LEMMA CompleteFields ==
  ASSUME NEW t \in TableSet, NEW q \in Query, NEW now \in Nat,
         NEW u, u = CompleteSeen(t, q, now), NEW r \in TableRow, Row(t, q) = {r},
         Len(t.blocks) = 1
  PROVE  /\ u \in TableSet
         /\ u.tracking = t.tracking /\ u.windowStart = t.windowStart
         /\ u.trackedIssued = t.trackedIssued /\ u.trackedFailed = t.trackedFailed
         /\ u.trackedCompleted = t.trackedCompleted + 1
         /\ u.rows = t.rows \ {r}
         /\ Len(u.blocks) = 1 /\ u.blocks[1].start = t.blocks[1].start
         /\ u.blocks[1].last = (IF now > t.blocks[1].last THEN now ELSE t.blocks[1].last)
         /\ u.blocks[1].completed = t.blocks[1].completed + 1
         /\ u.maxIssued = (IF r.issued > t.maxIssued THEN r.issued ELSE t.maxIssued)
         /\ u.windowEnd = (IF r.issued > t.maxIssued THEN now ELSE t.windowEnd)
<1>1. (CHOOSE x \in Row(t, q) : TRUE) = r
  OBVIOUS
<1> DEFINE v == LoadgenWindow(t, r, now)
           b == t.blocks[1]
           c == [b EXCEPT !.last = IF now > @ THEN now ELSE @, !.completed = @ + 1]
           B == [t.blocks EXCEPT ![1] = c]
           R == t.rows \ {r}
           k == t.trackedCompleted + 1
           a == t.completed + 1
           w == [v EXCEPT !.blocks = B, !.rows = R, !.trackedCompleted = k]
<1>2. r.issued \in Nat /\ r.block = 1
  BY DEF TableRow
<1>3. /\ v.tracking = t.tracking /\ v.rows = t.rows
      /\ v.blocks = t.blocks /\ v.windowStart = t.windowStart
      /\ v.trackedIssued = t.trackedIssued /\ v.trackedFailed = t.trackedFailed
      /\ v.trackedCompleted = t.trackedCompleted /\ v.completed = t.completed
      /\ v.maxIssued = (IF r.issued > t.maxIssued THEN r.issued ELSE t.maxIssued)
      /\ v.windowEnd = (IF r.issued > t.maxIssued THEN now ELSE t.windowEnd)
      /\ v \in TableSet
  <2>1. CASE r.issued > t.maxIssued
    <3>1. v = [t EXCEPT !.maxIssued = r.issued, !.windowEnd = now]
      BY <2>1 DEF LoadgenWindow
    <3>2. v \in TableSet
      <4>1. [t EXCEPT !.maxIssued = r.issued, !.windowEnd = now] \in TableSet
        BY <1>2, CountersTyped
      <4> QED
        BY <3>1, <4>1
    <3> HIDE DEF v
    <3> QED
      BY <2>1, <3>1, <3>2 DEF TableSet
  <2>2. CASE ~(r.issued > t.maxIssued)
    BY <2>2 DEF LoadgenWindow
  <2> QED
    BY <2>1, <2>2
<1>4. /\ t.blocks \in Seq(BlockType) /\ DOMAIN t.blocks = {1} /\ b \in BlockType
  BY FieldTypes
<1>5. /\ c \in BlockType /\ c.start = b.start /\ c.completed = b.completed + 1
      /\ c.last = (IF now > b.last THEN now ELSE b.last)
  <2> DEFINE y == IF now > b.last THEN now ELSE b.last
             n == b.completed + 1
  <2>1. b.last \in Nat /\ b.completed \in Nat
    BY <1>4 DEF BlockType
  <2>2. y \in Nat /\ n \in Nat
    BY <2>1
  <2>3. c = [b EXCEPT !.last = y, !.completed = n]
    OBVIOUS
  <2> HIDE DEF y, n, b, c
  <2>4. c \in BlockType
    BY <1>4, <2>2, <2>3, Zenon DEF BlockType
  <2>5. c.start = b.start /\ c.completed = n /\ c.last = y
    BY <1>4, <2>3 DEF BlockType
  <2> QED
    BY <2>4, <2>5 DEF y, n
<1>6. B \in Seq(BlockType) /\ Len(B) = 1 /\ B[1] = c
  <2> HIDE DEF c
  <2> QED
    BY <1>4, <1>5
<1>7. R \subseteq TableRow /\ k \in Nat /\ a \in Nat
  BY FieldTypes
<1>8. [t.blocks EXCEPT ![1].last = IF now > @ THEN now ELSE @, ![1].completed = @ + 1] = B
  BY <1>4 DEF BlockType
<1>9. w = CompleteRow(t, r, now)
  <2> DEFINE x == [v EXCEPT !.blocks[r.block].last = IF now > @ THEN now ELSE @,
                            !.blocks[r.block].completed = @ + 1,
                            !.rows = @ \ {r}, !.trackedCompleted = @ + 1]
  <2>1. x = CompleteRow(t, r, now)
    BY DEF CompleteRow
  <2>2. x = [v EXCEPT !.blocks[1].last = IF now > @ THEN now ELSE @,
                      !.blocks[1].completed = @ + 1, !.rows = R, !.trackedCompleted = k]
    <3> HIDE DEF v
    <3> QED
      BY <1>2, <1>3 DEF TableSet
  <2> DEFINE y == IF now > v.blocks[1].last THEN now ELSE v.blocks[1].last
             n == v.blocks[1].completed + 1
  <2>3. DOMAIN v.blocks = {1} /\ v.blocks[1] \in BlockType
    BY <1>3, <1>4
  <2> HIDE DEF v, R, k
  <2>4. x = [v EXCEPT !.blocks[1].last = y, !.blocks[1].completed = n,
                      !.rows = R, !.trackedCompleted = k]
    <3> HIDE DEF x
    <3> QED
      BY <1>3, <2>2, <2>3, Zenon DEF TableSet, BlockType
  <2> HIDE DEF x
  <2>5. x = [v EXCEPT !.blocks = [@ EXCEPT ![1].last = y, ![1].completed = n],
                      !.rows = R, !.trackedCompleted = k]
    <3>1. [v EXCEPT !.blocks[1].last = y, !.blocks[1].completed = n, !.rows = R, !.trackedCompleted = k]
            = [v EXCEPT !.blocks = [@ EXCEPT ![1].last = y, ![1].completed = n],
                        !.rows = R, !.trackedCompleted = k]
      BY <1>3, <2>3, Zenon DEF TableSet
    <3> QED
      BY <2>4, <3>1
  <2>6. [v.blocks EXCEPT ![1].last = y, ![1].completed = n] = B
    BY <1>3, <1>8
  <2> HIDE DEF B, y, n
  <2>7. x = w
    BY <1>3, <2>5, <2>6
  <2> QED
    BY <2>1, <2>7
<1>10. u = [w EXCEPT !.completed = a]
  <2>1. u = [w EXCEPT !.completed = @ + 1]
    BY <1>1, <1>9 DEF CompleteSeen
  <2>2. w.completed = t.completed
    <3> HIDE DEF v, B, R, k
    <3> QED
      BY <1>3 DEF TableSet
  <2> QED
    BY <2>1, <2>2
<1> HIDE DEF v, B, R, k, a, c
<1>11. w \in TableSet
  BY <1>3, <1>6, <1>7, RowsTyped
<1>12. /\ w.tracking = t.tracking /\ w.windowStart = t.windowStart
       /\ w.trackedIssued = t.trackedIssued /\ w.trackedFailed = t.trackedFailed
       /\ w.trackedCompleted = k /\ w.rows = R /\ w.blocks = B
       /\ w.maxIssued = v.maxIssued /\ w.windowEnd = v.windowEnd
  BY <1>3 DEF TableSet
<1> HIDE DEF w
<1>13. u \in TableSet
  BY <1>7, <1>10, <1>11, CountersTyped
<1>14. /\ u.tracking = w.tracking /\ u.windowStart = w.windowStart
       /\ u.trackedIssued = w.trackedIssued /\ u.trackedFailed = w.trackedFailed
       /\ u.trackedCompleted = w.trackedCompleted /\ u.rows = w.rows /\ u.blocks = w.blocks
       /\ u.maxIssued = w.maxIssued /\ u.windowEnd = w.windowEnd
  BY <1>10, <1>11 DEF TableSet
<1> QED
  BY <1>3, <1>5, <1>6, <1>12, <1>13, <1>14 DEF k, R

-----------------------------------------------------------------------------
(* What the table says of the first n events.                               *)

MeasuredIds == UNION {uuids[p] : p \in {x \in Phase : PhaseType[x] = "performance"}}

\* The measured queries with an event of kind k among the first n.
Upto(k, n) == {q \in MeasuredIds : \E i \in At(k, q) : i <= n}

\* What the table relies on in the stream.
Readable ==
  /\ events \in Seq(Event) /\ MeasuredIds \subseteq Query
  /\ \A i \in 1..Len(events), k \in SessionEvent \cup SampleEvent, q \in Query \cup {None} :
       events[i] = Ev(k, q) => (k \in SampleEvent <=> q \in Query)
  /\ \A q \in Query : \A i \in At("ISSUED", q) : Tracked(i) <=> q \in MeasuredIds
  /\ \A q \in Query, k \in SampleEvent : \A i, j \in At(k, q) : i = j
  /\ \A q \in Query :
       /\ \A x \in At("ERROR", q) : \E i \in At("ISSUED", q) : i < x
       /\ \A c \in At("COMPLETE", q) :
            (\E i \in At("ISSUED", q) : i < c) /\ \A x \in At("ERROR", q) : x < c
  /\ \A i, j \in At("START_PERFORMANCE_TRACKING", None) : i = j

\* The window is open after n events.
OpenAfter(n) ==
  \E s \in At("START_PERFORMANCE_TRACKING", None) :
    s <= n /\ \A x \in At("STOP_PERFORMANCE_TRACKING", None) : ~(s < x /\ x <= n)

\* The row of a query that was issued.
RowOf(q) == [id |-> q, block |-> 1, issued |-> Time(When("ISSUED", q))]

\* The times at which the queries in D were answered.
Answers(D, early) == {CompletedAt(q, early) : q \in D}

FitsBlock(t, n) ==
  \/ \E s \in At("START_PERFORMANCE_TRACKING", None) :
       s <= n /\ Len(t.blocks) = 1 /\ t.blocks[1].start = Time(s)
  \/ /\ t.blocks = <<>> /\ Upto("ISSUED", n) = {}
     /\ \A s \in At("START_PERFORMANCE_TRACKING", None) : ~(s <= n)

FitsCounters(t, n) ==
  /\ t.rows = {RowOf(q) : q \in Upto("ISSUED", n) \ Upto("COMPLETE", n)}
  /\ t.trackedIssued = Cardinality(Upto("ISSUED", n))
  /\ t.trackedCompleted = Cardinality(Upto("COMPLETE", n))
  /\ t.trackedFailed = Cardinality(Upto("ERROR", n))

FitsDuration(t, n, early) ==
  Len(t.blocks) = 1 =>
    LET a == Answers(Upto("COMPLETE", n), early)
    IN  /\ t.blocks[1].completed = Cardinality(a)
        /\ t.blocks[1].last \in a \cup {t.blocks[1].start}
        /\ \A x \in a : x <= t.blocks[1].last

FitsEnd(t, n, early) ==
  \/ Upto("COMPLETE", n) = {} /\ t.maxIssued = 0 /\ t.windowEnd = 0
  \/ \E q \in Upto("COMPLETE", n) :
       /\ \A r \in Upto("COMPLETE", n) : When("ISSUED", r) <= When("ISSUED", q)
       /\ t.maxIssued = Time(When("ISSUED", q))
       /\ t.windowEnd = CompletedAt(q, early)

FitsStart(t, n) ==
  \/ Upto("ISSUED", n) = {} /\ t.windowStart = 0
  \/ /\ Upto("ISSUED", n) # {} /\ t.windowStart > 0
     /\ t.blocks[1].start <= t.windowStart
     /\ \A q \in Upto("ISSUED", n) : t.windowStart <= Time(When("ISSUED", q))

Fits(t, n, early) ==
  /\ t \in TableSet /\ (t.tracking <=> OpenAfter(n))
  /\ FitsBlock(t, n) /\ FitsCounters(t, n) /\ FitsDuration(t, n, early)
  /\ FitsEnd(t, n, early) /\ FitsStart(t, n)

\* Where an event is in a stream that can be read.
LEMMA PlaceOf ==
  ASSUME Readable, NEW k \in SampleEvent, NEW q \in Query, NEW i \in At(k, q)
  PROVE  At(k, q) = {i} /\ When(k, q) = i /\ i \in 1..Len(events) /\ Len(events) \in Nat
<1>1. At(k, q) = {i}
  BY DEF Readable
<1>2. i \in 1..Len(events) /\ Len(events) \in Nat
  BY DEF Readable, At
<1> QED
  BY <1>1, <1>2 DEF When

\* One more event adds its query to the queries of its kind.
LEMMA UptoStep ==
  ASSUME Readable, NEW n \in 1..Len(events), NEW k, NEW q, events[n] = Ev(k, q)
  PROVE  /\ n \in Nat \ {0} /\ n - 1 \in Nat /\ Len(events) \in Nat
         /\ n \in At(k, q) /\ \A l, r : n \in At(l, r) => l = k /\ r = q
         /\ \A l : l # k \/ q \notin MeasuredIds => Upto(l, n) = Upto(l, n - 1)
         /\ q \in MeasuredIds => Upto(k, n) = Upto(k, n - 1) \cup {q}
<1>1. n \in Nat \ {0} /\ n - 1 \in Nat /\ Len(events) \in Nat
  BY DEF Readable
<1>2. n \in At(k, q) /\ \A l, r : n \in At(l, r) => l = k /\ r = q
  BY EventsDiffer DEF At, Readable
<1>3. \A l, r : At(l, r) \subseteq Nat
  BY DEF At, Readable
<1>4. \A l, r : (\E i \in At(l, r) : i <= n) <=> n \in At(l, r) \/ \E i \in At(l, r) : i <= n - 1
  BY <1>1, <1>3
<1>5. \A l : l # k \/ q \notin MeasuredIds => Upto(l, n) = Upto(l, n - 1)
  BY <1>2, <1>4 DEF Upto
<1>6. q \in MeasuredIds => Upto(k, n) = Upto(k, n - 1) \cup {q}
  BY <1>2, <1>4 DEF Upto
<1> QED
  BY <1>1, <1>2, <1>5, <1>6

\* An event that is no window event leaves the window as it is.
LEMMA OpenSame ==
  ASSUME Readable, NEW n \in 1..Len(events), NEW k, NEW q, events[n] = Ev(k, q),
         k # "START_PERFORMANCE_TRACKING"
  PROVE  /\ k # "STOP_PERFORMANCE_TRACKING" => (OpenAfter(n) <=> OpenAfter(n - 1))
         /\ \A s \in At("START_PERFORMANCE_TRACKING", None) : s <= n <=> s <= n - 1
<1>1. n \in Nat \ {0} /\ \A l, r : At(l, r) \subseteq Nat
  BY DEF At, Readable
<1>2. \A l, r : n \in At(l, r) => l = k
  BY UptoStep
<1>3. \A s \in At("START_PERFORMANCE_TRACKING", None) : s <= n <=> s <= n - 1
  <2>1. \A s \in At("START_PERFORMANCE_TRACKING", None) : s # n
    BY <1>2
  <2> QED
    BY <1>1, <2>1
<1>4. k # "STOP_PERFORMANCE_TRACKING" =>
        \A s \in At("STOP_PERFORMANCE_TRACKING", None) : s <= n <=> s <= n - 1
  <2>1. k # "STOP_PERFORMANCE_TRACKING" =>
          \A s \in At("STOP_PERFORMANCE_TRACKING", None) : s # n
    BY <1>2
  <2> QED
    BY <1>1, <2>1
<1> QED
  BY <1>3, <1>4 DEF OpenAfter

\* An ISSUED event is in the window iff the window is open before it.
LEMMA TrackedIsOpen ==
  ASSUME Readable, NEW n \in 1..Len(events)
  PROVE  Tracked(n) <=> OpenAfter(n - 1)
<1>1. n \in Nat \ {0} /\ \A l, r : At(l, r) \subseteq Nat
  BY DEF At, Readable
<1>2. /\ \A s \in At("START_PERFORMANCE_TRACKING", None) : s < n <=> s <= n - 1
      /\ \A s \in At("STOP_PERFORMANCE_TRACKING", None) : s < n <=> s <= n - 1
  BY <1>1
<1> QED
  BY <1>2 DEF OpenAfter, Tracked

\* The measured queries are finitely many, and their events have a place.
LEMMA UptoFinite ==
  ASSUME Readable, NEW k, NEW n
  PROVE  IsFiniteSet(Upto(k, n)) /\ Cardinality(Upto(k, n)) \in Nat /\ Upto(k, n) \subseteq Query
<1>1. Upto(k, n) \subseteq Query
  BY DEF Upto, Readable
<1> QED
  BY <1>1, EnvironmentAssumption, FS_Subset, FS_CardinalityType

-----------------------------------------------------------------------------
(* One event after the other.                                               *)

\* ISSUED of a query the run measures.
LEMMA IssuedFits ==
  ASSUME Readable, NEW early, NEW n \in 1..Len(events), NEW q \in Query,
         events[n] = Ev("ISSUED", q), NEW t, Fits(t, n - 1, early), q \in MeasuredIds
  PROVE  Fits(IssuedSeen(t, q, Time(n)), n, early)
<1> DEFINE u == IssuedSeen(t, q, Time(n))
           I == Upto("ISSUED", n - 1)
           J == Upto("ISSUED", n)
           C == Upto("COMPLETE", n)
<1>1. /\ n \in Nat \ {0} /\ n - 1 \in Nat /\ n \in At("ISSUED", q)
      /\ J = I \cup {q} /\ Upto("COMPLETE", n - 1) = C
      /\ Upto("ERROR", n - 1) = Upto("ERROR", n)
  BY UptoStep
<1>2. At("ISSUED", q) = {n} /\ When("ISSUED", q) = n
  BY <1>1, PlaceOf DEF SampleEvent
<1>3. q \notin I /\ q \notin C
  <2>1. q \notin I
    BY <1>1, <1>2 DEF Upto
  <2>2. \A c \in At("COMPLETE", q) : c \in Nat /\ n < c
    BY <1>2 DEF Readable, At
  <2> QED
    BY <1>1, <2>1, <2>2 DEF Upto
<1>4. t \in TableSet /\ t.tracking
  BY <1>1, TrackedIsOpen DEF Fits, Readable
<1>5. /\ OpenAfter(n) <=> OpenAfter(n - 1)
      /\ \A s \in At("START_PERFORMANCE_TRACKING", None) : s <= n <=> s <= n - 1
  BY OpenSame
<1>6. PICK s \in At("START_PERFORMANCE_TRACKING", None) :
        s <= n - 1 /\ Len(t.blocks) = 1 /\ t.blocks[1].start = Time(s)
  <2>1. OpenAfter(n - 1)
    BY <1>4 DEF Fits
  <2> QED
    BY <2>1 DEF Fits, FitsBlock, OpenAfter
<1>7. Time(n) \in Nat /\ Time(n) > 0 /\ Time(s) <= Time(n)
  <2>1. s \in Nat
    BY DEF At, Readable
  <2> QED
    BY <1>1, <1>6, <2>1 DEF Time
<1> DEFINE now == Time(n)
<1>8. /\ u \in TableSet /\ SameAnswers(t, u)
      /\ u.tracking = t.tracking /\ u.blocks = t.blocks /\ u.trackedFailed = t.trackedFailed
      /\ u.rows = {r \in t.rows : r.id # q} \cup {[id |-> q, block |-> 1, issued |-> now]}
      /\ u.windowStart = (IF t.windowStart = 0 THEN now ELSE t.windowStart)
      /\ u.trackedIssued = t.trackedIssued + 1
  <2>1. now \in Nat
    BY <1>7
  <2>2. u = IssuedSeen(t, q, now)
    OBVIOUS
  <2> HIDE DEF now, u
  <2>3. t \in TableSet /\ (t.tracking => Len(t.blocks) = 1)
    BY <1>4, <1>6
  <2>4. /\ u \in TableSet /\ SameAnswers(t, u)
        /\ u.tracking = t.tracking /\ u.blocks = t.blocks /\ u.trackedFailed = t.trackedFailed
        /\ t.tracking => /\ u.rows = {r \in t.rows : r.id # q}
                                        \cup {[id |-> q, block |-> 1, issued |-> now]}
                         /\ u.windowStart = (IF t.windowStart = 0 THEN now ELSE t.windowStart)
                         /\ u.trackedIssued = t.trackedIssued + 1
    BY <2>1, <2>2, <2>3, IssuedFields
  <2> QED
    BY <1>4, <2>4, Zenon
<1> HIDE DEF u, I, J, C
<1>9. FitsBlock(u, n)
  BY <1>5, <1>6, <1>8 DEF FitsBlock
<1>10. FitsCounters(u, n)
  <2>1. /\ t.rows = {RowOf(r) : r \in I \ C}
        /\ t.trackedIssued = Cardinality(I) /\ t.trackedCompleted = Cardinality(C)
        /\ t.trackedFailed = Cardinality(Upto("ERROR", n))
    BY <1>1 DEF Fits, FitsCounters, I, C
  <2>2. RowOf(q) = [id |-> q, block |-> 1, issued |-> Time(n)]
    BY <1>2 DEF RowOf
  <2>3. \A r : RowOf(r).id = r
    BY DEF RowOf
  <2>4. {r \in t.rows : r.id # q} = t.rows
    BY <1>3, <2>1, <2>3
  <2>5. J \ C = (I \ C) \cup {q}
    BY <1>1, <1>3
  <2>6. u.rows = {RowOf(r) : r \in J \ C}
    <3>1. u.rows = {RowOf(r) : r \in I \ C} \cup {RowOf(q)}
      BY <1>8, <2>1, <2>2, <2>4
    <3> QED
      BY <2>5, <3>1
  <2>7. Cardinality(J) = Cardinality(I) + 1
    BY <1>1, <1>3, UptoFinite, FS_AddElement DEF I
  <2> QED
    BY <1>8, <2>1, <2>6, <2>7 DEF FitsCounters, SameAnswers, J, C
<1>11. FitsDuration(u, n, early)
  BY <1>1, <1>8 DEF Fits, FitsDuration, C
<1>12. FitsEnd(u, n, early)
  BY <1>1, <1>8 DEF Fits, FitsEnd, SameAnswers, C
<1>13. FitsStart(u, n)
  <2>1. CASE I = {} /\ t.windowStart = 0
    <3>1. J = {q}
      BY <1>1, <2>1
    <3>2. u.windowStart = Time(n) /\ u.blocks[1].start = Time(s)
      BY <1>6, <1>8, <2>1
    <3>3. \A r \in J : When("ISSUED", r) = n
      BY <1>2, <3>1
    <3>4. Time(n) <= Time(n)
      BY <1>7
    <3>5. J # {} /\ u.windowStart > 0 /\ u.blocks[1].start <= u.windowStart
      BY <1>7, <3>1, <3>2
    <3>6. \A r \in J : u.windowStart <= Time(When("ISSUED", r))
      BY <3>2, <3>3, <3>4, Zenon
    <3> QED
      BY <3>5, <3>6 DEF FitsStart, J
  <2>2. CASE /\ I # {} /\ t.windowStart > 0 /\ t.blocks[1].start <= t.windowStart
             /\ \A r \in I : t.windowStart <= Time(When("ISSUED", r))
    <3>1. u.windowStart = t.windowStart /\ t.windowStart \in Nat
      BY <1>4, <1>8, <2>2, FieldTypes
    <3>2. PICK r \in I : TRUE
      BY <2>2
    <3>3. PICK i \in At("ISSUED", r) : i <= n - 1
      BY DEF I, Upto
    <3>4. r \in Query
      BY <3>2, UptoFinite DEF I
    <3>5. When("ISSUED", r) = i /\ i \in Nat
      BY <3>4, PlaceOf DEF SampleEvent
    <3>6. Time(i) <= Time(n) /\ Time(i) \in Nat
      BY <1>1, <3>3, <3>5 DEF Time
    <3>7. t.windowStart <= Time(n)
      BY <1>7, <2>2, <3>1, <3>5, <3>6
    <3> QED
      BY <1>1, <1>2, <1>8, <2>2, <3>1, <3>7 DEF FitsStart, J
  <2> QED
    BY <2>1, <2>2 DEF Fits, FitsStart, I
<1>14. u.tracking <=> OpenAfter(n)
  BY <1>5, <1>8 DEF Fits
<1> QED
  BY <1>8, <1>9, <1>10, <1>11, <1>12, <1>13, <1>14 DEF Fits, u

\* An event that leaves the table's measured fields as they are.
LEMMA NothingFits ==
  ASSUME Readable, NEW early, NEW n \in 1..Len(events), NEW k, NEW q,
         events[n] = Ev(k, q), NEW t, Fits(t, n - 1, early),
         k # "START_PERFORMANCE_TRACKING",
         k \in {"ISSUED", "COMPLETE"} => q \notin MeasuredIds,
         NEW u \in TableSet, SameAnswers(t, u),
         u.tracking <=> OpenAfter(n), u.blocks = t.blocks, u.rows = t.rows,
         u.windowStart = t.windowStart, u.trackedIssued = t.trackedIssued,
         u.trackedFailed = Cardinality(Upto("ERROR", n))
  PROVE  Fits(u, n, early)
<1>1. Upto("ISSUED", n) = Upto("ISSUED", n - 1) /\ Upto("COMPLETE", n) = Upto("COMPLETE", n - 1)
  BY UptoStep
<1>2. \A s \in At("START_PERFORMANCE_TRACKING", None) : s <= n <=> s <= n - 1
  BY OpenSame
<1>3. FitsBlock(u, n)
  BY <1>1, <1>2 DEF Fits, FitsBlock
<1>4. FitsCounters(u, n)
  BY <1>1 DEF Fits, FitsCounters, SameAnswers
<1>5. FitsDuration(u, n, early)
  BY <1>1 DEF Fits, FitsDuration
<1>6. FitsEnd(u, n, early)
  BY <1>1 DEF Fits, FitsEnd, SameAnswers
<1>7. FitsStart(u, n)
  BY <1>1 DEF Fits, FitsStart
<1> QED
  BY <1>3, <1>4, <1>5, <1>6, <1>7 DEF Fits

\* A query that is not measured never has a row.
LEMMA RowIs ==
  ASSUME Readable, NEW n \in Nat, NEW t, FitsCounters(t, n), NEW q
  PROVE  Row(t, q) = IF q \in Upto("ISSUED", n) \ Upto("COMPLETE", n)
                     THEN {RowOf(q)} ELSE {}
<1> DEFINE D == Upto("ISSUED", n) \ Upto("COMPLETE", n)
<1>1. t.rows = {RowOf(r) : r \in D}
  BY DEF FitsCounters
<1>2. \A r : RowOf(r).id = r
  BY DEF RowOf
<1> HIDE DEF D
<1>3. Row(t, q) = IF q \in D THEN {RowOf(q)} ELSE {}
  BY <1>1, <1>2 DEF Row
<1> QED
  BY <1>3 DEF D

\* ISSUED of a query the run does not measure.
LEMMA OtherIssuedFits ==
  ASSUME Readable, NEW early, NEW n \in 1..Len(events), NEW q \in Query,
         events[n] = Ev("ISSUED", q), NEW t, Fits(t, n - 1, early), q \notin MeasuredIds
  PROVE  Fits(IssuedSeen(t, q, Time(n)), n, early)
<1> DEFINE u == IssuedSeen(t, q, Time(n))
<1>1. n \in Nat /\ n - 1 \in Nat /\ n \in At("ISSUED", q)
  BY UptoStep
<1>2. t \in TableSet /\ ~t.tracking
  BY <1>1, TrackedIsOpen DEF Fits, Readable
<1>3. Time(n) \in Nat
  BY <1>1 DEF Time
<1>4. Row(t, q) = {}
  <2>1. q \notin Upto("ISSUED", n - 1)
    BY DEF Upto
  <2> QED
    BY <1>1, <2>1, RowIs DEF Fits
<1>5. OpenAfter(n) <=> OpenAfter(n - 1)
  BY OpenSame
<1>6. Upto("ERROR", n) = Upto("ERROR", n - 1)
  BY UptoStep
<1> HIDE DEF u
<1>7. /\ u \in TableSet /\ SameAnswers(t, u)
      /\ u.tracking = t.tracking /\ u.blocks = t.blocks /\ u.trackedFailed = t.trackedFailed
      /\ u.rows = t.rows /\ u.windowStart = t.windowStart
      /\ u.trackedIssued = t.trackedIssued
  <2>1. u = IssuedSeen(t, q, Time(n))
    BY DEF u
  <2> QED
    BY <1>2, <1>3, <1>4, <2>1, IssuedFields
<1>8. u.trackedFailed = Cardinality(Upto("ERROR", n))
  BY <1>6, <1>7 DEF Fits, FitsCounters
<1>9. u.tracking <=> OpenAfter(n)
  BY <1>5, <1>7 DEF Fits
<1>10. Fits(u, n, early)
  BY <1>7, <1>8, <1>9, NothingFits
<1> QED
  BY <1>10 DEF u

\* ERROR of any query.
LEMMA ErrorFits ==
  ASSUME Readable, NEW early, NEW n \in 1..Len(events), NEW q \in Query,
         events[n] = Ev("ERROR", q), NEW t, Fits(t, n - 1, early)
  PROVE  Fits(ErrorSeen(t, q), n, early)
<1> DEFINE u == ErrorSeen(t, q)
           E == Upto("ERROR", n - 1)
<1>1. n \in Nat \ {0} /\ n - 1 \in Nat /\ n \in At("ERROR", q)
  BY UptoStep
<1>2. At("ERROR", q) = {n}
  BY <1>1, PlaceOf DEF SampleEvent
<1>3. OpenAfter(n) <=> OpenAfter(n - 1)
  BY OpenSame
<1>4. t \in TableSet
  BY DEF Fits
<1> HIDE DEF u
<1>5. /\ u \in TableSet /\ SameAnswers(t, u)
      /\ u.tracking = t.tracking /\ u.blocks = t.blocks /\ u.rows = t.rows
      /\ u.windowStart = t.windowStart /\ u.trackedIssued = t.trackedIssued
      /\ Row(t, q) = {} => u.trackedFailed = t.trackedFailed
      /\ Row(t, q) # {} => u.trackedFailed = t.trackedFailed + 1
  <2>1. u = ErrorSeen(t, q)
    BY DEF u
  <2> QED
    BY <1>4, <2>1, ErrorFields
<1>6. t.trackedFailed = Cardinality(E)
  BY DEF Fits, FitsCounters
<1>7. u.trackedFailed = Cardinality(Upto("ERROR", n))
  <2>1. CASE q \in MeasuredIds
    <3>1. q \in Upto("ISSUED", n - 1)
      <4>1. PICK i \in At("ISSUED", q) : i < n
        BY <1>1 DEF Readable
      <4>2. i \in Nat
        BY DEF At, Readable
      <4> QED
        BY <1>1, <2>1, <4>1, <4>2 DEF Upto
    <3>2. q \notin Upto("COMPLETE", n - 1)
      <4>1. \A c \in At("COMPLETE", q) : n < c /\ c \in Nat
        BY <1>1 DEF At, Readable
      <4> QED
        BY <1>1, <4>1 DEF Upto
    <3>3. Row(t, q) # {}
      <4>1. FitsCounters(t, n - 1)
        BY DEF Fits
      <4>2. Row(t, q) = {RowOf(q)}
        BY <1>1, <3>1, <3>2, <4>1, RowIs
      <4> QED
        BY <4>2
    <3>4. q \notin E
      BY <1>1, <1>2 DEF Upto
    <3>5. Upto("ERROR", n) = E \cup {q}
      BY <2>1, UptoStep
    <3>6. IsFiniteSet(E)
      BY UptoFinite
    <3>7. Cardinality(E \cup {q}) = Cardinality(E) + 1
      <4> HIDE DEF E
      <4> QED
        BY <3>4, <3>6, FS_AddElement
    <3> QED
      BY <1>5, <1>6, <3>3, <3>5, <3>7
  <2>2. CASE q \notin MeasuredIds
    <3>1. q \notin Upto("ISSUED", n - 1)
      BY <2>2 DEF Upto
    <3>2. Row(t, q) = {}
      BY <1>1, <3>1, RowIs DEF Fits
    <3>3. Upto("ERROR", n) = E
      BY <2>2, UptoStep
    <3> QED
      BY <1>5, <1>6, <3>2, <3>3
  <2> QED
    BY <2>1, <2>2
<1>8. u.tracking <=> OpenAfter(n)
  BY <1>3, <1>5 DEF Fits
<1>9. Fits(u, n, early)
  BY <1>5, <1>7, <1>8, NothingFits
<1> QED
  BY <1>9 DEF u

\* A measured query's answer lies after its ISSUED, in one of two places.
LEMMA AnswerTime ==
  ASSUME Readable, NEW q \in Query, NEW c \in At("COMPLETE", q), NEW early
  PROVE  \E i \in At("ISSUED", q) :
           /\ i \in Nat /\ c \in Nat /\ 0 < i /\ i < c /\ c <= Len(events) /\ Len(events) \in Nat
           /\ When("ISSUED", q) = i /\ When("COMPLETE", q) = c
           /\ CompletedAt(q, early) = IF q \in early THEN 2 * i + 1 ELSE 2 * c
<1>1. PICK i \in At("ISSUED", q) : i < c
  BY DEF Readable
<1>2. When("ISSUED", q) = i /\ i \in 1..Len(events) /\ Len(events) \in Nat
  BY PlaceOf DEF SampleEvent
<1>3. When("COMPLETE", q) = c /\ c \in 1..Len(events)
  BY PlaceOf DEF SampleEvent
<1>4. CompletedAt(q, early) = IF q \in early THEN 2 * i + 1 ELSE 2 * c
  BY <1>2, <1>3 DEF CompletedAt, Time
<1> QED
  BY <1>1, <1>2, <1>3, <1>4

\* Different queries are answered at different times.
LEMMA AnswersDiffer ==
  ASSUME Readable, NEW q \in Query, NEW r \in Query, NEW early, q # r,
         At("COMPLETE", q) # {}, At("COMPLETE", r) # {}
  PROVE  CompletedAt(q, early) # CompletedAt(r, early)
<1>1. PICK c \in At("COMPLETE", q), d \in At("COMPLETE", r) : TRUE
  OBVIOUS
<1>2. PICK i \in At("ISSUED", q) :
        /\ i \in Nat /\ c \in Nat
        /\ CompletedAt(q, early) = IF q \in early THEN 2 * i + 1 ELSE 2 * c
  BY AnswerTime
<1>3. PICK j \in At("ISSUED", r) :
        /\ j \in Nat /\ d \in Nat
        /\ CompletedAt(r, early) = IF r \in early THEN 2 * j + 1 ELSE 2 * d
  BY AnswerTime
<1>4. i # j /\ c # d
  BY EventsDiffer DEF At
<1> QED
  BY <1>2, <1>3, <1>4

\* The times of the measured answers are finitely many.
LEMMA AnswersFinite ==
  ASSUME Readable, NEW n, NEW early
  PROVE  /\ IsFiniteSet(Answers(Upto("COMPLETE", n), early))
         /\ Answers(Upto("COMPLETE", n), early) \subseteq Nat \ {0}
<1> DEFINE top == 2 * Len(events)
<1>1. Len(events) \in Nat
  BY DEF Readable
<1>2. \A q \in Upto("COMPLETE", n) : CompletedAt(q, early) \in 1..top
  <2>1. TAKE q \in Upto("COMPLETE", n)
  <2>2. PICK c \in At("COMPLETE", q) : q \in Query
    BY UptoFinite DEF Upto
  <2>3. PICK i \in At("ISSUED", q) :
          /\ i \in Nat /\ c \in Nat /\ 0 < i /\ i < c /\ c <= Len(events)
          /\ CompletedAt(q, early) = IF q \in early THEN 2 * i + 1 ELSE 2 * c
    BY <2>2, AnswerTime
  <2> QED
    BY <1>1, <2>3
<1>3. Answers(Upto("COMPLETE", n), early) \subseteq 1..top
  BY <1>2 DEF Answers
<1>4. IsFiniteSet(1..top)
  BY <1>1, FS_Interval
<1>5. IsFiniteSet(Answers(Upto("COMPLETE", n), early))
  <2> HIDE DEF top
  <2> QED
    BY <1>3, <1>4, FS_Subset
<1> QED
  BY <1>1, <1>3, <1>5

\* COMPLETE of a query the run measures.
LEMMA CompleteFits ==
  ASSUME Readable, NEW early, NEW n \in 1..Len(events), NEW q \in Query,
         events[n] = Ev("COMPLETE", q), NEW t, Fits(t, n - 1, early), q \in MeasuredIds
  PROVE  Fits(CompleteSeen(t, q, CompletedAt(q, early)), n, early)
<1> DEFINE now == CompletedAt(q, early)
           u == CompleteSeen(t, q, now)
           C == Upto("COMPLETE", n - 1)
           D == Upto("COMPLETE", n)
           I == Upto("ISSUED", n)
           r == RowOf(q)
           b == t.blocks[1]
<1>1. /\ n \in Nat \ {0} /\ n - 1 \in Nat /\ n \in At("COMPLETE", q)
      /\ D = C \cup {q} /\ Upto("ISSUED", n - 1) = I
      /\ Upto("ERROR", n - 1) = Upto("ERROR", n)
  BY UptoStep
<1>2. PICK i \in At("ISSUED", q) :
        /\ i \in Nat /\ 0 < i /\ i < n /\ When("ISSUED", q) = i
        /\ now = IF q \in early THEN 2 * i + 1 ELSE 2 * n
  BY <1>1, AnswerTime
<1>3. now \in Nat
  BY <1>1, <1>2
<1>4. q \in I /\ q \notin C
  <2>1. q \in I
    BY <1>1, <1>2 DEF Upto
  <2>2. At("COMPLETE", q) = {n}
    BY <1>1, PlaceOf DEF SampleEvent
  <2> QED
    BY <1>1, <2>1, <2>2 DEF Upto
<1>5. \A s \in At("START_PERFORMANCE_TRACKING", None) : s <= n <=> s <= n - 1
  BY OpenSame
<1>6. OpenAfter(n) <=> OpenAfter(n - 1)
  BY OpenSame
<1>7. PICK s \in At("START_PERFORMANCE_TRACKING", None) :
        s <= n - 1 /\ Len(t.blocks) = 1 /\ b.start = Time(s)
  <2>1. Upto("ISSUED", n - 1) # {}
    BY <1>1, <1>4
  <2> QED
    BY <2>1 DEF Fits, FitsBlock
<1>8. t \in TableSet /\ FitsCounters(t, n - 1) /\ FitsDuration(t, n - 1, early)
      /\ FitsEnd(t, n - 1, early) /\ FitsStart(t, n - 1) /\ (t.tracking <=> OpenAfter(n - 1))
  BY DEF Fits
<1>9. r.id = q /\ r.issued = 2 * i /\ r \in TableRow
  <2>1. r = [id |-> q, block |-> 1, issued |-> 2 * i]
    BY <1>2 DEF RowOf, Time
  <2> QED
    BY <1>2, <2>1 DEF TableRow
<1>10. Row(t, q) = {r}
  BY <1>1, <1>4, <1>8, RowIs
<1> HIDE DEF u, r, C, D, I, now
<1>11. /\ u \in TableSet
       /\ u.tracking = t.tracking /\ u.windowStart = t.windowStart
       /\ u.trackedIssued = t.trackedIssued /\ u.trackedFailed = t.trackedFailed
       /\ u.trackedCompleted = t.trackedCompleted + 1
       /\ u.rows = t.rows \ {r}
       /\ Len(u.blocks) = 1 /\ u.blocks[1].start = b.start
       /\ u.blocks[1].last = (IF now > b.last THEN now ELSE b.last)
       /\ u.blocks[1].completed = b.completed + 1
       /\ u.maxIssued = (IF r.issued > t.maxIssued THEN r.issued ELSE t.maxIssued)
       /\ u.windowEnd = (IF r.issued > t.maxIssued THEN now ELSE t.windowEnd)
  <2>1. u = CompleteSeen(t, q, now)
    BY DEF u
  <2> QED
    BY <1>3, <1>7, <1>8, <1>9, <1>10, <2>1, CompleteFields
<1>12. FitsBlock(u, n)
  BY <1>5, <1>7, <1>11 DEF FitsBlock
<1>13. FitsCounters(u, n)
  <2>1. /\ t.rows = {RowOf(x) : x \in I \ C}
        /\ t.trackedIssued = Cardinality(I) /\ t.trackedCompleted = Cardinality(C)
        /\ t.trackedFailed = Cardinality(Upto("ERROR", n))
    BY <1>1, <1>8 DEF FitsCounters, C
  <2>2. \A x : RowOf(x).id = x
    BY DEF RowOf
  <2>3. I \ D = (I \ C) \ {q}
    BY <1>1
  <2>4. u.rows = {RowOf(x) : x \in I \ D}
    <3>1. u.rows = {RowOf(x) : x \in I \ C} \ {RowOf(q)}
      BY <1>11, <2>1 DEF r
    <3>2. {RowOf(x) : x \in I \ C} \ {RowOf(q)} = {RowOf(x) : x \in (I \ C) \ {q}}
      BY <2>2
    <3> QED
      BY <2>3, <3>1, <3>2
  <2>5. Cardinality(D) = Cardinality(C) + 1
    BY <1>1, <1>4, UptoFinite, FS_AddElement DEF C
  <2> QED
    BY <1>11, <2>1, <2>4, <2>5 DEF FitsCounters, I, D
<1>14. FitsDuration(u, n, early)
  <2> DEFINE A == Answers(C, early)
             B == Answers(D, early)
  <2>1. B = A \cup {now}
    BY <1>1 DEF Answers, now
  <2>2. IsFiniteSet(A) /\ A \subseteq Nat
    BY AnswersFinite DEF C
  <2>3. now \notin A
    <3>1. SUFFICES ASSUME NEW x \in C PROVE now # CompletedAt(x, early)
      BY DEF Answers
    <3>2. x \in Query /\ At("COMPLETE", x) # {} /\ x # q
      BY <1>4, UptoFinite DEF C, Upto
    <3> QED
      BY <1>1, <3>2, AnswersDiffer DEF now
  <2>4. /\ b.completed = Cardinality(A) /\ b.last \in A \cup {b.start}
        /\ \A x \in A : x <= b.last
    BY <1>7, <1>8 DEF FitsDuration, C
  <2>5. b.last \in Nat
    <3>1. b.start \in Nat
      <4>1. s \in Nat
        BY DEF At, Readable
      <4> QED
        BY <1>7, <4>1 DEF Time
    <3> QED
      BY <2>2, <2>4, <3>1
  <2> HIDE DEF A, B
  <2>6. Cardinality(B) = Cardinality(A) + 1
    BY <2>1, <2>2, <2>3, FS_AddElement
  <2>7. u.blocks[1].last \in B \cup {u.blocks[1].start}
    BY <1>11, <2>1, <2>4
  <2>8. \A x \in B : x <= u.blocks[1].last
    BY <1>3, <1>11, <2>1, <2>2, <2>4, <2>5
  <2>9. u.blocks[1].completed = Cardinality(B)
    BY <1>11, <2>4, <2>6
  <2> QED
    BY <2>7, <2>8, <2>9 DEF FitsDuration, B, D
<1>15. FitsEnd(u, n, early)
  <2>1. CASE C = {} /\ t.maxIssued = 0 /\ t.windowEnd = 0
    <3>1. D = {q}
      BY <1>1, <2>1
    <3>2. u.maxIssued = r.issued /\ u.windowEnd = now
      BY <1>2, <1>9, <1>11, <2>1
    <3>3. \A x \in D : When("ISSUED", x) <= When("ISSUED", q)
      BY <1>2, <3>1
    <3> QED
      BY <1>2, <1>9, <3>1, <3>2, <3>3 DEF FitsEnd, D, now, Time
  <2>2. CASE \E x \in C : /\ \A y \in C : When("ISSUED", y) <= When("ISSUED", x)
                          /\ t.maxIssued = Time(When("ISSUED", x))
                          /\ t.windowEnd = CompletedAt(x, early)
    <3>1. PICK x \in C : /\ \A y \in C : When("ISSUED", y) <= When("ISSUED", x)
                         /\ t.maxIssued = Time(When("ISSUED", x))
                         /\ t.windowEnd = CompletedAt(x, early)
      BY <2>2
    <3>2. \A y \in C : When("ISSUED", y) \in Nat
      <4>1. TAKE y \in C
      <4>2. y \in Query /\ At("COMPLETE", y) # {}
        BY UptoFinite DEF C, Upto
      <4> QED
        BY <4>2, AnswerTime
    <3>3. CASE r.issued > t.maxIssued
      <4>1. When("ISSUED", x) <= i
        BY <1>2, <1>9, <3>1, <3>2, <3>3 DEF Time
      <4>2. \A y \in D : When("ISSUED", y) <= When("ISSUED", q)
        BY <1>1, <1>2, <3>1, <3>2, <4>1
      <4>3. q \in D /\ u.maxIssued = Time(When("ISSUED", q)) /\ u.windowEnd = now
        BY <1>1, <1>2, <1>9, <1>11, <3>3 DEF Time
      <4> QED
        BY <4>2, <4>3 DEF FitsEnd, D, now
    <3>4. CASE ~(r.issued > t.maxIssued)
      <4>1. i <= When("ISSUED", x)
        BY <1>2, <1>9, <3>1, <3>2, <3>4 DEF Time
      <4>2. \A y \in D : When("ISSUED", y) <= When("ISSUED", x)
        BY <1>1, <1>2, <3>1, <4>1
      <4>3. x \in D /\ u.maxIssued = t.maxIssued /\ u.windowEnd = t.windowEnd
        BY <1>1, <1>11, <3>4
      <4> QED
        BY <3>1, <4>2, <4>3 DEF FitsEnd, D
    <3> QED
      BY <3>3, <3>4
  <2> QED
    BY <1>8, <2>1, <2>2 DEF FitsEnd, C
<1>16. FitsStart(u, n)
  BY <1>1, <1>8, <1>11 DEF FitsStart, I
<1>17. u.tracking <=> OpenAfter(n)
  BY <1>6, <1>8, <1>11
<1>18. Fits(u, n, early)
  BY <1>11, <1>12, <1>13, <1>14, <1>15, <1>16, <1>17 DEF Fits
<1> QED
  BY <1>18 DEF u, now

\* COMPLETE of a query the run does not measure.
LEMMA OtherCompleteFits ==
  ASSUME Readable, NEW early, NEW n \in 1..Len(events), NEW q \in Query,
         events[n] = Ev("COMPLETE", q), NEW t, Fits(t, n - 1, early), q \notin MeasuredIds
  PROVE  Fits(CompleteSeen(t, q, CompletedAt(q, early)), n, early)
<1> DEFINE now == CompletedAt(q, early)
           u == CompleteSeen(t, q, now)
<1>1. n \in Nat /\ n - 1 \in Nat /\ n \in At("COMPLETE", q)
      /\ Upto("ERROR", n) = Upto("ERROR", n - 1)
  BY UptoStep
<1>2. now \in Nat
  BY <1>1, AnswerTime
<1>3. Row(t, q) = {}
  <2>1. q \notin Upto("ISSUED", n - 1)
    BY DEF Upto
  <2> QED
    BY <1>1, <2>1, RowIs DEF Fits
<1>4. OpenAfter(n) <=> OpenAfter(n - 1)
  BY OpenSame
<1>5. t \in TableSet /\ (t.tracking <=> OpenAfter(n - 1))
      /\ t.trackedFailed = Cardinality(Upto("ERROR", n))
  BY <1>1 DEF Fits, FitsCounters
<1> HIDE DEF u, now
<1>6. /\ u \in TableSet /\ SameAnswers(t, u)
      /\ u.tracking = t.tracking /\ u.blocks = t.blocks /\ u.rows = t.rows
      /\ u.windowStart = t.windowStart /\ u.trackedIssued = t.trackedIssued
      /\ u.trackedFailed = t.trackedFailed
  <2>1. u = CompleteSeen(t, q, now)
    BY DEF u
  <2> QED
    BY <1>2, <1>3, <1>5, <2>1, OtherCompleteFields
<1>7. (u.tracking <=> OpenAfter(n)) /\ u.trackedFailed = Cardinality(Upto("ERROR", n))
  BY <1>4, <1>5, <1>6
<1>8. Fits(u, n, early)
  BY <1>6, <1>7, NothingFits
<1> QED
  BY <1>8 DEF u, now

\* START_PERFORMANCE_TRACKING, of which a run has one.
LEMMA StartFits ==
  ASSUME Readable, NEW early, NEW n \in 1..Len(events),
         events[n] = Ev("START_PERFORMANCE_TRACKING", None), NEW t, Fits(t, n - 1, early)
  PROVE  Fits(SessionEventSeen(t, "START_PERFORMANCE_TRACKING", Time(n)), n, early)
<1> DEFINE now == Time(n)
           u == SessionEventSeen(t, "START_PERFORMANCE_TRACKING", now)
           B == <<Block(now)>>
<1>1. /\ n \in Nat \ {0} /\ n - 1 \in Nat /\ n \in At("START_PERFORMANCE_TRACKING", None)
      /\ \A l : l # "START_PERFORMANCE_TRACKING" => Upto(l, n) = Upto(l, n - 1)
      /\ \A l, r : n \in At(l, r) => l = "START_PERFORMANCE_TRACKING"
  BY UptoStep
<1>2. \A s \in At("START_PERFORMANCE_TRACKING", None) : s = n
  BY <1>1 DEF Readable
<1>3. \A s \in At("START_PERFORMANCE_TRACKING", None) : ~(s <= n - 1)
  BY <1>1, <1>2
<1>4. ~OpenAfter(n - 1) /\ OpenAfter(n)
  <2>1. ~OpenAfter(n - 1)
    BY <1>3 DEF OpenAfter
  <2>2. \A x \in At("STOP_PERFORMANCE_TRACKING", None) : ~(n < x /\ x <= n)
    BY <1>1 DEF At, Readable
  <2> QED
    BY <1>1, <2>1, <2>2 DEF OpenAfter
<1>5. /\ t \in TableSet /\ t.tracking = FALSE /\ t.blocks = <<>>
      /\ Upto("ISSUED", n) = {} /\ Upto("ISSUED", n - 1) = {}
  <2>1. t \in TableSet /\ ~t.tracking /\ t.blocks = <<>> /\ Upto("ISSUED", n - 1) = {}
    BY <1>3, <1>4 DEF Fits, FitsBlock
  <2> QED
    BY <1>1, <2>1, FieldTypes
<1>6. Upto("COMPLETE", n) = {} /\ Upto("COMPLETE", n - 1) = {}
  <2>1. \A q \in Upto("COMPLETE", n) : q \in Upto("ISSUED", n)
    <3>1. TAKE q \in Upto("COMPLETE", n)
    <3>2. PICK c \in At("COMPLETE", q) : q \in MeasuredIds /\ q \in Query /\ c <= n
      BY UptoFinite DEF Upto
    <3>3. PICK i \in At("ISSUED", q) : i \in Nat /\ c \in Nat /\ i < c
      BY <3>2, AnswerTime
    <3> QED
      BY <1>1, <3>2, <3>3 DEF Upto
  <2> QED
    BY <1>1, <1>5, <2>1
<1>7. now \in Nat
  BY <1>1 DEF Time
<1>8. B \in Seq(BlockType) /\ Len(B) = 1 /\ B[1].start = now /\ B[1].last = now
      /\ B[1].completed = 0
  BY <1>7 DEF Block, BlockType
<1> HIDE DEF now
<1>9. u = [t EXCEPT !.tracking = TRUE, !.blocks = B]
  <2>1. u = [t EXCEPT !.tracking = TRUE, !.blocks = Append(@, Block(now))]
    BY <1>5 DEF SessionEventSeen
  <2>2. u = [t EXCEPT !.tracking = TRUE, !.blocks = Append(t.blocks, Block(now))]
    BY <1>5, <2>1 DEF TableSet
  <2>3. Append(t.blocks, Block(now)) = B
    BY <1>5
  <2> QED
    BY <2>2, <2>3
<1> HIDE DEF u, B
<1>10. u \in TableSet
  <2>1. [t EXCEPT !.tracking = TRUE, !.blocks = B] \in TableSet
    BY <1>5, <1>8, Zenon DEF TableSet
  <2> QED
    BY <1>9, <2>1
<1>11. /\ u.tracking = TRUE /\ u.blocks = B /\ SameAnswers(t, u) /\ u.rows = t.rows
       /\ u.windowStart = t.windowStart /\ u.trackedIssued = t.trackedIssued
       /\ u.trackedFailed = t.trackedFailed
  BY <1>5, <1>9 DEF TableSet, SameAnswers
<1>12. FitsBlock(u, n)
  <2>1. n <= n
    BY <1>1
  <2> QED
    BY <1>1, <1>8, <1>11, <2>1 DEF FitsBlock, now
<1>13. FitsCounters(u, n)
  <2>1. FitsCounters(t, n - 1) /\ Upto("ERROR", n) = Upto("ERROR", n - 1)
    BY <1>1 DEF Fits
  <2> QED
    BY <1>5, <1>6, <1>11, <2>1 DEF FitsCounters, SameAnswers
<1>14. FitsDuration(u, n, early)
  <2>1. Answers(Upto("COMPLETE", n), early) = {}
    BY <1>6 DEF Answers
  <2> QED
    BY <1>8, <1>11, <2>1, FS_EmptySet DEF FitsDuration
<1>15. FitsEnd(u, n, early)
  BY <1>6, <1>11 DEF Fits, FitsEnd, SameAnswers
<1>16. FitsStart(u, n)
  BY <1>5, <1>11 DEF Fits, FitsStart
<1>17. Fits(u, n, early)
  BY <1>4, <1>10, <1>11, <1>12, <1>13, <1>14, <1>15, <1>16 DEF Fits
<1> QED
  BY <1>17 DEF u, now

\* STOP_PERFORMANCE_TRACKING.
LEMMA StopFits ==
  ASSUME Readable, NEW early, NEW n \in 1..Len(events),
         events[n] = Ev("STOP_PERFORMANCE_TRACKING", None), NEW t, Fits(t, n - 1, early)
  PROVE  Fits(SessionEventSeen(t, "STOP_PERFORMANCE_TRACKING", Time(n)), n, early)
<1> DEFINE u == SessionEventSeen(t, "STOP_PERFORMANCE_TRACKING", Time(n))
<1>1. /\ n \in Nat \ {0} /\ n - 1 \in Nat /\ n \in At("STOP_PERFORMANCE_TRACKING", None)
      /\ \A l, r : n \in At(l, r) => l = "STOP_PERFORMANCE_TRACKING"
      /\ Upto("ERROR", n) = Upto("ERROR", n - 1)
  BY UptoStep
<1>2. ~OpenAfter(n)
  <2>1. SUFFICES ASSUME NEW s \in At("START_PERFORMANCE_TRACKING", None), s <= n
                 PROVE  s < n
    BY <1>1 DEF OpenAfter
  <2>2. s # n /\ s \in Nat
    BY <1>1 DEF At, Readable
  <2> QED
    BY <1>1, <2>1, <2>2
<1>3. t \in TableSet /\ t.trackedFailed = Cardinality(Upto("ERROR", n))
  BY <1>1 DEF Fits, FitsCounters
<1>4. u = [t EXCEPT !.tracking = FALSE]
  BY DEF SessionEventSeen, StopTracking
<1> HIDE DEF u
<1>5. u \in TableSet
  <2>1. [t EXCEPT !.tracking = FALSE] \in TableSet
    BY <1>3, Zenon DEF TableSet
  <2> QED
    BY <1>4, <2>1
<1>6. /\ u.tracking = FALSE /\ u.blocks = t.blocks /\ SameAnswers(t, u) /\ u.rows = t.rows
      /\ u.windowStart = t.windowStart /\ u.trackedIssued = t.trackedIssued
      /\ u.trackedFailed = t.trackedFailed
  BY <1>3, <1>4 DEF TableSet, SameAnswers
<1>7. Fits(u, n, early)
  BY <1>2, <1>3, <1>5, <1>6, NothingFits
<1> QED
  BY <1>7 DEF u

\* The session's other events leave the table alone.
LEMMA OtherSessionFits ==
  ASSUME Readable, NEW early, NEW n \in 1..Len(events), NEW k, NEW q,
         k \notin SampleEvent, events[n] = Ev(k, q), NEW t, Fits(t, n - 1, early),
         k # "START_PERFORMANCE_TRACKING", k # "STOP_PERFORMANCE_TRACKING"
  PROVE  Fits(SessionEventSeen(t, k, Time(n)), n, early)
<1>1. OpenAfter(n) <=> OpenAfter(n - 1)
  BY OpenSame
<1>2. Upto("ERROR", n) = Upto("ERROR", n - 1)
  BY UptoStep DEF SampleEvent
<1>3. /\ t \in TableSet /\ t.trackedFailed = Cardinality(Upto("ERROR", n))
      /\ (t.tracking <=> OpenAfter(n))
  BY <1>1, <1>2 DEF Fits, FitsCounters
<1>4. SameAnswers(t, t)
  BY DEF SameAnswers
<1>5. Fits(t, n, early)
  BY <1>3, <1>4, NothingFits DEF SampleEvent
<1> QED
  BY <1>5 DEF SessionEventSeen

\* Any event.
LEMMA SeenFits ==
  ASSUME Readable, NEW early, NEW n \in 1..Len(events), NEW t, Fits(t, n - 1, early)
  PROVE  Fits(Seen(t, n, early), n, early)
<1>1. events[n] \in Event
  BY DEF Readable
<1>2. PICK k \in SessionEvent \cup SampleEvent, q \in Query \cup {None} : events[n] = Ev(k, q)
  BY <1>1 DEF Event, Ev
<1>3. events[n].kind = k /\ events[n].id = q
  BY <1>2 DEF Ev
<1>4. (k \in SampleEvent <=> q \in Query)
  BY <1>2 DEF Readable
<1>5. CASE k = "ISSUED"
  <2>1. q \in Query /\ Seen(t, n, early) = IssuedSeen(t, q, Time(n))
    <3>1. q \in Query
      BY <1>4, <1>5 DEF SampleEvent
    <3>2. events[n].kind = "ISSUED" /\ events[n].id = q
      BY <1>3, <1>5
    <3>3. "ISSUED" \notin SessionEvent
      BY DEF SessionEvent
    <3>4. Seen(t, n, early) = IssuedSeen(t, q, Time(n))
      BY <3>2, <3>3, Zenon DEF Seen
    <3> QED
      BY <3>1, <3>4
  <2> QED
    BY <1>2, <1>5, <2>1, IssuedFits, OtherIssuedFits
<1>6. CASE k = "ERROR"
  <2>1. q \in Query /\ Seen(t, n, early) = ErrorSeen(t, q)
    <3>1. q \in Query
      BY <1>4, <1>6 DEF SampleEvent
    <3>2. events[n].kind = "ERROR" /\ events[n].id = q
      BY <1>3, <1>6
    <3>3. "ERROR" \notin SessionEvent
      BY DEF SessionEvent
    <3>4. Seen(t, n, early) = ErrorSeen(t, q)
      BY <3>2, <3>3, Zenon DEF Seen
    <3> QED
      BY <3>1, <3>4
  <2> QED
    BY <1>2, <1>6, <2>1, ErrorFits
<1>7. CASE k = "COMPLETE"
  <2>1. q \in Query /\ Seen(t, n, early) = CompleteSeen(t, q, CompletedAt(q, early))
    <3>1. q \in Query
      BY <1>4, <1>7 DEF SampleEvent
    <3>2. events[n].kind = "COMPLETE" /\ events[n].id = q
      BY <1>3, <1>7
    <3>3. "COMPLETE" \notin SessionEvent
      BY DEF SessionEvent
    <3>4. Seen(t, n, early) = CompleteSeen(t, q, CompletedAt(q, early))
      BY <3>2, <3>3, Zenon DEF Seen
    <3> QED
      BY <3>1, <3>4
  <2> QED
    BY <1>2, <1>7, <2>1, CompleteFits, OtherCompleteFits
<1>8. CASE k \in SessionEvent
  <2>1. q = None
    BY <1>2, <1>4, <1>8 DEF SessionEvent, SampleEvent
  <2>2. Seen(t, n, early) = SessionEventSeen(t, k, Time(n))
    BY <1>3, <1>8 DEF Seen, SessionEvent
  <2>3. k \notin SampleEvent
    BY <1>8 DEF SessionEvent, SampleEvent
  <2> QED
    BY <1>2, <2>1, <2>2, <2>3, StartFits, StopFits, OtherSessionFits
<1> QED
  BY <1>5, <1>6, <1>7, <1>8 DEF SampleEvent

\* The table the aggregator starts with.
LEMMA EmptyFits ==
  ASSUME Readable, NEW early
  PROVE  Fits(EmptyTable, 0, early)
<1>1. \A k, q : At(k, q) \subseteq Nat \ {0}
  BY DEF At, Readable
<1>2. \A k, q : \A i \in At(k, q) : ~(i <= 0)
  BY <1>1
<1>3. \A k : Upto(k, 0) = {}
  BY <1>2 DEF Upto
<1>4. ~OpenAfter(0)
  BY <1>2 DEF OpenAfter
<1>5. EmptyTable \in TableSet
  <2>1. <<>> \in Seq(BlockType) /\ {} \in SUBSET TableRow
    OBVIOUS
  <2> QED
    BY <2>1, Zenon DEF TableSet, EmptyTable
<1>6. Len(EmptyTable.blocks) # 1
  BY DEF EmptyTable
<1>7. FitsCounters(EmptyTable, 0)
  BY <1>3, FS_EmptySet DEF FitsCounters, EmptyTable
<1>8. FitsBlock(EmptyTable, 0)
  BY <1>2, <1>3 DEF FitsBlock, EmptyTable
<1>9. FitsDuration(EmptyTable, 0, early)
  BY <1>6 DEF FitsDuration
<1>10. FitsEnd(EmptyTable, 0, early)
  BY <1>3 DEF FitsEnd, EmptyTable
<1>11. FitsStart(EmptyTable, 0)
  BY <1>3 DEF FitsStart, EmptyTable
<1>12. EmptyTable.tracking = FALSE
  BY DEF EmptyTable
<1> QED
  BY <1>4, <1>5, <1>7, <1>8, <1>9, <1>10, <1>11, <1>12 DEF Fits

\* The table after all events.
LEMMA TableFits ==
  ASSUME Readable, NEW early
  PROVE  Fits(Table(early), Len(events), early)
<1>1. Len(events) \in Nat
  BY DEF Readable
<1>2. PICK g : Walk(early, Len(events), g) /\ Table(early) = g[Len(events)]
  BY <1>1, TableIsLast
<1>3. \A i \in 0..Len(events) :
        g[i] = IF i = 0 THEN EmptyTable ELSE Seen(g[i - 1], i, early)
  BY <1>2, WalkAt
<1> DEFINE T == {i \in 0..Len(events) : ~Fits(g[i], i, early)}
<1>4. T = {}
  <2>1. SUFFICES ASSUME T # {} PROVE FALSE
    OBVIOUS
  <2>2. T \subseteq Nat
    BY <1>1
  <2>3. PICK n \in T : \A y \in T : ~(y < n)
    <3> HIDE DEF T
    <3> QED
      BY <2>1, <2>2, LeastNat
  <2>4. n # 0
    <3>1. g[0] = EmptyTable
      BY <1>1, <1>3
    <3> QED
      BY <3>1, EmptyFits
  <2>5. n \in 1..Len(events) /\ n - 1 \in 0..Len(events) /\ n - 1 < n /\ n - 1 \in Nat
    BY <1>1, <2>3, <2>4
  <2>6. Fits(g[n - 1], n - 1, early)
    BY <2>3, <2>5
  <2>7. g[n] = Seen(g[n - 1], n, early)
    BY <1>3, <2>4, <2>5
  <2>8. Fits(Seen(g[n - 1], n, early), n, early)
    BY <2>5, <2>6, SeenFits
  <2> QED
    BY <2>3, <2>7, <2>8
<1>5. Len(events) \in 0..Len(events)
  BY <1>1
<1> QED
  BY <1>2, <1>4, <1>5

\* All events have been seen.
LEMMA UptoAll ==
  ASSUME Readable, NEW k
  PROVE  Upto(k, Len(events)) = Measured(k)
<1>1. \A q : \A i \in At(k, q) : i <= Len(events)
  BY DEF At, Readable
<1> QED
  BY <1>1 DEF Upto, Measured, MeasuredIds

\* What a table that fits has measured.
LEMMA TableMeasures ==
  ASSUME Readable
  PROVE  TableIsThePerformancePhases
<1>1. \A k : Upto(k, Len(events)) = Measured(k)
  BY UptoAll
<1>2. CountersAreThePerformancePhases
  <2>1. FitsCounters(Table({}), Len(events))
    BY TableFits DEF Fits
  <2>2. \A q : RowOf(q).id = q
    BY DEF RowOf
  <2> DEFINE t == Table({})
  <2>3. /\ t.rows = {RowOf(q) : q \in Measured("ISSUED") \ Measured("COMPLETE")}
        /\ t.trackedIssued = Cardinality(Measured("ISSUED"))
        /\ t.trackedCompleted = Cardinality(Measured("COMPLETE"))
        /\ t.trackedFailed = Cardinality(Measured("ERROR"))
    BY <1>1, <2>1 DEF FitsCounters
  <2> HIDE DEF t
  <2>4. {r.id : r \in t.rows} = Measured("ISSUED") \ Measured("COMPLETE")
    BY <2>2, <2>3
  <2> QED
    BY <2>3, <2>4 DEF CountersAreThePerformancePhases, t
<1>3. DurationEndsWithLastAnswer
  <2>1. SUFFICES ASSUME NEW early \in SUBSET Measured("COMPLETE"), Table(early).blocks # <<>>
                 PROVE  LET t == Table(early)
                            a == Answers(Measured("COMPLETE"), early)
                        IN  /\ Len(t.blocks) = 1 /\ t.blocks[1].completed = Cardinality(a)
                            /\ t.blocks[1].last \in a \cup {t.blocks[1].start}
                            /\ \A x \in a : x <= t.blocks[1].last
    BY DEF DurationEndsWithLastAnswer, Answers
  <2>2. FitsBlock(Table(early), Len(events)) /\ FitsDuration(Table(early), Len(events), early)
    BY TableFits DEF Fits
  <2> QED
    BY <1>1, <2>1, <2>2 DEF FitsBlock, FitsDuration
<1>4. LoadgenWindowIsLegacy
  <2>1. SUFFICES ASSUME NEW early \in SUBSET Measured("COMPLETE")
                 PROVE  LET t == Table(early)
                            C == Measured("COMPLETE")
                        IN  /\ C # {} =>
                                 \E q \in C :
                                   /\ \A r \in C : When("ISSUED", r) <= When("ISSUED", q)
                                   /\ t.windowEnd = CompletedAt(q, early)
                            /\ C = {} => t.windowEnd = 0
                            /\ t.windowEnd > 0 =>
                                 /\ \A q \in Measured("ISSUED") :
                                      t.windowStart <= Time(When("ISSUED", q))
                                 /\ t.windowEnd - t.windowStart
                                      <= t.blocks[1].last - t.blocks[1].start
    BY DEF LoadgenWindowIsLegacy
  <2> DEFINE t == Table(early)
             C == Measured("COMPLETE")
             I == Measured("ISSUED")
             b == t.blocks[1]
  <2>2. /\ t \in TableSet /\ FitsBlock(t, Len(events)) /\ FitsDuration(t, Len(events), early)
        /\ FitsEnd(t, Len(events), early) /\ FitsStart(t, Len(events))
    BY TableFits DEF Fits
  <2> HIDE DEF t, C, I
  <2>3. C \subseteq I
    <3>1. SUFFICES ASSUME NEW q \in C PROVE q \in I
      OBVIOUS
    <3>2. PICK c \in At("COMPLETE", q) : q \in MeasuredIds /\ q \in Query
      BY DEF C, Measured, MeasuredIds, Readable
    <3>3. At("ISSUED", q) # {}
      BY <3>2, AnswerTime
    <3> QED
      BY <3>2, <3>3 DEF I, Measured, MeasuredIds
  <2>4. \/ C = {} /\ t.windowEnd = 0
        \/ \E q \in C : /\ \A r \in C : When("ISSUED", r) <= When("ISSUED", q)
                        /\ t.windowEnd = CompletedAt(q, early)
    BY <1>1, <2>2 DEF FitsEnd, C
  <2>5. ASSUME t.windowEnd > 0
        PROVE  /\ \A q \in I : t.windowStart <= Time(When("ISSUED", q))
               /\ t.windowEnd - t.windowStart <= b.last - b.start
    <3>1. PICK q \in C : t.windowEnd = CompletedAt(q, early)
      BY <2>4, <2>5
    <3>2. I # {}
      BY <2>3, <3>1
    <3>3. /\ b.start <= t.windowStart
          /\ \A r \in I : t.windowStart <= Time(When("ISSUED", r))
      BY <1>1, <2>2, <3>2 DEF FitsStart, I
    <3>4. Len(t.blocks) = 1
      BY <1>1, <2>2, <3>2 DEF FitsBlock, I
    <3>5. t.windowEnd <= b.last
      BY <1>1, <2>2, <3>1, <3>4 DEF FitsDuration, Answers, C
    <3>6. b.start \in Nat /\ b.last \in Nat /\ t.windowStart \in Nat /\ t.windowEnd \in Nat
      <4>1. b \in BlockType
        BY <2>2, <3>4, FieldTypes
      <4> QED
        BY <2>2, <4>1, FieldTypes DEF BlockType
    <3> QED
      BY <3>3, <3>5, <3>6
  <2> QED
    BY <2>4, <2>5 DEF t, C, I
<1> QED
  BY <1>2, <1>3, <1>4 DEF TableIsThePerformancePhases

-----------------------------------------------------------------------------
(***************************************************************************)
(* What the table needs of the stream beyond what every subscriber relies  *)
(* on: a query is issued once and fails at most once, and the performance  *)
(* window opens once.                                                      *)
(***************************************************************************)

\* At most one phase is measured, as _build_phases builds the list.
OneMeasured ==
  \A p, r \in Phase : PhaseType[p] = "performance" /\ PhaseType[r] = "performance" => p = r

\* Events about queries are of the sample kinds, and no others.
Kinds(e) == \A i \in DOMAIN e : e[i].kind \in SampleEvent <=> e[i].id \in Query

\* A query is issued once, and fails at most once, after that.
Once(e, w) ==
  /\ \A q \in Query :
       /\ \A i, j \in Pos(e, "ISSUED", q) : i = j
       /\ \A x, y \in Pos(e, "ERROR", q) : x = y
       /\ \A x \in Pos(e, "ERROR", q) : \E i \in Pos(e, "ISSUED", q) : i < x
  /\ \A q \in w : Pos(e, "ERROR", q) = {}

Starts(e) == Pos(e, "START_PERFORMANCE_TRACKING", None)

\* The window was opened at most once, by a phase among the first n.
Begun(e, n) ==
  /\ \A i, j \in Starts(e) : i = j
  /\ Starts(e) # {} => \E p \in Phase : p <= n /\ PhaseType[p] = "performance"

\* f is e with events that concern no query.
SessionOnly(e, f) ==
  /\ f \in Seq(Event)
  /\ \A k, q : q \in Query => Pos(f, k, q) = Pos(e, k, q)
  /\ Kinds(e) => Kinds(f)

\* One such event.
LEMMA SessionOnlyAppend ==
  ASSUME NEW e \in Seq(Event), NEW k \in SessionEvent
  PROVE  /\ SessionOnly(e, Append(e, Ev(k, None)))
         /\ k # "START_PERFORMANCE_TRACKING" => Starts(Append(e, Ev(k, None))) = Starts(e)
         /\ k = "START_PERFORMANCE_TRACKING"
              => Starts(Append(e, Ev(k, None))) = Starts(e) \cup {Len(e) + 1}
<1> DEFINE x == Ev(k, None)
           f == Append(e, x)
<1>1. x \in Event /\ x.id = None /\ x.kind = k
  BY DEF Ev, Event
<1>2. f \in Seq(Event)
  BY <1>1
<1>3. ASSUME NEW l, NEW q \in Query
      PROVE  Pos(f, l, q) = Pos(e, l, q)
  <2>1. x # Ev(l, q)
    BY EventsDiffer, EnvironmentAssumption
  <2> QED
    BY <1>1, <2>1, PosAppend
<1>4. Kinds(e) => Kinds(f)
  <2>1. /\ Len(e) \in Nat /\ DOMAIN e = 1..Len(e) /\ DOMAIN f = 1..(Len(e) + 1)
        /\ \A i \in DOMAIN e : f[i] = e[i]
        /\ f[Len(e) + 1] = x
    BY <1>1, PosAppend
  <2>2. k \notin SampleEvent /\ None \notin Query
    BY EnvironmentAssumption DEF SessionEvent, SampleEvent
  <2> HIDE DEF f, x
  <2>3. \A i \in DOMAIN f : i \in DOMAIN e \/ i = Len(e) + 1
    BY <2>1
  <2> QED
    BY <1>1, <2>1, <2>2, <2>3 DEF Kinds
<1>5. k # "START_PERFORMANCE_TRACKING" => Starts(f) = Starts(e)
  BY <1>1, EventsDiffer, PosAppend DEF Starts
<1>6. k = "START_PERFORMANCE_TRACKING" => Starts(f) = Starts(e) \cup {Len(e) + 1}
  BY <1>1, EventsDiffer, PosAppend DEF Starts
<1> QED
  BY <1>2, <1>3, <1>4, <1>5, <1>6 DEF SessionOnly

\* Two of them.
LEMMA SessionOnlyTwice ==
  ASSUME NEW e, NEW f, NEW g, SessionOnly(e, f), SessionOnly(f, g)
  PROVE  SessionOnly(e, g)
  BY DEF SessionOnly

\* The terminal events.
LEMMA TerminalOnly ==
  ASSUME NEW e \in Seq(Event), NEW stopped \in BOOLEAN
  PROVE  /\ SessionOnly(e, e \o TerminalEvents(stopped))
         /\ Starts(e \o TerminalEvents(stopped)) = Starts(e)
         /\ stopped => Pos(e \o TerminalEvents(stopped), "INTERRUPTED", None) # {}
<1> DEFINE g == Append(e, Ev("INTERRUPTED", None))
<1>1. Ev("INTERRUPTED", None) \in Event /\ Ev("ENDED", None) \in Event
  BY DEF Ev, Event, SessionEvent
<1>2. "INTERRUPTED" \in SessionEvent /\ "ENDED" \in SessionEvent
  BY DEF SessionEvent
<1>3. g \in Seq(Event) /\ SessionOnly(e, g) /\ Starts(g) = Starts(e)
  BY <1>1, <1>2, SessionOnlyAppend
<1>4. Pos(g, "INTERRUPTED", None) # {}
  BY <1>1, PosAppend
<1> DEFINE f == e \o TerminalEvents(stopped)
<1>5. CASE stopped
  <2>1. f = Append(g, Ev("ENDED", None))
    BY <1>1, <1>5 DEF TerminalEvents, Session
  <2> HIDE DEF f, g
  <2>2. SessionOnly(g, f) /\ Starts(f) = Starts(g)
    BY <1>2, <1>3, <2>1, SessionOnlyAppend
  <2>3. Pos(f, "INTERRUPTED", None) = Pos(g, "INTERRUPTED", None)
    BY <1>1, <1>3, <2>1, PosAppend, EventsDiffer
  <2>4. SessionOnly(e, f)
    BY <1>3, <2>2, SessionOnlyTwice
  <2> QED
    BY <1>3, <1>4, <2>2, <2>3, <2>4 DEF f
<1>6. CASE ~stopped
  <2>1. f = Append(e, Ev("ENDED", None))
    BY <1>1, <1>6 DEF TerminalEvents, Session
  <2> HIDE DEF f
  <2>2. SessionOnly(e, f) /\ Starts(f) = Starts(e)
    BY <1>2, <2>1, SessionOnlyAppend
  <2> QED
    BY <1>6, <2>2 DEF f
<1> QED
  BY <1>5, <1>6

\* Opening the window for phase p, not opened before.
LEMMA BegunOpens ==
  ASSUME OneMeasured, NEW e, NEW f, NEW p \in Phase, NEW n \in Nat, n < p,
         Begun(e, n), PhaseType[p] = "performance", NEW j, Starts(f) = Starts(e) \cup {j}
  PROVE  Begun(f, p)
<1>1. Starts(e) = {}
  <2>1. \A r \in Phase : r <= n => r # p
    BY PhasesAssumption DEF Phase
  <2> QED
    BY <2>1 DEF Begun, OneMeasured
<1>2. p <= p
  BY PhasesAssumption DEF Phase
<1> QED
  BY <1>1, <1>2 DEF Begun

\* A longer prefix of the phases.
LEMMA BegunKeeps ==
  ASSUME NEW e, NEW f, NEW n \in Nat, NEW m \in Nat, n <= m,
         Begun(e, n), Starts(f) = Starts(e)
  PROVE  Begun(f, m)
<1>1. \A p \in Phase : p <= n => p <= m
  BY PhasesAssumption DEF Phase
<1> QED
  BY <1>1 DEF Begun

\* The start of a phase publishes session events.
LEMMA BeginOnly ==
  ASSUME NEW ev \in Seq(Event), NEW p \in Phase, NEW n \in Nat, n < p,
         BeginPhase(p, ev)
  PROVE  /\ SessionOnly(ev, events')
         /\ OneMeasured /\ Begun(ev, n) => Begun(events', p)
<1> DEFINE e1 == Append(ev, Ev("PHASE_START", None))
           e2 == Append(e1, Ev("START_PERFORMANCE_TRACKING", None))
<1>1. Ev("PHASE_START", None) \in Event /\ Ev("START_PERFORMANCE_TRACKING", None) \in Event
  BY DEF Ev, Event, SessionEvent
<1>2. "PHASE_START" \in SessionEvent /\ "START_PERFORMANCE_TRACKING" \in SessionEvent
  BY DEF SessionEvent
<1>3. e1 \in Seq(Event) /\ e1 = ev \o Session("PHASE_START")
  BY <1>1 DEF Session
<1>4. events' = e1 \o (IF PhaseType[p] = "performance"
                       THEN Session("START_PERFORMANCE_TRACKING") ELSE <<>>)
  BY <1>3 DEF BeginPhase
<1>5. SessionOnly(ev, e1) /\ Starts(e1) = Starts(ev)
  BY <1>2, SessionOnlyAppend
<1>6. p \in Nat
  BY PhasesAssumption DEF Phase
<1> HIDE DEF e1
<1>7. CASE PhaseType[p] = "performance"
  <2>1. events' = e2
    BY <1>1, <1>3, <1>4, <1>7 DEF Session
  <2> HIDE DEF e2
  <2>2. SessionOnly(e1, e2) /\ Starts(e2) = Starts(e1) \cup {Len(e1) + 1}
    BY <1>2, <1>3, SessionOnlyAppend DEF e2
  <2>3. SessionOnly(ev, e2)
    BY <1>5, <2>2, SessionOnlyTwice
  <2>4. OneMeasured /\ Begun(ev, n) => Begun(e2, p)
    BY <1>5, <1>7, <2>2, BegunOpens
  <2> QED
    BY <2>1, <2>3, <2>4
<1>8. CASE PhaseType[p] # "performance"
  <2>1. events' = e1
    BY <1>3, <1>4, <1>8
  <2>2. Begun(ev, n) => Begun(e1, p)
    BY <1>5, <1>6, BegunKeeps
  <2> QED
    BY <1>5, <2>1, <2>2
<1> QED
  BY <1>7, <1>8

\* The finally block publishes session events.
LEMMA FinallyOnly ==
  ASSUME NEW ev \in Seq(Event), NEW stopped \in BOOLEAN, NEW ex, EnterFinally(ev, stopped, ex)
  PROVE  /\ SessionOnly(ev, events') /\ Starts(events') = Starts(ev)
         /\ pc' = "ended" /\ stopped => Pos(events', "INTERRUPTED", None) # {}
<1>1. CASE pc' = "closing" /\ events' = ev
  BY <1>1 DEF SessionOnly
<1>2. CASE pc' = "ended" /\ events' = ev \o TerminalEvents(stopped)
  BY <1>2, TerminalOnly
<1> QED
  BY <1>1, <1>2 DEF EnterFinally

\* So does the end of a phase.
LEMMA AfterPhaseOnly ==
  ASSUME TypeOK, phase \in Phase, NEW stopped \in BOOLEAN, AfterPhase(stopped)
  PROVE  /\ SessionOnly(events, events')
         /\ OneMeasured /\ Begun(events, phase) => Begun(events', phase')
         /\ pc' = "ended" /\ stopped => Pos(events', "INTERRUPTED", None) # {}
<1> DEFINE ev == events \o (IF PhaseType[phase] = "performance"
                            THEN Session("STOP_PERFORMANCE_TRACKING") ELSE <<>>)
<1>1. events \in Seq(Event) /\ phase \in Nat
  BY PhasesAssumption DEF TypeOK, Phase
<1>2. ev \in Seq(Event) /\ SessionOnly(events, ev) /\ Starts(ev) = Starts(events)
  <2>1. CASE PhaseType[phase] = "performance"
    <3>1. "STOP_PERFORMANCE_TRACKING" \in SessionEvent
      BY DEF SessionEvent
    <3>2. ev = Append(events, Ev("STOP_PERFORMANCE_TRACKING", None))
      BY <1>1, <2>1 DEF Session, Ev
    <3> HIDE DEF ev
    <3>3. SessionOnly(events, ev) /\ Starts(ev) = Starts(events)
      BY <1>1, <3>1, <3>2, SessionOnlyAppend
    <3> QED
      BY <3>3 DEF SessionOnly
  <2>2. CASE PhaseType[phase] # "performance"
    <3>1. ev = events
      BY <1>1, <2>2
    <3> QED
      BY <1>1, <3>1 DEF SessionOnly
  <2> QED
    BY <2>1, <2>2
<1>3. IF fatal # "none" \/ stopped \/ phase = NumPhases
      THEN EnterFinally(ev, stopped, fatal # "none")
      ELSE BeginPhase(phase + 1, ev)
  BY DEF AfterPhase
<1> HIDE DEF ev
<1>4. OneMeasured /\ Begun(events, phase) => Begun(ev, phase)
  BY <1>1, <1>2, BegunKeeps
<1>5. CASE EnterFinally(ev, stopped, fatal # "none")
  <2>1. /\ SessionOnly(ev, events') /\ Starts(events') = Starts(ev)
        /\ pc' = "ended" /\ stopped => Pos(events', "INTERRUPTED", None) # {}
    BY <1>2, <1>5, FinallyOnly
  <2>2. phase' = phase
    BY <1>5 DEF EnterFinally
  <2>3. SessionOnly(events, events')
    BY <1>2, <2>1, SessionOnlyTwice
  <2>4. Begun(events, phase) => Begun(events', phase')
    BY <1>1, <1>2, <2>1, <2>2, BegunKeeps
  <2> QED
    BY <2>1, <2>3, <2>4
<1>6. CASE phase # NumPhases /\ BeginPhase(phase + 1, ev)
  <2>1. phase + 1 \in Phase /\ phase < phase + 1
    BY <1>1, <1>6, PhasesAssumption DEF Phase
  <2>2. /\ SessionOnly(ev, events')
        /\ OneMeasured /\ Begun(ev, phase) => Begun(events', phase + 1)
    BY <1>1, <1>2, <1>6, <2>1, BeginOnly
  <2>3. phase' = phase + 1 /\ pc' = "strategy"
    BY <1>6 DEF BeginPhase
  <2>4. SessionOnly(events, events')
    BY <1>2, <2>2, SessionOnlyTwice
  <2> QED
    BY <1>4, <2>2, <2>3, <2>4
<1> QED
  BY <1>3, <1>5, <1>6

\* Every synchronous stretch of the main coroutine.
LEMMA MainOnly ==
  ASSUME TypeOK, IInv, StreamInv, Main
  PROVE  /\ SessionOnly(events, events')
         /\ UNCHANGED <<uuids, issuedCount, inflight, wire>>
         /\ OneMeasured /\ Begun(events, phase) => Begun(events', phase')
         /\ pc' = "ended" /\ stopRequested' => Pos(events', "INTERRUPTED", None) # {}
<1> USE DEF issuerVars
<1>1. /\ events \in Seq(Event) /\ phase \in Nat /\ stopRequested \in BOOLEAN /\ MainPlaced
  BY PhasesAssumption DEF TypeOK, Phase, IInv
<1>2. CASE Run
  <2> DEFINE e == Session("STARTED")
  <2>1. events = <<>> /\ phase = 0 /\ pc = "idle"
    BY <1>1, <1>2 DEF Run, MainPlaced, StreamInv, InStep
  <2>2. e \in Seq(Event) /\ SessionOnly(events, e) /\ Starts(e) = Starts(events)
    <3>1. "STARTED" \in SessionEvent
      BY DEF SessionEvent
    <3>2. e = Append(events, Ev("STARTED", None))
      BY <2>1 DEF Session, Ev
    <3> HIDE DEF e
    <3>3. SessionOnly(events, e) /\ Starts(e) = Starts(events)
      BY <1>1, <3>1, <3>2, SessionOnlyAppend
    <3> QED
      BY <3>3 DEF SessionOnly
  <2>3. Begun(events, phase) => Begun(e, phase)
    BY <1>1, <2>2, BegunKeeps
  <2> HIDE DEF e
  <2>4. CASE stopRequested \/ NumPhases = 0
    <3>1. pc' = "closing" /\ events' = e /\ phase' = phase
      BY <1>2, <2>4 DEF Run, e
    <3> QED
      BY <1>2, <2>2, <2>3, <3>1 DEF Run
  <2>5. CASE ~(stopRequested \/ NumPhases = 0)
    <3>1. BeginPhase(1, e) /\ 1 \in Phase
      BY <1>2, <2>5, PhasesAssumption DEF Run, Phase, e
    <3>2. /\ SessionOnly(e, events')
          /\ OneMeasured /\ Begun(e, phase) => Begun(events', 1)
      BY <1>1, <2>1, <2>2, <3>1, BeginOnly
    <3>3. phase' = 1 /\ pc' = "strategy"
      BY <3>1 DEF BeginPhase
    <3>4. SessionOnly(events, events')
      BY <2>2, <3>2, SessionOnlyTwice
    <3> QED
      BY <1>2, <2>3, <3>2, <3>3, <3>4 DEF Run
  <2> QED
    BY <2>4, <2>5
<1>3. CASE StrategyAwaited
  <2>1. phase \in Phase /\ UNCHANGED <<uuids, issuedCount, inflight, wire, stopRequested>>
    BY <1>1, <1>3 DEF StrategyAwaited, MainPlaced
  <2>2. CASE EnterFinally(events, stopRequested, TRUE)
    <3>1. /\ SessionOnly(events, events') /\ Starts(events') = Starts(events)
          /\ pc' = "ended" /\ stopRequested => Pos(events', "INTERRUPTED", None) # {}
      BY <1>1, <2>2, FinallyOnly
    <3>2. phase' = phase
      BY <2>2 DEF EnterFinally
    <3> QED
      BY <1>1, <2>1, <3>1, <3>2, BegunKeeps
  <2>3. CASE pc' = "drain" /\ UNCHANGED <<phase, events>>
    BY <1>1, <2>1, <2>3 DEF SessionOnly
  <2>4. CASE AfterPhase(stopRequested)
    BY <1>1, <2>1, <2>4, AfterPhaseOnly
  <2> QED
    BY <1>3, <2>2, <2>3, <2>4 DEF StrategyAwaited
<1>4. CASE DrainCompletes
  BY <1>1, <1>4, AfterPhaseOnly DEF DrainCompletes, MainPlaced
<1>5. CASE DrainTimesOut
  BY <1>1, <1>5, AfterPhaseOnly DEF DrainTimesOut, MainPlaced
<1>6. CASE Close
  <2>1. /\ events' = events \o TerminalEvents(stopRequested)
        /\ UNCHANGED <<phase, uuids, issuedCount, inflight, wire, stopRequested>>
    BY <1>6 DEF Close, stopVars
  <2>2. /\ SessionOnly(events, events') /\ Starts(events') = Starts(events)
        /\ stopRequested => Pos(events', "INTERRUPTED", None) # {}
    BY <1>1, <2>1, TerminalOnly
  <2> QED
    BY <1>1, <2>1, <2>2, BegunKeeps
<1> QED
  BY <1>2, <1>3, <1>4, <1>5, <1>6 DEF Main

-----------------------------------------------------------------------------
(* The steps that are not the main coroutine's.                             *)

\* issue() of the running phase, by a strategy that no stop has reached.
Issuing(q) ==
  /\ phase \in Phase /\ pc = "strategy" /\ strat = "running" /\ ~StopCheck(phase)
  /\ \/ IssueSends(phase, q)
     \/ IssueRaises(phase, q) /\ strat' \in {"woken", "done"} /\ stratError'

\* They publish nothing, issue a fresh query or handle an outstanding one's
\* result.
LEMMA OtherStep ==
  ASSUME TypeOK, IInv, [Next]_vars
  PROVE  \/ Main
         \/ /\ UNCHANGED <<pc, phase, raised>>
            /\ \/ UNCHANGED <<events, uuids, wire, issuedCount, inflight>>
               \/ \E q \in Fresh : Issuing(q)
               \/ \E q \in wire, error \in BOOLEAN :
                    HandleResult(q, error) /\ pc \in {"strategy", "drain"}
<1> USE DEF mainVars, stratVars, issuerVars, stopVars, guardVars, clockVars
<1>1. MainPlaced
  BY DEF IInv
<1>2. ASSUME NEW p \in Phase, FireCallback(p)
      PROVE  /\ UNCHANGED <<pc, phase, raised>>
             /\ \/ UNCHANGED <<events, uuids, wire, issuedCount, inflight>>
                \/ \E q \in Fresh : Issuing(q)
  <2>1. UNCHANGED <<pc, phase, raised>> /\ pend[p]
    BY <1>2 DEF FireCallback
  <2>2. CASE UNCHANGED <<issuerVars, guardVars, events>>
    BY <2>1, <2>2
  <2>3. ASSUME ~StopCheck(p), NEW q \in Fresh, IssueSends(p, q)
        PROVE  Issuing(q)
    <3>1. p = phase /\ strat = "running"
      BY <2>1, <2>3, CallbackIssuesForCurrent
    <3> QED
      BY <1>1, <2>3, <3>1 DEF Issuing, MainPlaced
  <2>4. ASSUME ~StopCheck(p), NEW q \in Fresh, IssueRaises(p, q), SetDone(p, TRUE)
        PROVE  Issuing(q)
    <3>1. p = phase /\ strat = "running"
      BY <2>1, <2>4, CallbackIssuesForCurrent
    <3> QED
      BY <1>1, <2>4, <3>1 DEF Issuing, MainPlaced, SetDone
  <2> QED
    BY <1>2, <2>1, <2>2, <2>3, <2>4 DEF FireCallback
<1>3. CASE ConcurrencyTurn
  <2>1. /\ UNCHANGED <<pc, phase, raised>> /\ phase \in Phase
        /\ pc = "strategy" /\ strat = "running"
    BY <1>1, <1>3 DEF ConcurrencyTurn, MainPlaced
  <2>2. CASE UNCHANGED <<issuerVars, events>>
    BY <2>1, <2>2
  <2>3. ASSUME ~StopCheck(phase), NEW q \in Fresh, IssueSends(phase, q)
        PROVE  Issuing(q)
    BY <2>1, <2>3 DEF Issuing
  <2>4. ASSUME ~StopCheck(phase), NEW q \in Fresh, IssueRaises(phase, q),
               strat' = "done", stratError' = TRUE
        PROVE  Issuing(q)
    BY <2>1, <2>4 DEF Issuing
  <2> QED
    BY <1>3, <2>1, <2>2, <2>3, <2>4 DEF ConcurrencyTurn
<1>4. CASE StrategyEnds
  BY <1>4 DEF StrategyEnds
<1>5. CASE Stop
  BY <1>5 DEF Stop
<1>6. ASSUME NEW p \in Phase, Elapse(p)
      PROVE  UNCHANGED <<pc, phase, raised, events, uuids, wire, issuedCount, inflight>>
  BY <1>6 DEF Elapse
<1>7. CASE CapFires
  BY <1>7 DEF CapFires
<1>8. CASE IdleFires
  BY <1>8 DEF IdleFires
<1>9. ASSUME NEW q \in Query, NEW error \in BOOLEAN, ReceiveResult(q, error)
      PROVE  /\ UNCHANGED <<pc, phase, raised>>
             /\ q \in wire /\ HandleResult(q, error) /\ pc \in {"strategy", "drain"}
  BY <1>1, <1>9 DEF ReceiveResult, receiving, done, TypeOK, MainPlaced, Phase
<1>10. CASE TransportCloses
  BY <1>10 DEF TransportCloses
<1>11. CASE ReceiverRaises
  <2>1. pc \in {"strategy", "drain"} /\ UNCHANGED <<pc, phase, raised>>
    BY <1>1, <1>11 DEF ReceiverRaises, receiving, done, TypeOK, MainPlaced, Phase
  <2>2. \/ UNCHANGED <<issuerVars, sem, events>>
        \/ \E q \in wire, error \in BOOLEAN : HandleResult(q, error)
    BY <1>11 DEF ReceiverRaises
  <2> QED
    BY <2>1, <2>2
<1>12. CASE UNCHANGED vars
  BY <1>12 DEF vars
<1> QED
  BY <1>2, <1>3, <1>4, <1>5, <1>6, <1>7, <1>8, <1>9, <1>10, <1>11, <1>12
     DEF Next, Terminated

-----------------------------------------------------------------------------
(* Once is inductive.                                                       *)

\* One more event about a query.
LEMMA SampleAppend ==
  ASSUME NEW e \in Seq(Event), NEW k \in SampleEvent, NEW q \in Query
  PROVE  /\ Append(e, Ev(k, q)) \in Seq(Event) /\ Len(e) \in Nat
         /\ Kinds(e) => Kinds(Append(e, Ev(k, q)))
         /\ Starts(Append(e, Ev(k, q))) = Starts(e)
         /\ \A l, r : Pos(e, l, r) \subseteq 1..Len(e)
         /\ \A l, r : l # k \/ r # q => Pos(Append(e, Ev(k, q)), l, r) = Pos(e, l, r)
         /\ Pos(Append(e, Ev(k, q)), k, q) = Pos(e, k, q) \cup {Len(e) + 1}
<1> DEFINE x == Ev(k, q)
           f == Append(e, x)
<1>1. x \in Event /\ x.id = q /\ x.kind = k
  BY DEF Ev, Event
<1>2. f \in Seq(Event)
  BY <1>1
<1>3. ASSUME NEW l, NEW r, l # k \/ r # q
      PROVE  Pos(f, l, r) = Pos(e, l, r)
  <2>1. x # Ev(l, r)
    BY <1>3, EventsDiffer
  <2> QED
    BY <1>1, <2>1, PosAppend
<1>4. Pos(f, k, q) = Pos(e, k, q) \cup {Len(e) + 1}
  BY <1>1, PosAppend
<1>5. Kinds(e) => Kinds(f)
  <2>1. /\ Len(e) \in Nat /\ DOMAIN e = 1..Len(e) /\ DOMAIN f = 1..(Len(e) + 1)
        /\ \A i \in DOMAIN e : f[i] = e[i]
        /\ f[Len(e) + 1] = x
    BY <1>1, PosAppend
  <2> HIDE DEF f, x
  <2>2. \A i \in DOMAIN f : i \in DOMAIN e \/ i = Len(e) + 1
    BY <2>1
  <2> QED
    BY <1>1, <2>1, <2>2 DEF Kinds
<1>6. q # None
  BY EnvironmentAssumption
<1>7. \A l, r : Pos(e, l, r) \subseteq 1..Len(e)
  BY <1>1, PosAppend
<1>8. Len(e) \in Nat
  OBVIOUS
<1>9. Starts(f) = Starts(e)
  BY <1>3, <1>6 DEF Starts
<1> QED
  BY <1>2, <1>3, <1>4, <1>5, <1>7, <1>8, <1>9

\* ISSUED of a query nothing was published about.
LEMMA OnceIssued ==
  ASSUME NEW e \in Seq(Event), NEW w, NEW q \in Query, Once(e, w),
         \A l : Pos(e, l, q) = {}
  PROVE  /\ Once(Append(e, Ev("ISSUED", q)), w)
         /\ Once(Append(e, Ev("ISSUED", q)), w \cup {q})
         /\ Once(e, w \cup {q})
<1> DEFINE f == Append(e, Ev("ISSUED", q))
<1>1. /\ \A l, r : l # "ISSUED" \/ r # q => Pos(f, l, r) = Pos(e, l, r)
      /\ Pos(f, "ISSUED", q) = {Len(e) + 1}
  <2>1. "ISSUED" \in SampleEvent
    BY DEF SampleEvent
  <2>2. Pos(f, "ISSUED", q) = Pos(e, "ISSUED", q) \cup {Len(e) + 1}
    BY <2>1, SampleAppend
  <2> QED
    BY <2>1, <2>2, SampleAppend
<1> HIDE DEF f
<1>2. \A r : Pos(f, "ERROR", r) = Pos(e, "ERROR", r)
  BY <1>1
<1>3. ASSUME NEW r \in Query
      PROVE  /\ \A i, j \in Pos(f, "ISSUED", r) : i = j
             /\ \A x, y \in Pos(f, "ERROR", r) : x = y
             /\ \A x \in Pos(f, "ERROR", r) : \E i \in Pos(f, "ISSUED", r) : i < x
  <2>1. CASE r = q
    BY <1>1, <1>2, <2>1
  <2>2. CASE r # q
    <3>1. Pos(f, "ISSUED", r) = Pos(e, "ISSUED", r)
      BY <1>1, <2>2
    <3> QED
      BY <1>2, <3>1 DEF Once
  <2> QED
    BY <2>1, <2>2
<1> QED
  BY <1>2, <1>3 DEF Once, f

\* ERROR and COMPLETE of an outstanding query.
LEMMA OnceResult ==
  ASSUME NEW e \in Seq(Event), NEW w \in SUBSET Query, NEW q \in w, Once(e, w),
         Pos(e, "ISSUED", q) # {}
  PROVE  /\ Once(Append(e, Ev("ERROR", q)), w \ {q})
         /\ Once(e, w \ {q})
<1> DEFINE f == Append(e, Ev("ERROR", q))
<1>0. "ERROR" \in SampleEvent /\ q \in Query
  BY DEF SampleEvent
<1>1. /\ \A l, r : l # "ERROR" \/ r # q => Pos(f, l, r) = Pos(e, l, r)
      /\ Pos(f, "ERROR", q) = {Len(e) + 1}
      /\ Len(e) \in Nat /\ Pos(e, "ISSUED", q) \subseteq 1..Len(e)
  <2>1. Pos(e, "ERROR", q) = {}
    BY DEF Once
  <2>2. Pos(f, "ERROR", q) = Pos(e, "ERROR", q) \cup {Len(e) + 1}
    BY <1>0, SampleAppend
  <2> QED
    BY <1>0, <2>1, <2>2, SampleAppend
<1> HIDE DEF f
<1>2. \A r : Pos(f, "ISSUED", r) = Pos(e, "ISSUED", r)
  BY <1>1
<1>3. PICK i \in Pos(e, "ISSUED", q) : i < Len(e) + 1
  BY <1>1
<1>4. ASSUME NEW r \in Query
      PROVE  /\ \A j, k \in Pos(f, "ISSUED", r) : j = k
             /\ \A x, y \in Pos(f, "ERROR", r) : x = y
             /\ \A x \in Pos(f, "ERROR", r) : \E j \in Pos(f, "ISSUED", r) : j < x
  <2>1. CASE r = q
    BY <1>1, <1>2, <1>3, <2>1 DEF Once
  <2>2. CASE r # q
    <3>1. Pos(f, "ERROR", r) = Pos(e, "ERROR", r)
      BY <1>1, <2>2
    <3> QED
      BY <1>2, <3>1 DEF Once
  <2> QED
    BY <2>1, <2>2
<1>5. \A r \in w \ {q} : Pos(f, "ERROR", r) = {}
  BY <1>1 DEF Once
<1>6. Once(f, w \ {q})
  BY <1>4, <1>5 DEF Once
<1>7. Once(e, w \ {q})
  BY DEF Once
<1> QED
  BY <1>6, <1>7 DEF f

\* Events that concern no query.
LEMMA OnceSession ==
  ASSUME NEW e, NEW f, NEW w \in SUBSET Query, SessionOnly(e, f), Once(e, w)
  PROVE  Once(f, w)
  BY DEF SessionOnly, Once

\* COMPLETE of any query.
LEMMA OnceComplete ==
  ASSUME NEW e \in Seq(Event), NEW w, NEW q \in Query, Once(e, w)
  PROVE  Once(Append(e, Ev("COMPLETE", q)), w)
<1> DEFINE f == Append(e, Ev("COMPLETE", q))
<1>1. \A l, r : l # "COMPLETE" => Pos(f, l, r) = Pos(e, l, r)
  BY SampleAppend DEF SampleEvent
<1> HIDE DEF f
<1>2. \A r : Pos(f, "ISSUED", r) = Pos(e, "ISSUED", r) /\ Pos(f, "ERROR", r) = Pos(e, "ERROR", r)
  BY <1>1
<1>3. Once(f, w)
  BY <1>2 DEF Once
<1> QED
  BY <1>3 DEF f

-----------------------------------------------------------------------------
(* How far the phases got: why a strategy ended, and why a phase did.       *)

\* Nothing keeps phase p from being over.
Over(p) == stopRequested \/ elapsed[p] \/ issuedCount[p] = TotalSamples[p]

\* run() is past phase p's strategy.
Past(p) == p < phase \/ (p = phase /\ pc \in {"drain", "closing", "ended"})

Progress ==
  /\ raised => done
  /\ \A p \in Phase : issuedCount[p] <= TotalSamples[p]
  /\ phaseStopped => phase \in Phase /\ elapsed[phase]
  /\ strat = "cancelling" => stopRequested \/ elapsed[phase]
  /\ strat \in {"woken", "done"} /\ ~stratError => Over(phase)
  /\ \A p \in Phase : Past(p) => raised \/ Over(p)
  /\ done /\ ~raised /\ ~stopRequested =>
       phase = NumPhases /\ (phase \in Phase /\ DrainAfter[phase] => inflight[phase] = 0)

\* Whoever stops a strategy has a reason, and an error is forgotten only for
\* one.
LEMMA StrategyFacts ==
  ASSUME TypeOK, IInv, Progress, [Next]_vars
  PROVE  \/ Main
         \/ /\ stopRequested => stopRequested'
            /\ \A p \in Phase : elapsed[p] => elapsed'[p]
            /\ phaseStopped' => phaseStopped \/ (phase \in Phase /\ elapsed'[phase])
            /\ strat' = "cancelling" => strat = "cancelling" \/ stopRequested' \/ elapsed'[phase]
            /\ strat' \in {"woken", "done"} /\ ~stratError' => Over(phase)
            /\ strat \in {"woken", "done"} /\ stratError =>
                 (strat' \in {"woken", "done"} /\ stratError') \/ stopRequested' \/ elapsed'[phase]
<1> USE DEF mainVars, stratVars, issuerVars, stopVars, guardVars, clockVars
<1> DEFINE Facts ==
            /\ stopRequested => stopRequested'
            /\ \A p \in Phase : elapsed[p] => elapsed'[p]
            /\ phaseStopped' => phaseStopped \/ (phase \in Phase /\ elapsed'[phase])
            /\ strat' = "cancelling" => strat = "cancelling" \/ stopRequested' \/ elapsed'[phase]
            /\ strat' \in {"woken", "done"} /\ ~stratError' => Over(phase)
            /\ strat \in {"woken", "done"} /\ stratError =>
                 (strat' \in {"woken", "done"} /\ stratError') \/ stopRequested' \/ elapsed'[phase]
<1>1. /\ strat # "none" => phase \in Phase
      /\ strat \in {"woken", "done"} /\ ~stratError => Over(phase)
      /\ strat = "cancelling" => stopRequested \/ elapsed[phase]
      /\ phaseStopped => phase \in Phase /\ elapsed[phase]
      /\ \A p \in Phase : issuedCount[p] <= TotalSamples[p]
      /\ issuedCount \in [Phase -> Nat] /\ TotalSamples \in [Phase -> Nat \ {0}]
  BY PhasesAssumption DEF IInv, MainPlaced, Progress, TypeOK
<1>2. phase \in Phase /\ StopCheck(phase) => Over(phase)
  <2>1. ASSUME phase \in Phase, issuedCount[phase] >= TotalSamples[phase]
        PROVE  issuedCount[phase] = TotalSamples[phase]
    <3>1. /\ issuedCount[phase] \in Nat /\ TotalSamples[phase] \in Nat
          /\ issuedCount[phase] <= TotalSamples[phase]
      BY <1>1, <2>1
    <3> QED
      BY <2>1, <3>1
  <2> QED
    BY <1>1, <2>1 DEF StopCheck, Over
<1>3. ASSUME NEW p \in Phase, FireCallback(p)
      PROVE  Facts
  <2>1. UNCHANGED <<stopRequested, phaseStopped, elapsed>>
    BY <1>3 DEF FireCallback
  <2>2. CASE StopCheck(p) /\ SetDone(p, FALSE)
    <3>1. p = phase => Over(phase)
      BY <1>2, <2>2
    <3> QED
      BY <1>1, <2>1, <2>2, <3>1 DEF SetDone
  <2>3. CASE UNCHANGED <<pend, strat, stratError>>
    BY <1>1, <2>1, <2>3
  <2>4. CASE SetDone(p, TRUE)
    BY <1>1, <2>1, <2>4 DEF SetDone
  <2> QED
    BY <1>3, <2>2, <2>3, <2>4 DEF FireCallback
<1>4. CASE ConcurrencyTurn
  <2>1. UNCHANGED <<stopRequested, phaseStopped, elapsed>> /\ strat = "running" /\ phase \in Phase
    BY <1>1, <1>4 DEF ConcurrencyTurn
  <2> QED
    BY <1>2, <1>4, <2>1 DEF ConcurrencyTurn
<1>5. CASE StrategyEnds
  <2>1. UNCHANGED <<stopRequested, phaseStopped, elapsed>>
    BY <1>5 DEF StrategyEnds
  <2>2. /\ strat \in {"woken", "cancelling"} /\ strat' = "done"
        /\ stratError' = (stratError /\ strat = "woken")
    BY <1>5 DEF StrategyEnds
  <2>3. ~stratError' => Over(phase)
    BY <1>1, <2>2 DEF Over
  <2> QED
    BY <1>1, <2>1, <2>2, <2>3
<1>6. CASE Stop
  <2>1. /\ stopRequested' /\ UNCHANGED <<phaseStopped, elapsed, stratError>>
        /\ strat' = Cancelled(strat)
    BY <1>6 DEF Stop, StopEffects
  <2> QED
    BY <1>1, <2>1 DEF Cancelled
<1>7. ASSUME NEW p \in Phase, Elapse(p)
      PROVE  Facts
  <2>1. UNCHANGED <<stopRequested, phaseStopped, strat, stratError>>
    BY <1>7 DEF Elapse
  <2>2. \A r \in Phase : elapsed[r] => elapsed'[r]
    BY <1>7 DEF Elapse, TypeOK
  <2> QED
    BY <1>1, <2>1, <2>2
<1>8. CASE CapFires
  <2>1. UNCHANGED <<stopRequested, elapsed, stratError>> /\ elapsed[phase]
    BY <1>8 DEF CapFires
  <2>2. \/ strat # "none" /\ strat' = Cancelled(strat)
        \/ UNCHANGED <<phaseStopped, strat>>
    BY <1>8 DEF CapFires
  <2> QED
    BY <1>1, <2>1, <2>2 DEF Cancelled
<1>9. CASE IdleFires
  <2>1. UNCHANGED <<phaseStopped, elapsed, stratError>>
    BY <1>9 DEF IdleFires
  <2>2. CASE UNCHANGED <<stopRequested, strat>>
    BY <1>1, <2>1, <2>2
  <2>3. CASE StopEffects
    BY <1>1, <2>1, <2>3 DEF StopEffects, Cancelled
  <2> QED
    BY <1>9, <2>2, <2>3 DEF IdleFires
<1>10. ASSUME NEW q \in Query, NEW error \in BOOLEAN, ReceiveResult(q, error)
       PROVE  Facts
  BY <1>1, <1>10 DEF ReceiveResult
<1>11. CASE TransportCloses
  BY <1>1, <1>11 DEF TransportCloses, Cancelled
<1>12. CASE ReceiverRaises
  BY <1>1, <1>12 DEF ReceiverRaises, StopEffects, Cancelled
<1>13. CASE UNCHANGED vars
  BY <1>1, <1>13 DEF vars
<1> QED
  BY <1>3, <1>4, <1>5, <1>6, <1>7, <1>8, <1>9, <1>10, <1>11, <1>12, <1>13
     DEF Next, Terminated

\* Leaving the phase loop.
LEMMA ProgressFinally ==
  ASSUME TypeOK, Progress, ~done, NEW ev, NEW stopped \in BOOLEAN, NEW ex \in BOOLEAN,
         EnterFinally(ev, stopped, ex), UNCHANGED <<issuedCount, inflight>>,
         stopRequested' = stopped, stopRequested => stopped,
         phase \in Phase => ex \/ Over(phase) \/ stopped,
         ex \/ stopped \/ phase = NumPhases,
         ex \/ stopped \/ (phase \in Phase /\ DrainAfter[phase] => inflight[phase] = 0)
  PROVE  Progress'
<1>1. /\ pc' \in {"closing", "ended"} /\ raised' = ex /\ strat' = "none"
      /\ UNCHANGED <<phase, phaseStopped, elapsed>>
  BY DEF EnterFinally
<1>2. \A p \in Phase : Over(p) => Over(p)'
  BY <1>1 DEF Over
<1>3. ~raised
  BY DEF Progress
<1>4. \A p \in Phase : p < phase => Over(p)'
  BY <1>2, <1>3 DEF Progress, Past
<1>5. phase \in Phase => ex \/ Over(phase)'
  BY <1>1, <1>2 DEF Over
<1>6. \A p \in Phase : Past(p)' => raised' \/ Over(p)'
  BY <1>1, <1>4, <1>5 DEF Past
<1> QED
  BY <1>1, <1>6 DEF Progress, done

\* Starting the next phase.
LEMMA ProgressBegin ==
  ASSUME TypeOK, Progress, ~done, NEW ev, NEW p \in Phase, BeginPhase(p, ev),
         p = phase + 1, phase \in Phase => Over(phase),
         UNCHANGED <<issuedCount, inflight, stopRequested>>
  PROVE  Progress'
<1>1. /\ pc' = "strategy" /\ phase' = p /\ raised' = FALSE /\ phaseStopped' = FALSE
      /\ strat' = "running" /\ elapsed' = elapsed
  BY DEF BeginPhase
<1>2. ~raised /\ phase \in Nat
  BY PhasesAssumption DEF Progress, TypeOK
<1>3. \A r \in Phase : r < p => r < phase \/ r = phase
  BY <1>2, PhasesAssumption DEF Phase
<1>4. \A r \in Phase : Over(r) => Over(r)'
  BY <1>1 DEF Over
<1>5. \A r \in Phase : Past(r)' => Over(r)'
  <2>1. \A r \in Phase : r < phase => Over(r)
    BY <1>2 DEF Progress, Past
  <2> QED
    BY <1>1, <1>3, <1>4, <2>1 DEF Past
<1> QED
  BY <1>1, <1>5 DEF Progress, done

\* The end of a phase.
LEMMA ProgressAfterPhase ==
  ASSUME TypeOK, Progress, ~done, phase \in Phase, NEW stopped \in BOOLEAN,
         AfterPhase(stopped), UNCHANGED <<issuedCount, inflight, fatal>>,
         stopRequested' = stopped, stopRequested => stopped, Over(phase) \/ stopped,
         stopped \/ (DrainAfter[phase] => inflight[phase] = 0)
  PROVE  Progress'
<1> DEFINE ev == events \o (IF PhaseType[phase] = "performance"
                            THEN Session("STOP_PERFORMANCE_TRACKING") ELSE <<>>)
<1>1. IF fatal # "none" \/ stopped \/ phase = NumPhases
      THEN EnterFinally(ev, stopped, fatal # "none")
      ELSE BeginPhase(phase + 1, ev)
  BY DEF AfterPhase
<1> HIDE DEF ev
<1>2. CASE fatal # "none" \/ stopped \/ phase = NumPhases
  <2> DEFINE ex == fatal # "none"
  <2>1. EnterFinally(ev, stopped, ex) /\ ex \in BOOLEAN
    BY <1>1, <1>2
  <2>2. ex \/ stopped \/ phase = NumPhases
    BY <1>2
  <2> HIDE DEF ex
  <2> QED
    BY <2>1, <2>2, ProgressFinally
<1>3. CASE ~(fatal # "none" \/ stopped \/ phase = NumPhases)
  <2>1. phase + 1 \in Phase
    BY <1>3, PhasesAssumption DEF Phase
  <2>2. BeginPhase(phase + 1, ev) /\ ~stopped
    BY <1>1, <1>3
  <2>3. UNCHANGED stopRequested /\ Over(phase)
    BY <2>2 DEF TypeOK
  <2> QED
    BY <2>1, <2>2, <2>3, ProgressBegin
<1> QED
  BY <1>2, <1>3

\* Every step keeps it.
LEMMA ProgressStep ==
  ASSUME TypeOK, IInv, StreamInv, Progress, [Next]_vars
  PROVE  Progress'
<1> USE DEF issuerVars
<1>1. CASE Main
  <2>1. UNCHANGED <<issuedCount, inflight>>
    BY <1>1, MainOnly
  <2>2. /\ MainPlaced /\ stopRequested \in BOOLEAN /\ phase \in 0..NumPhases
    BY DEF IInv, TypeOK
  <2>3. CASE Run
    <3>1. phase = 0 /\ phase \notin Phase /\ ~done /\ pc = "idle" /\ strat = "none"
      BY <2>2, <2>3, PhasesAssumption DEF Run, MainPlaced, Phase, done
    <3>2. CASE stopRequested \/ NumPhases = 0
      <4>1. /\ pc' = "closing" /\ UNCHANGED <<phase, raised, strat, stratError, phaseStopped,
                                              elapsed, stopRequested>>
        BY <2>3, <3>2 DEF Run, stratVars
      <4>2. \A p \in Phase : ~(p < 0) /\ p # 0
        BY PhasesAssumption DEF Phase
      <4>3. \A p \in Phase : ~Past(p)'
        BY <3>1, <4>1, <4>2 DEF Past
      <4> QED
        BY <2>1, <3>1, <3>2, <4>1, <4>3 DEF Progress, done
    <3>3. CASE ~(stopRequested \/ NumPhases = 0)
      <4>1. BeginPhase(1, Session("STARTED")) /\ 1 \in Phase /\ UNCHANGED stopRequested
        BY <2>3, <3>3, PhasesAssumption DEF Run, Phase
      <4>2. 1 = phase + 1
        BY <3>1
      <4> QED
        BY <2>1, <3>1, <4>1, <4>2, ProgressBegin
    <3> QED
      BY <3>2, <3>3
  <2>4. CASE StrategyAwaited
    <3>1. /\ phase \in Phase /\ pc = "strategy" /\ strat = "done" /\ ~done
          /\ UNCHANGED <<stopRequested, fatal>>
      BY <2>2, <2>4 DEF StrategyAwaited, MainPlaced, done
    <3>2. CASE stratError /\ EnterFinally(events, stopRequested, TRUE)
      BY <2>1, <2>2, <3>1, <3>2, ProgressFinally
    <3>3. CASE /\ ~stratError /\ pc' = "drain" /\ strat' = "none"
               /\ UNCHANGED <<phase, raised, phaseStopped, elapsed>>
      <4>1. Over(phase) /\ ~raised
        BY <3>1, <3>3 DEF Progress
      <4>2. \A p \in Phase : Past(p)' => Over(p)
        BY <3>3, <4>1 DEF Progress, Past
      <4> QED
        BY <2>1, <3>1, <3>3, <4>1, <4>2 DEF Progress, done, Over
    <3>4. CASE ~stratError /\ ~MustDrain /\ AfterPhase(stopRequested)
      <4>1. Over(phase)
        BY <3>1, <3>4 DEF Progress
      <4>2. stopRequested \/ (DrainAfter[phase] => inflight[phase] = 0)
        <5>1. inflight[phase] \in Nat
          BY <3>1 DEF TypeOK
        <5> QED
          BY <3>4, <5>1 DEF MustDrain
      <4> QED
        BY <2>1, <2>2, <3>1, <3>4, <4>1, <4>2, ProgressAfterPhase
    <3> QED
      BY <2>4, <3>2, <3>3, <3>4 DEF StrategyAwaited, guardVars, clockVars
  <2>5. CASE DrainCompletes
    <3>1. /\ phase \in Phase /\ pc = "drain" /\ ~done /\ drainEvent
          /\ UNCHANGED <<stopRequested, fatal>> /\ AfterPhase(stopRequested)
      BY <2>2, <2>5 DEF DrainCompletes, MainPlaced, done
    <3>2. Over(phase)
      BY <3>1 DEF Progress, Past
    <3>3. stopRequested \/ inflight[phase] = 0
      BY <3>1 DEF IInv, DrainEventMeansDrained
    <3> QED
      BY <2>1, <2>2, <3>1, <3>2, <3>3, ProgressAfterPhase
  <2>6. CASE DrainTimesOut
    <3>1. /\ phase \in Phase /\ pc = "drain" /\ ~done
          /\ stopRequested' = TRUE /\ UNCHANGED fatal /\ AfterPhase(TRUE)
      BY <2>2, <2>6 DEF DrainTimesOut, MainPlaced, done
    <3> QED
      BY <2>1, <3>1, ProgressAfterPhase
  <2>7. CASE Close
    <3>1. /\ pc = "closing" /\ pc' = "ended"
          /\ UNCHANGED <<phase, raised, strat, stratError, phaseStopped, elapsed, stopRequested>>
      BY <2>7 DEF Close, stratVars, stopVars
    <3>2. \A p \in Phase : Past(p)' => Past(p)
      BY <3>1 DEF Past
    <3> QED
      BY <2>1, <3>1, <3>2 DEF Progress, done, Over
  <2> QED
    BY <1>1, <2>3, <2>4, <2>5, <2>6, <2>7 DEF Main
<1>2. CASE /\ UNCHANGED <<pc, phase, raised>>
           /\ \/ UNCHANGED <<events, uuids, wire, issuedCount, inflight>>
              \/ \E q \in Fresh : Issuing(q)
              \/ \E q \in wire, error \in BOOLEAN :
                   HandleResult(q, error) /\ pc \in {"strategy", "drain"}
           /\ ~Main
  <2>1. /\ stopRequested => stopRequested'
        /\ \A p \in Phase : elapsed[p] => elapsed'[p]
        /\ phaseStopped' => phaseStopped \/ (phase \in Phase /\ elapsed'[phase])
        /\ strat' = "cancelling" => strat = "cancelling" \/ stopRequested' \/ elapsed'[phase]
        /\ strat' \in {"woken", "done"} /\ ~stratError' => Over(phase)
    BY <1>2, StrategyFacts
  <2>2. /\ issuedCount \in [Phase -> Nat] /\ TotalSamples \in [Phase -> Nat \ {0}]
        /\ \A p \in Phase : issuedCount[p] <= TotalSamples[p]
    BY PhasesAssumption DEF Progress, TypeOK
  <2>3. \/ UNCHANGED issuedCount
        \/ /\ phase \in Phase /\ ~StopCheck(phase)
           /\ issuedCount' = [issuedCount EXCEPT ![phase] = @ + 1]
    BY <1>2 DEF Issuing, IssueSends, IssueRaises, HandleResult
  <2>4. \A p \in Phase : issuedCount'[p] <= TotalSamples[p]
    BY <2>2, <2>3 DEF StopCheck
  <2>5. \A p \in Phase : Over(p) => Over(p)'
    <3>1. SUFFICES ASSUME NEW p \in Phase, Over(p) PROVE Over(p)'
      OBVIOUS
    <3>2. CASE stopRequested \/ elapsed[p]
      BY <2>1, <3>2 DEF Over
    <3>3. CASE issuedCount[p] = TotalSamples[p]
      <4>1. issuedCount'[p] = issuedCount[p]
        BY <2>2, <2>3, <3>3 DEF StopCheck
      <4> QED
        BY <3>3, <4>1 DEF Over
    <3> QED
      BY <3>1, <3>2, <3>3 DEF Over
  <2>6. strat' # "none" => phase \in Phase
    <3>1. MainPlaced'
      BY <1>2, InvariantStep DEF IInv
    <3> QED
      BY <1>2, <3>1 DEF MainPlaced
  <2>7. done /\ ~raised /\ ~stopRequested' =>
          phase = NumPhases /\ (phase \in Phase /\ DrainAfter[phase] => inflight'[phase] = 0)
    <3>1. done => UNCHANGED inflight
      BY <1>2 DEF done, Issuing
    <3> QED
      BY <2>1, <3>1 DEF Progress
  <2>8. phaseStopped' => phase \in Phase /\ elapsed'[phase]
    BY <2>1 DEF Progress
  <2>9. strat' = "cancelling" => stopRequested' \/ elapsed'[phase]
    BY <2>1, <2>6 DEF Progress
  <2>10. strat' \in {"woken", "done"} /\ ~stratError' => Over(phase)'
    BY <1>2, <2>1, <2>5, <2>6 DEF Over
  <2>11. \A p \in Phase : Past(p)' => raised' \/ Over(p)'
    BY <1>2, <2>5 DEF Progress, Past
  <2>12. (raised => done)'
    BY <1>2 DEF Progress, done
  <2> QED
    BY <1>2, <2>4, <2>7, <2>8, <2>9, <2>10, <2>11, <2>12 DEF Progress, done
<1> QED
  BY <1>1, <1>2, OtherStep

-----------------------------------------------------------------------------
(* The ledger: what was published about each phase's queries.               *)

IssuedOf(p)   == {q \in uuids[p] : Pos(events, "ISSUED", q) # {}}
AnsweredOf(p) == {q \in uuids[p] : Pos(events, "COMPLETE", q) # {}}

\* Why ISSUED may be published once more than issued_count says: a send
\* failed, and the run ends with it unless a cancel came first.
Failing(p) ==
  \/ raised \/ stopRequested \/ elapsed[p]
  \/ p = phase /\ strat \in {"woken", "done"} /\ stratError

IssuedMatches ==
  \A p \in Phase :
    \/ Cardinality(IssuedOf(p)) = issuedCount[p]
    \/ Cardinality(IssuedOf(p)) = issuedCount[p] + 1 /\ Failing(p)

AnsweredMatches ==
  \A p \in Phase : DrainAfter[p] /\ PhaseType[p] # "warmup" =>
    issuedCount[p] = Cardinality(wire \cap uuids[p]) + Cardinality(AnsweredOf(p))

Ledger ==
  /\ Kinds(events) /\ Once(events, wire)
  /\ pc = "ended" /\ stopRequested => Pos(events, "INTERRUPTED", None) # {}
  /\ IssuedMatches /\ AnsweredMatches

\* Subsets of a phase's queries can be counted.
LEMMA Countable ==
  ASSUME TypeOK, NEW p \in Phase
  PROVE  /\ IsFiniteSet(IssuedOf(p)) /\ IsFiniteSet(AnsweredOf(p))
         /\ Cardinality(IssuedOf(p)) \in Nat /\ Cardinality(AnsweredOf(p)) \in Nat
         /\ IsFiniteSet(wire \cap uuids[p]) /\ Cardinality(wire \cap uuids[p]) \in Nat
<1>1. IssuedOf(p) \subseteq Query /\ AnsweredOf(p) \subseteq Query
  BY DEF TypeOK, IssuedOf, AnsweredOf
<1>2. IsFiniteSet(IssuedOf(p)) /\ IsFiniteSet(AnsweredOf(p))
  BY <1>1, EnvironmentAssumption, FS_Subset
<1> QED
  BY <1>2, OutstandingFinite, FS_CardinalityType

\* A step that publishes nothing about queries.
LEMMA LedgerSame ==
  ASSUME TypeOK, Ledger, SessionOnly(events, events'),
         UNCHANGED <<uuids, issuedCount, wire>>,
         \A p \in Phase : Failing(p) => Failing(p)',
         pc' = "ended" /\ stopRequested' => Pos(events', "INTERRUPTED", None) # {}
  PROVE  Ledger'
<1>1. /\ uuids \in [Phase -> SUBSET Query] /\ wire \in SUBSET Query
      /\ \A k, q : q \in Query => Pos(events', k, q) = Pos(events, k, q)
  BY DEF TypeOK, SessionOnly
<1>2. \A p \in Phase : IssuedOf(p)' = IssuedOf(p) /\ AnsweredOf(p)' = AnsweredOf(p)
  BY <1>1 DEF IssuedOf, AnsweredOf
<1>3. IssuedMatches'
  BY <1>2 DEF Ledger, IssuedMatches
<1>4. AnsweredMatches'
  BY <1>2 DEF Ledger, AnsweredMatches
<1>5. Kinds(events')
  BY DEF Ledger, SessionOnly
<1>6. Once(events', wire')
  BY <1>1, OnceSession DEF Ledger
<1> QED
  BY <1>3, <1>4, <1>5, <1>6 DEF Ledger

\* Why a send failed is not forgotten: the run ends with it, or a stop or the
\* duration cap explains it.
LEMMA FailingKept ==
  ASSUME TypeOK, IInv, Progress, [Next]_vars, NEW p \in Phase, Failing(p)
  PROVE  Failing(p)'
<1> USE DEF issuerVars
<1>1. CASE Main
  <2>1. /\ MainPlaced /\ stopRequested \in BOOLEAN /\ (raised => done)
    BY DEF IInv, TypeOK, Progress
  <2>2. CASE Run
    <3>1. ~raised /\ strat = "none"
      BY <2>1, <2>2 DEF Run, done, MainPlaced
    <3>2. UNCHANGED <<stopRequested, elapsed>>
      BY <2>2 DEF Run, BeginPhase
    <3> QED
      BY <3>1, <3>2 DEF Failing
  <2>3. CASE StrategyAwaited
    <3>1. ~raised /\ UNCHANGED stopRequested
      BY <2>1, <2>3 DEF StrategyAwaited, done
    <3>2. elapsed' = elapsed
      BY <2>3 DEF StrategyAwaited, EnterFinally, AfterPhase, BeginPhase, clockVars
    <3>3. stratError => raised'
      BY <2>3 DEF StrategyAwaited, EnterFinally
    <3> QED
      BY <3>1, <3>2, <3>3 DEF Failing
  <2>4. CASE DrainCompletes
    <3>1. ~raised /\ strat = "none" /\ UNCHANGED stopRequested
      BY <2>1, <2>4 DEF DrainCompletes, done, MainPlaced
    <3>2. elapsed' = elapsed
      BY <2>4 DEF DrainCompletes, EnterFinally, AfterPhase, BeginPhase
    <3> QED
      BY <3>1, <3>2 DEF Failing
  <2>5. CASE DrainTimesOut
    BY <2>5 DEF DrainTimesOut, Failing
  <2>6. CASE Close
    BY <2>6 DEF Close, Failing, stopVars, stratVars
  <2> QED
    BY <1>1, <2>2, <2>3, <2>4, <2>5, <2>6 DEF Main
<1>2. CASE ~Main
  <2>1. UNCHANGED <<phase, raised>>
    BY <1>2, OtherStep
  <2>2. /\ stopRequested => stopRequested'
        /\ \A r \in Phase : elapsed[r] => elapsed'[r]
        /\ strat \in {"woken", "done"} /\ stratError =>
             (strat' \in {"woken", "done"} /\ stratError') \/ stopRequested' \/ elapsed'[phase]
    BY <1>2, StrategyFacts
  <2> QED
    BY <2>1, <2>2 DEF Failing
<1> QED
  BY <1>1, <1>2

\* issue() of the running phase.
LEMMA LedgerIssuing ==
  ASSUME TypeOK, IInv, StreamInv, Progress, Ledger, NEW q \in Fresh, Issuing(q), TypeOK',
         UNCHANGED <<pc, phase, raised>>, \A p \in Phase : Failing(p) => Failing(p)'
  PROVE  Ledger'
<1> DEFINE f == Append(events, Ev("ISSUED", q))
<1>1. /\ q \in Query /\ q \notin wire /\ \A p \in Phase : q \notin uuids[p]
      /\ phase \in Phase /\ pc = "strategy"
  BY FreshIsNew DEF IInv, Issuing
<1>2. /\ events \in Seq(Event) /\ uuids \in [Phase -> SUBSET Query] /\ wire \in SUBSET Query
      /\ issuedCount \in [Phase -> Nat]
  BY DEF TypeOK
<1>3. \A l : Pos(events, l, q) = {}
  BY <1>1, <1>2, FreshOwner DEF StreamInv
<1>4. uuids' = [uuids EXCEPT ![phase] = @ \cup {q}]
  BY DEF Issuing, IssueSends, IssueRaises
<1>5. /\ Kinds(f) /\ Once(f, wire) /\ Once(f, wire \cup {q}) /\ Once(events, wire \cup {q})
      /\ \A l, r : l # "ISSUED" \/ r # q => Pos(f, l, r) = Pos(events, l, r)
      /\ Pos(f, "ISSUED", q) # {}
  <2>1. "ISSUED" \in SampleEvent
    BY DEF SampleEvent
  <2>2. Pos(f, "ISSUED", q) = Pos(events, "ISSUED", q) \cup {Len(events) + 1}
    BY <1>1, <1>2, <2>1, SampleAppend
  <2>3. Kinds(f) /\ \A l, r : l # "ISSUED" \/ r # q => Pos(f, l, r) = Pos(events, l, r)
    BY <1>1, <1>2, <2>1, SampleAppend DEF Ledger
  <2>4. Once(events, wire)
    BY DEF Ledger
  <2> HIDE DEF f
  <2>5. Once(f, wire) /\ Once(f, wire \cup {q}) /\ Once(events, wire \cup {q})
    BY <1>1, <1>2, <1>3, <2>4, OnceIssued DEF f
  <2> QED
    BY <2>2, <2>3, <2>5
<1> HIDE DEF f
<1>6. /\ events' = f \/ events' = events
      /\ IssueSends(phase, q) => /\ events' = f /\ wire' = wire \cup {q}
                                 /\ issuedCount' = [issuedCount EXCEPT ![phase] = @ + 1]
      /\ ~IssueSends(phase, q) => wire' = wire /\ issuedCount' = issuedCount
  BY DEF Issuing, IssueSends, IssueRaises, f
<1>7. Kinds(events') /\ Once(events', wire')
  BY <1>5, <1>6 DEF Ledger
<1>8. /\ \A p \in Phase \ {phase} : IssuedOf(p)' = IssuedOf(p)
      /\ events' = f => IssuedOf(phase)' = IssuedOf(phase) \cup {q}
      /\ events' = events => IssuedOf(phase)' = IssuedOf(phase)
      /\ q \notin IssuedOf(phase)
  <2>1. \A p \in Phase : q \notin IssuedOf(p)
    BY <1>1 DEF IssuedOf
  <2>2. \A p \in Phase \ {phase} : uuids'[p] = uuids[p]
    BY <1>2, <1>4
  <2>3. uuids'[phase] = uuids[phase] \cup {q}
    BY <1>1, <1>2, <1>4
  <2>4. \A p \in Phase : \A r \in uuids[p] : Pos(events', "ISSUED", r) = Pos(events, "ISSUED", r)
    BY <1>1, <1>5, <1>6
  <2>5. events' = f => Pos(events', "ISSUED", q) # {}
    BY <1>5
  <2>6. events' = events => Pos(events', "ISSUED", q) = {}
    BY <1>3
  <2>7. \A p \in Phase \ {phase} : IssuedOf(p)' = IssuedOf(p)
    BY <2>2, <2>4 DEF IssuedOf
  <2>8. events' = f => IssuedOf(phase)' = IssuedOf(phase) \cup {q}
    BY <1>1, <2>3, <2>4, <2>5 DEF IssuedOf
  <2>9. events' = events => IssuedOf(phase)' = IssuedOf(phase)
    BY <1>1, <2>3, <2>4, <2>6 DEF IssuedOf
  <2> QED
    BY <1>1, <2>1, <2>7, <2>8, <2>9
<1>9. \A p \in Phase : AnsweredOf(p)' = AnsweredOf(p)
  <2>1. \A r : Pos(events', "COMPLETE", r) = Pos(events, "COMPLETE", r)
    BY <1>5, <1>6
  <2>2. \A p \in Phase : \A r : r \in uuids'[p] <=> r \in uuids[p] \/ (p = phase /\ r = q)
    BY <1>1, <1>2, <1>4
  <2> QED
    BY <1>3, <2>1, <2>2 DEF AnsweredOf
<1>10. ASSUME NEW p \in Phase
       PROVE  \/ Cardinality(IssuedOf(p))' = issuedCount'[p]
              \/ Cardinality(IssuedOf(p))' = issuedCount'[p] + 1 /\ Failing(p)'
  <2>1. \/ Cardinality(IssuedOf(p)) = issuedCount[p]
        \/ Cardinality(IssuedOf(p)) = issuedCount[p] + 1 /\ Failing(p)
    BY DEF Ledger, IssuedMatches
  <2>2. CASE p # phase
    <3>1. issuedCount'[p] = issuedCount[p] /\ IssuedOf(p)' = IssuedOf(p)
      BY <1>2, <1>6, <1>8, <2>2
    <3> QED
      BY <2>1, <3>1
  <2>3. CASE p = phase
    <3>1. ~Failing(phase)
      <4>1. ~raised
        BY <1>1 DEF Progress, done
      <4> QED
        BY <4>1 DEF Issuing, StopCheck, Failing
    <3>2. Cardinality(IssuedOf(phase)) = issuedCount[phase]
      BY <2>1, <2>3, <3>1
    <3>3. Cardinality(IssuedOf(phase) \cup {q}) = issuedCount[phase] + 1
      <4>1. IsFiniteSet(IssuedOf(phase))
        BY <1>1, Countable
      <4> QED
        BY <1>8, <3>2, <4>1, FS_AddElement
    <3>4. CASE IssueSends(phase, q)
      <4>1. issuedCount'[phase] = issuedCount[phase] + 1
        BY <1>1, <1>2, <1>6, <3>4
      <4> QED
        BY <1>6, <1>8, <2>3, <3>3, <3>4, <4>1
    <3>5. CASE ~IssueSends(phase, q)
      <4>1. Failing(phase)'
        BY <3>5 DEF Issuing, Failing
      <4> QED
        BY <1>6, <1>8, <2>3, <3>2, <3>3, <3>5, <4>1
    <3> QED
      BY <3>4, <3>5
  <2> QED
    BY <2>2, <2>3
<1>11. ASSUME NEW p \in Phase, DrainAfter[p], PhaseType[p] # "warmup"
       PROVE  issuedCount'[p] = Cardinality(wire' \cap uuids'[p]) + Cardinality(AnsweredOf(p))'
  <2>1. issuedCount[p] = Cardinality(wire \cap uuids[p]) + Cardinality(AnsweredOf(p))
    BY <1>11 DEF Ledger, AnsweredMatches
  <2>2. CASE p = phase /\ IssueSends(phase, q)
    <3>1. wire' \cap uuids'[p] = (wire \cap uuids[p]) \cup {q}
      BY <1>1, <1>2, <1>4, <1>6, <2>2
    <3>2. q \notin wire \cap uuids[p] /\ IsFiniteSet(wire \cap uuids[p])
      BY <1>1, Countable
    <3>3. Cardinality(wire' \cap uuids'[p]) = Cardinality(wire \cap uuids[p]) + 1
      BY <3>1, <3>2, FS_AddElement
    <3>4. issuedCount'[p] = issuedCount[p] + 1
      BY <1>2, <1>6, <2>2
    <3>5. Cardinality(wire \cap uuids[p]) \in Nat /\ Cardinality(AnsweredOf(p)) \in Nat
      BY Countable
    <3>6. Cardinality(AnsweredOf(p))' = Cardinality(AnsweredOf(p))
      BY <1>9
    <3> QED
      BY <2>1, <3>3, <3>4, <3>5, <3>6
  <2>3. CASE ~(p = phase /\ IssueSends(phase, q))
    <3>1. wire' \cap uuids'[p] = wire \cap uuids[p]
      BY <1>1, <1>2, <1>4, <1>6, <2>3
    <3>2. issuedCount'[p] = issuedCount[p]
      BY <1>2, <1>6, <2>3
    <3> QED
      BY <1>9, <2>1, <3>1, <3>2
  <2> QED
    BY <2>2, <2>3
<1>12. IssuedMatches' /\ AnsweredMatches'
  BY <1>10, <1>11 DEF IssuedMatches, AnsweredMatches
<1> QED
  BY <1>1, <1>7, <1>12 DEF Ledger

\* A result is published once, as ERROR and COMPLETE of its query.
LEMMA ResultPublishes ==
  ASSUME TypeOK, StreamInv, Ledger, NEW q \in wire, NEW error \in BOOLEAN,
         HandleResult(q, error)
  PROVE  /\ Kinds(events') /\ Once(events', wire') /\ Starts(events') = Starts(events)
         /\ \A r : Pos(events', "ISSUED", r) = Pos(events, "ISSUED", r)
         /\ \A r : r # q => Pos(events', "COMPLETE", r) = Pos(events, "COMPLETE", r)
         /\ PhaseType[phase] # "warmup" => Pos(events', "COMPLETE", q) # {}
<1> DEFINE e1 == IF error THEN Append(events, Ev("ERROR", q)) ELSE events
           e2 == IF PhaseType[phase] # "warmup" THEN Append(e1, Ev("COMPLETE", q)) ELSE e1
<1>1. q \in Query /\ wire \in SUBSET Query /\ events \in Seq(Event)
  BY DEF TypeOK
<1>2. /\ Kinds(events) /\ Once(events, wire) /\ Pos(events, "ISSUED", q) # {}
      /\ wire' = wire \ {q}
  BY DEF Ledger, StreamInv, Stream, Outstanding, HandleResult
<1>3. "ERROR" \in SampleEvent /\ "COMPLETE" \in SampleEvent
  BY DEF SampleEvent
<1>4. Ev("ERROR", q) \in Event /\ Ev("COMPLETE", q) \in Event
  BY <1>1, <1>3 DEF Ev, Event
<1>5. events' = e2
  <2>1. CASE error /\ PhaseType[phase] # "warmup"
    BY <1>1, <1>4, <2>1 DEF HandleResult, ResultEvents
  <2>2. CASE error /\ PhaseType[phase] = "warmup"
    BY <1>1, <1>4, <2>2 DEF HandleResult, ResultEvents
  <2>3. CASE ~error /\ PhaseType[phase] # "warmup"
    BY <1>1, <1>4, <2>3 DEF HandleResult, ResultEvents
  <2>4. CASE ~error /\ PhaseType[phase] = "warmup"
    BY <1>1, <1>4, <2>4 DEF HandleResult, ResultEvents
  <2> QED
    BY <2>1, <2>2, <2>3, <2>4
<1>6. /\ e1 \in Seq(Event) /\ Kinds(e1) /\ Once(e1, wire') /\ Starts(e1) = Starts(events)
      /\ \A l, r : l # "ERROR" => Pos(e1, l, r) = Pos(events, l, r)
  <2>1. CASE error
    <3>1. Once(Append(events, Ev("ERROR", q)), wire \ {q})
      BY <1>1, <1>2, OnceResult
    <3>2. /\ Append(events, Ev("ERROR", q)) \in Seq(Event)
          /\ Kinds(Append(events, Ev("ERROR", q)))
          /\ Starts(Append(events, Ev("ERROR", q))) = Starts(events)
          /\ \A l, r : l # "ERROR" => Pos(Append(events, Ev("ERROR", q)), l, r) = Pos(events, l, r)
      BY <1>1, <1>2, <1>3, SampleAppend
    <3> QED
      BY <1>2, <2>1, <3>1, <3>2
  <2>2. CASE ~error
    BY <1>1, <1>2, <2>2, OnceResult
  <2> QED
    BY <2>1, <2>2
<1> HIDE DEF e1
<1>7. CASE PhaseType[phase] # "warmup"
  <2>1. e2 = Append(e1, Ev("COMPLETE", q))
    BY <1>7
  <2> HIDE DEF e2
  <2>2. Once(e2, wire')
    BY <1>1, <1>6, <2>1, OnceComplete
  <2>3. Kinds(e2) /\ Starts(e2) = Starts(e1)
        /\ \A l, r : l # "COMPLETE" \/ r # q => Pos(e2, l, r) = Pos(e1, l, r)
    BY <1>1, <1>3, <1>6, <2>1, SampleAppend
  <2>4. Pos(e2, "COMPLETE", q) = Pos(e1, "COMPLETE", q) \cup {Len(e1) + 1}
    BY <1>1, <1>3, <1>6, <2>1, SampleAppend
  <2>5. Pos(e2, "COMPLETE", q) # {}
    BY <2>4
  <2> QED
    BY <1>5, <1>6, <2>2, <2>3, <2>5
<1>8. CASE PhaseType[phase] = "warmup"
  BY <1>5, <1>6, <1>8
<1> QED
  BY <1>7, <1>8

\* A result moves its query from the outstanding ones to the answered ones.
LEMMA LedgerResult ==
  ASSUME TypeOK, IInv, StreamInv, Ledger, NEW q \in wire, NEW error \in BOOLEAN,
         HandleResult(q, error), pc \in {"strategy", "drain"}, UNCHANGED pc,
         \A p \in Phase : Failing(p) => Failing(p)'
  PROVE  Ledger'
<1>1. /\ Kinds(events') /\ Once(events', wire')
      /\ \A r : Pos(events', "ISSUED", r) = Pos(events, "ISSUED", r)
      /\ \A r : r # q => Pos(events', "COMPLETE", r) = Pos(events, "COMPLETE", r)
      /\ PhaseType[phase] # "warmup" => Pos(events', "COMPLETE", q) # {}
  BY ResultPublishes
<1>2. wire' = wire \ {q} /\ UNCHANGED <<uuids, issuedCount>>
  BY DEF HandleResult
<1>3. uuids \in [Phase -> SUBSET Query] /\ issuedCount \in [Phase -> Nat] /\ wire \in SUBSET Query
  BY DEF TypeOK
<1>4. Pos(events, "COMPLETE", q) = {}
  BY DEF StreamInv, Stream, Outstanding
<1>5. \A p \in Phase : IssuedOf(p)' = IssuedOf(p)
  BY <1>1, <1>2 DEF IssuedOf
<1>6. ASSUME NEW p \in Phase, q \notin uuids[p]
      PROVE  AnsweredOf(p)' = AnsweredOf(p) /\ wire' \cap uuids[p] = wire \cap uuids[p]
  BY <1>1, <1>2, <1>6 DEF AnsweredOf
<1>7. ASSUME NEW p \in Phase, q \in uuids[p], DrainAfter[p]
      PROVE  p = phase
  <2>1. ~(p < phase)
    BY <1>7 DEF IInv, DrainedPhasesStayDrained
  <2>2. ~(p > phase)
    BY <1>7 DEF IInv, FutureUntouched
  <2>3. p \in Nat /\ phase \in Nat
    BY PhasesAssumption DEF TypeOK, Phase
  <2> QED
    BY <2>1, <2>2, <2>3
<1>8. ASSUME NEW p \in Phase, DrainAfter[p], PhaseType[p] # "warmup"
      PROVE  issuedCount'[p] = Cardinality(wire' \cap uuids'[p]) + Cardinality(AnsweredOf(p))'
  <2>1. issuedCount[p] = Cardinality(wire \cap uuids[p]) + Cardinality(AnsweredOf(p))
    BY <1>8 DEF Ledger, AnsweredMatches
  <2>2. CASE q \notin uuids[p]
    BY <1>2, <1>6, <2>1, <2>2
  <2>3. CASE q \in uuids[p]
    <3>1. Pos(events', "COMPLETE", q) # {}
      BY <1>1, <1>7, <1>8, <2>3
    <3>2. AnsweredOf(p)' = AnsweredOf(p) \cup {q} /\ q \notin AnsweredOf(p)
      BY <1>1, <1>2, <1>4, <2>3, <3>1 DEF AnsweredOf
    <3>3. wire' \cap uuids'[p] = (wire \cap uuids[p]) \ {q} /\ q \in wire \cap uuids[p]
      BY <1>2, <2>3
    <3>4. /\ IsFiniteSet(AnsweredOf(p)) /\ IsFiniteSet(wire \cap uuids[p])
          /\ Cardinality(AnsweredOf(p)) \in Nat /\ Cardinality(wire \cap uuids[p]) \in Nat
      BY Countable
    <3>5. Cardinality(AnsweredOf(p))' = Cardinality(AnsweredOf(p)) + 1
      <4>1. Cardinality(AnsweredOf(p) \cup {q}) = Cardinality(AnsweredOf(p)) + 1
        BY <3>2, <3>4, FS_AddElement
      <4> QED
        BY <3>2, <4>1
    <3>6. Cardinality(wire' \cap uuids'[p]) = Cardinality(wire \cap uuids[p]) - 1
      <4>1. Cardinality((wire \cap uuids[p]) \ {q}) = Cardinality(wire \cap uuids[p]) - 1
        <5> DEFINE S == wire \cap uuids[p]
        <5>1. IsFiniteSet(S) /\ q \in S
          BY <3>3, <3>4
        <5> HIDE DEF S
        <5>2. Cardinality(S \ {q}) = Cardinality(S) - 1
          BY <5>1, FS_RemoveElement
        <5> QED
          BY <5>2 DEF S
      <4>2. wire' \cap uuids'[p] = (wire \cap uuids[p]) \ {q}
        BY <3>3
      <4> QED
        BY <4>1, <4>2
    <3> QED
      BY <1>2, <2>1, <3>4, <3>5, <3>6
  <2> QED
    BY <2>2, <2>3
<1>9. AnsweredMatches'
  BY <1>8 DEF AnsweredMatches
<1>10. IssuedMatches'
  BY <1>2, <1>5 DEF Ledger, IssuedMatches
<1> QED
  BY <1>1, <1>9, <1>10 DEF Ledger

\* Every step keeps the ledger.
LEMMA LedgerStep ==
  ASSUME TypeOK, TypeOK', IInv, StreamInv, StreamInv', Progress, Ledger, [Next]_vars
  PROVE  Ledger'
<1>1. \A p \in Phase : Failing(p) => Failing(p)'
  BY FailingKept
<1>2. CASE Main
  BY <1>1, <1>2, MainOnly, LedgerSame
<1>3. CASE UNCHANGED <<pc, phase, raised>> /\ UNCHANGED <<events, uuids, wire, issuedCount>>
  <2>1. SessionOnly(events, events')
    BY <1>3 DEF SessionOnly, TypeOK
  <2>2. pc' = "ended" => stopRequested' = stopRequested
    BY <1>3 DEF StreamInv, InStep, AbortMarkedBeforeEnded, TypeOK
  <2>3. pc' = "ended" /\ stopRequested' => Pos(events', "INTERRUPTED", None) # {}
    BY <1>3, <2>2 DEF Ledger
  <2> QED
    BY <1>1, <1>3, <2>1, <2>3, LedgerSame
<1>4. ASSUME NEW q \in Fresh, Issuing(q), UNCHANGED <<pc, phase, raised>>
      PROVE  Ledger'
  BY <1>1, <1>4, LedgerIssuing
<1>5. ASSUME NEW q \in wire, NEW error \in BOOLEAN, HandleResult(q, error),
             pc \in {"strategy", "drain"}, UNCHANGED <<pc, phase, raised>>
      PROVE  Ledger'
  BY <1>1, <1>5, LedgerResult
<1> QED
  BY <1>2, <1>3, <1>4, <1>5, OtherStep

\* The window opens at most once.
LEMMA BegunStep ==
  ASSUME OneMeasured, TypeOK, IInv, StreamInv, Ledger, Begun(events, phase), [Next]_vars
  PROVE  Begun(events', phase')
<1>1. phase \in Nat /\ events \in Seq(Event)
  BY PhasesAssumption DEF TypeOK
<1>2. CASE Main
  BY <1>2, MainOnly
<1>3. CASE UNCHANGED <<phase, events>>
  BY <1>3
<1>4. ASSUME NEW q \in Fresh, Issuing(q), UNCHANGED phase
      PROVE  Begun(events', phase')
  <2>1. q \in Query
    BY DEF Fresh
  <2>2. events' = events \/ events' = Append(events, Ev("ISSUED", q))
    BY <1>4 DEF Issuing, IssueSends, IssueRaises
  <2>3. Starts(Append(events, Ev("ISSUED", q))) = Starts(events)
    BY <1>1, <2>1, SampleAppend DEF SampleEvent
  <2>4. Starts(events') = Starts(events)
    BY <2>2, <2>3
  <2> QED
    BY <1>1, <1>4, <2>4, BegunKeeps
<1>5. ASSUME NEW q \in wire, NEW error \in BOOLEAN, HandleResult(q, error), UNCHANGED phase
      PROVE  Begun(events', phase')
  <2>1. Starts(events') = Starts(events)
    BY <1>5, ResultPublishes
  <2> QED
    BY <1>1, <1>5, <2>1, BegunKeeps
<1> QED
  BY <1>2, <1>3, <1>4, <1>5, OtherStep

\* Nothing is published, issued or over before the run starts.
LEMMA LedgerInit ==
  ASSUME Init
  PROVE  Progress /\ Ledger /\ Begun(events, phase)
<1>1. /\ events = <<>> /\ pc = "idle" /\ phase = 0 /\ raised = FALSE /\ strat = "none"
      /\ phaseStopped = FALSE /\ wire = {}
      /\ uuids = [p \in Phase |-> {}] /\ issuedCount = [p \in Phase |-> 0]
  BY DEF Init
<1>2. \A k, q : Pos(events, k, q) = {}
  BY <1>1 DEF Pos
<1>3. \A p \in Phase : ~Past(p) /\ issuedCount[p] <= TotalSamples[p]
  <2>1. \A p \in Phase : ~(p < 0) /\ TotalSamples[p] \in Nat /\ p # 0
    BY PhasesAssumption DEF Phase
  <2> QED
    BY <1>1, <2>1 DEF Past
<1>4. Progress
  BY <1>1, <1>3 DEF Progress, done
<1>5. \A p \in Phase : IssuedOf(p) = {} /\ AnsweredOf(p) = {} /\ wire \cap uuids[p] = {}
  BY <1>1 DEF IssuedOf, AnsweredOf
<1>6. IssuedMatches /\ AnsweredMatches
  <2>1. \A p \in Phase : issuedCount[p] = 0
    BY <1>1
  <2>2. Cardinality({}) = 0 /\ 0 + 0 = 0
    BY FS_EmptySet
  <2>3. \A p \in Phase : /\ Cardinality(IssuedOf(p)) = 0
                         /\ Cardinality(AnsweredOf(p)) = 0
                         /\ Cardinality(wire \cap uuids[p]) = 0
    BY <1>5, <2>2, Zenon
  <2>4. IssuedMatches
    BY <2>1, <2>3 DEF IssuedMatches
  <2>5. AnsweredMatches
    BY <2>1, <2>2, <2>3 DEF AnsweredMatches
  <2> QED
    BY <2>4, <2>5
<1>7. Kinds(events) /\ Once(events, wire)
  BY <1>1, <1>2 DEF Kinds, Once
<1>8. Begun(events, phase)
  BY <1>2 DEF Begun, Starts
<1> QED
  BY <1>1, <1>4, <1>6, <1>7, <1>8 DEF Ledger

-----------------------------------------------------------------------------
(* What the invariants say of the table and of a clean run.                 *)

\* The stream can be read by the table.
LEMMA StreamReadable ==
  ASSUME TypeOK, IInv, StreamInv, Ledger, Begun(events, phase)
  PROVE  Readable
<1>1. \A k, q : At(k, q) = Pos(events, k, q)
  BY DEF At, Pos
<1>2. events \in Seq(Event) /\ MeasuredIds \subseteq Query
  BY DEF TypeOK, MeasuredIds
<1>3. \A i \in 1..Len(events), k \in SessionEvent \cup SampleEvent, q \in Query \cup {None} :
        events[i] = Ev(k, q) => (k \in SampleEvent <=> q \in Query)
  <2>1. DOMAIN events = 1..Len(events)
    BY <1>2
  <2> QED
    BY <2>1, EventsDiffer DEF Ledger, Kinds
<1>4. ASSUME NEW q \in Query, NEW i \in At("ISSUED", q)
      PROVE  Tracked(i) <=> q \in MeasuredIds
  <2>1. Tracked(i) <=> InWindow(events, i)
    BY <1>1 DEF Tracked, InWindow
  <2>2. PICK p \in Phase : q \in uuids[p]
    <3>1. i \in DOMAIN events /\ events[i].id = q /\ q # None
      BY <1>4, EventsDiffer, EnvironmentAssumption DEF At
    <3> QED
      BY <3>1 DEF StreamInv, Stream, Owned
  <2>3. InWindow(events, i) <=> PhaseType[p] = "performance"
    BY <1>1, <2>2 DEF StreamInv, Stream, Windowed
  <2>4. \A r \in Phase : q \in uuids[r] => r = p
    BY <2>2 DEF IInv, Ownership
  <2> QED
    BY <2>1, <2>2, <2>3, <2>4 DEF MeasuredIds
<1>5. \A q \in Query :
        /\ \A i, j \in At("ISSUED", q) : i = j
        /\ \A x, y \in At("ERROR", q) : x = y
        /\ \A x \in At("ERROR", q) : \E i \in At("ISSUED", q) : i < x
  BY <1>1 DEF Ledger, Once
<1>6. \A q \in Query : \A c \in At("COMPLETE", q) :
        /\ \A d \in At("COMPLETE", q) : d = c
        /\ \E i \in At("ISSUED", q) : i < c
        /\ \A x \in At("ERROR", q) : x < c
  BY <1>1 DEF StreamInv, Stream, Ordered
<1>7. \A q \in Query, k \in SampleEvent : \A i, j \in At(k, q) : i = j
  BY <1>5, <1>6 DEF SampleEvent
<1>8. \A i, j \in At("START_PERFORMANCE_TRACKING", None) : i = j
  BY <1>1 DEF Begun, Starts
<1> QED
  BY <1>2, <1>3, <1>4, <1>5, <1>6, <1>7, <1>8 DEF Readable

\* A clean run is complete.
LEMMA CleanIsComplete ==
  ASSUME TypeOK, IInv, StreamInv, Progress, Ledger,
         pc = "ended", ~raised, At("INTERRUPTED", None) = {}
  PROVE  /\ phase = NumPhases /\ ~stopRequested
         /\ \A p \in Phase :
              /\ issuedCount[p] = TotalSamples[p] \/ elapsed[p]
              /\ Cardinality(IssuedOf(p)) = issuedCount[p]
                 \/ (elapsed[p] /\ Cardinality(IssuedOf(p)) = issuedCount[p] + 1)
              /\ DrainAfter[p] /\ PhaseType[p] # "warmup" =>
                   Cardinality(AnsweredOf(p)) = issuedCount[p]
<1>1. ~stopRequested
  BY DEF Ledger, At, Pos
<1>2. phase = NumPhases /\ (phase \in Phase /\ DrainAfter[phase] => inflight[phase] = 0)
  BY <1>1 DEF Progress, done
<1>3. strat = "none"
  BY DEF IInv, MainPlaced
<1>4. \A p \in Phase : p < phase \/ p = phase
  BY <1>2, PhasesAssumption DEF Phase
<1>5. \A p \in Phase : issuedCount[p] = TotalSamples[p] \/ elapsed[p]
  BY <1>1, <1>4 DEF Progress, Past, Over
<1>6. \A p \in Phase :
        \/ Cardinality(IssuedOf(p)) = issuedCount[p]
        \/ elapsed[p] /\ Cardinality(IssuedOf(p)) = issuedCount[p] + 1
  BY <1>1, <1>3 DEF Ledger, IssuedMatches, Failing
<1>7. ASSUME NEW p \in Phase, DrainAfter[p], PhaseType[p] # "warmup"
      PROVE  Cardinality(AnsweredOf(p)) = issuedCount[p]
  <2>1. wire \cap uuids[p] = {}
    <3>1. CASE p < phase
      BY <1>7, <3>1 DEF IInv, DrainedPhasesStayDrained
    <3>2. CASE p = phase
      BY <1>2, <1>7, <3>2, ZeroInflight DEF IInv
    <3> QED
      BY <1>4, <3>1, <3>2
  <2>2. issuedCount[p] = Cardinality(wire \cap uuids[p]) + Cardinality(AnsweredOf(p))
    BY <1>7 DEF Ledger, AnsweredMatches
  <2>3. Cardinality(wire \cap uuids[p]) = 0 /\ Cardinality(AnsweredOf(p)) \in Nat
    BY <2>1, FS_EmptySet, Countable
  <2> QED
    BY <2>2, <2>3
<1> QED
  BY <1>1, <1>2, <1>5, <1>6, <1>7

\* So is the report of a clean run.
LEMMA CleanReport ==
  ASSUME OneMeasured, TypeOK, IInv, StreamInv, Progress, Ledger, CountersAreThePerformancePhases
  PROVE  CleanReportIsComplete
<1>1. SUFFICES ASSUME pc = "ended", ~raised, At("INTERRUPTED", None) = {}
               PROVE  /\ phase = NumPhases
                      /\ \A p \in Phase :
                           /\ issuedCount[p] = TotalSamples[p] \/ elapsed[p]
                           /\ DrainAfter[p] /\ PhaseType[p] # "warmup" =>
                                Cardinality({q \in uuids[p] : At("COMPLETE", q) # {}})
                                  = issuedCount[p]
                      /\ LET t == Table({})
                         IN  \A p \in Phase : PhaseType[p] = "performance" =>
                               /\ \/ t.trackedIssued = issuedCount[p]
                                  \/ (elapsed[p] /\ t.trackedIssued = issuedCount[p] + 1)
                               /\ DrainAfter[p] => t.trackedCompleted = issuedCount[p]
  BY DEF CleanReportIsComplete, CleanEndIsComplete
<1>2. /\ phase = NumPhases
      /\ \A p \in Phase :
           /\ issuedCount[p] = TotalSamples[p] \/ elapsed[p]
           /\ Cardinality(IssuedOf(p)) = issuedCount[p]
              \/ (elapsed[p] /\ Cardinality(IssuedOf(p)) = issuedCount[p] + 1)
           /\ DrainAfter[p] /\ PhaseType[p] # "warmup" =>
                Cardinality(AnsweredOf(p)) = issuedCount[p]
  BY <1>1, CleanIsComplete
<1>3. \A p \in Phase : {q \in uuids[p] : At("COMPLETE", q) # {}} = AnsweredOf(p)
  BY DEF AnsweredOf, At, Pos
<1>4. ASSUME NEW p \in Phase, PhaseType[p] = "performance"
      PROVE  Measured("ISSUED") = IssuedOf(p) /\ Measured("COMPLETE") = AnsweredOf(p)
  <2>1. {x \in Phase : PhaseType[x] = "performance"} = {p}
    BY <1>4 DEF OneMeasured
  <2>2. UNION {uuids[x] : x \in {y \in Phase : PhaseType[y] = "performance"}} = uuids[p]
    BY <2>1
  <2> QED
    BY <2>2 DEF Measured, IssuedOf, AnsweredOf, At, Pos
<1> DEFINE t == Table({})
<1>5. /\ t.trackedIssued = Cardinality(Measured("ISSUED"))
      /\ t.trackedCompleted = Cardinality(Measured("COMPLETE"))
  BY DEF CountersAreThePerformancePhases
<1> HIDE DEF t
<1>6. ASSUME NEW p \in Phase, PhaseType[p] = "performance"
      PROVE  /\ \/ t.trackedIssued = issuedCount[p]
                \/ (elapsed[p] /\ t.trackedIssued = issuedCount[p] + 1)
             /\ DrainAfter[p] => t.trackedCompleted = issuedCount[p]
  <2>1. /\ t.trackedIssued = Cardinality(IssuedOf(p))
        /\ t.trackedCompleted = Cardinality(AnsweredOf(p))
    BY <1>4, <1>5, <1>6
  <2>2. PhaseType[p] # "warmup"
    BY <1>6
  <2> QED
    BY <1>2, <2>1, <2>2
<1> QED
  BY <1>2, <1>3, <1>6 DEF t

\* A session that published ENDED without INTERRUPTED and did not raise ran all
\* its phases, each to its last sample or to its duration cap, and every query
\* issued in a phase that _drain_inflight waited for was answered: no clean run
\* loses a response.
THEOREM CleanEndsComplete == Spec => []CleanEndIsComplete
<1>1. Init => Progress /\ Ledger /\ StreamInv
  BY LedgerInit, StreamInit
<1>2. TypeOK /\ TypeOK' /\ IInv /\ StreamInv /\ Progress /\ Ledger /\ [Next]_vars
        => Progress' /\ Ledger' /\ StreamInv'
  BY StreamStep, ProgressStep, LedgerStep
<1>3. TypeOK /\ IInv /\ StreamInv /\ Progress /\ Ledger => CleanEndIsComplete
  <2>1. \A p \in Phase : {q \in uuids[p] : At("COMPLETE", q) # {}} = AnsweredOf(p)
    BY DEF AnsweredOf, At, Pos
  <2> QED
    BY <2>1, CleanIsComplete DEF CleanEndIsComplete
<1> QED
  BY <1>1, <1>2, <1>3, TypeCorrect, InvariantHolds, PTL DEF Spec

\* With at most one performance phase, as _build_phases lists them, and whatever
\* late answers, failed sends, stops and completed_at times there are: the
\* tracked counters, the tracked block and the legacy window that process()
\* leaves are those of that phase's queries, after every event; and the report
\* of a clean run has as completed what the session issued in it.
THEOREM TableMeasuresTheRun ==
  ASSUME OneMeasured
  PROVE  Spec => []TableIsTheRun
<1>1. Init => Progress /\ Ledger /\ StreamInv /\ Begun(events, phase)
  BY LedgerInit, StreamInit
<1>2. TypeOK /\ TypeOK' /\ IInv /\ StreamInv /\ Progress /\ Ledger /\ Begun(events, phase) /\ [Next]_vars
        => Progress' /\ Ledger' /\ StreamInv' /\ Begun(events, phase)'
  BY StreamStep, ProgressStep, LedgerStep, BegunStep
<1>3. TypeOK /\ IInv /\ StreamInv /\ Progress /\ Ledger /\ Begun(events, phase) => TableIsTheRun
  BY StreamReadable, TableMeasures, CleanReport DEF TableIsTheRun, TableIsThePerformancePhases
<1> QED
  BY <1>1, <1>2, <1>3, TypeCorrect, InvariantHolds, PTL DEF Spec

=============================================================================
