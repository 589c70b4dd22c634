------------------------ MODULE RunLifecycle_proofs ------------------------
(***************************************************************************)
(* Machine-checked proofs about RunLifecycle, for every number of phases,  *)
(* with and without late signals and crashes of the aggregator.            *)
(*                                                                         *)
(* What the exit status claims is decided in the last step of the run, out *)
(* of what signals, timeouts and processes did long before.  The inductive *)
(* invariant therefore says, for every point of run_benchmark(), which     *)
(* parts of the run exist there (Stages), how far a signal can have got    *)
(* (Signals) and what the records of the run can say (Records).            *)
(*                                                                         *)
(* The second half is about an audit, which is several such runs: the      *)
(* theorem is that its verdict is one of two complete runs (AuditInv).     *)
(***************************************************************************)
EXTENDS RunLifecycle, AuditRun, FiniteSetTheorems, SequenceTheorems, TLAPS

\* Before the session is bound, and after the services were drained and the
\* client was shut down.
Early == {"setup", "start", "connect", "undo", "bind"}
Final == {"artifacts", "scoring", "writing", "checks"}

\* Which parts of the run exist at which point of run_benchmark().
Stages ==
    /\ bound <=> phase # 0
    /\ pc \in Early => ~bound
    /\ pc \in {"phase", "inflight", "drain", "grace"} \cup Final => bound
    /\ drained => bound
    /\ drained <=> ended # "no"
    /\ pc \in Early \cup {"phase", "inflight"} => ~drained
    /\ pc \in {"drain", "grace"} \cup Final => drained
    /\ ~drained => failure = "none" /\ report = "none"
    /\ pc = "setup" => svc = "none" /\ ~tmpfs /\ client = "none" /\ ~interrupted
    /\ pc = "start" => client = "none"
    /\ pc = "undo" => client = "terminated" /\ exc # "none"
    /\ client = "terminated" => pc \in {"undo", "unwind", "done"} /\ ~bound
    /\ pc = "close" => IF drained THEN exc = "none" => ~Alive(svc) ELSE exc # "none"
    /\ pc = "unwind" => exc # "none" /\ client \in {"none", "terminated", "down"}
    /\ pc \in Final => exc = "none" /\ client = "down" /\ ~Alive(svc)
    /\ report # "none" => ~Alive(svc)

\* Where the signals come from, and how far they get.
Signals ==
    /\ stopReq => interrupted
    /\ cancelReq \/ abort => interrupted \/ fired
    /\ cancelReq /\ bound => pc \in {"phase", "done"}
    /\ client = "terminated" /\ pc # "undo" => interrupted \/ fired
    /\ stop => \/ interrupted \/ fired \/ failure = "stall"
               \/ pc = "inflight" \/ ended = "interrupted"

\* What the aggregator's file, the report and the written report say.
Records ==
    /\ file \in {"complete", "incomplete"} => ended = "clean"
    /\ ended = "clean" /\ exc = "none" => fired \/ (phase = Phases /\ failure = "none")
    /\ failure = "error" => exc # "none" \/ fired
    /\ report \in {"complete", "incomplete", "old"} => file = report
    /\ written # "none" => pc \in {"checks", "done"}
    /\ written # "none" \/ pc = "checks" => written = report
    /\ pc \in {"scoring", "writing", "checks"} /\ report \notin {"none", "interrupted"} =>
         ~Aborted

\* The inductive invariant.
RunInv == RunEndIsSound /\ Stages /\ Signals /\ Records

\* The run begins in the invariant.
LEMMA RunInvInit ==
  ASSUME Init
  PROVE  RunInv
<1> USE RunAssumption DEF Init, Alive, Early, Final
<1>1. TypeOK
  <2>1. file \in {"none", "old", "complete", "incomplete", "interrupted"} /\ phase \in 0..Phases
    OBVIOUS
  <2>2. \A b \in {bound, interrupted, fired, cancelReq, stopReq, stop, abort, live, drained, tmpfs} :
          b \in BOOLEAN
    OBVIOUS
  <2> QED
    BY <2>1, <2>2 DEF TypeOK
<1>2. SuccessIsTrue /\ InterruptIsReported /\ NothingSurvives
  BY DEF SuccessIsTrue, InterruptIsReported, NothingSurvives
<1>3. Stages /\ Signals /\ Records
  BY DEF Stages, Signals, Records, Aborted
<1> QED
  BY <1>1, <1>2, <1>3 DEF RunInv, RunEndIsSound

\* Every step of the run task, of the phases, of the signals and of the
\* aggregator preserves the invariant.
LEMMA RunInvStep ==
  ASSUME RunInv, [Next]_vars
  PROVE  RunInv'
<1> USE DEF RunInv, RunEndIsSound, TypeOK, SuccessIsTrue, InterruptIsReported,
            NothingSurvives, Stages, Signals, Records, Early, Final,
            abortVars, procVars, Alive, Aborted, Normal, InLoop
<1>1. CASE SetupDone
  BY <1>1 DEF SetupDone
<1>2. CASE SetupFails
  BY <1>2 DEF SetupFails
<1>3. CASE ServicesReady
  BY <1>3 DEF ServicesReady
<1>4. CASE ServicesFail
  BY <1>4 DEF ServicesFail
<1>5. CASE ClientReady
  BY <1>5 DEF ClientReady
<1>6. CASE ClientFails
  BY <1>6 DEF ClientFails
<1>7. CASE ClientUndone
  <2>1. CASE cancelReq
    <3>1. RunEndIsSound'
      BY <1>7, <2>1 DEF ClientUndone
    <3>2. Stages'
      BY <1>7, <2>1 DEF ClientUndone
    <3>3. Signals'
      BY <1>7, <2>1 DEF ClientUndone
    <3>4. Records'
      BY <1>7, <2>1 DEF ClientUndone
    <3> QED
      BY <3>1, <3>2, <3>3, <3>4
  <2>2. CASE ~cancelReq
    <3>1. RunEndIsSound'
      BY <1>7, <2>2 DEF ClientUndone
    <3>2. Stages'
      BY <1>7, <2>2 DEF ClientUndone
    <3>3. Signals'
      BY <1>7, <2>2 DEF ClientUndone
    <3>4. Records'
      BY <1>7, <2>2 DEF ClientUndone
    <3> QED
      BY <3>1, <3>2, <3>3, <3>4
  <2> QED
    BY <1>7, <2>1, <2>2 DEF ClientUndone
<1>8. CASE Bind
  BY <1>8, RunAssumption DEF Bind
<1>9. CASE BindFails
  BY <1>9 DEF BindFails
<1>10. CASE Close
  <2>1. CASE cancelReq
    <3>1. TypeOK'
      BY <1>10, <2>1 DEF Close
    <3>2. SuccessIsTrue'
      BY <1>10, <2>1 DEF Close
    <3>3. InterruptIsReported'
      BY <1>10, <2>1 DEF Close
    <3>4. NothingSurvives'
      BY <1>10, <2>1 DEF Close
    <3>5. Stages'
      BY <1>10, <2>1 DEF Close
    <3>6. Signals'
      BY <1>10, <2>1 DEF Close
    <3>7. Records'
      BY <1>10, <2>1 DEF Close
    <3> QED
      BY <3>1, <3>2, <3>3, <3>4, <3>5, <3>6, <3>7
  <2>2. CASE ~cancelReq /\ exc = "none" /\ drained
    <3>1. TypeOK'
      BY <1>10, <2>2 DEF Close
    <3>2. SuccessIsTrue'
      BY <1>10, <2>2 DEF Close
    <3>3. InterruptIsReported'
      BY <1>10, <2>2 DEF Close
    <3>4. NothingSurvives'
      BY <1>10, <2>2 DEF Close
    <3>5. Stages'
      BY <1>10, <2>2 DEF Close
    <3>6. Signals'
      BY <1>10, <2>2 DEF Close
    <3>7. Records'
      BY <1>10, <2>2 DEF Close
    <3> QED
      BY <3>1, <3>2, <3>3, <3>4, <3>5, <3>6, <3>7
  <2>3. CASE ~cancelReq /\ ~(exc = "none" /\ drained)
    <3>1. TypeOK'
      BY <1>10, <2>3 DEF Close
    <3>2. SuccessIsTrue'
      BY <1>10, <2>3 DEF Close
    <3>3. InterruptIsReported'
      BY <1>10, <2>3 DEF Close
    <3>4. NothingSurvives'
      BY <1>10, <2>3 DEF Close
    <3>5. Stages'
      BY <1>10, <2>3 DEF Close
    <3>6. Signals'
      BY <1>10, <2>3 DEF Close
    <3>7. Records'
      BY <1>10, <2>3 DEF Close
    <3> QED
      BY <3>1, <3>2, <3>3, <3>4, <3>5, <3>6, <3>7
  <2> QED
    BY <1>10, <2>1, <2>2, <2>3 DEF Close
<1>11. CASE Unwind
  <2>1. CASE file' = file
    <3>1. TypeOK'
      BY <1>11, <2>1 DEF Unwind
    <3>2. SuccessIsTrue'
      BY <1>11, <2>1 DEF Unwind
    <3>3. InterruptIsReported'
      BY <1>11, <2>1 DEF Unwind
    <3>4. NothingSurvives'
      BY <1>11, <2>1 DEF Unwind
    <3>5. Stages'
      BY <1>11, <2>1 DEF Unwind
    <3>6. Signals'
      BY <1>11, <2>1 DEF Unwind
    <3>7. Records'
      BY <1>11, <2>1 DEF Unwind
    <3> QED
      BY <3>1, <3>2, <3>3, <3>4, <3>5, <3>6, <3>7
  <2>2. CASE file' = "interrupted" /\ Alive(svc)
    <3>1. TypeOK'
      BY <1>11, <2>2 DEF Unwind
    <3>2. SuccessIsTrue'
      BY <1>11, <2>2 DEF Unwind
    <3>3. InterruptIsReported'
      BY <1>11, <2>2 DEF Unwind
    <3>4. NothingSurvives'
      BY <1>11, <2>2 DEF Unwind
    <3>5. Stages'
      BY <1>11, <2>2 DEF Unwind
    <3>6. Signals'
      BY <1>11, <2>2 DEF Unwind
    <3>7. Records'
      BY <1>11, <2>2 DEF Unwind
    <3> QED
      BY <3>1, <3>2, <3>3, <3>4, <3>5, <3>6, <3>7
  <2> QED
    BY <1>11, <2>1, <2>2 DEF Unwind
<1>12. CASE WriteArtifacts
  <2>1. CASE report # "none" /\ Aborted
    <3>1. RunEndIsSound'
      BY <1>12, <2>1 DEF WriteArtifacts, Marked
    <3>2. Stages'
      BY <1>12, <2>1 DEF WriteArtifacts, Marked
    <3>3. Signals'
      BY <1>12, <2>1 DEF WriteArtifacts, Marked
    <3>4. Records'
      BY <1>12, <2>1 DEF WriteArtifacts, Marked
    <3> QED
      BY <3>1, <3>2, <3>3, <3>4
  <2>2. CASE report # "none" /\ ~Aborted
    <3>1. RunEndIsSound'
      BY <1>12, <2>2 DEF WriteArtifacts, Marked
    <3>2. Stages'
      BY <1>12, <2>2 DEF WriteArtifacts, Marked
    <3>3. Signals'
      BY <1>12, <2>2 DEF WriteArtifacts, Marked
    <3>4. Records'
      BY <1>12, <2>2 DEF WriteArtifacts, Marked
    <3> QED
      BY <3>1, <3>2, <3>3, <3>4
  <2>3. CASE report = "none"
    <3>1. RunEndIsSound'
      BY <1>12, <2>3 DEF WriteArtifacts, Marked
    <3>2. Stages'
      BY <1>12, <2>3 DEF WriteArtifacts, Marked
    <3>3. Signals'
      BY <1>12, <2>3 DEF WriteArtifacts, Marked
    <3>4. Records'
      BY <1>12, <2>3 DEF WriteArtifacts, Marked
    <3> QED
      BY <3>1, <3>2, <3>3, <3>4
  <2> QED
    BY <1>12, <2>1, <2>2, <2>3 DEF WriteArtifacts, Marked
<1>13. CASE Scored
  BY <1>13 DEF Scored
<1>14. CASE WriteReport
  BY <1>14 DEF WriteReport
<1>15. CASE Checks
  <2>1. CASE interrupted
    <3>1. RunEndIsSound'
      BY <1>15, <2>1 DEF Checks
    <3>2. Stages'
      BY <1>15, <2>1 DEF Checks
    <3>3. Signals'
      BY <1>15, <2>1 DEF Checks
    <3>4. Records'
      BY <1>15, <2>1 DEF Checks
    <3> QED
      BY <3>1, <3>2, <3>3, <3>4
  <2>2. CASE ~interrupted /\ outcome' = "error"
    <3>1. RunEndIsSound'
      BY <1>15, <2>2 DEF Checks
    <3>2. Stages'
      BY <1>15, <2>2 DEF Checks
    <3>3. Signals'
      BY <1>15, <2>2 DEF Checks
    <3>4. Records'
      BY <1>15, <2>2 DEF Checks
    <3> QED
      BY <3>1, <3>2, <3>3, <3>4
  <2>3. CASE ~interrupted /\ outcome' = "ok"
    <3>1. RunEndIsSound'
      BY <1>15, <2>3 DEF Checks
    <3>2. Stages'
      BY <1>15, <2>3 DEF Checks
    <3>3. Signals'
      BY <1>15, <2>3 DEF Checks
    <3>4. Records'
      BY <1>15, <2>3 DEF Checks
    <3> QED
      BY <3>1, <3>2, <3>3, <3>4
  <2> QED
    BY <1>15, <2>1, <2>2, <2>3 DEF Checks
<1>16. CASE CancelArrives
  BY <1>16 DEF CancelArrives, SessionEnds
<1>17. CASE ServicesExited
  <2>1. CASE file # "none"
    <3>1. RunEndIsSound'
      BY <1>17, <2>1 DEF ServicesExited, BuildReport, Snapshot
    <3>2. Stages'
      BY <1>17, <2>1 DEF ServicesExited, BuildReport, Snapshot
    <3>3. Signals'
      BY <1>17, <2>1 DEF ServicesExited, BuildReport, Snapshot
    <3>4. Records'
      BY <1>17, <2>1 DEF ServicesExited, BuildReport, Snapshot
    <3> QED
      BY <3>1, <3>2, <3>3, <3>4
  <2>2. CASE file = "none"
    <3>1. RunEndIsSound'
      BY <1>17, <2>2 DEF ServicesExited, BuildReport, Snapshot
    <3>2. Stages'
      BY <1>17, <2>2 DEF ServicesExited, BuildReport, Snapshot
    <3>3. Signals'
      BY <1>17, <2>2 DEF ServicesExited, BuildReport, Snapshot
    <3>4. Records'
      BY <1>17, <2>2 DEF ServicesExited, BuildReport, Snapshot
    <3> QED
      BY <3>1, <3>2, <3>3, <3>4
  <2> QED
    BY <1>17, <2>1, <2>2 DEF ServicesExited, BuildReport, Snapshot
<1>18. CASE AbortSeen
  BY <1>18 DEF AbortSeen
<1>19. CASE GraceExpires
  BY <1>19 DEF GraceExpires
<1>20. CASE StrategyEnds
  <2>1. RunEndIsSound'
    BY ZenonT(60), <1>20 DEF StrategyEnds
  <2>2. Stages'
    BY <1>20 DEF StrategyEnds
  <2>3. Signals'
    BY <1>20 DEF StrategyEnds
  <2>4. Records'
    BY <1>20 DEF StrategyEnds
  <2> QED
    BY <2>1, <2>2, <2>3, <2>4
<1>21. CASE PhaseEnds
  <2>1. CASE stop \/ phase = Phases
    <3>1. RunEndIsSound'
      BY ZenonT(60), <1>21, <2>1, RunAssumption DEF PhaseEnds, SessionEnds
    <3>2. Stages'
      BY <1>21, <2>1, RunAssumption DEF PhaseEnds, SessionEnds
    <3>3. Signals'
      BY <1>21, <2>1, RunAssumption DEF PhaseEnds, SessionEnds
    <3>4. Records'
      BY <1>21, <2>1, RunAssumption DEF PhaseEnds, SessionEnds
    <3> QED
      BY <3>1, <3>2, <3>3, <3>4
  <2>2. CASE ~(stop \/ phase = Phases)
    <3>1. RunEndIsSound'
      BY <1>21, <2>2, RunAssumption DEF PhaseEnds, SessionEnds
    <3>2. Stages'
      BY <1>21, <2>2, RunAssumption DEF PhaseEnds, SessionEnds
    <3>3. Signals'
      BY <1>21, <2>2, RunAssumption DEF PhaseEnds, SessionEnds
    <3>4. Records'
      BY <1>21, <2>2, RunAssumption DEF PhaseEnds, SessionEnds
    <3> QED
      BY <3>1, <3>2, <3>3, <3>4
  <2> QED
    BY <1>21, <2>1, <2>2 DEF PhaseEnds, SessionEnds
<1>22. CASE DrainTimesOut
  BY <1>22 DEF DrainTimesOut
<1>23. CASE Stall
  BY <1>23 DEF Stall
<1>24. CASE SessionRaises
  BY <1>24 DEF SessionRaises
<1>25. CASE Sigint
  <2>1. CASE InLoop \/ pc \in {"bind", "unwind"}
    <3>1. TypeOK'
      <4>1. cancelReq' \in BOOLEAN
        BY <1>25, <2>1 DEF Sigint
      <4>2. stopReq' \in BOOLEAN
        BY <1>25, <2>1 DEF Sigint
      <4>3. /\ interrupted' = TRUE
            /\ UNCHANGED <<pc, phase, bound, fired, stop, abort, failure, exc, procVars,
                           drained, ended, client, tmpfs, report, written, outcome>>
        BY <1>25, <2>1 DEF Sigint
      <4> QED
        BY <4>1, <4>2, <4>3
    <3>2. SuccessIsTrue'
      BY <1>25, <2>1 DEF Sigint
    <3>3. InterruptIsReported'
      BY <1>25, <2>1 DEF Sigint
    <3>4. NothingSurvives'
      BY <1>25, <2>1 DEF Sigint
    <3>5. Stages'
      BY <1>25, <2>1 DEF Sigint
    <3>6. Signals'
      BY <1>25, <2>1 DEF Sigint
    <3>7. Records'
      BY <1>25, <2>1 DEF Sigint
    <3> QED
      BY <3>1, <3>2, <3>3, <3>4, <3>5, <3>6, <3>7
  <2>2. CASE ~(InLoop \/ pc \in {"bind", "unwind"})
    <3>1. TypeOK'
      <4>1. interrupted' \in BOOLEAN /\ tmpfs' \in BOOLEAN
        BY <1>25, <2>2 DEF Sigint
      <4>2. /\ pc' = "done" /\ outcome' = "interrupt"
            /\ UNCHANGED <<cancelReq, stopReq, phase, bound, fired, stop, abort, failure, exc,
                           procVars, drained, ended, client>>
        BY <1>25, <2>2 DEF Sigint
      <4>3. {report', written'} \subseteq {"none", "old", "complete", "incomplete", "interrupted", "live"}
        BY <1>25, <2>2 DEF Sigint
      <4> QED
        BY <4>1, <4>2, <4>3
    <3>2. SuccessIsTrue'
      BY <1>25, <2>2 DEF Sigint
    <3>3. InterruptIsReported'
      BY <1>25, <2>2 DEF Sigint
    <3>4. NothingSurvives'
      BY <1>25, <2>2 DEF Sigint
    <3>5. Stages'
      BY <1>25, <2>2 DEF Sigint
    <3>6. Signals'
      BY <1>25, <2>2 DEF Sigint
    <3>7. Records'
      BY <1>25, <2>2 DEF Sigint
    <3> QED
      BY <3>1, <3>2, <3>3, <3>4, <3>5, <3>6, <3>7
  <2> QED
    BY <1>25, <2>1, <2>2 DEF Sigint
<1>26. CASE StopArrives
  <2>1. TypeOK'
    <3>1. stopReq' \in BOOLEAN /\ stop' \in BOOLEAN /\ abort' \in BOOLEAN
      BY <1>26 DEF StopArrives
    <3>2. UNCHANGED <<pc, phase, bound, interrupted, fired, cancelReq, failure, exc, procVars,
                      drained, ended, client, tmpfs, report, written, outcome>>
      BY <1>26 DEF StopArrives
    <3> QED
      BY <3>1, <3>2
  <2>2. SuccessIsTrue' /\ InterruptIsReported' /\ NothingSurvives'
    BY <1>26 DEF StopArrives
  <2>3. Stages' /\ Signals' /\ Records'
    BY <1>26 DEF StopArrives
  <2> QED
    BY <2>1, <2>2, <2>3
<1>27. CASE ForceExit
  BY <1>27 DEF ForceExit
<1>28. CASE WatchdogFires
  <2>1. CASE bound
    <3>1. RunEndIsSound'
      BY <1>28, <2>1 DEF WatchdogFires
    <3>2. Stages'
      BY <1>28, <2>1 DEF WatchdogFires
    <3>3. Signals'
      BY <1>28, <2>1 DEF WatchdogFires
    <3>4. Records'
      BY <1>28, <2>1 DEF WatchdogFires
    <3> QED
      BY <3>1, <3>2, <3>3, <3>4
  <2>2. CASE ~bound
    <3>1. RunEndIsSound'
      BY <1>28, <2>2 DEF WatchdogFires
    <3>2. Stages'
      BY <1>28, <2>2 DEF WatchdogFires
    <3>3. Signals'
      BY <1>28, <2>2 DEF WatchdogFires
    <3>4. Records'
      BY <1>28, <2>2 DEF WatchdogFires
    <3> QED
      BY <3>1, <3>2, <3>3, <3>4
  <2> QED
    BY <1>28, <2>1, <2>2 DEF WatchdogFires
<1>29. CASE LiveTick
  BY <1>29 DEF LiveTick
<1>30. CASE AggregatorEnds
  <2>1. CASE ended = "interrupted"
    <3>1. RunEndIsSound'
      BY <1>30, <2>1 DEF AggregatorEnds
    <3>2. Stages'
      BY <1>30, <2>1 DEF AggregatorEnds
    <3>3. Signals'
      BY <1>30, <2>1 DEF AggregatorEnds
    <3>4. Records'
      BY <1>30, <2>1 DEF AggregatorEnds
    <3> QED
      BY <3>1, <3>2, <3>3, <3>4
  <2>2. CASE ended = "clean"
    <3>1. RunEndIsSound'
      BY <1>30, <2>2 DEF AggregatorEnds
    <3>2. Stages'
      BY <1>30, <2>2 DEF AggregatorEnds
    <3>3. Signals'
      BY <1>30, <2>2 DEF AggregatorEnds
    <3>4. Records'
      BY <1>30, <2>2 DEF AggregatorEnds
    <3> QED
      BY <3>1, <3>2, <3>3, <3>4
  <2> QED
    BY <1>30, <2>1, <2>2 DEF AggregatorEnds
<1>31. CASE AggregatorCrashes
  BY <1>31 DEF AggregatorCrashes
<1>32. CASE UNCHANGED vars
  BY <1>32 DEF vars
<1> QED
  BY <1>1, <1>2, <1>3, <1>4, <1>5, <1>6, <1>7, <1>8, <1>9, <1>10, <1>11, <1>12,
     <1>13, <1>14, <1>15, <1>16, <1>17, <1>18, <1>19, <1>20, <1>21, <1>22, <1>23,
     <1>24, <1>25, <1>26, <1>27, <1>28, <1>29, <1>30, <1>31, <1>32
     DEF Next, RunTask, Phase

\* The report says "complete" where it is written only if nothing has
\* aborted the run: it was marked after the drain, and a signal that came
\* while scoring has marked it again.
LEMMA WriteIsHonest ==
  ASSUME RunInv, [Next]_vars, written' = "complete", written # "complete"
  PROVE  ~Aborted /\ ~stop
<1>1. CASE WriteReport
  <2>1. pc = "writing" /\ report = "complete" /\ file = "complete" /\ ended = "clean"
    BY <1>1 DEF WriteReport, RunInv, Records
  <2>2. ~Aborted
    BY <2>1 DEF RunInv, Records
  <2>3. ~stop
    BY <2>1, <2>2 DEF RunInv, Signals, Aborted
  <2> QED
    BY <2>2, <2>3
<1>2. CASE Sigint
  BY <1>2 DEF Sigint, InLoop
<1>3. CASE written' = written
  BY <1>3
<1> QED
  BY <1>1, <1>2, <1>3
     DEF Next, RunTask, Phase, vars, abortVars, procVars, SetupDone, SetupFails, ServicesReady,
         ServicesFail, ClientReady, ClientFails, ClientUndone, Bind, BindFails, Close,
         Unwind, WriteArtifacts, Scored, Checks, CancelArrives, ServicesExited,
         BuildReport, AbortSeen, GraceExpires, StrategyEnds, PhaseEnds, SessionEnds,
         DrainTimesOut, Stall, SessionRaises, StopArrives, ForceExit, WatchdogFires,
         LiveTick, AggregatorEnds, AggregatorCrashes

\* Whatever the run holds on the way, it holds the inductive invariant.
THEOREM RunKeepsItsRecords == Spec => []RunInv
<1>1. Init => RunInv
  BY RunInvInit
<1>2. RunInv /\ [Next]_vars => RunInv'
  BY RunInvStep
<1> QED
  BY <1>1, <1>2, PTL DEF Spec

\* However setup, session, signals, watchdog and processes interleave: exit
\* status 0 means an unaborted run of all phases with the aggregator's own
\* complete report, an interrupted run says so, and no process and no tmpfs
\* of the run outlives it.
THEOREM RunEndsSoundly == Spec => []RunEndIsSound
<1>1. RunInv => RunEndIsSound
  BY DEF RunInv
<1> QED
  BY <1>1, RunKeepsItsRecords, PTL

\* No step writes a complete report of a run that an interrupt, the
\* watchdog, a stall or a drain timeout has stopped.
THEOREM ReportsAreHonest == Spec => CompleteIsNotAborted
<1>1. RunInv /\ [Next]_vars =>
        [written' = "complete" /\ written # "complete" => ~Aborted /\ ~stop]_vars
  BY WriteIsHonest
<1> QED
  BY <1>1, RunKeepsItsRecords, PTL DEF Spec, CompleteIsNotAborted

-----------------------------------------------------------------------------
(***************************************************************************)
(* The audit, whose two phases are runs of their own                       *)
(***************************************************************************)

Artifact ==
  [report : {"complete"}, n : Nat, completed : Nat, qps : Qps, draws : Seq(Int)]

AuditState ==
  [config : AuditConfig, stage : {"main", "setup", "issue", "verify", "over"},
   sigint : BOOLEAN, left : SUBSET Int, draws : Seq(Int), artifacts : Seq(Artifact),
   outcome : {"none", "main_failed", "interrupted", "error", "pass", "fail"}]

Indices(c) == 0..(c.size - 1)

\* The reference phase draws without replacement: what it has drawn and what
\* is left share the dataset between them.
DrawnOnce(a) ==
  /\ Distinct(a.draws)
  /\ a.draws = <<>> => a.left = {}
  /\ a.draws # <<>> =>
       /\ a.left \subseteq Indices(a.config)
       /\ Len(a.draws) + Cardinality(a.left) = a.config.size
       /\ \A i \in DOMAIN a.draws : a.draws[i] \in Indices(a.config) \ a.left

Repeats(s, k) == \A i \in DOMAIN s : s[i] = k

\* The phase under way.
Drawing(a) ==
  IF a.artifacts = <<>> THEN DrawnOnce(a) ELSE Repeats(a.draws, a.config.sample_index)

\* The artifacts of the phases that are over.
Kept(a) ==
  /\ Len(a.artifacts) <= 2
  /\ \A i \in DOMAIN a.artifacts :
       /\ a.artifacts[i].n = plan_runs(a.config)[i].n
       /\ a.artifacts[i].completed <= Len(a.artifacts[i].draws)
  /\ Len(a.artifacts) >= 1 => Distinct(a.artifacts[1].draws)
  /\ Len(a.artifacts) = 2 => Repeats(a.artifacts[2].draws, a.config.sample_index)

Staged(a) ==
  /\ a.stage \in {"main", "setup", "issue"} => Len(a.artifacts) <= 1
  /\ a.stage = "main" => a.artifacts = <<>>
  /\ a.stage = "verify" => Len(a.artifacts) = 2
  /\ a.stage = "issue" \/ a.artifacts # <<>> => validate(a.config)
  /\ a.stage = "issue" => Drawing(a)
  /\ a.outcome # "none" => a.stage = "over"

\* What a verdict rests on.
Judged(a) ==
  /\ a.outcome \in {"pass", "fail"} => Len(a.artifacts) = 2
  /\ a.outcome = "pass" =>
       /\ \A i \in 1..2 : Completed(a.artifacts[i])
       /\ a.artifacts[2].qps # 0
       /\ 10 * a.artifacts[2].qps < 11 * a.artifacts[1].qps

AuditInv == audit \in AuditState /\ Kept(audit) /\ Staged(audit) /\ Judged(audit)

\* The plan of an audit.
LEMMA PlanFacts ==
  ASSUME NEW c \in AuditConfig
  PROVE  /\ plan_runs(c)[1] = [label |-> "reference", n |-> c.samples, order |-> -1]
         /\ plan_runs(c)[2].n \in Nat /\ plan_runs(c)[2].order = c.sample_index
         /\ c.sample_index \in Int /\ c.sample_index # -1
         /\ c.samples \in Nat /\ c.size \in Nat /\ c.size # 0
         /\ validate(c) => c.samples <= c.size /\ c.pattern # "poisson"
<1>1. /\ c.samples \in Nat /\ c.audit_samples \in Nat /\ c.sample_index \in Nat
      /\ c.size \in Nat /\ c.size # 0
  BY AuditAssumption DEF AuditConfig
<1>2. /\ plan_runs(c)[1] = [label |-> "reference", n |-> c.samples, order |-> -1]
      /\ plan_runs(c)[2] = [label |-> "output_caching",
                            n |-> IF c.audit_samples > 0 THEN c.audit_samples ELSE c.samples,
                            order |-> c.sample_index]
  BY DEF plan_runs, PhaseSpec
<1>3. validate(c) => c.samples <= c.size /\ c.pattern # "poisson"
  <2>1. plan_runs(c)[1].order = -1 /\ plan_runs(c)[1].n = c.samples
    BY <1>2
  <2> QED
    BY <2>1 DEF validate
<1> QED
  BY <1>1, <1>2, <1>3

LEMMA AuditStarts == AuditInit => AuditInv
<1> SUFFICES ASSUME AuditInit PROVE AuditInv
  OBVIOUS
<1>1. PICK c \in AuditConfig :
        audit = [config |-> c, stage |-> IF c.only THEN "setup" ELSE "main",
                 sigint |-> FALSE, left |-> {}, draws |-> <<>>,
                 artifacts |-> <<>>, outcome |-> "none"]
  BY DEF AuditInit
<1>2. /\ audit.config = c /\ audit.stage \in {"setup", "main"} /\ audit.sigint = FALSE
      /\ audit.left = {} /\ audit.draws = <<>> /\ audit.artifacts = <<>>
      /\ audit.outcome = "none"
  BY <1>1
<1>3. audit \in AuditState
  BY <1>1 DEF AuditState
<1>4. Kept(audit) /\ Staged(audit) /\ Judged(audit)
  BY <1>2 DEF Kept, Staged, Judged
<1> QED
  BY <1>3, <1>4 DEF AuditInv

\* An audit that ends without a verdict keeps the invariant.
LEMMA EndsUnjudged ==
  ASSUME AuditInv, NEW o \in {"main_failed", "interrupted", "error"}, End(o),
         audit.stage # "over"
  PROVE  AuditInv'
<1>1. /\ audit' \in AuditState /\ audit'.stage = "over" /\ audit'.outcome = o
      /\ audit'.config = audit.config /\ audit'.artifacts = audit.artifacts
  BY DEF AuditInv, AuditState, End
<1>2. Kept(audit)' /\ Judged(audit)'
  BY <1>1 DEF AuditInv, Kept, Judged
<1>3. Staged(audit)'
  BY <1>1 DEF AuditInv, Staged
<1> QED
  BY <1>1, <1>2, <1>3 DEF AuditInv

\* Sequences of at most two.
LEMMA FewArtifacts ==
  ASSUME NEW s \in Seq(Artifact)
  PROVE  /\ Len(s) = 0 <=> s = <<>>
         /\ Len(s) <= 1 => Len(s) \in {0, 1}
         /\ Len(s) = 2 => \A i \in 1..2 : s[i] \in Artifact
  OBVIOUS

\* A draw of the phase under way.
LEMMA DrawnState ==
  ASSUME audit \in AuditState, NEW d \in Seq(Int), NEW l \in SUBSET Int,
         audit' = [audit EXCEPT !.draws = d, !.left = l]
  PROVE  /\ audit'.config = audit.config /\ audit'.artifacts = audit.artifacts
         /\ audit'.stage = audit.stage /\ audit'.outcome = audit.outcome
         /\ audit'.draws = d /\ audit'.left = l
         /\ audit' \in AuditState
  BY DEF AuditState

LEMMA IssueSampleKeeps ==
  ASSUME AuditInv, IssueSample
  PROVE  AuditInv'
<1> DEFINE a == audit
           c == audit.config
           U == Indices(audit.config)
<1>1. /\ audit \in AuditState /\ audit.stage = "issue" /\ c \in AuditConfig
      /\ Len(audit.draws) < phaseSpec.n /\ validate(c) /\ Drawing(audit)
      /\ audit.draws \in Seq(Int) /\ audit.left \in SUBSET Int /\ Len(audit.artifacts) <= 1
      /\ audit.artifacts \in Seq(Artifact)
  BY DEF AuditInv, AuditState, Staged, IssueSample
<1>2. PICK i \in NextIndices :
        audit' = [audit EXCEPT
                    !.draws = Append(@, i),
                    !.left = (IF @ = {} THEN 0..(audit.config.size - 1) ELSE @) \ {i}]
  BY DEF IssueSample
<1>3. /\ plan_runs(c)[1] = [label |-> "reference", n |-> c.samples, order |-> -1]
      /\ plan_runs(c)[2].order = c.sample_index
      /\ c.sample_index \in Int /\ c.sample_index # -1
      /\ c.samples \in Nat /\ c.size \in Nat /\ c.size # 0
      /\ c.samples <= c.size
  BY <1>1, PlanFacts
<1>4. U \subseteq Int /\ U # {} /\ IsFiniteSet(U) /\ Cardinality(U) = c.size
  <2>1. 0 \in U /\ U \subseteq Int
    BY <1>3 DEF Indices
  <2>2. IsFiniteSet(U) /\ Cardinality(U) = c.size
    <3>1. 0 \in Int /\ c.size - 1 \in Int
      BY <1>3
    <3>2. /\ IsFiniteSet(0..(c.size - 1))
          /\ Cardinality(0..(c.size - 1)) =
               IF 0 > c.size - 1 THEN 0 ELSE (c.size - 1) - 0 + 1
      BY <3>1, FS_Interval
    <3> QED
      BY <1>3, <3>2 DEF Indices
  <2> QED
    BY <2>1, <2>2
<1>5. CASE audit.artifacts = <<>>
  <2> DEFINE L == IF audit.left = {} THEN U ELSE audit.left
             n == Len(audit.draws)
  <2>1. phaseSpec.order = -1 /\ phaseSpec.n = c.samples
    <3>1. phaseSpec = plan_runs(c)[1]
      BY <1>5 DEF phaseSpec
    <3> QED
      BY <1>3, <3>1
  <2>2. i \in L /\ i \in Int
    BY <1>1, <1>2, <1>4, <2>1 DEF NextIndices, Indices
  <2>3. /\ audit'.config = audit.config /\ audit'.artifacts = audit.artifacts
        /\ audit'.stage = audit.stage /\ audit'.outcome = audit.outcome
        /\ audit'.draws = Append(audit.draws, i) /\ audit'.left = L \ {i}
        /\ audit' \in AuditState
    <3>1. Append(audit.draws, i) \in Seq(Int) /\ L \ {i} \in SUBSET Int
      BY <1>1, <1>4, <2>2
    <3>2. audit' = [audit EXCEPT !.draws = Append(audit.draws, i), !.left = L \ {i}]
      BY <1>2 DEF Indices
    <3> HIDE DEF L
    <3> QED
      BY <1>1, <3>1, <3>2, DrawnState
  <2>4. DrawnOnce(audit) /\ n \in Nat /\ n < c.size
    BY <1>1, <1>3, <1>5, <2>1 DEF Drawing
  <2>5. \A j \in 1..n : audit.draws[j] \in U \ L
    <3>1. CASE n = 0
      BY <3>1
    <3>2. CASE n # 0
      <4>1. audit.draws # <<>>
        BY <1>1, <3>2
      <4>2. n + Cardinality(audit.left) = c.size
        BY <2>4, <4>1 DEF DrawnOnce
      <4>3. Cardinality(audit.left) # 0
        BY <1>3, <2>4, <4>2
      <4>4. audit.left # {}
        BY <4>3, FS_EmptySet, Zenon
      <4> QED
        BY <1>1, <2>4, <4>1, <4>4 DEF DrawnOnce
    <3> QED
      BY <3>1, <3>2
  <2>6. L \subseteq U /\ n + Cardinality(L) = c.size
    <3>1. CASE n = 0
      <4>1. L = U
        BY <1>1, <2>4, <3>1 DEF DrawnOnce
      <4> QED
        BY <1>3, <1>4, <3>1, <4>1
    <3>2. CASE n # 0
      <4>1. audit.draws # <<>>
        BY <1>1, <3>2
      <4>2. n + Cardinality(audit.left) = c.size /\ audit.left \subseteq U
        BY <2>4, <4>1 DEF DrawnOnce
      <4>3. Cardinality(audit.left) # 0
        BY <1>3, <2>4, <4>2
      <4>4. audit.left # {}
        BY <4>3, FS_EmptySet, Zenon
      <4> QED
        BY <4>2, <4>4
    <3> QED
      BY <3>1, <3>2
  <2> HIDE DEF L, n, U
  <2>7. IsFiniteSet(L) /\ Cardinality(L \ {i}) = Cardinality(L) - 1 /\ Cardinality(L) \in Nat
    <3>1. IsFiniteSet(L)
      BY <1>4, <2>6, FS_Subset
    <3> QED
      BY <2>2, <3>1, FS_RemoveElement, FS_CardinalityType
  <2>8. /\ Len(audit'.draws) = n + 1 /\ audit'.draws # <<>>
        /\ DOMAIN audit'.draws = 1..(n + 1)
        /\ \A j \in 1..n : audit'.draws[j] = audit.draws[j]
        /\ audit'.draws[n + 1] = i
    BY <1>1, <2>2, <2>3 DEF n
  <2>9. \A j \in 1..(n + 1) : j \in 1..n \/ j = n + 1
    BY <2>4
  <2>10. \A j \in 1..(n + 1) : audit'.draws[j] \in U \ (L \ {i})
    BY <2>2, <2>5, <2>6, <2>8, <2>9
  <2>11. Distinct(audit'.draws)
    <3>1. \A j \in 1..n : audit.draws[j] # i
      BY <2>2, <2>5
    <3>2. \A j, k \in 1..n : j # k => audit.draws[j] # audit.draws[k]
      <4>1. DOMAIN audit.draws = 1..n
        BY <1>1 DEF n
      <4> QED
        BY <2>4, <4>1 DEF DrawnOnce, Distinct
    <3> QED
      BY <2>8, <2>9, <3>1, <3>2 DEF Distinct
  <2>12. DrawnOnce(audit')
    <3>1. Len(audit'.draws) + Cardinality(audit'.left) = c.size
      BY <2>3, <2>4, <2>6, <2>7, <2>8
    <3>2. audit'.left \subseteq U
      BY <2>3, <2>6
    <3> QED
      BY <2>3, <2>8, <2>10, <2>11, <3>1, <3>2 DEF DrawnOnce, U
  <2> QED
    BY <1>5, <2>3, <2>12 DEF AuditInv, Kept, Staged, Judged, Drawing
<1>6. CASE audit.artifacts # <<>>
  <2>1. phaseSpec = plan_runs(c)[2]
    <3>1. Len(audit.artifacts) = 1
      BY <1>1, <1>6, FewArtifacts
    <3> QED
      BY <3>1 DEF phaseSpec
  <2>2. i = c.sample_index
    BY <1>2, <1>3, <2>1 DEF NextIndices
  <2>3. /\ audit'.config = audit.config /\ audit'.artifacts = audit.artifacts
        /\ audit'.stage = audit.stage /\ audit'.outcome = audit.outcome
        /\ audit'.draws = Append(audit.draws, i)
        /\ audit' \in AuditState
    <3> DEFINE l == (IF audit.left = {} THEN 0..(audit.config.size - 1) ELSE audit.left) \ {i}
    <3>1. Append(audit.draws, i) \in Seq(Int) /\ l \in SUBSET Int
      BY <1>1, <1>3, <1>4, <2>2 DEF Indices
    <3>2. audit' = [audit EXCEPT !.draws = Append(audit.draws, i), !.left = l]
      BY <1>2
    <3> HIDE DEF l
    <3> QED
      BY <1>1, <3>1, <3>2, DrawnState
  <2>4. Repeats(audit'.draws, c.sample_index)
    <3>1. Repeats(audit.draws, c.sample_index)
      BY <1>1, <1>6 DEF Drawing
    <3> QED
      BY <1>1, <1>3, <2>2, <2>3, <3>1 DEF Repeats
  <2> QED
    BY <1>6, <2>3, <2>4 DEF AuditInv, Kept, Staged, Judged, Drawing
<1> QED
  BY <1>5, <1>6

LEMMA FinishKeeps ==
  ASSUME AuditInv, NEW completed \in Nat, NEW qps \in Qps,
         NEW rep \in {"none", "timed_out", "interrupted", "incomplete", "complete"},
         FinishPhase(rep, completed, qps)
  PROVE  AuditInv'
<1> DEFINE c == audit.config
           m == Len(audit.artifacts)
           x == [report |-> rep, n |-> phaseSpec.n, completed |-> completed,
                 qps |-> qps, draws |-> audit.draws]
<1>1. /\ audit \in AuditState /\ audit.stage = "issue" /\ c \in AuditConfig
      /\ completed <= Len(audit.draws) /\ validate(c) /\ Drawing(audit)
      /\ audit.draws \in Seq(Int) /\ audit.artifacts \in Seq(Artifact) /\ m \in {0, 1}
      /\ audit.outcome = "none"
  <2>1. /\ audit \in AuditState /\ audit.stage = "issue"
        /\ completed <= Len(audit.draws) /\ Staged(audit)
    BY DEF AuditInv, FinishPhase
  <2>2. c \in AuditConfig /\ audit.draws \in Seq(Int) /\ audit.artifacts \in Seq(Artifact)
    BY <2>1 DEF AuditState
  <2>3. m <= 1 /\ validate(c) /\ Drawing(audit) /\ audit.outcome = "none"
    <3>1. audit.outcome # "none" => audit.stage = "over"
      BY <2>1 DEF Staged
    <3> QED
      BY <2>1, <3>1 DEF Staged
  <2> QED
    BY <2>1, <2>2, <2>3, FewArtifacts
<1>2. CASE rep # "complete"
  <2>1. End("error") \/ End("interrupted")
    BY <1>2 DEF FinishPhase
  <2> QED
    BY <1>1, <2>1, EndsUnjudged
<1>3. CASE rep = "complete"
  <2>1. audit' = [audit EXCEPT
          !.artifacts = Append(@, x),
          !.stage = IF m = 1 THEN "verify" ELSE "setup"]
    BY <1>3 DEF FinishPhase
  <2>2. phaseSpec = plan_runs(c)[m + 1]
    BY DEF phaseSpec
  <2>3. x \in Artifact
    <3>1. plan_runs(c)[1].n \in Nat /\ plan_runs(c)[2].n \in Nat
      <4>1. /\ plan_runs(c)[1] = [label |-> "reference", n |-> c.samples, order |-> -1]
            /\ c.samples \in Nat /\ plan_runs(c)[2].n \in Nat
        <5>1. c \in AuditConfig
          BY <1>1
        <5> HIDE DEF c
        <5> QED
          BY <5>1, PlanFacts
      <4>2. plan_runs(c)[1].n = c.samples
        BY <4>1
      <4> QED
        BY <4>1, <4>2
    <3>2. phaseSpec.n \in Nat
      <4>1. CASE m = 0
        BY <2>2, <3>1, <4>1
      <4>2. CASE m = 1
        BY <2>2, <3>1, <4>2
      <4> QED
        BY <1>1, <4>1, <4>2
    <3> QED
      BY <1>1, <1>3, <3>2 DEF Artifact
  <2> HIDE DEF x
  <2>4. /\ audit' \in AuditState
        /\ audit'.config = c /\ audit'.artifacts = Append(audit.artifacts, x)
        /\ audit'.stage = (IF m = 1 THEN "verify" ELSE "setup")
        /\ audit'.outcome = "none"
    <3> DEFINE arts == Append(audit.artifacts, x)
               st == IF m = 1 THEN "verify" ELSE "setup"
    <3>1. arts \in Seq(Artifact) /\ st \in {"setup", "verify"}
      BY <1>1, <2>3
    <3>2. audit' = [audit EXCEPT !.artifacts = arts, !.stage = st]
      BY <2>1
    <3> HIDE DEF arts, st
    <3>3. /\ audit' \in AuditState
          /\ audit'.config = c /\ audit'.artifacts = arts
          /\ audit'.stage = st /\ audit'.outcome = audit.outcome
      BY <1>1, <3>1, <3>2 DEF AuditState
    <3> QED
      BY <1>1, <3>3 DEF arts, st
  <2>5. /\ Len(audit'.artifacts) = m + 1 /\ DOMAIN audit'.artifacts = 1..(m + 1)
        /\ \A i \in 1..m : audit'.artifacts[i] = audit.artifacts[i]
        /\ audit'.artifacts[m + 1] = x
        /\ audit'.artifacts # <<>>
    BY <1>1, <2>3, <2>4
  <2>6. x.n = plan_runs(c)[m + 1].n /\ x.completed <= Len(x.draws) /\ x.draws = audit.draws
    BY <1>1, <2>2 DEF x
  <2>7. CASE m = 0
    <3>1. audit.artifacts = <<>>
      BY <1>1, <2>7
    <3>2. Distinct(x.draws)
      BY <1>1, <2>6, <3>1 DEF Drawing, DrawnOnce
    <3>3. Kept(audit)'
      BY <2>4, <2>5, <2>6, <2>7, <3>2 DEF Kept
    <3>4. Staged(audit)' /\ Judged(audit)'
      BY <1>1, <2>4, <2>5, <2>7 DEF Staged, Judged
    <3> QED
      BY <2>4, <3>3, <3>4 DEF AuditInv
  <2>8. CASE m = 1
    <3>1. audit.artifacts # <<>>
      <4>1. audit.artifacts \in Seq(Artifact) /\ Len(audit.artifacts) = 1
        BY <1>1, <2>8
      <4> HIDE DEF m
      <4>2. Len(audit.artifacts) = 0 <=> audit.artifacts = <<>>
        BY <4>1, FewArtifacts, Zenon
      <4> QED
        BY <4>1, <4>2
    <3>2. Repeats(x.draws, c.sample_index)
      BY <1>1, <2>6, <3>1 DEF Drawing
    <3>3. Kept(audit)'
      <4>1. Distinct(audit.artifacts[1].draws) /\ audit.artifacts[1].n = plan_runs(c)[1].n
            /\ audit.artifacts[1].completed <= Len(audit.artifacts[1].draws)
        BY <1>1, <2>8 DEF AuditInv, Kept
      <4> QED
        BY <2>4, <2>5, <2>6, <2>8, <3>2, <4>1 DEF Kept
    <3> QED
      BY <1>1, <2>4, <2>5, <2>8, <3>3 DEF AuditInv, Staged, Judged
  <2> QED
    BY <1>1, <2>7, <2>8
<1> QED
  BY <1>2, <1>3

LEMMA VerifyKeeps ==
  ASSUME AuditInv, Verify
  PROVE  AuditInv'
<1> DEFINE ref == audit.artifacts[1]
           aud == audit.artifacts[2]
<1>1. /\ audit \in AuditState /\ audit.stage = "verify" /\ Len(audit.artifacts) = 2
      /\ audit.outcome = "none"
  BY DEF AuditInv, Staged, Verify
<1>2. CASE ref.qps = 0 \/ aud.qps = 0
  <2>1. End("error")
    BY <1>2 DEF Verify
  <2> QED
    BY <1>1, <2>1, EndsUnjudged
<1>3. CASE ~(ref.qps = 0 \/ aud.qps = 0)
  <2>1. PICK o \in {"pass", "fail"} :
          /\ End(o)
          /\ o = "pass" => Completed(ref) /\ Completed(aud) /\ 10 * aud.qps < 11 * ref.qps
    BY <1>3 DEF Verify
  <2>2. /\ audit' \in AuditState /\ audit'.stage = "over" /\ audit'.outcome = o
        /\ audit'.config = audit.config /\ audit'.artifacts = audit.artifacts
    BY <1>1, <2>1 DEF AuditState, End
  <2>3. Kept(audit)' /\ Staged(audit)'
    BY <1>1, <2>2 DEF AuditInv, Kept, Staged
  <2>4. Judged(audit)'
    BY <1>1, <1>3, <2>1, <2>2 DEF Judged
  <2> QED
    BY <2>2, <2>3, <2>4 DEF AuditInv
<1> QED
  BY <1>2, <1>3

LEMMA SetupKeeps ==
  ASSUME AuditInv, SetupPhase
  PROVE  AuditInv'
<1>1. audit \in AuditState /\ audit.stage = "setup" /\ Len(audit.artifacts) <= 1
      /\ audit.outcome = "none"
  BY DEF AuditInv, Staged, SetupPhase
<1>2. CASE End("interrupted") \/ End("error")
  BY <1>1, <1>2, EndsUnjudged
<1>3. CASE /\ audit.artifacts = <<>> => validate(audit.config)
           /\ audit' = [audit EXCEPT !.stage = "issue", !.draws = <<>>, !.left = {}]
  <2>1. /\ audit' \in AuditState /\ audit'.stage = "issue" /\ audit'.outcome = "none"
        /\ audit'.draws = <<>> /\ audit'.left = {}
        /\ audit'.config = audit.config /\ audit'.artifacts = audit.artifacts
    <3>1. <<>> \in Seq(Int) /\ {} \in SUBSET Int
      OBVIOUS
    <3> DEFINE d == <<>>
    <3>2. d \in Seq(Int) /\ audit' = [audit EXCEPT !.stage = "issue", !.draws = d, !.left = {}]
      BY <1>3, <3>1
    <3> HIDE DEF d
    <3>3. /\ audit' \in AuditState /\ audit'.stage = "issue" /\ audit'.outcome = audit.outcome
          /\ audit'.draws = d /\ audit'.left = {}
          /\ audit'.config = audit.config /\ audit'.artifacts = audit.artifacts
      BY <1>1, <3>2 DEF AuditState
    <3> QED
      BY <1>1, <3>3 DEF d
  <2>2. Drawing(audit)'
    BY <2>1 DEF Drawing, DrawnOnce, Distinct, Repeats
  <2> QED
    BY <1>1, <1>3, <2>1, <2>2 DEF AuditInv, Kept, Staged, Judged
<1> QED
  BY <1>2, <1>3 DEF SetupPhase

LEMMA AuditStep ==
  ASSUME AuditInv, [AuditNext]_audit
  PROVE  AuditInv'
<1>1. ASSUME MainRun PROVE AuditInv'
  <2>1. audit \in AuditState /\ audit.stage = "main" /\ audit.artifacts = <<>>
    BY <1>1 DEF AuditInv, Staged, MainRun
  <2>2. CASE End("main_failed")
    BY <2>1, <2>2, EndsUnjudged
  <2>3. CASE audit' = [audit EXCEPT !.stage = "setup"]
    <3>1. /\ audit' \in AuditState /\ audit'.stage = "setup"
          /\ audit'.outcome = audit.outcome /\ audit'.draws = audit.draws
          /\ audit'.config = audit.config /\ audit'.artifacts = audit.artifacts
      BY <2>1, <2>3 DEF AuditState
    <3> QED
      BY <2>1, <3>1 DEF AuditInv, Kept, Staged, Judged
  <2> QED
    BY <1>1, <2>2, <2>3 DEF MainRun
<1>2. ASSUME AuditSigint PROVE AuditInv'
  <2>1. audit \in AuditState /\ audit' = [audit EXCEPT !.sigint = TRUE]
    BY <1>2 DEF AuditInv, AuditSigint
  <2>2. /\ audit' \in AuditState /\ audit'.stage = audit.stage
        /\ audit'.outcome = audit.outcome /\ audit'.draws = audit.draws
        /\ audit'.left = audit.left
        /\ audit'.config = audit.config /\ audit'.artifacts = audit.artifacts
    BY <2>1 DEF AuditState
  <2> QED
    BY <2>2 DEF AuditInv, Kept, Staged, Judged, Drawing, DrawnOnce
<1>3. ASSUME NEW rep \in {"none", "timed_out", "interrupted", "incomplete", "complete"},
             NEW completed \in 0..MaxSamples, NEW qps \in Qps,
             FinishPhase(rep, completed, qps)
      PROVE  AuditInv'
  BY <1>3, FinishKeeps, AuditAssumption
<1>4. CASE UNCHANGED audit
  BY <1>4 DEF AuditInv
<1> QED
  BY <1>1, <1>2, <1>3, <1>4, IssueSampleKeeps, VerifyKeeps, SetupKeeps DEF AuditNext

\* Whatever interrupts, fails or cuts short the phases of an audit, for every
\* number of samples and every rate: a verdict comes only of two complete
\* phases of a validated plan, the reference phase issued no sample twice and
\* the other nothing but the configured one; and a pass means that nine tenths
\* of both were answered and that repeating a sample paid less than a tenth.
THEOREM AuditEarnsItsVerdict ==
  AuditInit /\ [][AuditNext]_audit => []VerdictIsEarned
<1>1. AuditInit => AuditInv
  BY AuditStarts
<1>2. AuditInv /\ [AuditNext]_audit => AuditInv'
  BY AuditStep
<1>3. AuditInv => VerdictIsEarned
  <2> SUFFICES ASSUME AuditInv PROVE VerdictIsEarned
    OBVIOUS
  <2> DEFINE arts == audit.artifacts
             c == audit.config
  <2>1. /\ audit \in AuditState /\ Kept(audit) /\ Staged(audit) /\ Judged(audit)
        /\ c \in AuditConfig /\ arts \in Seq(Artifact)
    BY DEF AuditInv, AuditState
  <2>2. ASSUME audit.outcome \in {"pass", "fail"}
        PROVE  /\ Len(arts) = 2
               /\ \A i \in 1..2 : arts[i] \in Artifact /\ arts[i].report = "complete"
               /\ Distinct(arts[1].draws)
               /\ \A i \in DOMAIN arts[2].draws : arts[2].draws[i] = c.sample_index
               /\ c.pattern # "poisson"
    <3>1. Len(arts) = 2 /\ arts # <<>>
      BY <2>1, <2>2 DEF Judged
    <3>2. \A i \in 1..2 : arts[i] \in Artifact
      BY <2>1, <3>1, FewArtifacts
    <3>3. validate(c)
      BY <2>1, <3>1 DEF Staged
    <3>4. Distinct(arts[1].draws) /\ Repeats(arts[2].draws, c.sample_index)
      BY <2>1, <3>1 DEF Kept
    <3> QED
      BY <2>1, <3>1, <3>2, <3>3, <3>4, PlanFacts DEF Repeats, Artifact
  <2>3. ASSUME audit.outcome = "pass"
        PROVE  /\ \A i \in 1..2 : 10 * Len(arts[i].draws) >= 9 * plan_runs(c)[i].n
               /\ 0 < arts[2].qps
               /\ 10 * arts[2].qps < 11 * arts[1].qps
    <3>1. \A i \in 1..2 :
            /\ arts[i].n = plan_runs(c)[i].n /\ arts[i].completed <= Len(arts[i].draws)
            /\ 10 * arts[i].completed >= 9 * arts[i].n
            /\ arts[i].n \in Nat /\ arts[i].completed \in Nat /\ Len(arts[i].draws) \in Nat
            /\ arts[i].qps \in Nat
      <4>1. Len(arts) = 2 /\ \A i \in 1..2 : arts[i] \in Artifact
        BY <2>2, <2>3
      <4>2. \A i \in 1..2 :
              /\ arts[i].n \in Nat /\ arts[i].completed \in Nat /\ arts[i].qps \in Qps
              /\ arts[i].draws \in Seq(Int)
        BY <4>1 DEF Artifact
      <4>3. \A i \in 1..2 : i \in DOMAIN arts
        BY <2>1, <4>1
      <4>4. \A i \in 1..2 :
              /\ arts[i].n = plan_runs(c)[i].n /\ arts[i].completed <= Len(arts[i].draws)
              /\ 10 * arts[i].completed >= 9 * arts[i].n
        BY <2>1, <2>3, <4>3 DEF Kept, Judged, Completed
      <4>5. \A i \in 1..2 : Len(arts[i].draws) \in Nat
        BY <4>2
      <4> QED
        BY <4>2, <4>4, <4>5, AuditAssumption
    <3>2. \A i \in 1..2 : 10 * Len(arts[i].draws) >= 9 * plan_runs(c)[i].n
      <4> SUFFICES ASSUME NEW i \in 1..2
                   PROVE  10 * Len(arts[i].draws) >= 9 * plan_runs(c)[i].n
        OBVIOUS
      <4> DEFINE n == arts[i].n
                 k == arts[i].completed
                 l == Len(arts[i].draws)
      <4>1. n \in Nat /\ k \in Nat /\ l \in Nat /\ k <= l /\ 10 * k >= 9 * n
            /\ n = plan_runs(c)[i].n
        BY <3>1
      <4> HIDE DEF n, k, l
      <4>2. 10 * l >= 9 * n
        BY <4>1
      <4> QED
        BY <4>1, <4>2 DEF l
    <3>3. arts[2].qps \in Nat /\ arts[2].qps # 0 /\ 10 * arts[2].qps < 11 * arts[1].qps
      BY <2>1, <2>3, <3>1 DEF Judged
    <3> QED
      BY <3>2, <3>3
  <2> QED
    BY <2>2, <2>3 DEF VerdictIsEarned
<1> QED
  BY <1>1, <1>2, <1>3, PTL

=============================================================================
