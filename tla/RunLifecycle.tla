---------------------------- MODULE RunLifecycle ----------------------------
(***************************************************************************)
(* One benchmark run from run_benchmark() to its exit status: the run      *)
(* task, the SIGINT governor, the run watchdog, the metrics pipeline that  *)
(* starts, drains and kills the service processes, the HTTP client's       *)
(* workers, and the report that is built, marked and written.              *)
(*                                                                         *)
(* Sources: commands/benchmark/execute.py, watchdog.py, pipeline.py and    *)
(* async_utils/services/launcher.py.                                       *)
(*                                                                         *)
(* The run task is a coroutine: pc names the await it is suspended in, or  *)
(* one of the synchronous parts where only a signal can arrive (setup,     *)
(* bind, artifacts, scoring, checks).  The phases themselves are the       *)
(* subject of BenchmarkSession; here a phase is issuing, then draining,    *)
(* and ends when the endpoint lets it or when stop() ends it.              *)
(***************************************************************************)
EXTENDS Naturals

CONSTANTS
    Phases,      \* phases of the run
    LateSignal,  \* SIGINT may arrive between the client's creation and bind_session
    Crashes      \* the aggregator may die without writing its final snapshot

ASSUME RunAssumption ==
    Phases \in Nat \ {0} /\ {LateSignal, Crashes} \subseteq BOOLEAN

VARIABLES
    pc,           \* where run_benchmark() is
    phase,        \* phase of the session
    bound,        \* governor and watchdog know the session
    interrupted,  \* SigintGovernor.interrupted
    fired,        \* RunWatchdog.fired
    cancelReq,    \* a task.cancel that has not reached the task yet
    stopReq,      \* session.stop and abort_event.set are queued on the loop
    stop, abort,  \* stop_requested, abort_event
    failure,      \* "none", "stall" or "error" raised by session.run()
    exc,          \* the exception that unwinds _run_benchmark_async
    svc,          \* the metrics aggregator process
    drained,      \* drain_and_build_report was entered (publisher is None)
    ended,        \* ENDED was published, and INTERRUPTED before it or not
    file,         \* final_snapshot.json; "old": an earlier run left it there
    live,         \* the subscriber has received a live snapshot
    client,       \* the HTTP client's worker processes
    tmpfs,        \* the tmpfs directory exists
    report,       \* the Report that was built
    written,      \* the report artifact on disk
    outcome       \* how the command ends

procVars == <<svc, file, live>>
abortVars == <<interrupted, fired, cancelReq, stopReq, stop, abort>>
vars == <<pc, phase, bound, abortVars, failure, exc, procVars, drained, ended, client,
          tmpfs, report, written, outcome>>

Init ==
    /\ pc = "setup" /\ phase = 0 /\ bound = FALSE
    /\ interrupted = FALSE /\ fired = FALSE /\ cancelReq = FALSE /\ stopReq = FALSE
    /\ stop = FALSE /\ abort = FALSE
    /\ failure = "none" /\ exc = "none"
    /\ svc = "none" /\ file \in {"none", "old"} /\ live = FALSE
    /\ drained = FALSE /\ ended = "no"
    /\ client = "none" /\ tmpfs = FALSE
    /\ report = "none" /\ written = "none" /\ outcome = "none"

InLoop == pc \in {"start", "connect", "undo", "phase", "inflight", "drain", "grace", "close"}

Alive(s) == s \in {"starting", "running"}

Normal == failure = "none" /\ ~stop

-----------------------------------------------------------------------------
(* Set-up.                                                                  *)

SetupDone ==
    /\ pc = "setup"
    /\ pc' = "start" /\ tmpfs' = TRUE /\ svc' = "starting"
    /\ UNCHANGED <<phase, bound, abortVars, failure, exc, file, live, drained, ended, client,
                   report, written, outcome>>

(* setup_benchmark raises, or the deadline passed meanwhile.                *)
SetupFails ==
    /\ pc = "setup"
    /\ pc' = "done" /\ outcome' = "error"
    /\ UNCHANGED <<phase, bound, abortVars, failure, exc, procVars, drained, ended, client,
                   tmpfs, report, written>>

ServicesReady ==
    /\ pc = "start" /\ ~cancelReq
    /\ svc' = "running" /\ pc' = "connect" /\ client' = "starting"
    /\ UNCHANGED <<phase, bound, abortVars, failure, exc, file, live, drained, ended, tmpfs,
                   report, written, outcome>>

(* The services die or do not get ready: launch() kills them, and start()   *)
(* unwinds what it has made.                                                *)
ServicesFail ==
    /\ pc = "start" /\ ~cancelReq
    /\ svc' = "exited" /\ exc' = "error" /\ pc' = "unwind"
    /\ UNCHANGED <<phase, bound, abortVars, failure, file, live, drained, ended, client, tmpfs,
                   report, written, outcome>>

ClientReady ==
    /\ pc = "connect" /\ ~cancelReq
    /\ client' = "up" /\ pc' = "bind"
    /\ UNCHANGED <<phase, bound, abortVars, failure, exc, procVars, drained, ended, tmpfs,
                   report, written, outcome>>

(* initialize() fails or is cancelled: its finally block shuts the workers  *)
(* down, which takes the grace period.                                      *)
ClientFails ==
    /\ pc = "connect"
    /\ exc' = IF cancelReq THEN "cancelled" ELSE "error"
    /\ cancelReq' = FALSE /\ pc' = "undo" /\ client' = "terminated"
    /\ UNCHANGED <<phase, bound, interrupted, fired, stopReq, stop, abort, failure, procVars,
                   drained, ended, tmpfs, report, written, outcome>>

(* The rest of that shutdown: kill, join and transport clean-up.  A second  *)
(* cancellation in its grace sleep skips them.                              *)
ClientUndone ==
    /\ pc = "undo"
    /\ client' = IF cancelReq THEN "terminated" ELSE "down"
    /\ exc' = IF cancelReq THEN "cancelled" ELSE exc
    /\ cancelReq' = FALSE /\ pc' = "unwind"
    /\ UNCHANGED <<phase, bound, interrupted, fired, stopReq, stop, abort, failure, procVars,
                   drained, ended, tmpfs, report, written, outcome>>

(* The session is made and bound and its first phase starts, with no await  *)
(* in between; a watchdog that has fired stops the session at once.         *)
Bind ==
    /\ pc = "bind"
    /\ bound' = TRUE /\ phase' = 1 /\ pc' = "phase"
    /\ stop' = (stop \/ fired) /\ abort' = (abort \/ fired)
    /\ UNCHANGED <<interrupted, fired, cancelReq, stopReq, failure, exc, procVars, drained, ended, client, tmpfs, report,
                   written, outcome>>

(* Building the strategy or the phases raises.                              *)
BindFails ==
    /\ pc = "bind"
    /\ exc' = "error" /\ pc' = "close"
    /\ UNCHANGED <<phase, bound, abortVars, failure, procVars, drained, ended, client, tmpfs,
                   report, written, outcome>>

-----------------------------------------------------------------------------
(* The session.                                                             *)

(* The strategy ends by itself, or stop() cancels it, or a cancellation of  *)
(* the run task arrives while it awaits the strategy: _run_phase takes that *)
(* one for the strategy's and goes on.                                      *)
StrategyEnds ==
    /\ pc = "phase"
    /\ pc' = "inflight" /\ cancelReq' = FALSE
    /\ UNCHANGED <<phase, bound, interrupted, fired, stopReq, stop, abort, failure, exc,
                   procVars, drained, ended, client, tmpfs, report, written, outcome>>

SessionEnds ==
    /\ ended' = IF stop THEN "interrupted" ELSE "clean"
    /\ pc' = "drain" /\ drained' = TRUE
    /\ UNCHANGED phase

(* The in-flight responses have arrived or stop() ended the wait; the next  *)
(* phase starts, unless the session was stopped.                            *)
PhaseEnds ==
    /\ pc = "inflight" /\ ~cancelReq
    /\ IF stop \/ phase = Phases THEN SessionEnds
       ELSE /\ phase' = phase + 1 /\ pc' = "phase"
            /\ UNCHANGED <<ended, drained>>
    /\ UNCHANGED <<bound, abortVars, failure, exc, procVars, client, tmpfs, report, written,
                   outcome>>

(* The phase's drain timeout aborts the session.                            *)
DrainTimesOut ==
    /\ pc = "inflight" /\ ~stop /\ ~cancelReq
    /\ stop' = TRUE
    /\ UNCHANGED <<pc, phase, bound, interrupted, fired, cancelReq, stopReq, abort, failure, exc,
                   procVars, drained, ended, client, tmpfs, report, written, outcome>>

(* The endpoint stalls: the idle guard stops the session with an error.     *)
Stall ==
    /\ pc \in {"phase", "inflight"} /\ ~stop /\ ~cancelReq
    /\ stop' = TRUE /\ failure' = "stall"
    /\ ended' = "interrupted" /\ pc' = "drain" /\ drained' = TRUE
    /\ UNCHANGED <<phase, bound, interrupted, fired, cancelReq, stopReq, abort, exc, procVars,
                   client, tmpfs, report, written, outcome>>

(* session.run() raises something else: after the watchdog it is logged,    *)
(* otherwise it becomes the run's error, once the services are drained.     *)
SessionRaises ==
    /\ pc = "phase" /\ ~cancelReq
    /\ failure' = "error"
    /\ exc' = IF fired THEN "none" ELSE "error"
    /\ ended' = IF stop THEN "interrupted" ELSE "clean"
    /\ pc' = "drain" /\ drained' = TRUE
    /\ UNCHANGED <<phase, bound, abortVars, procVars, client, tmpfs, report, written, outcome>>

-----------------------------------------------------------------------------
(* Draining the services and building the report.                           *)

(* _load_final_snapshot_from_disk, then the last live snapshot.             *)
Snapshot ==
    IF file # "none" THEN file ELSE IF live THEN "live" ELSE "none"

BuildReport ==
    /\ report' = Snapshot
    /\ exc' = IF Snapshot = "none" /\ exc = "none" /\ Normal /\ ~interrupted THEN "error" ELSE exc
    /\ pc' = "close"

(* wait_for_exit() returns.                                                 *)
ServicesExited ==
    /\ pc \in {"drain", "grace"} /\ ~Alive(svc) /\ ~cancelReq
    /\ BuildReport
    /\ UNCHANGED <<phase, bound, abortVars, failure, procVars, drained, ended, client, tmpfs,
                   written, outcome>>

(* The abort event bounds the wait by the teardown grace.                   *)
AbortSeen ==
    /\ pc = "drain" /\ abort /\ Alive(svc) /\ ~cancelReq
    /\ pc' = "grace"
    /\ UNCHANGED <<phase, bound, abortVars, failure, exc, procVars, drained, ended, client, tmpfs,
                   report, written, outcome>>

GraceExpires ==
    /\ pc = "grace" /\ Alive(svc)
    /\ svc' = "exited"
    /\ UNCHANGED <<pc, phase, bound, abortVars, failure, exc, file, live, drained, ended, client,
                   tmpfs, report, written, outcome>>

(* The client is shut down and the pipeline exits: the services are         *)
(* terminated when the drain was never entered or an exception unwinds.     *)
Close ==
    /\ pc = "close"
    /\ client' = IF cancelReq THEN "terminated" ELSE "down"
    /\ exc' = IF cancelReq THEN "cancelled" ELSE exc
    /\ cancelReq' = FALSE
    /\ pc' = IF exc' = "none" /\ drained THEN "artifacts" ELSE "unwind"
    /\ UNCHANGED <<phase, bound, interrupted, fired, stopReq, stop, abort, failure, procVars,
                   drained, ended, tmpfs, report, written, outcome>>

(* A cancellation outside the phases and the client's shutdown unwinds.     *)
CancelArrives ==
    /\ cancelReq /\ pc \in {"start", "inflight", "drain", "grace"}
    /\ cancelReq' = FALSE /\ exc' = "cancelled"
    /\ IF pc = "inflight"
       THEN SessionEnds
       ELSE /\ pc' = IF pc = "start" THEN "unwind" ELSE "close"
            /\ UNCHANGED <<phase, ended, drained>>
    /\ UNCHANGED <<bound, interrupted, fired, stopReq, stop, abort, failure, procVars, client,
                   tmpfs, report, written, outcome>>

(* __aexit__ that leaves the services on their own drain timeout.           *)
Unwind_NoTerminate ==
    /\ pc = "unwind"
    /\ UNCHANGED <<svc, file>>
    /\ tmpfs' = FALSE /\ pc' = "done"
    /\ outcome' = IF exc = "cancelled" /\ interrupted THEN "interrupt" ELSE "error"
    /\ UNCHANGED <<phase, bound, abortVars, failure, exc, live, drained, ended, client, report,
                   written>>

(* __aexit__ (or start()'s handler) terminates the services: SIGTERM, then  *)
(* SIGKILL; the aggregator may write an interrupted snapshot in between.    *)
(* Then the event log is salvaged and the exception mapped.                 *)
Unwind ==
    /\ pc = "unwind"
    /\ svc' = "exited"
    /\ file' \in IF Alive(svc) THEN {file, "interrupted"} ELSE {file}
    /\ tmpfs' = FALSE /\ pc' = "done"
    /\ outcome' = IF exc = "cancelled" /\ interrupted THEN "interrupt" ELSE "error"
    /\ UNCHANGED <<phase, bound, abortVars, failure, exc, live, drained, ended, client, report,
                   written>>

-----------------------------------------------------------------------------
(* finalize_benchmark and the checks of run_benchmark.                      *)

Aborted == interrupted \/ fired \/ failure = "stall" \/ report = "interrupted"

(* finalize_benchmark without the override of the report's state.           *)
Marked_Never == report

Marked == IF report # "none" /\ Aborted THEN "interrupted" ELSE report

(* The scoring artifacts are written; an aborted run is not scored.         *)
WriteArtifacts ==
    /\ pc = "artifacts"
    /\ report' = Marked
    /\ pc' = IF Aborted THEN "writing" ELSE "scoring"
    /\ UNCHANGED <<phase, bound, abortVars, failure, exc, procVars, drained, ended, client, tmpfs,
                   written, outcome>>

Scored ==
    /\ pc = "scoring"
    /\ pc' = "writing"
    /\ UNCHANGED <<phase, bound, abortVars, failure, exc, procVars, drained, ended, client, tmpfs,
                   report, written, outcome>>

WriteReport ==
    /\ pc = "writing"
    /\ written' = report /\ pc' = "checks"
    /\ UNCHANGED <<phase, bound, abortVars, failure, exc, procVars, drained, ended, client, tmpfs,
                   report, outcome>>

(* The order of the checks decides the exit status; then tmpfs is removed.  *)
Checks ==
    /\ pc = "checks"
    /\ outcome' = IF interrupted THEN "interrupt"
                  ELSE IF fired \/ failure = "stall" \/ report \notin {"complete", "old"} THEN "error"
                  ELSE "ok"
    /\ tmpfs' = FALSE /\ pc' = "done"
    /\ UNCHANGED <<phase, bound, abortVars, failure, exc, procVars, drained, ended, client, report,
                   written>>

-----------------------------------------------------------------------------
(* The governor, the watchdog and the services.                             *)

(* The first SIGINT.  Outside the loop it raises where the code is: while   *)
(* scoring, the report is marked and still written.                         *)
Sigint ==
    /\ ~interrupted /\ pc # "done"
    /\ pc = "bind" => LateSignal
    /\ interrupted' = TRUE
    /\ IF InLoop \/ pc \in {"bind", "unwind"}
       THEN /\ cancelReq' = (cancelReq \/ ~bound)
            /\ stopReq' = bound
            /\ UNCHANGED <<pc, report, written, tmpfs, outcome>>
       ELSE /\ report' = IF pc = "scoring" /\ report # "none" THEN "interrupted" ELSE report
            /\ written' = IF pc = "scoring" THEN report' ELSE written
            /\ tmpfs' = FALSE /\ pc' = "done" /\ outcome' = "interrupt"
            /\ UNCHANGED <<cancelReq, stopReq>>
    /\ UNCHANGED <<phase, bound, fired, stop, abort, failure, exc, procVars, drained, ended,
                   client>>

(* The governor stops the session and does not set the abort event.         *)
StopArrives_NoAbort ==
    /\ stopReq /\ InLoop
    /\ stopReq' = FALSE /\ stop' = TRUE
    /\ UNCHANGED <<pc, phase, bound, interrupted, fired, cancelReq, abort, failure, exc, procVars,
                   drained, ended, client, tmpfs, report, written, outcome>>

(* The queued session.stop and abort_event.set run.                         *)
StopArrives ==
    /\ stopReq /\ InLoop
    /\ stopReq' = FALSE /\ stop' = TRUE /\ abort' = TRUE
    /\ UNCHANGED <<pc, phase, bound, interrupted, fired, cancelReq, failure, exc, procVars, drained,
                   ended, client, tmpfs, report, written, outcome>>

(* The second SIGINT kills the process group.                               *)
ForceExit ==
    /\ interrupted /\ pc # "done"
    /\ pc' = "done" /\ outcome' = "killed"
    /\ svc' = (IF svc = "none" THEN svc ELSE "exited") /\ client' = "none"
    /\ UNCHANGED <<phase, bound, abortVars, failure, exc, file, live, drained, ended, tmpfs,
                   report, written>>

WatchdogFires ==
    /\ InLoop /\ ~fired
    /\ fired' = TRUE
    /\ IF bound
       THEN stop' = TRUE /\ abort' = TRUE /\ UNCHANGED cancelReq
       ELSE cancelReq' = TRUE /\ UNCHANGED <<stop, abort>>
    /\ UNCHANGED <<pc, phase, bound, interrupted, stopReq, failure, exc, procVars, drained, ended,
                   client, tmpfs, report, written, outcome>>

(* The aggregator publishes a live snapshot.                                *)
LiveTick ==
    /\ svc = "running" /\ ~live /\ pc # "done"
    /\ live' = TRUE
    /\ UNCHANGED <<pc, phase, bound, abortVars, failure, exc, svc, file, drained, ended, client,
                   tmpfs, report, written, outcome>>

(* It has drained after ENDED: it writes the final snapshot and exits.      *)
AggregatorEnds ==
    /\ svc = "running" /\ ended # "no"
    /\ svc' = "exited"
    /\ file' \in IF ended = "interrupted" THEN {"interrupted"} ELSE {"complete", "incomplete"}
    /\ UNCHANGED <<pc, phase, bound, abortVars, failure, exc, live, drained, ended, client, tmpfs,
                   report, written, outcome>>

(* It is killed from outside before it has written the snapshot.            *)
AggregatorCrashes ==
    /\ Crashes /\ svc = "running" /\ pc # "done"
    /\ svc' = "exited"
    /\ UNCHANGED <<pc, phase, bound, abortVars, failure, exc, file, live, drained, ended, client,
                   tmpfs, report, written, outcome>>

RunTask ==
    \/ SetupDone \/ SetupFails \/ ServicesReady \/ ServicesFail \/ ClientReady \/ ClientFails
    \/ ClientUndone \/ Bind \/ BindFails \/ Close \/ Unwind \/ WriteArtifacts \/ Scored
    \/ WriteReport \/ Checks \/ CancelArrives \/ ServicesExited \/ AbortSeen \/ GraceExpires

(* The phases: what the endpoint has to let happen, or stop() brings about. *)
Phase == StrategyEnds \/ PhaseEnds \/ DrainTimesOut \/ Stall \/ SessionRaises

Next ==
    \/ RunTask \/ Phase
    \/ Sigint \/ StopArrives \/ ForceExit \/ WatchdogFires
    \/ LiveTick \/ AggregatorEnds \/ AggregatorCrashes

Spec == Init /\ [][Next]_vars

(* The loop runs what is ready and the timeouts expire.  Nothing is assumed *)
(* of the endpoint or of the aggregator: a phase has to end only when the   *)
(* session was stopped or the run task cancelled.                           *)
FairSpec ==
    /\ Spec
    /\ WF_vars(RunTask) /\ WF_vars(StopArrives)
    /\ WF_vars((stop \/ cancelReq) /\ (StrategyEnds \/ PhaseEnds))

-----------------------------------------------------------------------------
(* Type correctness.                                                        *)
TypeOK ==
    /\ pc \in {"setup", "start", "connect", "undo", "bind", "phase", "inflight", "drain", "grace",
               "close", "unwind", "artifacts", "scoring", "writing", "checks", "done"}
    /\ phase \in 0..Phases
    /\ \A b \in {bound, interrupted, fired, cancelReq, stopReq, stop, abort, live, drained, tmpfs} :
        b \in BOOLEAN
    /\ failure \in {"none", "stall", "error"} /\ exc \in {"none", "error", "cancelled"}
    /\ svc \in {"none", "starting", "running", "exited"}
    /\ file \in {"none", "old", "complete", "incomplete", "interrupted"}
    /\ client \in {"none", "starting", "up", "terminated", "down"}
    /\ ended \in {"no", "clean", "interrupted"}
    /\ {report, written} \subseteq {"none", "old", "complete", "incomplete", "interrupted", "live"}
    /\ outcome \in {"none", "ok", "error", "interrupt", "killed"}
    /\ outcome # "none" <=> pc = "done"

(* Nothing the run started outlives it: on every way out the services have  *)
(* exited and tmpfs is gone, and the workers were killed and joined; only a *)
(* cancellation within the clean-up of a failed client leaves them with     *)
(* their SIGTERM.                                                           *)
NothingSurvives ==
    outcome \notin {"none", "killed"} =>
        /\ ~Alive(svc) /\ ~tmpfs
        /\ client \notin {"starting", "up"}
        /\ client = "terminated" => ~bound /\ (interrupted \/ fired)

(* Exit status 0 means: nobody aborted the run, the session ran all its     *)
(* phases, and the written report is the complete one of the aggregator.    *)
(* The exception is an aggregator that died without writing its snapshot in *)
(* a directory where an earlier run left one: that one is taken for it.     *)
SuccessIsTrue ==
    outcome = "ok" =>
        /\ ~interrupted /\ ~fired /\ failure = "none"
        /\ \/ ~stop /\ phase = Phases /\ ended = "clean" /\ written = "complete"
           \/ written = "old" /\ file = "old"

(* A report is written as complete only while nothing has aborted the run:  *)
(* no interrupt, watchdog or stall up to that moment is left out of it.     *)
CompleteIsNotAborted ==
    [][written' = "complete" /\ written # "complete" => ~Aborted /\ ~stop]_vars

(* An interrupted run says so: exit status 130, unless its own error or     *)
(* the second signal came first.                                            *)
InterruptIsReported ==
    outcome \notin {"none", "killed"} /\ interrupted =>
        outcome = "interrupt" \/ exc = "error"

(* What the exit status and the report tell the operator is true, and       *)
(* nothing of the run is left.                                              *)
RunEndIsSound == TypeOK /\ SuccessIsTrue /\ InterruptIsReported /\ NothingSurvives

(* The cancellation of a SIGINT that came after the client was created and  *)
(* before bind_session was taken by _run_phase for the strategy's own.      *)
Swallowed == interrupted /\ bound /\ ~cancelReq /\ ~stopReq /\ ~stop

(* After Ctrl-C or the run timeout the run ends, whatever the endpoint and  *)
(* the aggregator do, except in the one window where the signal is lost.    *)
AbortEndsRun == (interrupted \/ fired ~> outcome # "none") \/ <>Swallowed

=============================================================================
