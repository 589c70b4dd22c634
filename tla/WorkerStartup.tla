---------------------------- MODULE WorkerStartup ----------------------------
(***************************************************************************)
(* Start-up and shutdown of the HTTP worker processes:                     *)
(* endpoint_client/worker_manager.py with the readiness barrier of         *)
(* async_utils/transport/zmq/ready_check.py.                               *)
(*                                                                         *)
(* The manager is a coroutine of the main process; the workers are         *)
(* processes of their own and may signal or die between any two of its     *)
(* steps.  A worker sends one signal, after it connected its transports.   *)
(* Time is counted in the manager's wait attempts.                         *)
(***************************************************************************)
EXTENDS Naturals, FiniteSets

CONSTANTS
  Worker,     \* worker ids
  Timeouts,   \* the configured worker_initialization_timeout, as the number
              \* of wait attempts that fit in it; 0 when there is none
  Crashes     \* TRUE iff workers may die on their own in this instance

ASSUME StartupAssumption ==
  /\ IsFiniteSet(Worker) /\ Worker # {}
  /\ Timeouts \subseteq Nat
  /\ Crashes \in BOOLEAN

VARIABLES
  intervals,   \* this run's choice from Timeouts
  pc,          \* where the manager is suspended
  cause,       \* the exception initialize() raises
  worker,      \* state of each worker process
  signalled,   \* workers whose ready signal was sent
  queue,       \* signals in the PULL socket
  identities,  \* the local list of the current wait()
  attempts,    \* waits that timed out
  sock         \* the PULL socket is open

vars == <<intervals, pc, cause, worker, signalled, queue, identities,
          attempts, sock>>

alive(w) == worker[w] \in {"starting", "ready"}

Init ==
  /\ intervals \in Timeouts
  /\ pc = "spawning" /\ cause = "none"
  /\ worker = [w \in Worker |-> "none"]
  /\ signalled = {} /\ queue = {} /\ identities = {}
  /\ attempts = 0 /\ sock = TRUE

-----------------------------------------------------------------------------
\* initialize() fails: its finally block enters shutdown(), which terminates
\* the workers and sleeps, unless no worker was spawned.
Fail(why) ==
  /\ cause' = why
  /\ pc' = IF \A w \in Worker : worker[w] = "none" THEN "raised" ELSE "grace"

Dead_NotChecked(procs) == FALSE

\* The liveness check at the top of the wait loop.
Dead(procs) == \E w \in Worker : procs[w] = "dead"

\* One turn of _wait_for_workers_with_liveness_check up to its await; wait()
\* starts with an empty list.
Attempt(n, procs) ==
  /\ identities' = {}
  /\ \/ Dead(procs) /\ Fail("died")
     \/ ~Dead(procs) /\ intervals > 0 /\ n >= intervals /\ Fail("timeout")
     \/ ~Dead(procs) /\ ~(intervals > 0 /\ n >= intervals)
          /\ pc' = "waiting" /\ UNCHANGED cause

\* Process.start() for one worker; after the last one the waiting begins.
Spawn(w) ==
  /\ pc = "spawning" /\ worker[w] = "none"
  /\ LET procs == [worker EXCEPT ![w] = "starting"]
     IN  /\ worker' = procs
         /\ IF \E v \in Worker \ {w} : worker[v] = "none"
            THEN UNCHANGED <<pc, cause, identities>>
            ELSE Attempt(0, procs)
  /\ UNCHANGED <<intervals, signalled, queue, attempts, sock>>

SpawnFails ==
  /\ pc = "spawning"
  /\ Fail("spawn")
  /\ UNCHANGED <<intervals, worker, signalled, queue, identities,
                 attempts, sock>>

Enough_OffByOne(ids) == Cardinality(ids) + 1 >= Cardinality(Worker)

\* wait() has counted `count` signals.
Enough(ids) == Cardinality(ids) >= Cardinality(Worker)

\* wait() takes a signal off the socket; the last one closes the socket and
\* lets initialize() return.
ReceiveSignal(w) ==
  /\ pc = "waiting" /\ w \in queue
  /\ queue' = queue \ {w}
  /\ identities' = identities \cup {w}
  /\ IF Enough(identities') THEN pc' = "ready" /\ sock' = FALSE
                            ELSE UNCHANGED <<pc, sock>>
  /\ UNCHANGED <<intervals, cause, worker, signalled, attempts>>

\* wait() times out (it may, although a signal came in at the same moment)
\* and the manager turns its loop.
WaitTimesOut ==
  /\ pc = "waiting"
  /\ attempts' = IF intervals > 0 THEN attempts + 1 ELSE 0
  /\ Attempt(attempts', worker)
  /\ UNCHANGED <<intervals, worker, signalled, queue, sock>>

\* The run is cancelled (SIGINT, run watchdog) while initialize() waits.
Cancel ==
  /\ pc = "waiting"
  /\ sock' = FALSE
  /\ Fail("cancelled")
  /\ UNCHANGED <<intervals, worker, signalled, queue, identities, attempts>>

\* shutdown() of a client that was in use.
Shutdown ==
  /\ pc = "ready"
  /\ pc' = "grace"
  /\ UNCHANGED <<intervals, cause, worker, signalled, queue, identities,
                 attempts, sock>>

Killed_OnlyReady(w) == IF worker[w] = "ready" THEN "dead" ELSE worker[w]

\* kill() and join() of a worker that outlived the grace period.
Killed(w) == IF alive(w) THEN "dead" ELSE worker[w]

\* The rest of shutdown(): kill, join, clean the transports up.
GraceOver ==
  /\ pc = "grace"
  /\ pc' = IF cause = "none" THEN "stopped" ELSE "raised"
  /\ worker' = [w \in Worker |-> Killed(w)]
  /\ sock' = FALSE
  /\ UNCHANGED <<intervals, cause, signalled, queue, identities, attempts>>

\* A cancellation that arrives in the sleep of shutdown(): what follows the
\* sleep is skipped.
CancelShutdown ==
  /\ pc = "grace"
  /\ pc' = "abandoned"
  /\ UNCHANGED <<intervals, cause, worker, signalled, queue, identities,
                 attempts, sock>>

-----------------------------------------------------------------------------
\* The worker connected its transports: send_ready_signal().
SendReady(w) ==
  /\ worker[w] = "starting"
  /\ worker' = [worker EXCEPT ![w] = "ready"]
  /\ signalled' = signalled \cup {w}
  /\ queue' = IF sock THEN queue \cup {w} ELSE queue
  /\ UNCHANGED <<intervals, pc, cause, identities, attempts, sock>>

\* The process exits: warm-up opened no connection, a crash, or SIGTERM.
Exit(w) ==
  /\ alive(w) /\ (Crashes \/ pc \in {"grace", "abandoned"})
  /\ worker' = [worker EXCEPT ![w] = "dead"]
  /\ UNCHANGED <<intervals, pc, cause, signalled, queue, identities,
                 attempts, sock>>

Terminated == pc \in {"raised", "stopped", "abandoned"} /\ UNCHANGED vars

Manager ==
  \/ \E w \in Worker : Spawn(w) \/ ReceiveSignal(w)
  \/ WaitTimesOut \/ GraceOver

Next ==
  \/ Manager
  \/ SpawnFails
  \/ Cancel
  \/ Shutdown
  \/ CancelShutdown
  \/ \E w \in Worker : SendReady(w) \/ Exit(w)
  \/ Terminated

Spec == Init /\ [][Next]_vars

\* The event loop resumes the manager, and its wait timer fires, as the
\* sleep of shutdown() does; workers promise nothing.
FairSpec == Spec /\ WF_vars(Manager)
                 /\ WF_vars(WaitTimesOut) /\ WF_vars(GraceOver)

-----------------------------------------------------------------------------
\* Every variable stays in the domain the code gives it.
TypeOK ==
  /\ pc \in {"spawning", "waiting", "grace", "ready", "raised", "stopped",
             "abandoned"}
  /\ cause \in {"none", "spawn", "died", "timeout", "cancelled"}
  /\ worker \in [Worker -> {"none", "starting", "ready", "dead"}]
  /\ signalled \in SUBSET Worker
  /\ queue \in SUBSET signalled
  /\ identities \in SUBSET signalled
  /\ intervals \in Timeouts
  /\ attempts \in 0..intervals
  /\ sock \in BOOLEAN

\* "when the main process's wait() returns, all subprocesses are ready": the
\* barrier opens only after every worker signalled, whatever was received in
\* attempts that timed out.
ReadyMeansAllSignalled == pc = "ready" => signalled = Worker

\* However initialize() fails, and after an ordinary shutdown(), no worker
\* process is left running.  (Only a cancellation of shutdown() itself ends
\* otherwise; it leaves the workers to the interpreter's exit.)
NoWorkerLeftBehind ==
  pc \in {"raised", "stopped"} => \A w \in Worker : ~alive(w)

\* A worker that dies before it signals ends the start-up, also with no
\* initialization timeout configured (the reason for the liveness check): the
\* client is torn down, or was.
DeathEndsStartup ==
  \A w \in Worker :
    worker[w] = "dead" /\ w \notin signalled
      ~> pc \in {"raised", "stopped", "abandoned"}

-----------------------------------------------------------------------------
\* A wait is under way only while the time budget lasts.
BudgetLeft ==
  /\ pc = "spawning" => attempts = 0
  /\ pc = "waiting" /\ intervals > 0 => attempts < intervals

IInv ==
  /\ TypeOK
  /\ BudgetLeft
  /\ ReadyMeansAllSignalled
  /\ NoWorkerLeftBehind

=============================================================================
