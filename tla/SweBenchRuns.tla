---------------------------- MODULE SweBenchRuns ----------------------------
(***************************************************************************)
(* SWE-bench evaluation: scorers (swe_bench_scorer.py) submit runs to the  *)
(* service (server.py), whose RunManager executes each in a task that      *)
(* waits for a thread of the runner (runner.py), which in turn starts the  *)
(* agent and the evaluation as subprocesses.                               *)
(*                                                                         *)
(* A run is identified with the scorer that submits it.  One action is a   *)
(* stretch of the event loop between two awaits, a stretch of the runner's *)
(* or of a cancel's thread between two accesses of shared state, or a step *)
(* of a scorer.                                                            *)
(***************************************************************************)
EXTENDS Naturals, Sequences, FiniteSets

CONSTANTS
  Runs,               \* run ids
  Old,                \* those that had succeeded before
  MaxConcurrentRuns,  \* ServiceConfig.max_concurrent_runs
  MaxStoredRuns,      \* ServiceConfig.max_stored_runs
  Troubles            \* bound on failing disk writes and scorers that give up

ASSUME SweBenchAssumption ==
  /\ IsFiniteSet(Runs) /\ Old \subseteq Runs
  /\ MaxConcurrentRuns \in Nat \ {0} /\ MaxStoredRuns \in Nat
  /\ Troubles \in Nat

Active   == {"queued", "running"}
Terminal == {"succeeded", "failed", "cancelled"}

VARIABLES
  run,      \* RunManager.runs with the reader counts and the status files
  token,    \* the events of the CancellationTokens
  task,     \* where _execute of a run is
  job,      \* the runner's thread of a run, and its current subprocess
  cancels,  \* the cancel() calls of a run: its scorer's and the shutdown's
  writes,   \* status writes queued on the run's persist lock
  prune,    \* the prune task: victims still to discard, directory in removal
  server,   \* the on_shutdown handler
  doomed,   \* the runs the shutdown waits for
  scorer,   \* SWEBenchScorer.score() of a run
  troubles  \* what is left of Troubles

vars == <<run, token, task, job, cancels, writes, prune, server, doomed, scorer,
          troubles>>
execVars == <<token, task, job>>

Callers == {"scorer", "shutdown"}

NoJob == [pc |-> "none", stage |-> "agent", proc |-> "none", held |-> FALSE,
          res |-> "none"]

Init ==
  /\ run = [r \in Runs |-> LET st == IF r \in Old THEN "succeeded" ELSE "none"
                           IN  [st |-> st, disk |-> st, lost |-> FALSE, readers |-> 0]]
  /\ token = [r \in Runs |-> FALSE]
  /\ task = [r \in Runs |-> IF r \in Old THEN "done" ELSE "none"]
  /\ job = [r \in Runs |-> IF r \in Old THEN [NoJob EXCEPT !.pc = "ended", !.res = "ok"] ELSE NoJob]
  /\ cancels = [r \in Runs |-> [k \in Callers |-> "none"]]
  /\ writes = [r \in Runs |-> <<>>]
  /\ prune = [pc |-> "idle", left |-> {}, removing |-> {}]
  /\ server = "up" /\ doomed = {}
  /\ scorer = [r \in Runs |-> IF r \in Old THEN "scored" ELSE "idle"]
  /\ troubles = Troubles

Trouble == troubles > 0 /\ troubles' = troubles - 1

-----------------------------------------------------------------------------
(***************************************************************************)
(* Status changes.  A run that was discarded is no key of RunManager.runs. *)
(***************************************************************************)

Known(r) == run[r].st \notin {"none", "gone"}
Count(S) == Cardinality({r \in Runs : run[r].st \in S})

\* Without the persist lock a later write may end first.
Transition_NoLock(r, st, by) ==
  /\ run' = [run EXCEPT ![r].st = st]
  /\ writes' = [writes EXCEPT ![r] = <<[st |-> st, by |-> by]>> \o @]

\* _transition up to its await: memory first, then the caller queues on the
\* run's persist lock, which asyncio serves in the order of arrival.
Transition(r, st, by) ==
  /\ run' = [run EXCEPT ![r].st = st]
  /\ writes' = [writes EXCEPT ![r] = Append(@, [st |-> st, by |-> by])]

\* The end of _execute: its finally block schedules a prune if none is going on.
Finished(r) ==
  /\ task' = [task EXCEPT ![r] = "done"]
  /\ prune' = IF prune.pc = "idle" THEN [prune EXCEPT !.pc = "scan"] ELSE prune

\* The caller whose write has ended goes on.
Resumed(r, by) ==
  CASE by = "execute" /\ task[r] = "starting" ->
         /\ task' = [task EXCEPT ![r] = "running"]
         /\ job' = [job EXCEPT ![r].pc = "check"]
         /\ UNCHANGED <<cancels, prune>>
    [] by = "execute" /\ task[r] = "ending" ->
         Finished(r) /\ UNCHANGED <<job, cancels>>
    [] by \in Callers ->
         /\ cancels' = [cancels EXCEPT ![r][by] = "done"]
         /\ UNCHANGED <<task, job, prune>>

\* _write_status in its thread; an OSError is logged and the caller goes on.
WriteStatus(r) ==
  /\ writes[r] # <<>>
  /\ \/ run' = [run EXCEPT ![r].disk = Head(writes[r]).st] /\ UNCHANGED troubles
     \/ run' = [run EXCEPT ![r].lost = TRUE] /\ Trouble
  /\ writes' = [writes EXCEPT ![r] = Tail(@)]
  /\ Resumed(r, Head(writes[r]).by)
  /\ UNCHANGED <<token, server, doomed, scorer>>

-----------------------------------------------------------------------------
(***************************************************************************)
(* submit()                                                                *)
(***************************************************************************)

Scorer(r, pc) == scorer' = [scorer EXCEPT ![r] = pc]

\* score() sends its request; 429: the score is incomplete.
Rejected(r) ==
  /\ scorer[r] = "idle" /\ Count(Active) >= MaxConcurrentRuns
  /\ Scorer(r, "incomplete")
  /\ UNCHANGED <<run, execVars, cancels, writes, prune, server, doomed, troubles>>

\* The capacity check and the reservation, without an await between them.
Submit(r) ==
  /\ scorer[r] = "idle" /\ Count(Active) < MaxConcurrentRuns
  /\ Scorer(r, "submitting")
  /\ run' = [run EXCEPT ![r].st = "queued"]
  /\ UNCHANGED <<execVars, cancels, writes, prune, server, doomed, troubles>>

\* _persist_submission has written request and status, without the persist
\* lock; the task is created and the scorer gets its 202.
Persisted(r) ==
  /\ scorer[r] = "submitting"
  /\ run' = [run EXCEPT ![r].disk = "queued"]
  /\ task' = [task EXCEPT ![r] = "semaphore"]
  /\ Scorer(r, "polling")
  /\ UNCHANGED <<token, job, cancels, writes, prune, server, doomed, troubles>>

Discarded(rec) == [rec EXCEPT !.st = "gone", !.readers = 0]

\* It raised OSError: the run is discarded and the scorer gets a 500.
PersistFails(r) ==
  /\ Trouble /\ scorer[r] = "submitting"
  /\ run' = [run EXCEPT ![r] = Discarded(@)]
  /\ Scorer(r, "incomplete")
  /\ UNCHANGED <<execVars, cancels, writes, prune, server, doomed>>

-----------------------------------------------------------------------------
(***************************************************************************)
(* _execute()                                                              *)
(***************************************************************************)

Holds(r) == task[r] \in {"starting", "running", "finalizing", "ending"}
SemaphoreFree == Cardinality({r \in Runs : Holds(r)}) < MaxConcurrentRuns

\* A transition of _execute; that of a discarded run raises KeyError, which
\* ends the task.
Leave(r, st, pc) ==
  IF Known(r)
  THEN /\ Transition(r, st, "execute")
       /\ task' = [task EXCEPT ![r] = pc]
       /\ UNCHANGED prune
  ELSE Finished(r) /\ UNCHANGED <<run, writes>>

ExecuteStarts(r) ==
  /\ task[r] = "semaphore" /\ SemaphoreFree
  /\ IF token[r] THEN Leave(r, "cancelled", "ending")
                 ELSE Leave(r, "running", "starting")
  /\ UNCHANGED <<token, job, cancels, server, doomed, scorer, troubles>>

\* The runner's thread has returned or raised.
RunnerReturned(r) ==
  /\ task[r] = "running" /\ job[r].pc = "ended"
  /\ \/ /\ token[r] \/ job[r].res = "cancelled"
        /\ Leave(r, "cancelled", "ending")
     \/ /\ ~token[r] /\ job[r].res = "error"
        /\ Leave(r, "failed", "ending")
     \/ /\ ~token[r] /\ job[r].res = "ok"
        /\ task' = [task EXCEPT ![r] = "finalizing"]
        /\ UNCHANGED <<run, writes, prune>>
  /\ UNCHANGED <<token, job, cancels, server, doomed, scorer, troubles>>

\* The last refresh and the terminal progress were awaited; the token is not
\* looked at again.
Finalized(r) ==
  /\ task[r] = "finalizing"
  /\ \/ Leave(r, "succeeded", "ending") /\ UNCHANGED troubles
     \/ Leave(r, "failed", "ending") /\ Trouble
  /\ UNCHANGED <<token, job, cancels, server, doomed, scorer>>

-----------------------------------------------------------------------------
(***************************************************************************)
(* SweBenchRunner.run() in its thread                                      *)
(***************************************************************************)

Job(r, rec) ==
  /\ job' = [job EXCEPT ![r] = rec]
  /\ UNCHANGED <<run, token, task, cancels, writes, prune, server, doomed, scorer, troubles>>

\* _terminate_process: SIGTERM, then SIGKILL, to the process group.
Terminated(p) == IF p = "alive" THEN "killed" ELSE p

\* _run leaves by return or by exception, with its subprocess dead and detached.
Ends(j, res) == [j EXCEPT !.pc = "clean", !.res = res, !.held = FALSE, !.proc = "none"]

\* What _run does before a stage may raise: directories, template, checks of
\* the predictions.
JobFails(r) == job[r].pc = "check" /\ Job(r, Ends(job[r], "error"))

\* The start of _run_subprocess: a set token stops it; otherwise the subprocess
\* runs before the token knows of it.
JobSpawns(r) ==
  /\ job[r].pc = "check"
  /\ \/ token[r] /\ Job(r, Ends(job[r], "cancelled"))
     \/ ~token[r] /\ Job(r, [job[r] EXCEPT !.pc = "attach", !.proc = "alive"])

\* attach: what cancel() did not see to kill is killed here.
JobAttaches(r) ==
  /\ job[r].pc = "attach"
  /\ Job(r, [job[r] EXCEPT !.pc = "wait", !.held = TRUE,
                           !.proc = IF token[r] THEN Terminated(@) ELSE @])

\* The agent is followed by the evaluation.
NextStage(j) == [j EXCEPT !.pc = "check", !.stage = "eval", !.held = FALSE]

\* The loop around communicate(): token, deadline, exit status.
JobPolls(r) ==
  /\ job[r].pc = "wait"
  /\ \/ token[r] /\ Job(r, Ends(job[r], "cancelled"))
     \/ ~token[r] /\ job[r].proc \in {"alive", "nonzero", "killed"} /\ Job(r, Ends(job[r], "error"))
     \/ /\ ~token[r] /\ job[r].proc = "zero"
        /\ IF job[r].stage = "agent"
           THEN Job(r, NextStage(job[r]))
           ELSE \E res \in {"ok", "error"} : Job(r, Ends(job[r], res))

\* The finally block has removed the run's containers, or logged a warning.
JobCleans(r) ==
  /\ job[r].pc = "clean"
  /\ Job(r, [job[r] EXCEPT !.pc = "ended"])

SubprocessExits(r) ==
  /\ job[r].proc = "alive"
  /\ \E code \in {"zero", "nonzero"} : Job(r, [job[r] EXCEPT !.proc = code])

-----------------------------------------------------------------------------
(***************************************************************************)
(* cancel()                                                                *)
(***************************************************************************)

Cancels(r, k, pc) == cancels' = [cancels EXCEPT ![r][k] = pc]

\* get(), the early return of a run that is over, and the first half of
\* token.cancel in its thread: the event is set.
CancelBegins(r, k) ==
  /\ cancels[r][k] = "begin"
  /\ \/ ~Known(r) /\ Cancels(r, k, "raised") /\ UNCHANGED token
     \/ run[r].st \in Terminal /\ Cancels(r, k, "done") /\ UNCHANGED token
     \/ /\ run[r].st \in Active
        /\ Cancels(r, k, "mark")
        /\ token' = [token EXCEPT ![r] = TRUE]
  /\ UNCHANGED <<run, task, job, writes, prune, server, doomed, scorer, troubles>>

\* The second half kills the process it finds.  After the terminal progress was
\* read the status is set, whatever it has become meanwhile; a run that was
\* discarded raises KeyError.
CancelMarks(r, k) ==
  /\ cancels[r][k] = "mark"
  /\ job' = [job EXCEPT ![r].proc = IF job[r].held THEN Terminated(@) ELSE @]
  /\ IF Known(r)
     THEN Transition(r, "cancelled", k) /\ Cancels(r, k, "write")
     ELSE Cancels(r, k, "raised") /\ UNCHANGED <<run, writes>>
  /\ UNCHANGED <<token, task, prune, server, doomed, scorer, troubles>>

-----------------------------------------------------------------------------
(***************************************************************************)
(* _prune_completed_runs()                                                 *)
(***************************************************************************)

\* The runs whose _ARTIFACT_RETENTION_GRACE_S may be over: it is longer than a
\* cancel() or a status write takes.
MayExpire ==
  {r \in Runs : /\ run[r].st \in Terminal /\ writes[r] = <<>>
                /\ \A k \in Callers : cancels[r][k] \in {"none", "done", "raised"}}

Overflow_OffByOne == Count(Terminal) - MaxStoredRuns + 1

Overflow == Count(Terminal) - MaxStoredRuns

\* The scan and the first discard: the oldest of those that are expired and not
\* read.  Without one it sleeps and scans again.
PruneScans ==
  /\ prune.pc = "scan"
  /\ LET eligible == {r \in MayExpire : run[r].readers = 0}
     IN  \/ /\ MaxStoredRuns = 0 \/ Count(Terminal) <= MaxStoredRuns
            /\ prune' = [prune EXCEPT !.pc = "idle"] /\ UNCHANGED run
         \/ /\ MaxStoredRuns > 0 /\ Count(Terminal) > MaxStoredRuns
            /\ \E V \in SUBSET eligible : \E v \in V :
                 /\ Cardinality(V) <= Overflow
                 /\ run' = [run EXCEPT ![v] = Discarded(@)]
                 /\ prune' = [pc |-> "sweep", left |-> V \ {v}, removing |-> {v}]
  /\ UNCHANGED <<execVars, cancels, writes, server, doomed, scorer, troubles>>

\* rmtree has returned; the next victim of the same scan, or another scan.
PruneSweeps ==
  /\ prune.pc = "sweep"
  /\ LET gone == [r \in Runs |-> IF r \in prune.removing THEN [run[r] EXCEPT !.disk = "none"]
                                 ELSE run[r]]
     IN  \/ /\ prune.left = {}
            /\ run' = gone
            /\ prune' = [pc |-> "scan", left |-> {}, removing |-> {}]
         \/ \E v \in prune.left :
              /\ run' = [gone EXCEPT ![v] = Discarded(@)]
              /\ prune' = [prune EXCEPT !.left = @ \ {v}, !.removing = {v}]
  /\ UNCHANGED <<execVars, cancels, writes, server, doomed, scorer, troubles>>

-----------------------------------------------------------------------------
(***************************************************************************)
(* shutdown()                                                              *)
(***************************************************************************)

ShutdownBegins ==
  /\ server = "up" /\ Trouble
  /\ server' = "cancelling"
  /\ doomed' = {r \in Runs : run[r].st \in Active}
  /\ cancels' = [r \in Runs |-> IF r \in doomed' THEN [cancels[r] EXCEPT !["shutdown"] = "begin"]
                                ELSE cancels[r]]
  /\ UNCHANGED <<run, execVars, writes, prune, scorer>>

\* gather() of the cancels: the first exception ends the shutdown; then the
\* tasks there are.
ShutdownGathers ==
  /\ server = "cancelling"
  /\ \/ /\ \E r \in doomed : cancels[r]["shutdown"] = "raised"
        /\ server' = "raised" /\ UNCHANGED doomed
     \/ /\ \A r \in doomed : cancels[r]["shutdown"] = "done"
        /\ server' = "waiting"
        /\ doomed' = {r \in Runs : task[r] \notin {"none", "done"}}
  /\ UNCHANGED <<run, execVars, cancels, writes, prune, scorer, troubles>>

\* The tasks have ended; the prune task is cancelled, a removal under way in
\* its thread is not.
ShutdownEnds ==
  /\ server = "waiting" /\ \A r \in doomed : task[r] = "done"
  /\ server' = "down"
  /\ prune' = [prune EXCEPT !.pc = "idle", !.left = {}]
  /\ UNCHANGED <<run, execVars, cancels, writes, doomed, scorer, troubles>>

-----------------------------------------------------------------------------
(***************************************************************************)
(* SWEBenchScorer.score()                                                  *)
(***************************************************************************)

\* The answer to a poll: a terminal status ends the loop, and only a succeeded
\* run has artifacts to download.
Poll(r) ==
  /\ scorer[r] = "polling"
  /\ \/ run[r].st = "succeeded" /\ Scorer(r, "artifacts")
     \/ run[r].st \in {"failed", "cancelled"} /\ Scorer(r, "incomplete")
  /\ UNCHANGED <<run, execVars, cancels, writes, prune, server, doomed, troubles>>

\* 404: the run was discarded.  The scorer sends a cancel all the same.
PollFails(r) ==
  /\ scorer[r] = "polling" /\ run[r].st = "gone"
  /\ Scorer(r, "incomplete") /\ Cancels(r, "scorer", "begin")
  /\ UNCHANGED <<run, execVars, writes, prune, server, doomed, troubles>>

\* The deadline, an unreachable service, a bad answer or Ctrl-C.
GivesUp(r) ==
  /\ Trouble /\ scorer[r] = "polling"
  /\ Scorer(r, "incomplete") /\ Cancels(r, "scorer", "begin")
  /\ UNCHANGED <<run, execVars, writes, prune, server, doomed>>

\* get_artifact: the reader pins the run.  A failed download is only logged.
ReadsArtifact(r) ==
  /\ scorer[r] = "artifacts" /\ Known(r)
  /\ run' = [run EXCEPT ![r].readers = @ + 1]
  /\ Scorer(r, "reading")
  /\ UNCHANGED <<execVars, cancels, writes, prune, server, doomed, troubles>>

ArtifactRead(r) ==
  /\ scorer[r] = "reading"
  /\ run' = [run EXCEPT ![r].readers = IF @ <= 1 THEN 0 ELSE @ - 1]
  /\ Scorer(r, "artifacts")
  /\ UNCHANGED <<execVars, cancels, writes, prune, server, doomed, troubles>>

\* The result came with the status; its counters are plausible or not.
Scores(r) ==
  /\ scorer[r] = "artifacts"
  /\ \E pc \in {"scored", "incomplete"} : Scorer(r, pc)
  /\ UNCHANGED <<run, execVars, cancels, writes, prune, server, doomed, troubles>>

-----------------------------------------------------------------------------
JobStep(r) == JobFails(r) \/ JobSpawns(r) \/ JobAttaches(r) \/ JobPolls(r) \/ JobCleans(r)
ExecuteStep(r) == ExecuteStarts(r) \/ RunnerReturned(r) \/ Finalized(r)
CancelStep(r, k) == CancelBegins(r, k) \/ CancelMarks(r, k)

Next ==
  \/ \E r \in Runs :
       \/ Rejected(r) \/ Submit(r) \/ Persisted(r) \/ PersistFails(r)
       \/ ExecuteStep(r) \/ JobStep(r) \/ SubprocessExits(r) \/ WriteStatus(r)
       \/ \E k \in Callers : CancelStep(r, k)
       \/ Poll(r) \/ PollFails(r) \/ GivesUp(r) \/ ReadsArtifact(r) \/ ArtifactRead(r) \/ Scores(r)
  \/ PruneScans \/ PruneSweeps
  \/ ShutdownBegins \/ ShutdownGathers \/ ShutdownEnds

Spec == Init /\ [][Next]_vars

-----------------------------------------------------------------------------
(***************************************************************************)
(* Properties                                                              *)
(***************************************************************************)

\* The service never runs more than max_concurrent_runs at once, although a
\* cancelled run gives its place back to submit() while its runner is still
\* winding down; and no subprocess is without the thread that watches it.
CapacityHolds ==
  /\ Count(Active) <= MaxConcurrentRuns
  /\ Cardinality({r \in Runs : job[r].pc \notin {"none", "ended"}}) <= MaxConcurrentRuns
  /\ \A r \in Runs : job[r].proc = "alive" => job[r].pc \in {"attach", "wait"}

\* When the shutdown handler has returned, no runner of a run it found active
\* is left, nor will one start.
ShutdownLeavesNoRunner ==
  server = "down" =>
    \A r \in Runs : cancels[r]["shutdown"] # "none" =>
      job[r].pc \in {"none", "ended"} /\ (task[r] = "semaphore" => token[r])

\* Runners are never more than the service allows, nor out of its control.
RunnersAreContained == CapacityHolds /\ ShutdownLeavesNoRunner

\* A status says what happened, whichever of the task, the scorer's cancel and
\* the shutdown's set it last, and a score is that of an evaluation that ended
\* well.  When nothing is on its way to the disk, status.json says the same,
\* unless a write has failed.
StatusIsTrue ==
  \A r \in Runs :
    /\ run[r].st = "succeeded" \/ scorer[r] = "scored" => job[r].res = "ok"
    /\ run[r].st = "failed" => job[r].res \in {"ok", "error"}
    /\ run[r].st = "cancelled" => token[r]
    /\ /\ Known(r) /\ ~run[r].lost /\ writes[r] = <<>>
       /\ task[r] # "semaphore" /\ scorer[r] # "submitting"
       => run[r].disk = run[r].st

\* A run that is over stays as it is, except for the two sides of a cancel that
\* was accepted while it was active, until it is pruned.  Completed runs are
\* kept up to max_stored_runs (swebench_service/README.md:102), and one whose
\* artifact is being read is not removed unless the reader came after the scan
\* that chose it.  (Under a shutdown the scan may have counted a submission
\* that failed since.)
OverStaysOver ==
  [][\A r \in Runs :
       /\ token'[r] # token[r] => run[r].st \in Active
       /\ run[r].st \in Terminal /\ run'[r].st \notin {run[r].st, "gone"} =>
            /\ token[r] /\ "cancelled" \in {run[r].st, run'[r].st}
            /\ Holds(r) \/ \E k \in Callers : cancels[r][k] = "mark"
       /\ run[r].st \in Terminal /\ run'[r].st = "gone" /\ scorer[r] # "submitting" =>
            /\ Count(Terminal) > MaxStoredRuns \/ server # "up"
            /\ run[r].readers > 0 => r \in prune.left]_vars

(* The service's runners stay within its limits and its life, and what it   *)
(* says of a run is so.                                                     *)
ServiceIsTruthful == RunnersAreContained /\ StatusIsTrue

=============================================================================
