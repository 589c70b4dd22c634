-------------------------- MODULE MetricsAggregator --------------------------
(***************************************************************************)
(* Life of the metrics aggregator process, from STARTED to its exit:       *)
(* async_utils/services/metrics_aggregator: aggregator.py (process), the   *)
(* TokenBatchQueue of token_metrics.py, publisher.py and the SIGTERM       *)
(* handler and main() of __main__.py.                                      *)
(*                                                                         *)
(* All of it runs on one event loop: a step is what a task does between    *)
(* two awaits.  Tokenization, the steady-state analysis and the snapshot   *)
(* write run on threads and end at any later time.  What the events do to  *)
(* the metrics themselves is left out; of a sample only the token counts   *)
(* it asks for are kept, in a buffer whose order no property tells apart.  *)
(***************************************************************************)
EXTENDS Naturals, FiniteSets

CONSTANTS
  Item,         \* token counts the run will ask for
  Signal,       \* SIGTERMs the process may receive
  FlushMax,     \* _LIVE_FLUSH_MAX_ITEMS
  Live,         \* tokenizer_workers > 0: the live flush loop runs
  Budget,       \* a drain timeout is configured
  SteadyState   \* a steady-state profile is configured

ASSUME AggregatorAssumption ==
  /\ IsFiniteSet(Item) /\ IsFiniteSet(Signal)
  /\ "ended" \notin Signal
  /\ FlushMax \in Nat \ {0}
  /\ Live \in BOOLEAN /\ Budget \in BOOLEAN /\ SteadyState \in BOOLEAN

\* The tasks that may finalize: the process() call that met ENDED, and one
\* _signal_finalize() per SIGTERM.
Task == {"ended"} \cup Signal

Terminal == {"complete", "interrupted"}
NoSnap == [state |-> "none"]

VARIABLES
  seen,          \* how far the session's events were processed
  interrupted,   \* _interrupted
  sessionState,  \* _session_state
  arrived,       \* token counts asked for so far
  items,         \* TokenBatchQueue._items
  inflight,      \* TokenBatchQueue._inflight
  recorded,      \* token counts recorded in the registry
  live,          \* the live flush task
  batch,         \* items detached by the live flush
  drain,         \* items detached by drain_all and not recorded
  pc,            \* where each finalizing task is suspended
  npend,         \* the n_pending_tasks each of them passes
  tick,          \* the tick task
  finalized,     \* _finalized
  snap,          \* the terminal snapshot, once built
  disk,          \* final_snapshot.json
  wire,          \* state of the last published snapshot
  sent,          \* states of all published snapshots
  closed,        \* MetricsPublisher._closed
  shutdown,      \* shutdown_event
  main           \* where main() is

queueVars == <<arrived, items, inflight, recorded, live, batch, drain>>
recordVars == <<seen, interrupted, sessionState>>
wireVars == <<disk, wire, sent>>
taskVars == <<pc, npend, tick, finalized, snap, closed, shutdown>>
vars == <<recordVars, queueVars, taskVars, wireVars, main>>

Init ==
  /\ seen = "none" /\ interrupted = FALSE /\ sessionState = "initialize"
  /\ arrived = {} /\ items = {} /\ inflight = 0 /\ recorded = {}
  /\ live = "none" /\ batch = {} /\ drain = {}
  /\ pc = [t \in Task |-> "idle"] /\ npend = [t \in Task |-> 0]
  /\ tick = "none" /\ finalized = FALSE /\ snap = NoSnap
  /\ disk = "none" /\ wire = "none" /\ sent = {}
  /\ closed = FALSE /\ shutdown = FALSE /\ main = "waiting"

Running == main # "exited"

-----------------------------------------------------------------------------
(* MetricsPublisher.  The operators below describe what a task does within *)
(* one step; the actions that use them say when.                           *)

\* _final_lock is held.
Locked == \E t \in Task : pc[t] \in {"tick", "write"}

\* The task goes to `where`.
Goes(t, where) == pc' = [pc EXCEPT ![t] = where]

\* aclose() after publish_final() in the ENDED path, then _finalize().
Close(t) ==
  IF closed \/ tick = "none"
  THEN /\ Goes(t, "done")
       /\ closed' = TRUE /\ shutdown' = TRUE
       /\ UNCHANGED tick
  ELSE /\ Goes(t, "closing")
       /\ closed' = TRUE /\ tick' = "cancelled"
       /\ UNCHANGED shutdown

Returned_SignalForgets(t) ==
  IF t = "ended"
  THEN Close(t)
  ELSE /\ Goes(t, "done")
       /\ UNCHANGED <<tick, closed, shutdown>>

\* What the caller of publish_final() does once it returns.
Returned(t) ==
  IF t = "ended"
  THEN Close(t)
  ELSE /\ Goes(t, "done")
       /\ shutdown' = TRUE
       /\ UNCHANGED <<tick, closed>>

Build_MarkerIgnored(t, n) ==
  /\ snap' = [state |-> IF t = "ended" THEN "complete" ELSE "interrupted",
              pending |-> n, recorded |-> recorded', at |-> sessionState']
  /\ Goes(t, "write")

\* build_snapshot() and the hand-over of the write to a thread.
Build(t, n) ==
  /\ snap' = [state |-> IF t = "ended" /\ ~interrupted THEN "complete"
                                                      ELSE "interrupted",
              pending |-> n,
              recorded |-> recorded',
              at |-> sessionState']
  /\ Goes(t, "write")

Finalize_TickGoesOn(t, n) ==
  /\ finalized' = TRUE
  /\ Build(t, n)
  /\ UNCHANGED <<tick, closed, shutdown>>

\* The first caller: stop the tick task, then build and write.
Finalize(t, n) ==
  /\ finalized' = TRUE
  /\ IF tick = "none"
     THEN Build(t, n) /\ UNCHANGED tick
     ELSE tick' = "cancelled" /\ Goes(t, "tick") /\ UNCHANGED snap
  /\ UNCHANGED <<closed, shutdown>>

PublishFinal_NoLock(t, n) ==
  /\ npend' = [npend EXCEPT ![t] = n]
  /\ \/ finalized /\ Returned(t) /\ UNCHANGED <<finalized, snap>>
     \/ ~finalized /\ Finalize(t, n)

\* publish_final(): wait for the lock, return at once if another call has
\* finalized, else finalize.
PublishFinal(t, n) ==
  /\ npend' = [npend EXCEPT ![t] = n]
  /\ \/ Locked /\ Goes(t, "lock")
        /\ UNCHANGED <<tick, finalized, snap, closed, shutdown>>
     \/ ~Locked /\ finalized /\ Returned(t) /\ UNCHANGED <<finalized, snap>>
     \/ ~Locked /\ ~finalized /\ Finalize(t, n)

\* The lock is free again.
LockAcquired(t) ==
  /\ Running /\ pc[t] = "lock" /\ ~Locked
  /\ UNCHANGED <<recordVars, queueVars, wireVars, main>>
  /\ PublishFinal(t, npend[t])

\* The cancelled tick task ended: build and write.
TickStopped(t) ==
  /\ Running /\ pc[t] = "tick"
  /\ tick' = "none"
  /\ UNCHANGED <<recordVars, queueVars, wireVars, main,
                 npend, finalized, closed, shutdown>>
  /\ Build(t, npend[t])

\* publish() on the metrics socket.
Publish(state) ==
  IF closed THEN UNCHANGED <<wire, sent>>
            ELSE wire' = state /\ sent' = sent \cup {state}

\* The write ended, with the file renamed into place or failed; the terminal
\* frame follows on the wire either way.
WriteEnds(t) ==
  /\ Running /\ pc[t] = "write"
  /\ disk' \in {"written", "failed"}
  /\ Publish(snap.state)
  /\ Returned(t)
  /\ UNCHANGED <<recordVars, queueVars, npend, finalized, snap, main>>

\* The aclose() of the ENDED path resumes.
Closed ==
  /\ Running /\ pc["ended"] = "closing"
  /\ tick' = "none" /\ shutdown' = TRUE
  /\ Goes("ended", "done")
  /\ UNCHANGED <<recordVars, queueVars, wireVars, main,
                 npend, finalized, snap, closed>>

\* A live tick.
Tick ==
  /\ Running /\ tick = "running"
  /\ Publish(sessionState)
  /\ UNCHANGED <<recordVars, queueVars, taskVars, disk, main>>

-----------------------------------------------------------------------------
(* TokenBatchQueue.                                                        *)

\* flush_live_once(): detach up to FlushMax items and have them counted.
LiveFlush ==
  /\ Running /\ live = "sleeping" /\ items # {}
  /\ \E chosen \in SUBSET items :
       /\ Cardinality(chosen) = IF Cardinality(items) < FlushMax
                                THEN Cardinality(items) ELSE FlushMax
       /\ batch' = chosen
       /\ items' = items \ chosen
  /\ live' = "counting"
  /\ UNCHANGED <<recordVars, taskVars, wireVars, main,
                 arrived, inflight, recorded, drain>>

\* _record() for every counted item.
Record(counted) ==
  /\ recorded' = recorded \cup counted
  /\ inflight' = inflight - Cardinality(counted)

Requeued_Dropped(failed) == items

\* A live flush puts what it could not count back into the buffer.
Requeued(failed) == items \cup failed

\* The live batch was counted, except for `failed` (all of it, when the
\* tokenizer raised).
LiveCounted ==
  /\ Running /\ live = "counting"
  /\ \E failed \in SUBSET batch :
       /\ Record(batch \ failed)
       /\ items' = Requeued(failed)
  /\ batch' = {} /\ live' = "sleeping"
  /\ UNCHANGED <<recordVars, taskVars, wireVars, main, arrived, drain>>

\* The verdict is computed only for a complete and fully drained run.
NeedsVerdict(n) == SteadyState /\ ~interrupted /\ n = 0

\* The ENDED path after flush_remaining() returned n.
Flushed(n) ==
  IF NeedsVerdict(n)
  THEN /\ Goes("ended", "verdict")
       /\ npend' = [npend EXCEPT !["ended"] = n]
       /\ UNCHANGED <<tick, finalized, snap, closed, shutdown>>
  ELSE PublishFinal("ended", n)

\* flush_remaining() with the live loop gone and `rest` in the buffer.
FlushRest(rest) ==
  /\ UNCHANGED <<arrived, inflight, recorded>>
  /\ batch' = {}
  /\ IF inflight = 0 \/ rest = {}
     THEN /\ items' = rest
          /\ UNCHANGED drain
          /\ Flushed(inflight)
     ELSE /\ items' = {} /\ drain' = rest
          /\ Goes("ended", "draining")
          /\ UNCHANGED <<npend, tick, finalized, snap, closed, shutdown>>

\* The cancelled live loop ended; a batch it was counting went back.
LiveStopped ==
  /\ Running /\ pc["ended"] = "stopping"
  /\ live' = "none"
  /\ UNCHANGED <<recordVars, wireVars, main>>
  /\ FlushRest(Requeued(batch))

\* drain_all() counted the buffer, except for `failed`.
DrainCounted ==
  /\ Running /\ pc["ended"] = "draining"
  /\ UNCHANGED <<recordVars, wireVars, main, arrived, items, live, batch>>
  /\ \E failed \in SUBSET drain :
       /\ Record(drain \ failed)
       /\ drain' = failed
       /\ Flushed(inflight')

\* The drain budget is spent.
DrainTimesOut ==
  /\ Running /\ Budget /\ pc["ended"] = "draining"
  /\ UNCHANGED <<recordVars, wireVars, main, queueVars>>
  /\ Flushed(inflight)

\* The steady-state analysis ended.
VerdictReady ==
  /\ Running /\ pc["ended"] = "verdict"
  /\ UNCHANGED <<recordVars, wireVars, main, queueVars>>
  /\ PublishFinal("ended", npend["ended"])

-----------------------------------------------------------------------------
(* process(): the session's events, in the order the session sends them.   *)

\* STARTED starts the tick task and the live flush loop.
OnStarted ==
  /\ Running /\ seen = "none"
  /\ seen' = "started" /\ sessionState' = "live"
  /\ tick' = IF tick = "none" THEN "running" ELSE tick
  /\ live' = IF Live THEN "sleeping" ELSE live
  /\ UNCHANGED <<interrupted, arrived, items, inflight, recorded, batch, drain,
                 pc, npend, finalized, snap, closed, shutdown, wireVars, main>>

\* A sample's event enqueues a token count.
OnSample(i) ==
  /\ Running /\ seen = "started" /\ i \notin arrived
  /\ arrived' = arrived \cup {i}
  /\ items' = items \cup {i}
  /\ inflight' = inflight + 1
  /\ UNCHANGED <<recordVars, recorded, live, batch, drain, taskVars, wireVars,
                 main>>

OnInterrupted ==
  /\ Running /\ seen = "started"
  /\ seen' = "interrupted" /\ interrupted' = TRUE
  /\ UNCHANGED <<sessionState, queueVars, taskVars, wireVars, main>>

\* ENDED: no later record counts; flush_remaining() begins by cancelling the
\* live loop.
OnEnded ==
  /\ Running /\ seen \in {"started", "interrupted"}
  /\ seen' = "ended" /\ sessionState' = "draining"
  /\ UNCHANGED <<interrupted, wireVars, main>>
  /\ IF live # "none"
     THEN /\ live' = "cancelled"
          /\ Goes("ended", "stopping")
          /\ UNCHANGED <<arrived, items, inflight, recorded, batch, drain,
                         npend, tick, finalized, snap, closed, shutdown>>
     ELSE UNCHANGED live /\ FlushRest(items)

-----------------------------------------------------------------------------
(* The SIGTERM handler and main().                                         *)

OnSigterm(s) ==
  /\ Running /\ pc[s] = "idle"
  /\ UNCHANGED <<recordVars, queueVars, wireVars, main>>
  /\ PublishFinal(s, inflight)

\* shutdown_event.wait() returns and main() closes the publisher.
MainWakes ==
  /\ main = "waiting" /\ shutdown
  /\ closed' = TRUE
  /\ IF closed \/ tick = "none"
     THEN main' = "exited" /\ UNCHANGED tick
     ELSE main' = "closing" /\ tick' = "cancelled"
  /\ UNCHANGED <<recordVars, queueVars, wireVars,
                 pc, npend, finalized, snap, shutdown>>

MainCloses ==
  /\ main = "closing"
  /\ main' = "exited" /\ tick' = "none"
  /\ UNCHANGED <<recordVars, queueVars, wireVars,
                 pc, npend, finalized, snap, closed, shutdown>>

Exited == main = "exited" /\ UNCHANGED vars

-----------------------------------------------------------------------------
\* What the event loop and the threads do by themselves; the tokenizer may
\* never answer.
Progress ==
  \/ \E t \in Task : LockAcquired(t) \/ TickStopped(t) \/ WriteEnds(t)
  \/ LiveStopped \/ DrainTimesOut \/ VerdictReady
  \/ Closed \/ MainWakes \/ MainCloses

Next ==
  \/ Progress
  \/ Tick \/ LiveFlush \/ LiveCounted \/ DrainCounted
  \/ OnStarted \/ OnInterrupted \/ OnEnded
  \/ \E i \in Item : OnSample(i)
  \/ \E s \in Signal : OnSigterm(s)
  \/ Exited

Spec == Init /\ [][Next]_vars

FairSpec == Spec /\ WF_vars(Progress)

-----------------------------------------------------------------------------
Snapshot == [state : Terminal, pending : Nat, recorded : SUBSET Item,
             at : {"initialize", "live", "draining"}]

RecordTypes ==
  /\ seen \in {"none", "started", "interrupted", "ended"}
  /\ interrupted \in BOOLEAN
  /\ sessionState \in {"initialize", "live", "draining"}

QueueTypes ==
  /\ arrived \in SUBSET Item /\ items \in SUBSET Item
  /\ recorded \in SUBSET Item
  /\ batch \in SUBSET Item /\ drain \in SUBSET Item
  /\ inflight \in Nat
  /\ live \in {"none", "sleeping", "counting", "cancelled"}

TaskTypes ==
  /\ pc \in [Task -> {"idle", "stopping", "draining", "verdict", "lock", "tick",
                      "write", "closing", "done"}]
  /\ npend \in [Task -> Nat]
  /\ tick \in {"none", "running", "cancelled"}
  /\ finalized \in BOOLEAN
  /\ snap \in Snapshot \cup {NoSnap}
  /\ closed \in BOOLEAN /\ shutdown \in BOOLEAN

WireTypes ==
  /\ disk \in {"none", "written", "failed"}
  /\ wire \in {"none", "initialize", "live", "draining"} \cup Terminal
  /\ sent \in SUBSET ({"initialize", "live", "draining"} \cup Terminal)
  /\ main \in {"waiting", "closing", "exited"}

\* Every variable stays in the domain the code gives it; in particular the
\* pending count never goes below zero.
TypeOK == RecordTypes /\ QueueTypes /\ TaskTypes /\ WireTypes

\* "enqueued-but-not-yet-recorded items": TokenBatchQueue.pending counts each
\* of them once, through live flushes that fail in part or are cancelled, and
\* through a drain that fails or runs out of time.
PendingIsExact == inflight = Cardinality(arrived \ recorded)

\* A mid-run hiccup never loses samples: a token count that is not recorded is
\* in the buffer or in the hands of a flush, and the end-of-run drain takes
\* all of them.
NothingForgotten ==
  /\ arrived \ recorded = items \cup batch \cup drain
  /\ pc["ended"] \notin {"idle", "stopping"} => items \cup batch = {}

\* Token counts are neither lost nor counted twice, and pending says how many
\* are outstanding, whatever flushes and drains do to each other.
TokensAreAccounted == PendingIsExact /\ NothingForgotten

\* A snapshot tagged COMPLETE is one of a run whose ENDED came without an
\* INTERRUPTED marker, and its n_pending_tasks is the number of token counts
\* its series lack.
CompleteIsTruthful ==
  snap.state = "complete" =>
    /\ seen = "ended" /\ ~interrupted
    /\ snap.pending = Cardinality(arrived \ snap.recorded)

\* "only the first call writes/publishes": whatever ENDED and SIGTERMs do to
\* each other, the terminal snapshot is built once.
FinalizedOnce == [][snap # NoSnap => snap' = snap]_vars

\* The process exits only after a final write has ended; it never abandons one
\* ("can never let main() return while the write is still in flight").
ExitAfterWrite ==
  main = "exited" => disk # "none" /\ \A t \in Task : pc[t] # "write"

\* A conflating subscriber ends up with the terminal frame.
TerminalFrameIsLast == sent \cap Terminal # {} => wire \in Terminal

\* No live tick lands after the terminal frame when finalizing began after
\* STARTED.
TerminalFrameIsLastOnceStarted ==
  snap.state \in Terminal /\ snap.at # "initialize" => TerminalFrameIsLast

\* Once ENDED or a SIGTERM was received the process exits, although the
\* tokenizer may never answer, provided the drain has a budget.
AlwaysExits ==
  (seen = "ended" \/ \E s \in Signal : pc[s] # "idle") ~> main = "exited"

-----------------------------------------------------------------------------
(* The parts of the inductive invariant.                                   *)

\* Where the unrecorded items are, and which task may hold them.
QueueInv ==
  /\ recorded \subseteq arrived
  /\ arrived \ recorded = items \cup batch \cup drain
  /\ items \cap batch = {}
  /\ batch # {} => live \in {"counting", "cancelled"}
  /\ pc["ended"] \in {"idle", "stopping"} => drain = {}
  /\ pc["ended"] = "idle" => live # "cancelled"
  /\ pc["ended"] = "stopping" => live = "cancelled"
  /\ pc["ended"] \notin {"idle", "stopping"} =>
       live = "none" /\ items = {} /\ batch = {}

\* The ENDED path runs once the session's events are over, and carries the
\* pending count unchanged to the snapshot.
EndedInv ==
  /\ pc["ended"] # "idle" <=> seen = "ended"
  /\ seen = "none" <=> sessionState = "initialize"
  /\ seen = "none" => live = "none"
  /\ seen = "ended" <=> sessionState = "draining"
  /\ pc["ended"] \in {"verdict", "lock", "tick"} => npend["ended"] = inflight
  /\ \A s \in Signal : pc[s] \in {"idle", "lock", "tick", "write", "done"}

\* A terminal snapshot is on its way or has been delivered.
Settled == finalized /\ ~Locked /\ disk # "none" /\ snap # NoSnap

\* The final lock and the order finalize, write, close, exit.
FinalInv ==
  /\ \A t, u \in Task :
       pc[t] \in {"tick", "write"} /\ pc[u] \in {"tick", "write"} => t = u
  /\ ~finalized => ~Locked /\ snap = NoSnap
  /\ finalized => Locked \/ Settled
  /\ \A t \in Task : /\ pc[t] = "tick" => snap = NoSnap /\ tick = "cancelled"
                     /\ pc[t] = "write" => snap # NoSnap
                     /\ pc[t] \in {"closing", "done"} => Settled
  /\ shutdown => Settled
  /\ main # "waiting" => shutdown

\* Once finalizing has begun after STARTED no tick task runs.
WireInv ==
  /\ snap = NoSnap \/ Locked => sent \cap Terminal = {}
  /\ snap # NoSnap /\ snap.at # "initialize" => tick # "running" /\ seen # "none"

IInv ==
  /\ TypeOK
  /\ PendingIsExact
  /\ QueueInv
  /\ EndedInv
  /\ CompleteIsTruthful
  /\ FinalInv
  /\ WireInv
  /\ TerminalFrameIsLastOnceStarted

=============================================================================
