---------------------- MODULE MetricsAggregator_proofs ----------------------
(***************************************************************************)
(* Machine-checked proofs about MetricsAggregator, for every number of     *)
(* token counts and SIGTERMs and every configuration.  PublishFinal is     *)
(* shared by five actions: its effect on the publisher's part of the       *)
(* invariant is proved once (PublishStep).                                 *)
(***************************************************************************)
EXTENDS MetricsAggregator, FiniteSetTheorems, TLAPS

\* The invariant, split into the part about the session's events and the
\* token queue, and the publisher's part.
CoreInv ==
  /\ RecordTypes /\ QueueTypes
  /\ PendingIsExact
  /\ QueueInv /\ EndedInv

PubInv ==
  /\ TaskTypes /\ WireTypes
  /\ FinalInv /\ WireInv
  /\ TerminalFrameIsLastOnceStarted
  /\ CompleteIsTruthful

-----------------------------------------------------------------------------
\* Sets of items are finite.
LEMMA ItemsFinite ==
  ASSUME NEW S \in SUBSET Item
  PROVE  IsFiniteSet(S) /\ Cardinality(S) \in Nat
<1>1. IsFiniteSet(S)
  BY AggregatorAssumption, FS_Subset
<1> QED
  BY <1>1, FS_CardinalityType

\* Recording items that were pending takes each of them off the count once.
LEMMA RecordCounts ==
  ASSUME QueueTypes, PendingIsExact, UNCHANGED arrived,
         NEW counted \in SUBSET (arrived \ recorded), Record(counted)
  PROVE  /\ PendingIsExact' /\ inflight' \in Nat
         /\ recorded' \in SUBSET Item
         /\ arrived' \ recorded' = (arrived \ recorded) \ counted
         /\ recorded \subseteq arrived => recorded' \subseteq arrived'
<1> DEFINE S == arrived \ recorded
<1>1. S \in SUBSET Item /\ counted \in SUBSET Item
  BY DEF QueueTypes
<1>2. IsFiniteSet(S) /\ S \cap counted = counted
  BY <1>1, ItemsFinite
<1>3. Cardinality(S \ counted) = Cardinality(S) - Cardinality(counted)
  BY <1>2, FS_Difference
<1>4. arrived' \ recorded' = S \ counted
  BY DEF Record
<1>5. recorded' \in SUBSET Item
  BY <1>1 DEF Record, QueueTypes
<1>6. S \ counted \in SUBSET Item
  BY <1>1
<1>7. Cardinality(S \ counted) \in Nat
  BY <1>6, ItemsFinite
<1>8. inflight' = Cardinality(S \ counted)
  BY <1>3 DEF Record, PendingIsExact
<1> QED
  BY <1>4, <1>5, <1>7, <1>8 DEF PendingIsExact, Record

\* Enqueuing a new item counts it once.
LEMMA EnqueueCounts ==
  ASSUME QueueTypes, PendingIsExact, recorded \subseteq arrived,
         NEW i \in Item, OnSample(i)
  PROVE  PendingIsExact' /\ inflight' \in Nat
         /\ arrived' \ recorded' = (arrived \ recorded) \cup {i}
<1> DEFINE S == arrived \ recorded
<1>1. S \in SUBSET Item /\ i \notin S
  BY DEF QueueTypes, OnSample
<1>2. IsFiniteSet(S)
  BY <1>1, ItemsFinite
<1>3. Cardinality(S \cup {i}) = Cardinality(S) + 1
  BY <1>1, <1>2, FS_AddElement
<1>4. arrived' \ recorded' = S \cup {i}
  BY DEF OnSample
<1>5. inflight' = inflight + 1
  BY DEF OnSample
<1> QED
  BY <1>3, <1>4, <1>5 DEF PendingIsExact, QueueTypes

-----------------------------------------------------------------------------
\* A built snapshot has its type and is not the absent one.
LEMMA SnapshotTyped ==
  ASSUME NEW r \in Snapshot
  PROVE  r # NoSnap /\ r.state \in Terminal
  BY DEF Snapshot, NoSnap, Terminal

\* What a task does that leaves publish_final().
LEMMA ReturnedOutcome ==
  ASSUME TaskTypes, NEW t \in Task, Returned(t)
  PROVE  \/ /\ pc' = [pc EXCEPT ![t] = "done"] /\ shutdown' = TRUE
            /\ closed' \in BOOLEAN /\ tick' = tick
         \/ /\ pc' = [pc EXCEPT ![t] = "closing"] /\ shutdown' = shutdown
            /\ closed' \in BOOLEAN /\ tick' = "cancelled" /\ t = "ended"
  BY DEF Returned, Close, Goes, TaskTypes

\* What a task does that calls publish_final().
LEMMA PublishOutcome ==
  ASSUME TaskTypes, NEW t \in Task, NEW n, PublishFinal(t, n)
  PROVE  /\ npend' = [npend EXCEPT ![t] = n]
         /\ \/ /\ Locked /\ pc' = [pc EXCEPT ![t] = "lock"]
               /\ UNCHANGED <<tick, finalized, snap, closed, shutdown>>
            \/ /\ ~Locked /\ finalized /\ UNCHANGED <<finalized, snap>>
               /\ Returned(t)
            \/ /\ ~Locked /\ ~finalized /\ finalized' = TRUE
               /\ UNCHANGED <<closed, shutdown>>
               /\ tick = "none" /\ tick' = tick
               /\ Build(t, n)
            \/ /\ ~Locked /\ ~finalized /\ finalized' = TRUE
               /\ UNCHANGED <<closed, shutdown>>
               /\ tick # "none" /\ tick' = "cancelled" /\ snap' = snap
               /\ pc' = [pc EXCEPT ![t] = "tick"]
  BY DEF PublishFinal, Finalize, Goes

\* Where the caller of publish_final() is afterwards.
LEMMA PublishGoes ==
  ASSUME TaskTypes, NEW t \in Task, NEW n \in Nat, PublishFinal(t, n)
  PROVE  \E w \in {"lock", "tick", "write", "closing", "done"} :
           pc' = [pc EXCEPT ![t] = w] /\ (w = "closing" => t = "ended")
  BY PublishOutcome, ReturnedOutcome DEF Build, Goes

\* build_snapshot() of a task whose pending count is exact.
LEMMA BuildTyped ==
  ASSUME NEW t \in Task, NEW n \in Nat, Build(t, n),
         recorded' \in SUBSET Item,
         sessionState' \in {"initialize", "live", "draining"}
  PROVE  /\ snap' \in Snapshot /\ snap' # NoSnap
         /\ snap'.at = sessionState'
         /\ snap'.state = "complete" =>
              t = "ended" /\ ~interrupted /\ snap'.pending = n
                          /\ snap'.recorded = recorded'
<1>1. snap' \in Snapshot
  BY DEF Build, Snapshot, Terminal
<1> QED
  BY <1>1, SnapshotTyped DEF Build

-----------------------------------------------------------------------------
\* A task moves without touching the final lock.
LEMMA LockKept ==
  ASSUME TaskTypes, NEW t \in Task, NEW w, w \notin {"tick", "write"},
         pc[t] \notin {"tick", "write"}, pc' = [pc EXCEPT ![t] = w]
  PROVE  /\ Locked' <=> Locked
         /\ \A u \in Task : pc'[u] \in {"tick", "write"} => pc'[u] = pc[u]
         /\ \A u \in Task : pc[u] \in {"tick", "write"} => pc'[u] = pc[u]
<1>1. \A u \in Task : pc'[u] = IF u = t THEN w ELSE pc[u]
  BY DEF TaskTypes
<1>2. \A u \in Task : pc'[u] \in {"tick", "write"} <=> pc[u] \in {"tick", "write"}
  BY <1>1
<1> QED
  BY <1>1, <1>2 DEF Locked

\* A task that is not finalizing moves on to a place where it is not either.
LEMMA MoveStep ==
  ASSUME PubInv, NEW t \in Task,
         NEW w \in {"stopping", "draining", "verdict", "lock"},
         pc[t] \notin {"tick", "write"}, pc' = [pc EXCEPT ![t] = w],
         npend' \in [Task -> Nat],
         UNCHANGED <<tick, finalized, snap, closed, shutdown>>,
         UNCHANGED <<wireVars, main, interrupted, arrived>>,
         seen # "none" => seen' # "none", seen = "ended" => seen' = "ended"
  PROVE  PubInv'
<1> USE DEF PubInv
<1>1. TaskTypes' /\ WireTypes'
  <2>1. pc' \in [Task -> {"idle", "stopping", "draining", "verdict", "lock", "tick",
                      "write", "closing", "done"}]
    BY DEF TaskTypes
  <2> QED
    BY <2>1 DEF TaskTypes, WireTypes, wireVars
<1>2. /\ Locked' <=> Locked
      /\ \A u \in Task : pc'[u] \in {"tick", "write"} => pc'[u] = pc[u]
      /\ \A u \in Task : u # t => pc'[u] = pc[u]
      /\ pc'[t] = w
  BY LockKept DEF TaskTypes
<1>3. FinalInv'
  BY <1>2 DEF FinalInv, Settled, wireVars
<1>4. WireInv' /\ TerminalFrameIsLastOnceStarted' /\ CompleteIsTruthful'
  BY <1>2 DEF WireInv, TerminalFrameIsLastOnceStarted, TerminalFrameIsLast,
              CompleteIsTruthful, wireVars
<1> QED
  BY <1>1, <1>3, <1>4

\* publish_final() preserves the publisher's part of the invariant.  The
\* caller has not been in it before, passes the exact pending count if it is
\* the ENDED path, and changes nothing else of the publisher's in that step.
LEMMA PublishStep ==
  ASSUME PubInv, NEW t \in Task, NEW n \in Nat,
         pc[t] \in {"idle", "stopping", "draining", "verdict", "lock"},
         PublishFinal(t, n),
         UNCHANGED <<wireVars, main, interrupted, arrived>>,
         recorded' \in SUBSET Item,
         sessionState' \in {"initialize", "live", "draining"},
         seen' = "none" <=> sessionState' = "initialize",
         seen # "none" => seen' # "none", seen = "ended" => seen' = "ended",
         t = "ended" => seen' = "ended" /\ n = Cardinality(arrived' \ recorded')
  PROVE  PubInv'
<1> USE DEF PubInv
<1>0. npend' \in [Task -> Nat]
  <2>1. npend' = [npend EXCEPT ![t] = n]
    BY PublishOutcome
  <2> QED
    BY <2>1 DEF TaskTypes
<1>1. CASE /\ Locked /\ pc' = [pc EXCEPT ![t] = "lock"]
           /\ UNCHANGED <<tick, finalized, snap, closed, shutdown>>
  BY <1>0, <1>1, MoveStep
<1>2. CASE ~Locked /\ finalized /\ UNCHANGED <<finalized, snap>> /\ Returned(t)
  <2>1. PICK w \in {"done", "closing"} : pc' = [pc EXCEPT ![t] = w]
    BY <1>2, ReturnedOutcome
  <2>2. /\ shutdown' \in BOOLEAN /\ closed' \in BOOLEAN
        /\ tick' \in {tick, "cancelled"} /\ (shutdown => shutdown')
    BY <1>2, ReturnedOutcome DEF TaskTypes
  <2>3. TaskTypes' /\ WireTypes'
    BY <1>2, <2>1, <2>2, <1>0 DEF TaskTypes, WireTypes, wireVars
  <2>4. /\ ~Locked' /\ pc'[t] = w
        /\ \A u \in Task : pc'[u] \notin {"tick", "write"}
    BY <1>2, <2>1, LockKept DEF TaskTypes, Locked
  <2>5. Settled /\ Settled'
    BY <1>2, <2>4 DEF FinalInv, Settled, wireVars
  <2>6. FinalInv'
    <3>1. finalized' /\ (main' # "waiting" => shutdown')
      BY <1>2, <2>2 DEF FinalInv, wireVars
    <3> QED
      BY <2>4, <2>5, <3>1 DEF FinalInv
  <2>7. WireInv' /\ TerminalFrameIsLastOnceStarted' /\ CompleteIsTruthful'
    BY <1>2, <2>2, <2>4, <2>5 DEF WireInv, TerminalFrameIsLastOnceStarted,
       TerminalFrameIsLast, CompleteIsTruthful, wireVars, Settled
  <2> QED
    BY <2>3, <2>6, <2>7
<1>3. CASE /\ ~Locked /\ ~finalized /\ finalized' = TRUE
           /\ UNCHANGED <<closed, shutdown>>
           /\ tick = "none" /\ tick' = tick
           /\ Build(t, n)
  <2>1. /\ snap' \in Snapshot /\ snap' # NoSnap
        /\ snap'.at = sessionState'
        /\ snap'.state = "complete" =>
              t = "ended" /\ ~interrupted /\ snap'.pending = n
                          /\ snap'.recorded = recorded'
    BY <1>3, BuildTyped
  <2>2. pc' = [pc EXCEPT ![t] = "write"]
    BY <1>3 DEF Build, Goes
  <2>3. TaskTypes' /\ WireTypes'
    BY <1>3, <2>1, <2>2, <1>0 DEF TaskTypes, WireTypes, wireVars
  <2>4. /\ pc'[t] = "write" /\ Locked'
        /\ \A u \in Task : u # t => pc'[u] = pc[u] /\ pc[u] \notin {"tick", "write"}
    BY <1>3, <2>2 DEF TaskTypes, Locked
  <2>5. ~Settled /\ ~shutdown /\ snap = NoSnap
    BY <1>3 DEF FinalInv, Settled
  <2>6. FinalInv'
    BY <1>3, <2>1, <2>4, <2>5 DEF FinalInv
  <2>7. sent' \cap Terminal = {}
    BY <2>5 DEF WireInv, wireVars
  <2>8. WireInv' /\ TerminalFrameIsLastOnceStarted'
    BY <1>3, <2>1, <2>4, <2>7 DEF WireInv, TerminalFrameIsLastOnceStarted,
                                  TerminalFrameIsLast
  <2>9. CompleteIsTruthful'
    BY <2>1 DEF CompleteIsTruthful
  <2> QED
    BY <2>3, <2>6, <2>8, <2>9
<1>4. CASE /\ ~Locked /\ ~finalized /\ finalized' = TRUE
           /\ UNCHANGED <<closed, shutdown>>
           /\ tick # "none" /\ tick' = "cancelled" /\ snap' = snap
           /\ pc' = [pc EXCEPT ![t] = "tick"]
  <2>1. TaskTypes' /\ WireTypes'
    BY <1>4, <1>0 DEF TaskTypes, WireTypes, wireVars
  <2>2. /\ pc'[t] = "tick" /\ Locked'
        /\ \A u \in Task : u # t => pc'[u] = pc[u] /\ pc[u] \notin {"tick", "write"}
    BY <1>4 DEF TaskTypes, Locked
  <2>3. ~Settled /\ ~shutdown /\ snap = NoSnap
    BY <1>4 DEF FinalInv, Settled
  <2>4. FinalInv'
    BY <1>4, <2>2, <2>3 DEF FinalInv
  <2>5. sent' \cap Terminal = {}
    BY <2>3 DEF WireInv, wireVars
  <2>6. NoSnap.state # "complete" /\ NoSnap.state \notin Terminal
    BY DEF NoSnap, Terminal
  <2>7. WireInv' /\ TerminalFrameIsLastOnceStarted' /\ CompleteIsTruthful'
    BY <1>4, <2>3, <2>5, <2>6 DEF WireInv, TerminalFrameIsLastOnceStarted,
                                  TerminalFrameIsLast, CompleteIsTruthful
  <2> QED
    BY <2>1, <2>4, <2>7
<1> QED
  BY <1>1, <1>2, <1>3, <1>4, PublishOutcome

-----------------------------------------------------------------------------
\* The publisher's part of the invariant does not depend on the queue, and on
\* the session's events only through these facts.
LEMMA PubKept ==
  ASSUME PubInv, UNCHANGED <<taskVars, wireVars, main>>,
         seen # "none" => seen' # "none",
         seen = "ended" => UNCHANGED <<seen, interrupted, arrived>>
  PROVE  PubInv'
<1> USE DEF PubInv
<1>1. TaskTypes' /\ WireTypes'
  BY DEF TaskTypes, WireTypes, taskVars, wireVars
<1>2. FinalInv'
  BY DEF FinalInv, Settled, Locked, taskVars, wireVars
<1>3. WireInv' /\ TerminalFrameIsLastOnceStarted'
  BY DEF WireInv, Locked, TerminalFrameIsLastOnceStarted, TerminalFrameIsLast,
         taskVars, wireVars
<1>4. CompleteIsTruthful'
  BY DEF CompleteIsTruthful, taskVars
<1> QED
  BY <1>1, <1>2, <1>3, <1>4

\* The write thread ended.
LEMMA WriteStep ==
  ASSUME PubInv, NEW t \in Task, WriteEnds(t)
  PROVE  PubInv'
<1> USE DEF PubInv
<1>1. PICK w \in {"done", "closing"} : pc' = [pc EXCEPT ![t] = w]
  <2>1. Returned(t)
    BY DEF WriteEnds
  <2> QED
    BY <2>1, ReturnedOutcome
<1>2. /\ shutdown' \in BOOLEAN /\ closed' \in BOOLEAN
      /\ tick' \in {tick, "cancelled"} /\ (shutdown => shutdown')
  <2>1. Returned(t)
    BY DEF WriteEnds
  <2> QED
    BY <2>1, ReturnedOutcome DEF TaskTypes
<1>3. /\ UNCHANGED <<npend, finalized, snap, main, seen, interrupted, arrived>>
      /\ disk' \in {"written", "failed"} /\ pc[t] = "write"
  BY DEF WriteEnds, recordVars, queueVars
<1>4. snap \in Snapshot /\ snap # NoSnap /\ snap.state \in Terminal
  BY <1>3, SnapshotTyped DEF FinalInv, TaskTypes
<1>5. \/ UNCHANGED <<wire, sent>>
      \/ wire' = snap.state /\ sent' = sent \cup {snap.state}
  BY DEF WriteEnds, Publish
<1>6. TaskTypes' /\ WireTypes'
  <2>1. pc' \in [Task -> {"idle", "stopping", "draining", "verdict", "lock", "tick",
                      "write", "closing", "done"}]
    BY <1>1 DEF TaskTypes
  <2>2. TaskTypes'
    BY <1>2, <1>3, <2>1 DEF TaskTypes
  <2>3. WireTypes'
    BY <1>3, <1>4, <1>5 DEF WireTypes
  <2> QED
    BY <2>2, <2>3
<1>7. \A u \in Task : pc'[u] \notin {"tick", "write"}
  BY <1>1, <1>3 DEF TaskTypes, FinalInv
<1>8. ~Locked'
  BY <1>7 DEF Locked
<1>9. finalized
  BY <1>3 DEF FinalInv, Locked
<1>10. Settled'
  BY <1>3, <1>4, <1>8, <1>9 DEF Settled
<1>11. FinalInv'
  BY <1>2, <1>3, <1>7, <1>10, <1>9 DEF FinalInv
<1>12. sent \cap Terminal = {}
  BY <1>3 DEF WireInv, Locked
<1>13. WireInv'
  BY <1>2, <1>3, <1>4, <1>8 DEF WireInv
<1>14. TerminalFrameIsLastOnceStarted'
  BY <1>4, <1>5, <1>12 DEF TerminalFrameIsLastOnceStarted, TerminalFrameIsLast
<1>15. CompleteIsTruthful'
  BY <1>3 DEF CompleteIsTruthful
<1> QED
  BY <1>6, <1>11, <1>13, <1>14, <1>15

\* The cancelled tick task ended and the snapshot is built.
LEMMA TickStep ==
  ASSUME PubInv, RecordTypes, QueueTypes, PendingIsExact, EndedInv,
         NEW t \in Task, TickStopped(t)
  PROVE  PubInv'
<1> USE DEF PubInv
<1>1. /\ pc[t] = "tick" /\ tick' = "none" /\ Build(t, npend[t])
      /\ UNCHANGED <<npend, finalized, closed, shutdown, main, disk, wire, sent>>
      /\ UNCHANGED <<seen, interrupted, sessionState, arrived, recorded>>
  BY DEF TickStopped, wireVars, recordVars, queueVars
<1>2. /\ snap' \in Snapshot /\ snap' # NoSnap
      /\ snap'.at = sessionState'
      /\ snap'.state = "complete" =>
            t = "ended" /\ ~interrupted /\ snap'.pending = npend[t]
                        /\ snap'.recorded = recorded'
  <2>1. npend[t] \in Nat /\ recorded' \in SUBSET Item
        /\ sessionState' \in {"initialize", "live", "draining"}
    BY <1>1 DEF TaskTypes, QueueTypes, RecordTypes
  <2> QED
    BY <1>1, <2>1, BuildTyped
<1>3. pc' = [pc EXCEPT ![t] = "write"]
  BY <1>1 DEF Build, Goes
<1>4. TaskTypes' /\ WireTypes'
  BY <1>1, <1>2, <1>3 DEF TaskTypes, WireTypes
<1>5. /\ pc'[t] = "write" /\ Locked' /\ Locked /\ snap = NoSnap
      /\ \A u \in Task : u # t => pc'[u] = pc[u] /\ pc[u] \notin {"tick", "write"}
  BY <1>1, <1>3 DEF TaskTypes, Locked, FinalInv
<1>6. ~Settled /\ ~shutdown /\ finalized
  BY <1>5 DEF FinalInv, Settled
<1>7. FinalInv'
  BY <1>1, <1>2, <1>5, <1>6 DEF FinalInv
<1>8. sent' \cap Terminal = {}
  BY <1>1, <1>5 DEF WireInv
<1>9. WireInv' /\ TerminalFrameIsLastOnceStarted'
  BY <1>1, <1>2, <1>5, <1>8 DEF WireInv, TerminalFrameIsLastOnceStarted,
                                TerminalFrameIsLast, EndedInv
<1>10. CompleteIsTruthful'
  BY <1>1, <1>2 DEF CompleteIsTruthful, EndedInv, PendingIsExact
<1> QED
  BY <1>4, <1>7, <1>9, <1>10

-----------------------------------------------------------------------------
\* The places a task reaches through publish_final(), and the one before it.
FinalPlaces == {"verdict", "lock", "tick", "write", "closing", "done"}

\* A step in which one finalizing task moves on and the queue is left alone.
LEMMA CoreMoves ==
  ASSUME CoreInv, TaskTypes, UNCHANGED <<recordVars, queueVars>>,
         NEW t \in Task, NEW w \in FinalPlaces,
         pc' = [pc EXCEPT ![t] = w],
         t = "ended" => pc[t] \notin {"idle", "stopping"},
         t = "ended" /\ w \in {"verdict", "lock", "tick"} =>
           npend'["ended"] = inflight,
         t # "ended" => w \notin {"verdict", "closing"}
                        /\ npend'["ended"] = npend["ended"]
  PROVE  CoreInv'
<1> USE DEF CoreInv
<1>1. RecordTypes' /\ QueueTypes' /\ PendingIsExact'
  BY DEF RecordTypes, QueueTypes, PendingIsExact, recordVars, queueVars
<1>2. /\ pc'["ended"] = IF t = "ended" THEN w ELSE pc["ended"]
      /\ \A s \in Signal : pc'[s] = IF t = s THEN w ELSE pc[s]
      /\ "ended" \notin Signal
  BY AggregatorAssumption DEF TaskTypes, Task
<1>3. QueueInv'
  BY <1>2 DEF QueueInv, queueVars, FinalPlaces
<1>4. EndedInv'
  BY <1>2 DEF EndedInv, queueVars, recordVars, FinalPlaces
<1> QED
  BY <1>1, <1>3, <1>4

\* The ENDED path after the flush: on to the analysis or to publish_final().
LEMMA FlushedStep ==
  ASSUME PubInv, NEW n \in Nat, Flushed(n),
         pc["ended"] \in {"idle", "stopping", "draining", "verdict", "lock"},
         UNCHANGED <<wireVars, main, interrupted, arrived>>,
         recorded' \in SUBSET Item,
         sessionState' \in {"initialize", "live", "draining"},
         seen' = "none" <=> sessionState' = "initialize",
         seen' = "ended", n = Cardinality(arrived' \ recorded')
  PROVE  /\ PubInv'
         /\ npend' = [npend EXCEPT !["ended"] = n]
         /\ \E w \in FinalPlaces : pc' = [pc EXCEPT !["ended"] = w]
<1>0. "ended" \in Task
  BY DEF Task
<1>1. CASE NeedsVerdict(n)
  <2>1. /\ pc' = [pc EXCEPT !["ended"] = "verdict"]
        /\ npend' = [npend EXCEPT !["ended"] = n]
        /\ UNCHANGED <<tick, finalized, snap, closed, shutdown>>
    BY <1>1 DEF Flushed, Goes
  <2>2. npend' \in [Task -> Nat]
    BY <2>1 DEF PubInv, TaskTypes
  <2>3. PubInv'
    BY <1>0, <2>1, <2>2, MoveStep
  <2> QED
    BY <2>1, <2>3 DEF FinalPlaces
<1>2. CASE PublishFinal("ended", n)
  <2>1. PubInv'
    BY <1>0, <1>2, PublishStep
  <2>2. npend' = [npend EXCEPT !["ended"] = n]
    BY <1>0, <1>2, PublishOutcome DEF PubInv
  <2>3. \E w \in FinalPlaces : pc' = [pc EXCEPT !["ended"] = w]
    BY <1>0, <1>2, PublishGoes DEF PubInv, FinalPlaces
  <2> QED
    BY <2>1, <2>2, <2>3
<1> QED
  BY <1>1, <1>2 DEF Flushed

\* The queue's part of the invariant once the buffer has gone to the drain or
\* the drain has ended.
LEMMA CoreAfterFlush ==
  ASSUME TaskTypes, EndedInv, RecordTypes', QueueTypes', PendingIsExact',
         recorded' \subseteq arrived', arrived' \ recorded' = drain',
         items' = {}, batch' = {}, live' = "none",
         seen' = "ended", sessionState' = "draining",
         NEW w \in FinalPlaces \cup {"draining"},
         pc' = [pc EXCEPT !["ended"] = w],
         w # "draining" => npend'["ended"] = inflight'
  PROVE  CoreInv'
<1>1. /\ pc'["ended"] = w
      /\ \A s \in Signal : pc'[s] = pc[s]
  BY AggregatorAssumption DEF TaskTypes, Task
<1>2. QueueInv'
  BY <1>1 DEF QueueInv, FinalPlaces
<1>3. EndedInv'
  BY <1>1 DEF EndedInv, FinalPlaces
<1> QED
  BY <1>2, <1>3 DEF CoreInv

\* flush_remaining() once the live loop is gone: everything unrecorded goes to
\* the drain, or there is nothing.
LEMMA FlushRestStep ==
  ASSUME CoreInv, PubInv, pc["ended"] \in {"idle", "stopping"},
         NEW rest, rest = items \cup batch, FlushRest(rest),
         UNCHANGED <<wireVars, main, interrupted>>, live' = "none",
         seen' = "ended", sessionState' = "draining"
  PROVE  CoreInv' /\ PubInv'
<1> USE DEF CoreInv
<1>1. /\ UNCHANGED <<arrived, inflight, recorded>> /\ batch' = {}
      /\ drain = {} /\ arrived \ recorded = rest /\ rest \in SUBSET Item
      /\ recorded \subseteq arrived
  BY DEF FlushRest, QueueInv, QueueTypes
<1>2. PendingIsExact' /\ RecordTypes'
  BY <1>1 DEF PendingIsExact, RecordTypes
<1>3. CASE inflight = 0 \/ rest = {}
  <2>1. rest = {}
    <3>1. IsFiniteSet(rest) /\ inflight = Cardinality(rest)
      BY <1>1, ItemsFinite DEF PendingIsExact
    <3> QED
      BY <1>3, <3>1, FS_EmptySet
  <2>2. items' = {} /\ drain' = {} /\ Flushed(inflight)
    BY <1>1, <1>3, <2>1 DEF FlushRest
  <2>3. inflight \in Nat /\ inflight = Cardinality(arrived' \ recorded')
        /\ recorded' \in SUBSET Item
    BY <1>1 DEF PendingIsExact, QueueTypes
  <2>4. UNCHANGED <<wireVars, main, interrupted, arrived>>
    BY <1>1
  <2>5. /\ PubInv'
        /\ npend' = [npend EXCEPT !["ended"] = inflight]
        /\ \E w \in FinalPlaces : pc' = [pc EXCEPT !["ended"] = w]
    BY <2>2, <2>3, <2>4, FlushedStep
  <2>6. PICK w \in FinalPlaces : pc' = [pc EXCEPT !["ended"] = w]
    BY <2>5
  <2>7. npend'["ended"] = inflight'
    BY <1>1, <2>5 DEF PubInv, TaskTypes, Task
  <2>8. QueueTypes'
    BY <1>1, <2>2 DEF QueueTypes
  <2>9. arrived' \ recorded' = drain' /\ recorded' \subseteq arrived'
    BY <1>1, <2>1, <2>2
  <2>10. TaskTypes
    BY DEF PubInv
  <2>11. CoreInv'
    BY <1>1, <1>2, <2>2, <2>6, <2>7, <2>8, <2>9, <2>10, CoreAfterFlush
  <2> QED
    BY <2>5, <2>11
<1>4. CASE ~(inflight = 0 \/ rest = {})
  <2>1. /\ items' = {} /\ drain' = rest
        /\ pc' = [pc EXCEPT !["ended"] = "draining"]
        /\ UNCHANGED <<npend, tick, finalized, snap, closed, shutdown>>
    BY <1>4 DEF FlushRest, Goes
  <2>2. TaskTypes /\ npend' \in [Task -> Nat] /\ "ended" \in Task
    BY <2>1 DEF PubInv, TaskTypes, Task
  <2>3. UNCHANGED <<wireVars, main, interrupted, arrived>>
    BY <1>1
  <2>4. PubInv'
    BY <2>1, <2>2, <2>3, MoveStep
  <2>5. QueueTypes'
    BY <1>1, <2>1 DEF QueueTypes
  <2>6. CoreInv'
    BY <1>1, <1>2, <2>1, <2>2, <2>5, CoreAfterFlush
  <2> QED
    BY <2>4, <2>6
<1> QED
  BY <1>3, <1>4

\* drain_all() returns, with or without the counts.
LEMMA DrainStep ==
  ASSUME CoreInv, PubInv, DrainCounted \/ DrainTimesOut
  PROVE  CoreInv' /\ PubInv'
<1> USE DEF CoreInv
<1>1. /\ pc["ended"] = "draining" /\ seen = "ended" /\ sessionState = "draining"
      /\ UNCHANGED <<recordVars, wireVars, main, arrived, items, live, batch>>
  BY DEF DrainCounted, DrainTimesOut, queueVars, EndedInv
<1>2. /\ live = "none" /\ items = {} /\ batch = {}
      /\ arrived \ recorded = drain /\ recorded \subseteq arrived
  BY <1>1 DEF QueueInv
<1>3. RecordTypes' /\ TaskTypes
  BY <1>1 DEF RecordTypes, recordVars, PubInv
<1>4. /\ Flushed(inflight') /\ PendingIsExact' /\ QueueTypes'
      /\ arrived' \ recorded' = drain' /\ recorded' \subseteq arrived'
  <2>1. CASE DrainCounted
    <3>1. PICK failed \in SUBSET drain :
            Record(drain \ failed) /\ drain' = failed /\ Flushed(inflight')
      BY <2>1 DEF DrainCounted
    <3>2. drain \ failed \in SUBSET (arrived \ recorded)
      BY <1>2
    <3>3. /\ PendingIsExact' /\ inflight' \in Nat
          /\ recorded' \in SUBSET Item
          /\ arrived' \ recorded' = (arrived \ recorded) \ (drain \ failed)
          /\ recorded' \subseteq arrived'
      BY <1>1, <1>2, <3>1, <3>2, RecordCounts
    <3>4. QueueTypes'
      BY <1>1, <3>1, <3>3 DEF QueueTypes
    <3> QED
      BY <1>2, <3>1, <3>3, <3>4
  <2>2. CASE DrainTimesOut
    BY <1>2, <2>2 DEF DrainTimesOut, PendingIsExact, QueueTypes, queueVars
  <2> QED
    BY <2>1, <2>2
<1>5. /\ inflight' \in Nat /\ inflight' = Cardinality(arrived' \ recorded')
      /\ recorded' \in SUBSET Item
      /\ sessionState' \in {"initialize", "live", "draining"}
      /\ sessionState' = "draining" /\ seen' = "ended"
      /\ UNCHANGED <<wireVars, main, interrupted, arrived>>
  BY <1>1, <1>3, <1>4 DEF PendingIsExact, QueueTypes, RecordTypes, recordVars
<1>6. /\ PubInv'
      /\ npend' = [npend EXCEPT !["ended"] = inflight']
      /\ \E w \in FinalPlaces : pc' = [pc EXCEPT !["ended"] = w]
  BY <1>1, <1>4, <1>5, FlushedStep
<1>7. PICK w \in FinalPlaces : pc' = [pc EXCEPT !["ended"] = w]
  BY <1>6
<1>8. npend'["ended"] = inflight'
  BY <1>3, <1>6 DEF TaskTypes, Task
<1>9. CoreInv'
  BY <1>1, <1>2, <1>3, <1>4, <1>5, <1>7, <1>8, CoreAfterFlush
<1> QED
  BY <1>6, <1>9

\* The steps of the live flush loop.
LEMMA LiveStep ==
  ASSUME CoreInv, LiveFlush \/ LiveCounted
  PROVE  CoreInv'
<1> USE DEF CoreInv
<1>1. /\ live \in {"sleeping", "counting"} /\ pc["ended"] = "idle" /\ drain = {}
      /\ UNCHANGED <<recordVars, taskVars, arrived, drain>>
  BY DEF LiveFlush, LiveCounted, QueueInv
<1>2. RecordTypes' /\ EndedInv'
  BY <1>1 DEF RecordTypes, EndedInv, recordVars, taskVars
<1>3. CASE LiveFlush
  <2>1. PICK chosen \in SUBSET items : batch' = chosen /\ items' = items \ chosen
    BY <1>3 DEF LiveFlush
  <2>2. live' = "counting" /\ batch = {} /\ UNCHANGED <<inflight, recorded>>
    BY <1>3 DEF LiveFlush, QueueInv
  <2>3. QueueTypes' /\ PendingIsExact'
    BY <1>1, <2>1, <2>2 DEF QueueTypes, PendingIsExact
  <2>4. QueueInv'
    BY <1>1, <2>1, <2>2 DEF QueueInv, taskVars
  <2> QED
    BY <1>2, <2>3, <2>4
<1>4. CASE LiveCounted
  <2>1. PICK failed \in SUBSET batch :
          Record(batch \ failed) /\ items' = items \cup failed
    BY <1>4 DEF LiveCounted, Requeued
  <2>2. batch' = {} /\ live' = "sleeping"
    BY <1>4 DEF LiveCounted
  <2>3. batch \ failed \in SUBSET (arrived \ recorded) /\ arrived' = arrived
    BY <1>1 DEF QueueInv
  <2>4. /\ PendingIsExact' /\ inflight' \in Nat
        /\ recorded' \in SUBSET Item
        /\ arrived' \ recorded' = (arrived \ recorded) \ (batch \ failed)
        /\ recorded \subseteq arrived => recorded' \subseteq arrived'
    BY <2>1, <2>3, RecordCounts
  <2>5. QueueTypes'
    BY <1>1, <2>1, <2>2, <2>4 DEF QueueTypes
  <2>6. arrived' \ recorded' = items' \cup batch' \cup drain'
    BY <1>1, <2>1, <2>2, <2>4 DEF QueueInv
  <2>7. QueueInv'
    BY <1>1, <2>2, <2>4, <2>6 DEF QueueInv, taskVars
  <2> QED
    BY <1>2, <2>4, <2>5, <2>7
<1> QED
  BY <1>3, <1>4

\* Events that do not end the run.
LEMMA EventStep ==
  ASSUME CoreInv, OnStarted \/ OnInterrupted \/ \E i \in Item : OnSample(i)
  PROVE  CoreInv'
<1> USE DEF CoreInv
<1>1. CASE OnStarted
  <2>1. /\ pc["ended"] = "idle" /\ seen' = "started" /\ sessionState' = "live"
        /\ UNCHANGED <<interrupted, arrived, items, inflight, recorded, batch,
                       drain, pc, npend>>
        /\ live' \in {live, "sleeping"} /\ seen = "none"
    BY <1>1 DEF OnStarted, EndedInv
  <2>2. batch = {}
    BY <2>1 DEF QueueInv, EndedInv
  <2> QED
    BY <2>1, <2>2 DEF RecordTypes, QueueTypes, PendingIsExact, QueueInv, EndedInv
<1>2. CASE OnInterrupted
  BY <1>2 DEF OnInterrupted, RecordTypes, QueueTypes, PendingIsExact, QueueInv,
              EndedInv, queueVars, taskVars
<1>3. ASSUME NEW i \in Item, OnSample(i)
      PROVE  CoreInv'
  <2>1. /\ pc["ended"] = "idle" /\ arrived' = arrived \cup {i}
        /\ items' = items \cup {i} /\ i \notin arrived
        /\ UNCHANGED <<recordVars, recorded, live, batch, drain, pc, npend>>
    BY <1>3 DEF OnSample, EndedInv, taskVars
  <2>2. PendingIsExact' /\ inflight' \in Nat
        /\ arrived' \ recorded' = (arrived \ recorded) \cup {i}
    BY <1>3, EnqueueCounts DEF QueueInv
  <2>3. QueueTypes' /\ RecordTypes'
    BY <2>1, <2>2 DEF QueueTypes, RecordTypes, recordVars
  <2>4. i \notin batch
    BY <2>1 DEF QueueInv
  <2>5. QueueInv'
    BY <2>1, <2>2, <2>4 DEF QueueInv
  <2>6. EndedInv'
    BY <2>1 DEF EndedInv, recordVars
  <2> QED
    BY <2>2, <2>3, <2>5, <2>6
<1> QED
  BY <1>1, <1>2, <1>3

-----------------------------------------------------------------------------
\* STARTED may start a tick task; it cannot once a finalization that began
\* after STARTED has been recorded.
LEMMA StartedStep ==
  ASSUME CoreInv, PubInv, OnStarted
  PROVE  PubInv'
<1> USE DEF PubInv
<1>1. /\ seen = "none" /\ seen' = "started"
      /\ UNCHANGED <<interrupted, arrived, pc, npend, finalized, snap, closed,
                     shutdown, wireVars, main>>
      /\ tick' = IF tick = "none" THEN "running" ELSE tick
  BY DEF OnStarted
<1>2. TaskTypes' /\ WireTypes'
  BY <1>1 DEF TaskTypes, WireTypes, wireVars
<1>3. Locked' <=> Locked
  BY <1>1 DEF Locked
<1>4. FinalInv'
  BY <1>1, <1>3 DEF FinalInv, Settled, wireVars
<1>5. WireInv' /\ TerminalFrameIsLastOnceStarted' /\ CompleteIsTruthful'
  BY <1>1, <1>3 DEF WireInv, TerminalFrameIsLastOnceStarted,
     TerminalFrameIsLast, CompleteIsTruthful, wireVars
<1> QED
  BY <1>2, <1>4, <1>5

\* A live tick, the closing of the publisher and the exit of main().
LEMMA CloseStep ==
  ASSUME CoreInv, PubInv, Tick \/ Closed \/ MainWakes \/ MainCloses
  PROVE  CoreInv' /\ PubInv'
<1>1. CASE Tick
  <2>1. /\ tick = "running" /\ UNCHANGED <<recordVars, queueVars, taskVars, disk, main>>
        /\ \/ UNCHANGED <<wire, sent>>
           \/ wire' = sessionState /\ sent' = sent \cup {sessionState}
    BY <1>1 DEF Tick, Publish
  <2>2. sessionState \notin Terminal
        /\ sessionState \in {"initialize", "live", "draining"}
    BY DEF CoreInv, RecordTypes, Terminal
  <2>3. CoreInv'
    BY <2>1 DEF CoreInv, RecordTypes, QueueTypes, PendingIsExact, QueueInv,
                EndedInv, recordVars, queueVars, taskVars
  <2>4. TaskTypes' /\ WireTypes'
    BY <2>1, <2>2 DEF PubInv, TaskTypes, WireTypes, taskVars
  <2>5. FinalInv'
    BY <2>1 DEF PubInv, FinalInv, Settled, Locked, taskVars
  <2>6. sent' \cap Terminal = sent \cap Terminal
    BY <2>1, <2>2
  <2>7. snap.state \in Terminal => snap # NoSnap
    BY DEF NoSnap, Terminal
  <2>8. WireInv' /\ TerminalFrameIsLastOnceStarted'
    BY <2>1, <2>6, <2>7 DEF PubInv, WireInv, Locked, taskVars, recordVars,
       TerminalFrameIsLastOnceStarted, TerminalFrameIsLast
  <2>9. CompleteIsTruthful'
    BY <2>1 DEF PubInv, CompleteIsTruthful, taskVars, recordVars, queueVars
  <2> QED
    BY <2>3, <2>4, <2>5, <2>8, <2>9 DEF PubInv
<1>2. CASE Closed
  <2>1. /\ pc["ended"] = "closing" /\ pc' = [pc EXCEPT !["ended"] = "done"]
        /\ tick' = "none" /\ shutdown' = TRUE
        /\ UNCHANGED <<recordVars, queueVars, wireVars, main,
                       npend, finalized, snap, closed>>
    BY <1>2 DEF Closed, Goes
  <2>2. "ended" \in Task /\ TaskTypes /\ "done" \in FinalPlaces
    BY DEF Task, PubInv, FinalPlaces
  <2>3. CoreInv'
    BY <2>1, <2>2, CoreMoves
  <2>4. /\ Locked' <=> Locked
        /\ \A u \in Task : pc'[u] \in {"tick", "write"} => pc'[u] = pc[u]
    BY ZenonT(60), <2>1, <2>2, LockKept
  <2>5. TaskTypes' /\ WireTypes'
    BY <2>1 DEF PubInv, TaskTypes, WireTypes, wireVars
  <2>6. Settled /\ Settled'
    BY <2>1, <2>2, <2>4 DEF PubInv, FinalInv, Settled, wireVars
  <2>7. \A u \in Task : pc'[u] \notin {"tick", "write"}
    BY <2>4, <2>6 DEF Settled, Locked
  <2>8. finalized' /\ shutdown'
    BY <2>1, <2>6 DEF Settled
  <2>9. FinalInv'
    BY <2>6, <2>7, <2>8 DEF FinalInv
  <2>10. WireInv' /\ TerminalFrameIsLastOnceStarted' /\ CompleteIsTruthful'
    BY <2>1, <2>4 DEF PubInv, WireInv, TerminalFrameIsLastOnceStarted,
       TerminalFrameIsLast, CompleteIsTruthful, wireVars, recordVars, queueVars
  <2> QED
    BY <2>3, <2>5, <2>9, <2>10 DEF PubInv
<1>3. CASE MainWakes \/ MainCloses
  <2>1. /\ shutdown /\ tick' \in {tick, "none", "cancelled"}
        /\ closed' \in BOOLEAN /\ main' \in {"closing", "exited"}
        /\ UNCHANGED <<recordVars, queueVars, wireVars,
                       pc, npend, finalized, snap, shutdown>>
    BY <1>3 DEF MainWakes, MainCloses, PubInv, FinalInv, TaskTypes
  <2>2. CoreInv'
    BY <2>1 DEF CoreInv, RecordTypes, QueueTypes, PendingIsExact, QueueInv,
                EndedInv, recordVars, queueVars
  <2>3. TaskTypes' /\ WireTypes'
    BY <2>1 DEF PubInv, TaskTypes, WireTypes, wireVars
  <2>4. Settled /\ Settled' /\ ~Locked /\ ~Locked'
    BY <2>1 DEF PubInv, FinalInv, Settled, Locked, wireVars
  <2>5. FinalInv'
    BY <2>1, <2>4 DEF PubInv, FinalInv, Settled, Locked
  <2>6. WireInv' /\ TerminalFrameIsLastOnceStarted' /\ CompleteIsTruthful'
    BY <2>1, <2>4 DEF PubInv, WireInv, TerminalFrameIsLastOnceStarted,
       TerminalFrameIsLast, CompleteIsTruthful, wireVars, recordVars, queueVars
  <2> QED
    BY <2>2, <2>3, <2>5, <2>6 DEF PubInv
<1> QED
  BY <1>1, <1>2, <1>3

\* The aggregator is DRAINING once ENDED was processed.
LEMMA DrainingAtEnd ==
  ASSUME CoreInv, seen = "ended"
  PROVE  sessionState = "draining"
  BY DEF CoreInv, RecordTypes, EndedInv

\* Every step preserves the invariant.
LEMMA InvariantStep ==
  ASSUME IInv, [Next]_vars
  PROVE  IInv'
<1>1. CoreInv /\ PubInv
  BY DEF IInv, TypeOK, CoreInv, PubInv
<1>2. TaskTypes /\ "ended" \in Task /\ "ended" \notin Signal
      /\ RecordTypes /\ QueueTypes /\ PendingIsExact /\ EndedInv
  BY <1>1, AggregatorAssumption DEF CoreInv, PubInv, Task
<1>3. SUFFICES CoreInv' /\ PubInv'
  BY <1>3 DEF IInv, TypeOK, CoreInv, PubInv
<1>4. ASSUME NEW t \in Task, LockAcquired(t)
      PROVE  CoreInv' /\ PubInv'
  <2>1. /\ pc[t] = "lock" /\ PublishFinal(t, npend[t])
        /\ UNCHANGED <<recordVars, queueVars, wireVars, main>>
    BY <1>4 DEF LockAcquired
  <2>2. /\ npend[t] \in Nat /\ recorded' \in SUBSET Item
        /\ sessionState' \in {"initialize", "live", "draining"}
        /\ seen' = "none" <=> sessionState' = "initialize"
        /\ UNCHANGED <<wireVars, main, interrupted, arrived, seen>>
        /\ t = "ended" => seen' = "ended"
                          /\ npend[t] = Cardinality(arrived' \ recorded')
    BY <1>2, <2>1 DEF TaskTypes, QueueTypes, RecordTypes, EndedInv,
       PendingIsExact, recordVars, queueVars
  <2>3. PubInv'
    BY <1>1, <2>1, <2>2, PublishStep
  <2>4. npend' = [npend EXCEPT ![t] = npend[t]]
    BY <1>2, <2>1, PublishOutcome
  <2>5. PICK w \in {"lock", "tick", "write", "closing", "done"} :
          pc' = [pc EXCEPT ![t] = w] /\ (w = "closing" => t = "ended")
    BY <1>2, <2>1, <2>2, PublishGoes
  <2>6. w \in FinalPlaces
    BY DEF FinalPlaces
  <2>7. npend'["ended"] = npend["ended"]
        /\ (t = "ended" => npend["ended"] = inflight)
    BY <1>2, <2>1, <2>4 DEF TaskTypes, EndedInv
  <2>8. CoreInv'
    BY <1>1, <1>2, <2>1, <2>5, <2>6, <2>7, CoreMoves
  <2> QED
    BY <2>3, <2>8
<1>5. ASSUME NEW t \in Task, TickStopped(t)
      PROVE  CoreInv' /\ PubInv'
  <2>1. PubInv'
    BY <1>1, <1>2, <1>5, TickStep
  <2>2. /\ pc[t] = "tick" /\ pc' = [pc EXCEPT ![t] = "write"]
        /\ UNCHANGED <<recordVars, queueVars>> /\ npend' = npend
    BY <1>5 DEF TickStopped, Build, Goes
  <2>3. "write" \in FinalPlaces
    BY DEF FinalPlaces
  <2>4. CoreInv'
    BY <1>1, <1>2, <2>2, <2>3, CoreMoves
  <2> QED
    BY <2>1, <2>4
<1>6. ASSUME NEW t \in Task, WriteEnds(t)
      PROVE  CoreInv' /\ PubInv'
  <2>1. PubInv'
    BY <1>1, <1>6, WriteStep
  <2>2. /\ pc[t] = "write" /\ Returned(t)
        /\ UNCHANGED <<recordVars, queueVars>> /\ npend' = npend
    BY <1>6 DEF WriteEnds
  <2>3. PICK w \in {"done", "closing"} :
          pc' = [pc EXCEPT ![t] = w] /\ (w = "closing" => t = "ended")
    BY <1>2, <2>2, ReturnedOutcome
  <2>4. w \in FinalPlaces
    BY DEF FinalPlaces
  <2>5. CoreInv'
    BY <1>1, <1>2, <2>2, <2>3, <2>4, CoreMoves
  <2> QED
    BY <2>1, <2>5
<1>7. CASE LiveStopped
  <2>1. /\ pc["ended"] = "stopping" /\ FlushRest(items \cup batch)
        /\ live' = "none" /\ UNCHANGED <<recordVars, wireVars, main>>
    BY <1>7 DEF LiveStopped, Requeued
  <2>2. /\ UNCHANGED <<wireVars, main, interrupted>> /\ seen' = "ended"
        /\ sessionState' = sessionState /\ seen = "ended"
    BY <1>2, <2>1 DEF EndedInv, recordVars
  <2>3. sessionState' = "draining"
    BY <1>1, <2>2, DrainingAtEnd
  <2> QED
    BY <1>1, <2>1, <2>2, <2>3, FlushRestStep
<1>8. CASE DrainCounted \/ DrainTimesOut
  BY <1>1, <1>8, DrainStep
<1>9. CASE VerdictReady
  <2>1. /\ pc["ended"] = "verdict" /\ PublishFinal("ended", npend["ended"])
        /\ UNCHANGED <<recordVars, queueVars, wireVars, main>>
    BY <1>9 DEF VerdictReady
  <2>2. /\ npend["ended"] \in Nat /\ recorded' \in SUBSET Item
        /\ sessionState' \in {"initialize", "live", "draining"}
        /\ seen' = "none" <=> sessionState' = "initialize"
        /\ UNCHANGED <<wireVars, main, interrupted, arrived, seen>>
        /\ seen' = "ended" /\ npend["ended"] = inflight
        /\ npend["ended"] = Cardinality(arrived' \ recorded')
    BY <1>2, <2>1 DEF TaskTypes, QueueTypes, RecordTypes, EndedInv,
       PendingIsExact, recordVars, queueVars
  <2>3. PubInv'
    BY <1>1, <1>2, <2>1, <2>2, PublishStep
  <2>4. npend' = [npend EXCEPT !["ended"] = npend["ended"]]
    BY <1>2, <2>1, PublishOutcome
  <2>5. PICK w \in {"lock", "tick", "write", "closing", "done"} :
          pc' = [pc EXCEPT !["ended"] = w]
    BY <1>2, <2>1, <2>2, PublishGoes
  <2>6. w \in FinalPlaces /\ npend'["ended"] = inflight
    BY <1>2, <2>2, <2>4 DEF FinalPlaces, TaskTypes
  <2>7. CoreInv'
    BY <1>1, <1>2, <2>1, <2>5, <2>6, CoreMoves
  <2> QED
    BY <2>3, <2>7
<1>10. CASE Tick \/ Closed \/ MainWakes \/ MainCloses
  BY <1>1, <1>10, CloseStep
<1>11. CASE LiveFlush \/ LiveCounted
  <2>1. CoreInv'
    BY <1>1, <1>11, LiveStep
  <2>2. UNCHANGED <<taskVars, wireVars, main, recordVars, arrived>>
    BY <1>11 DEF LiveFlush, LiveCounted
  <2>3. PubInv'
    BY <1>1, <2>2, PubKept DEF recordVars
  <2> QED
    BY <2>1, <2>3
<1>12. CASE OnStarted
  BY <1>1, <1>12, EventStep, StartedStep
<1>13. CASE OnInterrupted \/ \E i \in Item : OnSample(i)
  <2>1. CoreInv'
    BY <1>1, <1>13, EventStep
  <2>2. /\ UNCHANGED <<taskVars, wireVars, main>> /\ seen = "started"
        /\ seen' # "none"
    BY <1>13 DEF OnInterrupted, OnSample, recordVars
  <2>3. PubInv'
    BY <1>1, <2>2, PubKept
  <2> QED
    BY <2>1, <2>3
<1>14. CASE OnEnded
  <2>1. /\ seen' = "ended" /\ sessionState' = "draining" /\ seen \notin {"none", "ended"}
        /\ UNCHANGED <<wireVars, main, interrupted>> /\ pc["ended"] = "idle"
    BY <1>2, <1>14 DEF OnEnded, EndedInv
  <2>2. CASE live # "none"
    <3>1. /\ live' = "cancelled" /\ pc' = [pc EXCEPT !["ended"] = "stopping"]
          /\ UNCHANGED <<arrived, items, inflight, recorded, batch, drain,
                         npend, tick, finalized, snap, closed, shutdown>>
      BY <1>14, <2>2 DEF OnEnded, Goes
    <3>2. npend' \in [Task -> Nat]
          /\ UNCHANGED <<wireVars, main, interrupted, arrived>>
      BY <1>2, <2>1, <3>1 DEF TaskTypes
    <3>3. PubInv'
      BY <1>1, <1>2, <2>1, <3>1, <3>2, MoveStep
    <3>4. pc'["ended"] = "stopping" /\ \A s \in Signal : pc'[s] = pc[s]
      BY <1>2, <3>1 DEF TaskTypes, Task
    <3>5. CoreInv'
      BY <1>1, <2>1, <3>1, <3>4 DEF CoreInv, RecordTypes, QueueTypes,
         PendingIsExact, QueueInv, EndedInv
    <3> QED
      BY <3>3, <3>5
  <2>3. CASE live = "none"
    <3>1. live' = "none" /\ FlushRest(items)
      BY <1>14, <2>3 DEF OnEnded
    <3>2. items = items \cup batch
      BY <1>1, <2>3 DEF CoreInv, QueueInv
    <3> QED
      BY <1>1, <2>1, <3>1, <3>2, FlushRestStep
  <2> QED
    BY <2>2, <2>3
<1>15. ASSUME NEW s \in Signal, OnSigterm(s)
       PROVE  CoreInv' /\ PubInv'
  <2>1. /\ s \in Task /\ s # "ended" /\ pc[s] = "idle" /\ PublishFinal(s, inflight)
        /\ UNCHANGED <<recordVars, queueVars, wireVars, main>>
    BY <1>2, <1>15 DEF OnSigterm, Task
  <2>2. /\ inflight \in Nat /\ recorded' \in SUBSET Item
        /\ sessionState' \in {"initialize", "live", "draining"}
        /\ seen' = "none" <=> sessionState' = "initialize"
        /\ UNCHANGED <<wireVars, main, interrupted, arrived, seen>>
    BY <1>2, <2>1 DEF QueueTypes, RecordTypes, EndedInv, recordVars, queueVars
  <2>3. PubInv'
    BY <1>1, <2>1, <2>2, PublishStep
  <2>4. npend' = [npend EXCEPT ![s] = inflight]
    BY <1>2, <2>1, PublishOutcome
  <2>5. PICK w \in {"lock", "tick", "write", "closing", "done"} :
          pc' = [pc EXCEPT ![s] = w] /\ (w = "closing" => s = "ended")
    BY <1>2, <2>1, <2>2, PublishGoes
  <2>6. w \in FinalPlaces /\ npend'["ended"] = npend["ended"]
    BY <1>2, <2>1, <2>4 DEF FinalPlaces, TaskTypes
  <2>7. CoreInv'
    BY <1>1, <1>2, <2>1, <2>5, <2>6, CoreMoves
  <2> QED
    BY <2>3, <2>7
<1>16. CASE UNCHANGED vars
  <2>1. UNCHANGED <<taskVars, wireVars, main, recordVars, queueVars>>
    BY <1>16 DEF vars
  <2>2. PubInv'
    BY <1>1, <2>1, PubKept DEF recordVars, queueVars
  <2>3. CoreInv'
    BY <1>1, <2>1 DEF CoreInv, RecordTypes, QueueTypes, PendingIsExact, QueueInv,
                EndedInv, recordVars, queueVars, taskVars
  <2> QED
    BY <2>2, <2>3
<1> QED
  BY <1>4, <1>5, <1>6, <1>7, <1>8, <1>9, <1>10, <1>11, <1>12, <1>13, <1>14, <1>15,
     <1>16 DEF Next, Progress, Exited

\* The invariant holds in every reachable state.
THEOREM InvariantHolds == Spec => []IInv
<1>1. Init => IInv
  <2> SUFFICES ASSUME Init PROVE IInv
    OBVIOUS
  <2>1. "ended" \in Task /\ 0 \in Nat
    BY DEF Task
  <2>2. RecordTypes /\ QueueTypes /\ WireTypes
    BY DEF Init, RecordTypes, QueueTypes, WireTypes
  <2>3. TaskTypes
    BY DEF Init, TaskTypes
  <2>4. PendingIsExact
    BY FS_EmptySet DEF Init, PendingIsExact
  <2>5. QueueInv /\ EndedInv
    BY <2>1 DEF Init, QueueInv, EndedInv, Task
  <2>6. ~Locked
    BY DEF Init, Locked
  <2>7. FinalInv /\ WireInv
    BY <2>6 DEF Init, FinalInv, WireInv
  <2>8. CompleteIsTruthful /\ TerminalFrameIsLastOnceStarted
    BY DEF Init, CompleteIsTruthful, TerminalFrameIsLastOnceStarted, NoSnap, Terminal
  <2> QED
    BY <2>2, <2>3, <2>4, <2>5, <2>7, <2>8 DEF IInv, TypeOK
<1>2. IInv /\ [Next]_vars => IInv'
  BY InvariantStep
<1> QED
  BY <1>1, <1>2, PTL DEF Spec

\* All of the aggregator's attributes keep their domains; the pending count
\* never goes negative.
THEOREM TypeCorrect == Spec => []TypeOK
<1>1. IInv => TypeOK
  BY DEF IInv
<1> QED
  BY <1>1, InvariantHolds, PTL

\* TokenBatchQueue.pending is exact through every failed, partly failed,
\* cancelled or timed-out flush.
THEOREM PendingExact == Spec => []PendingIsExact
<1>1. IInv => PendingIsExact
  BY DEF IInv
<1> QED
  BY <1>1, InvariantHolds, PTL

\* No token count is lost before the end-of-run drain has had it.
THEOREM NoneForgotten == Spec => []NothingForgotten
<1>1. IInv => NothingForgotten
  BY DEF IInv, QueueInv, NothingForgotten
<1> QED
  BY <1>1, InvariantHolds, PTL

\* Token counts are accounted for: the two theorems above together.
THEOREM TokensAccounted == Spec => []TokensAreAccounted
<1>1. PendingIsExact /\ NothingForgotten => TokensAreAccounted
  BY DEF TokensAreAccounted
<1> QED
  BY <1>1, PendingExact, NoneForgotten, PTL

\* A COMPLETE snapshot is never written for an interrupted or unfinished run,
\* and says how many token counts its series lack.
THEOREM CompleteTruthful == Spec => []CompleteIsTruthful
<1>1. IInv => CompleteIsTruthful
  BY DEF IInv
<1> QED
  BY <1>1, InvariantHolds, PTL

\* main() never returns before the final write has ended, for any number of
\* SIGTERMs racing the ENDED path.
THEOREM ExitsAfterWrite == Spec => []ExitAfterWrite
<1>1. IInv => ExitAfterWrite
  BY DEF IInv, FinalInv, Settled, Locked, ExitAfterWrite
<1> QED
  BY <1>1, InvariantHolds, PTL

\* No live frame follows the terminal one when finalizing began after STARTED.
THEOREM NoLateFrame == Spec => []TerminalFrameIsLastOnceStarted
<1>1. IInv => TerminalFrameIsLastOnceStarted
  BY DEF IInv
<1> QED
  BY <1>1, InvariantHolds, PTL

\* publish_final() leaves an existing snapshot alone.
LEMMA PublishKeeps ==
  ASSUME FinalInv, TaskTypes, snap # NoSnap, NEW t \in Task, NEW n,
         PublishFinal(t, n)
  PROVE  snap' = snap
<1>1. finalized
  BY DEF FinalInv
<1> QED
  BY <1>1, PublishOutcome

\* The terminal snapshot is built once, however ENDED and SIGTERMs race.
THEOREM BuiltOnce == Spec => FinalizedOnce
<1>1. ASSUME IInv, [Next]_vars
      PROVE  [snap # NoSnap => snap' = snap]_vars
  <2> SUFFICES ASSUME snap # NoSnap, Next PROVE snap' = snap
    BY <1>1
  <2>1. FinalInv /\ TaskTypes /\ "ended" \in Task /\ Signal \subseteq Task
    BY <1>1 DEF IInv, TypeOK, Task
  <2>2. ASSUME NEW n, Flushed(n) PROVE snap' = snap
    BY <2>1, <2>2, PublishKeeps DEF Flushed
  <2>3. ASSUME NEW rest, FlushRest(rest) PROVE snap' = snap
    BY <2>2, <2>3 DEF FlushRest
  <2>4. ASSUME NEW t \in Task, LockAcquired(t) \/ TickStopped(t) \/ WriteEnds(t)
        PROVE  snap' = snap
    <3>1. ~TickStopped(t)
      BY <2>1 DEF TickStopped, FinalInv
    <3> QED
      BY <2>1, <2>4, <3>1, PublishKeeps DEF LockAcquired, WriteEnds
  <2>5. CASE LiveStopped
    BY <2>3, <2>5 DEF LiveStopped
  <2>6. CASE OnEnded
    BY <2>3, <2>6 DEF OnEnded
  <2>7. CASE DrainCounted \/ DrainTimesOut
    BY <2>2, <2>7 DEF DrainCounted, DrainTimesOut
  <2>8. CASE VerdictReady
    BY <2>1, <2>8, PublishKeeps DEF VerdictReady
  <2>9. ASSUME NEW s \in Signal, OnSigterm(s) PROVE snap' = snap
    BY <2>1, <2>9, PublishKeeps DEF OnSigterm
  <2>10. CASE Tick \/ Closed \/ MainWakes \/ MainCloses
    BY <2>10 DEF Tick, Closed, MainWakes, MainCloses, taskVars
  <2>11. CASE LiveFlush \/ LiveCounted \/ OnStarted \/ OnInterrupted
    BY <2>11 DEF LiveFlush, LiveCounted, OnStarted, OnInterrupted, taskVars
  <2>12. ASSUME NEW i \in Item, OnSample(i) PROVE snap' = snap
    BY <2>12 DEF OnSample, taskVars
  <2>13. CASE Exited
    BY <2>13 DEF Exited, vars, taskVars
  <2> QED
    BY <2>4, <2>5, <2>6, <2>7, <2>8, <2>9, <2>10, <2>11, <2>12, <2>13
       DEF Next, Progress
<1> QED
  BY <1>1, InvariantHolds, PTL DEF Spec, FinalizedOnce

=============================================================================
